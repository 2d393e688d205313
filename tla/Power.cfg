SPECIFICATION PowerSpec
CONSTANTS
    HourStart = 1
    HourStop = 4
    FiveStart = 1
    FiveStop = 4
    Resend = 1
    Period = 2
    WakeHold = 3
    MaxEvents = 3
INVARIANTS
    PMTypeOK
    AccIsNormal
    HourAsksSoc
    CanWakeStaysUp
PROPERTIES
    FullStay
    QuietSleeps
CHECK_DEADLOCK FALSE

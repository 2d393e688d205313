---------------------------- MODULE PowerManager ----------------------------
(***************************************************************************)
(* The power modes of the head unit, APL/powermanage/pwrmanage_apl.c: one   *)
(* task that every 40 ms runs Normal_Work, One_Hour_Work and Silent_Work    *)
(* and every twelfth time Power_Save_Work, which may halt the processor.    *)
(* Messages of the publish/subscribe bus arrive between any two of them,    *)
(* and while Power_Save_Work waits for the network.                         *)
(*                                                                         *)
(* Time is counted in iterations of the task; those that wait takes are     *)
(* made up for after it (vTaskDelayUntil).  A publisher flushes its      *)
(* topic first, so that a topic holds one message.  ignReady is treated     *)
(* like ignACC everywhere and is not told apart.                            *)
(***************************************************************************)
EXTENDS Integers

CONSTANTS
    HourStart, HourStop,   \* ONE_HOUR_RSQ_START_TIME and _STOP_TIME
    FiveStart, FiveStop,   \* FIVE_RSQ_START_TIME and _STOP_TIME
    Resend,                \* one second, between two requests to the SoC
    Period,                \* iterations per Power_Save_Work
    WakeHold,              \* ten seconds, for which a CAN wake-up keeps awake
    MaxEvents              \* bound: messages, wires and wake-ups of a run

ASSUME PowerAssumption ==
    /\ {HourStart, FiveStart, Resend, Period, WakeHold} \subseteq Nat \ {0}
    /\ HourStop \in Nat /\ HourStop >= HourStart
    /\ FiveStop \in Nat /\ FiveStop >= FiveStart
    /\ MaxEvents \in Nat

None == "none"
Off == -1                  \* TimerCountCanWork: the next use starts the timer
MaxRequests == 3           \* ONE_HOUR_SPI_REQUEST_TIMES, SELENT_SPI_...

Ign == {"Off", "Acc", "On"}
Anti == {"Default", "Disarm", "Arm"}
Door == {"Default", "Open", "Close"}
Levels == [ign: Ign, anti: Anti, door: Door, dbc: BOOLEAN]

VARIABLES
    pc,        \* what the task runs next, or "wait" (for the next 40 ms)
    mode,      \* HuPwrmode.currentMode
    sig,       \* VehicleSig
    initial,   \* InitialVehicleSig, and getInitialFlag as "fresh"
    latch,     \* the flags of a signal seen to change since the mode began
    hour,      \* OneHourTime: iterations since its start, or Off
    five,      \* FiveMinutes
    hourReq,   \* oneHourTimeOutRequest: sendTimes and the time since one
    fiveReq,   \* fiveMinutesTimeOutRequest
    canSleep,  \* canSleepValue = canBusSleep
    count,     \* iterations since Power_Save_Work
    wake,      \* CanWakeupSource, and the time since CanWakeUpTime
    inbox,     \* the message of each topic
    gpio,      \* the ignition wire is high
    nmSleep,   \* NmSleepMode
    events,    \* how many more events there may be
    stay,      \* history: iterations since the mode was entered
    asked      \* history: the SoC was asked since the running timer started

task == <<pc, mode, sig, initial, latch, hour, five, hourReq, fiveReq,
          canSleep, count, wake>>
world == <<inbox, gpio, nmSleep, events>>
vars == <<task, world, stay, asked>>

NoMessages == [ign |-> None, anti |-> None, door |-> None, dbc |-> None,
               tbox |-> None, touch |-> None, spi |-> None]

MaxStay == FiveStart + 1
Capped(n, bound) == IF n < bound THEN n + 1 ELSE n

-----------------------------------------------------------------------------
(* Pieces of the handlers.                                                 *)

\* The getters: a level keeps its value when its topic has no message.
Read(old) ==
    [ign |-> IF inbox.ign = None THEN old.ign ELSE inbox.ign,
     anti |-> IF inbox.anti = None THEN old.anti ELSE inbox.anti,
     door |-> IF inbox.door = None THEN old.door ELSE inbox.door,
     dbc |-> old.dbc \/ inbox.dbc # None]

\* The answer of the SoC is left alone by everybody who does not ask for it.
Rest(answer) == [NoMessages EXCEPT !.spi = answer]

\* getInitialstate: the levels as the mode began, before the new messages.
Began ==
    IF initial.fresh
    THEN [fresh |-> FALSE, anti |-> sig.anti, door |-> sig.door]
    ELSE initial

\* It also arms the latches of One_Hour_Work.
Relatched ==
    [latch EXCEPT
        !.hourAnti = @ /\ ~(initial.fresh /\ sig.anti = "Arm"),
        !.hourDoor = @ /\ ~(initial.fresh /\ sig.door = "Open")]

\* How long a timer has run when it is looked at once more.
Running(timer, stop) == IF timer = Off THEN 0 ELSE Capped(timer, stop + 1)

\* An off-by-one in the number of requests.
OneMoreRequest(req) ==
    LET age == IF req.age = Off THEN 0 ELSE req.age
    IN IF req.sent > MaxRequests THEN req
       ELSE IF req.sent = 0 THEN [sent |-> 1, age |-> age]
       ELSE IF age >= Resend THEN [sent |-> req.sent + 1, age |-> Off]
       ELSE [req EXCEPT !.age = age]

\* timeoutRequest: at most MaxRequests, Resend apart.
timeoutRequest(req) ==
    LET age == IF req.age = Off THEN 0 ELSE req.age
    IN IF req.sent >= MaxRequests THEN req
       ELSE IF req.sent = 0 THEN [sent |-> 1, age |-> age]
       ELSE IF age >= Resend THEN [sent |-> req.sent + 1, age |-> Off]
       ELSE [req EXCEPT !.age = age]

\* The history of a handler that ends in mode m: a mode begins its stay, and a
\* timer that is started afresh has not asked.
Note(m, asks) ==
    /\ mode' = m
    /\ stay' = IF m = mode THEN stay ELSE 0
    /\ asked' = asks

-----------------------------------------------------------------------------
(* The four handlers.                                                      *)

PowerInit ==
    /\ gpio \in BOOLEAN
    /\ mode = IF gpio THEN "Normal" ELSE "Standby"
    /\ pc = "wait"
    /\ sig = [ign |-> "Off", anti |-> "Default", door |-> "Default",
              dbc |-> FALSE]
    /\ initial = [fresh |-> TRUE, anti |-> "Default", door |-> "Default"]
    /\ latch = [hourAnti |-> FALSE, hourDoor |-> FALSE,
                silentAnti |-> FALSE, period |-> FALSE, saveAnti |-> FALSE]
    /\ hour = Off /\ five = Off
    /\ hourReq = [sent |-> 0, age |-> Off]
    /\ fiveReq = [sent |-> 0, age |-> Off]
    /\ canSleep = FALSE
    /\ count = 0
    /\ wake = [can |-> FALSE, age |-> 0]
    /\ inbox = NoMessages
    /\ nmSleep = FALSE
    /\ events = MaxEvents
    /\ stay = 0
    /\ asked = FALSE

\* Without "CanWakeupSource = 0".
TickKeepsSource ==
    /\ pc = "wait"
    /\ pc' = "normal"
    /\ count' = count + 1
    /\ wake' = [wake EXCEPT !.age = Capped(@, WakeHold)]
    /\ hourReq' = [hourReq EXCEPT !.age = IF @ = Off THEN Off ELSE Capped(@, Resend)]
    /\ fiveReq' = [fiveReq EXCEPT !.age = IF @ = Off THEN Off ELSE Capped(@, Resend)]
    /\ stay' = Capped(stay, MaxStay)
    /\ UNCHANGED <<mode, sig, initial, latch, hour, five, canSleep, world, asked>>

\* vTaskDelayUntil returns; CanWakeupSource is forgotten after ten seconds.
Tick ==
    /\ pc = "wait"
    /\ pc' = "normal"
    /\ count' = count + 1
    /\ LET age == Capped(wake.age, WakeHold)
       IN wake' = [can |-> wake.can /\ age < WakeHold, age |-> age]
    /\ hourReq' = [hourReq EXCEPT !.age = IF @ = Off THEN Off ELSE Capped(@, Resend)]
    /\ fiveReq' = [fiveReq EXCEPT !.age = IF @ = Off THEN Off ELSE Capped(@, Resend)]
    /\ stay' = Capped(stay, MaxStay)
    /\ UNCHANGED <<mode, sig, initial, latch, hour, five, canSleep, world, asked>>

Next_(here, there) == pc = here /\ pc' = there

Normal_Work ==
    /\ Next_("normal", "oneHour")
    /\ mode = "Normal"
    /\ sig' = Read(sig)
    /\ inbox' = Rest(inbox.spi)
    /\ Note(IF sig'.ign = "Off" THEN "OneHour" ELSE "Normal", asked)
    /\ UNCHANGED <<initial, latch, hour, five, hourReq, fiveReq, canSleep,
                   count, wake, gpio, nmSleep, events>>

\* A door or an alarm that was open or armed when the mode began must have
\* been closed or disarmed before it counts.
DoorOpened(now, began, seen) ==
    now.door = "Open" /\ (began.door = "Open" => seen)
Armed(now, began, seen) ==
    now.anti = "Arm" /\ (began.anti = "Arm" => seen)

\* Where One_Hour_Work goes: the last assignment to currentMode counts.
OneHourTo(now, moved, elapsed, answer) ==
    IF elapsed > HourStop \/ answer = "yes" THEN "Silent"
    ELSE IF answer = "no" THEN "OneHour"
    ELSE IF moved THEN "Silent"
    ELSE IF now.ign = "Acc" THEN "Normal"
    ELSE "OneHour"

\* sendTimes reset by an answer and by the end of the window only.
KeepsSendTimes(req, window) ==
    IF window THEN [sent |-> 0, age |-> Off] ELSE req

\* The restart of the request of the one hour timer.
HourReset(req, window) == [sent |-> 0, age |-> IF window THEN Off ELSE req.age]

One_Hour_Work ==
    /\ Next_("oneHour", "silent")
    /\ mode = "OneHour"
    /\ sig' = Read(sig)
    /\ LET began == Began
           doorSeen == began.door = "Open" /\ (Relatched.hourDoor \/ sig'.door = "Close")
           antiSeen == began.anti = "Arm" /\ (Relatched.hourAnti \/ sig'.anti = "Disarm")
           opened == IF began.door = "Open" THEN DoorOpened(sig', began, doorSeen)
                     ELSE sig'.ign = "Off" /\ sig'.door = "Open"
           armed == Armed(sig', began, antiSeen)
           elapsed == Running(hour, HourStop)
           inWindow == elapsed \in HourStart .. HourStop
           answer == IF inWindow THEN inbox.spi ELSE None
           ended == answer # None \/ elapsed > HourStop
           req == IF inWindow THEN timeoutRequest(hourReq) ELSE hourReq
           to == OneHourTo(sig', opened \/ armed \/ inbox.touch = "five", elapsed, answer)
           left == to # "OneHour"
       IN /\ Note(to, IF left \/ ended THEN FALSE
                      ELSE asked \/ req.sent > hourReq.sent)
          /\ inbox' = Rest(IF inWindow THEN None ELSE inbox.spi)
          /\ initial' =
               [fresh |-> \/ sig'.ign = "Acc" \/ opened \/ armed
                          \/ inbox.touch = "five" \/ ended,
                door |-> IF opened /\ began.door = "Open" THEN "Default" ELSE began.door,
                anti |-> IF armed /\ began.anti = "Arm" THEN "Default" ELSE began.anti]
          /\ latch' = [Relatched EXCEPT
               !.hourDoor = IF began.door = "Open" THEN doorSeen /\ ~opened ELSE @,
               !.hourAnti = IF began.anti = "Arm" THEN antiSeen /\ ~armed ELSE @]
          /\ hour' = IF left \/ answer = "no" THEN Off ELSE elapsed
          /\ hourReq' = IF left \/ ended THEN HourReset(req, ended) ELSE req
    /\ UNCHANGED <<five, fiveReq, canSleep, count, wake, gpio, nmSleep, events>>

\* The door and the touch screen after the ignition.
UserOutweighsIgnition(now, back, down) ==
    IF back THEN "OneHour"
    ELSE IF now.ign = "Acc" THEN "Normal"
    ELSE IF down THEN "Standby"
    ELSE "Silent"

\* Where Silent_Work goes: a user outweighs the timer, the ignition both.
SilentTo(now, back, down) ==
    IF now.ign = "Acc" THEN "Normal"
    ELSE IF back THEN "OneHour"
    ELSE IF down THEN "Standby"
    ELSE "Silent"

\* The final block of Silent_Work without TimeOutFlag.
TimerGoesOn(elapsed, left) == elapsed

\* The final block of Silent_Work leaves the timer ready for the next stay.
FiveLeft(elapsed, left) == IF left THEN Off ELSE elapsed

Silent_Work ==
    /\ Next_("silent", "save")
    /\ mode = "Silent"
    /\ sig' = Read(sig)
    /\ LET elapsed == Running(five, FiveStop)
           inWindow == elapsed \in FiveStart .. FiveStop
           answer == IF inWindow THEN inbox.spi ELSE None
           ended == answer # None \/ elapsed > FiveStop
           req == IF inWindow THEN timeoutRequest(fiveReq) ELSE fiveReq
           armSeen == latch.silentAnti \/ sig'.anti = "Arm"
           disarmed == armSeen /\ sig'.anti = "Disarm"
           period == IF disarmed THEN TRUE
                     ELSE latch.period /\ ~(~latch.silentAnti /\ sig'.anti = "Arm")
           to == SilentTo(sig', inbox.touch = "click" \/ (sig'.door = "Open" /\ period),
                          elapsed > FiveStop \/ answer = "yes")
           left == to # "Silent"
       IN /\ Note(to, IF left \/ ended THEN FALSE
                      ELSE asked \/ req.sent > fiveReq.sent)
          /\ inbox' = Rest(IF inWindow THEN None ELSE inbox.spi)
          /\ initial' = [initial EXCEPT !.fresh = @ \/ left]
          /\ latch' = [latch EXCEPT
               !.silentAnti = ~left /\ armSeen /\ ~disarmed,
               !.period = ~left /\ period]
          /\ five' = FiveLeft(IF ended THEN Off ELSE elapsed, left)
          /\ fiveReq' = IF ended THEN [req EXCEPT !.sent = 0] ELSE req
    /\ UNCHANGED <<hour, hourReq, canSleep, count, wake, gpio, nmSleep, events>>

\* Where Power_Save_Work goes before it looks at the network.
SaveTo(now, woken) ==
    IF now.ign = "Acc" THEN "Normal" ELSE IF woken THEN "Silent" ELSE "Standby"

\* The last part of Power_Save_Work, after a wake-up or without a halt.
SaveLeft(began, m) == [began EXCEPT !.fresh = @ \/ m \in {"Normal", "Silent"}]

\* Mutant of AsksNetwork: the network is asked whatever woke the unit.
AsksAlways(now) == ~gpio /\ now.ign = "Off"

\* getCanWorkSts is called only if nothing keeps the unit awake.
AsksNetwork(now) == ~gpio /\ now.ign = "Off" /\ ~wake.can

\* The end of Power_Save_Work: the halt, if the mode is still the same and the network
\* is known to be asleep.
SaveEnd(began, m, asleep) ==
    LET halt == asleep /\ m = "Standby" IN
    /\ canSleep' = asleep
    /\ initial' = SaveLeft(began, m)
    /\ pc' = IF halt THEN "asleep" ELSE "wait"
    /\ Note(IF halt THEN "Sleep" ELSE m, FALSE)

\* Power_Save_Work up to the wait of getCanWorkSts, or to its end if the network is not
\* asked: the value of an earlier time stands then.
Power_Save_Work ==
    /\ pc = "save"
    /\ count >= Period
    /\ mode = "Standby"
    /\ sig' = Read(sig)
    /\ inbox' = NoMessages
    /\ count' = 0
    /\ LET began == Began
           armSeen == began.anti = "Disarm" /\ (latch.saveAnti \/ sig'.anti = "Arm")
           again == armSeen /\ sig'.anti = "Disarm"
           disarmed == again \/ (began.anti # "Disarm" /\ sig'.anti = "Disarm")
           noted == [began EXCEPT !.anti = IF again THEN "Default" ELSE @]
           to == SaveTo(sig', disarmed \/ sig'.dbc \/ inbox.tbox # None)
       IN /\ latch' = [Relatched EXCEPT
               !.saveAnti = IF began.anti = "Disarm" THEN armSeen /\ ~again ELSE @]
          /\ \/ /\ AsksNetwork(sig')
                /\ pc' = "network" /\ initial' = noted /\ Note(to, FALSE)
                /\ UNCHANGED canSleep
             \/ ~AsksNetwork(sig') /\ SaveEnd(noted, to, canSleep)
    /\ UNCHANGED <<hour, five, hourReq, fiveReq, wake, gpio, nmSleep, events>>

\* getCanWorkSts has released the network and waited for 100 ms; what has happened
\* meanwhile, the ignition wire included, is not looked at before the halt.
getCanWorkSts ==
    /\ pc = "network"
    /\ SaveEnd(initial, mode, nmSleep)
    /\ UNCHANGED <<sig, latch, hour, five, hourReq, fiveReq, count, wake, world>>

\* The handlers of the other modes do nothing, and Power_Save_Work has its turn
\* in every Period-th iteration only.
Handlers ==
    {<<"normal", "oneHour", "Normal">>, <<"oneHour", "silent", "OneHour">>,
     <<"silent", "save", "Silent">>, <<"save", "wait", "Standby">>}
Skip ==
    \E h \in Handlers :
       /\ Next_(h[1], h[2])
       /\ mode # h[3] \/ (pc = "save" /\ count < Period)
       /\ count' = IF pc = "save" /\ count >= Period THEN 0 ELSE count
       /\ UNCHANGED <<mode, sig, initial, latch, hour, five, hourReq, fiveReq,
                      canSleep, wake, world, stay, asked>>

-----------------------------------------------------------------------------
(* The surroundings.                                                       *)

Event == events > 0 /\ events' = events - 1

\* A frame of CAN or of the SoC: the topic's message is replaced.  DoubleClick
\* flushes both of its topics.  DbcWakeUp has only the value Enable.
Publish ==
    /\ pc # "asleep"
    /\ Event
    /\ \/ \E v \in Ign : inbox' = [inbox EXCEPT !.ign = v]
       \/ \E v \in {"Disarm", "Arm"} : inbox' = [inbox EXCEPT !.anti = v]
       \/ \E v \in {"Open", "Close"} : inbox' = [inbox EXCEPT !.door = v]
       \/ \E v \in {"click", "five"} : inbox' = [inbox EXCEPT !.touch = v]
       \/ \E v \in {"yes", "no"} : inbox' = [inbox EXCEPT !.spi = v]
       \/ inbox' = [inbox EXCEPT !.dbc = "on"]
       \/ inbox' = [inbox EXCEPT !.tbox = "on"]
    /\ UNCHANGED <<task, gpio, nmSleep, stay, asked>>

Wire ==
    /\ Event
    /\ pc # "asleep"
    /\ gpio' = ~gpio
    /\ UNCHANGED <<task, inbox, nmSleep, stay, asked>>

\* Nm_BusSleepMode and Nm_NetworkMode, which CanNm_MainFunction calls.  The call of
\* CanNm_MainFunction is commented out (com_vehicle_fml.c:227), so nothing says that a
\* released network ever goes to sleep.
NetworkSleeps ==
    /\ pc # "asleep" /\ ~nmSleep
    /\ nmSleep' = TRUE
    /\ UNCHANGED <<task, inbox, gpio, events, stay, asked>>

NetworkWakes ==
    /\ Event
    /\ pc # "asleep" /\ nmSleep
    /\ nmSleep' = FALSE
    /\ UNCHANGED <<task, inbox, gpio, stay, asked>>

\* An interrupt ends the halt: a CAN frame (porte_interrupt_fml) or the ignition
\* wire.  getHuPowerModeDefault then takes the mode from the wire.
Wake ==
    /\ pc = "asleep"
    /\ Event
    /\ \E byCan \in BOOLEAN :
          /\ gpio' = (gpio \/ ~byCan)
          /\ wake' = [can |-> wake.can \/ byCan, age |-> 0]
    /\ LET m == IF gpio' THEN "Normal" ELSE "Standby"
       IN Note(m, FALSE) /\ initial' = SaveLeft(initial, m)
    /\ nmSleep' = FALSE
    /\ canSleep' = FALSE
    /\ pc' = "wait"
    /\ UNCHANGED <<sig, latch, hour, five, hourReq, fiveReq, count, inbox>>

-----------------------------------------------------------------------------
Task == \/ Tick \/ Normal_Work \/ One_Hour_Work \/ Silent_Work
        \/ Power_Save_Work \/ getCanWorkSts \/ Skip
Surroundings == Publish \/ Wire \/ NetworkSleeps \/ NetworkWakes \/ Wake

PowerNext == Task \/ Surroundings

\* The task is woken by the scheduler, every 40 ms and after its waits.
PowerSpec ==
    /\ PowerInit
    /\ [][PowerNext]_vars
    /\ WF_vars(Task)

-----------------------------------------------------------------------------
(* Properties.                                                             *)

Requests == [sent: 0 .. MaxRequests, age: Off .. Resend]

\* Every variable has its type.
PMTypeOK ==
    /\ pc \in {"wait", "normal", "oneHour", "silent", "save", "network", "asleep"}
    /\ mode \in {"Normal", "OneHour", "Silent", "Standby", "Sleep"}
    /\ sig \in Levels
    /\ initial \in [fresh: BOOLEAN, anti: Anti, door: Door]
    /\ latch \in [hourAnti: BOOLEAN, hourDoor: BOOLEAN, silentAnti: BOOLEAN,
                  period: BOOLEAN, saveAnti: BOOLEAN]
    /\ hour \in Off .. HourStop + 1
    /\ five \in Off .. FiveStop + 1
    /\ hourReq \in Requests
    /\ fiveReq \in Requests
    /\ canSleep \in BOOLEAN
    /\ count \in 0 .. Period
    /\ wake \in [can: BOOLEAN, age: 0 .. WakeHold]
    /\ inbox \in [ign: Ign \cup {None}, anti: {"Disarm", "Arm", None},
                  door: {"Open", "Close", None}, dbc: {"on", None},
                  tbox: {"on", None}, touch: {"click", "five", None},
                  spi: {"yes", "no", None}]
    /\ gpio \in BOOLEAN
    /\ nmSleep \in BOOLEAN
    /\ events \in 0 .. MaxEvents
    /\ stay \in 0 .. MaxStay
    /\ asked \in BOOLEAN

\* Once the task has seen the ignition in ACC or Ready, no handler leaves the
\* unit in another mode, whatever else came in with it: later assignments to
\* currentMode of the same iteration outweigh earlier ones
\* (pwrmanage_apl.c:488-637, 736-768).  The exception is an answer "not
\* allowed" that restarts the one hour timer in that very iteration.
AccIsNormal ==
    sig.ign = "Acc" /\ pc \in {"wait", "asleep"}
        => \/ mode = "Normal"
           \/ mode = "OneHour" /\ hour = Off /\ stay > 0

\* The one hour mode is not left by its timer, and its window not waited out,
\* before the SoC was asked for this run of the timer: the count of requests is
\* fresh however the mode was left the last time (pwrmanage_apl.c:645-655).
HourAsksSoc == hour >= HourStart => asked

\* Standby comes after a full stay in the silent mode: no timer of an earlier
\* stay is still running (pwrmanage_apl.c:770-780).
FullStay ==
    [][mode = "Silent" /\ mode' = "Standby" => stay >= FiveStart]_vars

\* A wake-up by CAN keeps the processor from halting for ten seconds; a value
\* measured before it was asleep does not count (pwrmanage_apl.c:889, 916).
CanWakeStaysUp == wake.can => mode # "Sleep" /\ ~canSleep

\* Nobody uses the car: the ignition is off, on the wire and on the bus.
Quiet ==
    /\ events = 0
    /\ ~gpio
    /\ sig.ign = "Off" /\ inbox.ign \in {"Off", None}
    /\ ~sig.dbc /\ inbox.dbc = None

\* Once the network sleeps, a car that nobody uses any more puts the unit to sleep,
\* whatever modes, half used timers, unanswered requests and held wake-ups it has been
\* left in.  Without CanNm_MainFunction the network never sleeps, and the unit never
\* halts (pwrmanage_apl.c:300, com_vehicle_fml.c:227).
QuietSleeps == Quiet /\ nmSleep ~> mode = "Sleep"

=============================================================================

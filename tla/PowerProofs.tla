---------------------------- MODULE PowerProofs ----------------------------
(***************************************************************************)
(* What holds of the power modes for every length of the windows, of the   *)
(* periods and of a run.                                                   *)
(***************************************************************************)
EXTENDS PowerManager, TLAPS

\* A timer runs in its own mode only, and its requests are counted from none
\* until its window begins.
TimersFresh ==
    /\ mode # "OneHour" => hour = Off
    /\ mode # "Silent" => five = Off
    /\ hour < HourStart => hourReq.sent = 0

\* How far the five minutes timer is once the running iteration has looked at
\* it: never further than the stay.
Behind == IF pc \in {"save", "wait"} THEN 0 ELSE 1
FiveWithinStay == mode = "Silent" => five + Behind <= stay \/ stay = MaxStay

\* The processor is halted exactly in its mode.
SleepIsHalt == (pc = "asleep") <=> (mode = "Sleep")

\* Power_Save_Work alone runs with a full count.
CountIsPeriodic == count = Period => pc \notin {"wait", "network", "asleep"}

\* What let Power_Save_Work ask the network stands while it waits for it.
AskedIsQuiet ==
    pc = "network" =>
        ~wake.can /\ sig.ign = "Off" /\ mode \in {"Silent", "Standby"}

PMInv ==
    /\ PMTypeOK
    /\ TimersFresh
    /\ HourAsksSoc
    /\ FiveWithinStay
    /\ CanWakeStaysUp
    /\ SleepIsHalt
    /\ CountIsPeriodic

-----------------------------------------------------------------------------
(* The pieces of the handlers.                                             *)

\* What the topics can hold.
Messages ==
    [ign: Ign \cup {None}, anti: {"Disarm", "Arm", None},
     door: {"Open", "Close", None}, dbc: {"on", None}, tbox: {"on", None},
     touch: {"click", "five", None}, spi: {"yes", "no", None}]

\* The getters return levels, and leave the answer of the SoC.
LEMMA ReadTypes ==
    ASSUME sig \in Levels, inbox \in Messages
    PROVE  /\ Read(sig) \in Levels
           /\ Rest(inbox.spi) \in Messages
           /\ Rest(None) \in Messages
           /\ NoMessages \in Messages
<1>1. /\ inbox.ign = None \/ inbox.ign \in Ign
      /\ inbox.anti = None \/ inbox.anti \in Anti
      /\ inbox.door = None \/ inbox.door \in Door
      /\ inbox.spi \in {"yes", "no", None}
  BY DEF Messages, Anti, Door
<1>2. Read(sig) \in Levels
  BY <1>1 DEF Read, Levels
<1>3. NoMessages \in Messages
  BY DEF NoMessages, Messages
<1>4. /\ Rest(inbox.spi) \in Messages
      /\ Rest(None) \in Messages
  BY <1>1, <1>3 DEF Rest, NoMessages, Messages
<1> QED
  BY <1>2, <1>3, <1>4

\* The state a mode began with is one of levels.
Begins == [fresh: BOOLEAN, anti: Anti, door: Door]
LEMMA BeganType ==
    ASSUME sig \in Levels, initial \in Begins
    PROVE  Began \in Begins
BY DEF Began, Levels, Begins

\* A latch is a flag.
Latches == [hourAnti: BOOLEAN, hourDoor: BOOLEAN, silentAnti: BOOLEAN,
            period: BOOLEAN, saveAnti: BOOLEAN]
LEMMA RelatchedType ==
    ASSUME latch \in Latches
    PROVE  Relatched \in Latches
BY DEF Relatched, Latches

\* A timer runs up to the first iteration after its window.
LEMMA RunningRange ==
    ASSUME NEW stop \in Nat, NEW timer \in Off .. stop + 1
    PROVE  /\ Running(timer, stop) \in 0 .. stop + 1
           /\ timer =< Running(timer, stop)
           /\ Running(timer, stop) =< timer + 1
           /\ Running(timer, stop) = timer + 1 \/ timer = stop + 1
BY DEF Running, Capped, Off

\* timeoutRequest stays within its three requests, and asks if it has not.
LEMMA RequestType ==
    ASSUME NEW req \in Requests
    PROVE  /\ timeoutRequest(req) \in Requests
           /\ req.sent = 0 => timeoutRequest(req).sent = 1
           /\ timeoutRequest(req).sent >= req.sent
<1> DEFINE age == IF req.age = Off THEN 0 ELSE req.age
<1>0. Resend \in Nat \ {0}
  BY PowerAssumption
<1>1. /\ req.sent \in 0 .. 3 /\ req.age \in Off .. Resend
      /\ age \in 0 .. Resend
      /\ req = [sent |-> req.sent, age |-> req.age]
  BY <1>0 DEF Requests, MaxRequests, Off
<1>2. CASE req.sent >= MaxRequests
  BY <1>1, <1>2 DEF timeoutRequest, MaxRequests
<1>3. CASE req.sent = 0
  <2>1. timeoutRequest(req) = [sent |-> 1, age |-> age]
    BY <1>3 DEF timeoutRequest, MaxRequests
  <2> QED
    BY <2>1, <1>0, <1>1, <1>3 DEF Requests, MaxRequests, Off
<1>4. CASE req.sent > 0 /\ req.sent < MaxRequests /\ age >= Resend
  <2>1. timeoutRequest(req) = [sent |-> req.sent + 1, age |-> Off]
    BY <1>1, <1>4 DEF timeoutRequest, MaxRequests
  <2> QED
    BY <2>1, <1>0, <1>1, <1>4 DEF Requests, MaxRequests, Off
<1>5. CASE req.sent > 0 /\ req.sent < MaxRequests /\ ~(age >= Resend)
  <2>1. timeoutRequest(req) = [req EXCEPT !.age = age]
    BY <1>1, <1>5 DEF timeoutRequest, MaxRequests
  <2> QED
    BY <2>1, <1>0, <1>1, <1>5 DEF Requests, MaxRequests, Off
<1> QED
  BY <1>1, <1>2, <1>3, <1>4, <1>5 DEF MaxRequests

-----------------------------------------------------------------------------
(* The invariant, one lemma for every handler.                             *)

\* The type invariant with the names of this module.
LEMMA TypesNamed ==
    ASSUME PMTypeOK
    PROVE  /\ sig \in Levels /\ inbox \in Messages /\ initial \in Begins
           /\ latch \in Latches
BY DEF PMTypeOK, Messages, Begins, Latches

\* The constants are numbers.
LEMMA ConstantTypes ==
    /\ HourStart \in Nat \ {0} /\ FiveStart \in Nat \ {0}
    /\ Resend \in Nat \ {0} /\ Period \in Nat \ {0} /\ WakeHold \in Nat \ {0}
    /\ HourStop \in Nat /\ FiveStop \in Nat /\ MaxEvents \in Nat
    /\ HourStop >= HourStart
    /\ MaxStay \in Nat /\ MaxStay > FiveStart
BY PowerAssumption DEF MaxStay

\* The first handler only sees the ignition.
LEMMA NormalKeeps ==
    ASSUME PMInv, Normal_Work
    PROVE  PMInv'
<1> USE DEF PMInv
<1>1. PMTypeOK'
  BY TypesNamed, ReadTypes, ConstantTypes
  DEF Normal_Work, Next_, Note, PMTypeOK, Messages
<1>2. TimersFresh'
  BY ConstantTypes DEF Normal_Work, Note, TimersFresh, PMTypeOK, Off
<1>3. HourAsksSoc' /\ CanWakeStaysUp' /\ CountIsPeriodic' /\ SleepIsHalt'
  BY DEF Normal_Work, Next_, Note, HourAsksSoc, CanWakeStaysUp, SleepIsHalt,
         CountIsPeriodic
<1>4. FiveWithinStay'
  BY DEF Normal_Work, Note, FiveWithinStay
<1> QED
  BY <1>1, <1>2, <1>3, <1>4

\* The one hour mode: whoever leaves it leaves the timer and the count of
\* requests as new.
LEMMA OneHourKeeps ==
    ASSUME PMInv, One_Hour_Work
    PROVE  PMInv'
<1> USE DEF PMInv
<1> DEFINE
      began == Began
      doorSeen == began.door = "Open" /\ (Relatched.hourDoor \/ sig'.door = "Close")
      antiSeen == began.anti = "Arm" /\ (Relatched.hourAnti \/ sig'.anti = "Disarm")
      opened == IF began.door = "Open" THEN DoorOpened(sig', began, doorSeen)
                ELSE sig'.ign = "Off" /\ sig'.door = "Open"
      armed == Armed(sig', began, antiSeen)
      elapsed == Running(hour, HourStop)
      inWindow == elapsed \in HourStart .. HourStop
      answer == IF inWindow THEN inbox.spi ELSE None
      ended == answer # None \/ elapsed > HourStop
      req == IF inWindow THEN timeoutRequest(hourReq) ELSE hourReq
      to == OneHourTo(sig', opened \/ armed \/ inbox.touch = "five", elapsed, answer)
      left == to # "OneHour"
<1>1. /\ mode' = to
      /\ stay' = IF to = mode THEN stay ELSE 0
      /\ asked' = IF left \/ ended THEN FALSE ELSE asked \/ req.sent > hourReq.sent
      /\ inbox' = Rest(IF inWindow THEN None ELSE inbox.spi)
      /\ initial' =
           [fresh |-> \/ sig'.ign = "Acc" \/ opened \/ armed
                      \/ inbox.touch = "five" \/ ended,
            door |-> IF opened /\ began.door = "Open" THEN "Default" ELSE began.door,
            anti |-> IF armed /\ began.anti = "Arm" THEN "Default" ELSE began.anti]
      /\ latch' = [Relatched EXCEPT
           !.hourDoor = IF began.door = "Open" THEN doorSeen /\ ~opened ELSE @,
           !.hourAnti = IF began.anti = "Arm" THEN antiSeen /\ ~armed ELSE @]
      /\ hour' = IF left \/ answer = "no" THEN Off ELSE elapsed
      /\ hourReq' = IF left \/ ended THEN HourReset(req, ended) ELSE req
  BY DEF One_Hour_Work, Note
<1>2. /\ mode = "OneHour" /\ pc = "oneHour" /\ pc' = "silent"
      /\ sig' = Read(sig)
      /\ UNCHANGED <<five, fiveReq, canSleep, count, wake, gpio, nmSleep, events>>
  BY DEF One_Hour_Work, Next_
<1>3. /\ sig' \in Levels /\ began \in Begins /\ Relatched \in Latches
      /\ elapsed \in 0 .. HourStop + 1
      /\ elapsed = hour + 1 \/ hour = HourStop + 1
      /\ hour =< elapsed
      /\ hourReq \in Requests /\ timeoutRequest(hourReq) \in Requests
      /\ hourReq.sent = 0 => timeoutRequest(hourReq).sent = 1
  BY <1>2, TypesNamed, ReadTypes, BeganType, RelatchedType, ConstantTypes,
     RunningRange, RequestType DEF PMTypeOK
<1>4. to \in {"Normal", "OneHour", "Silent"}
  BY DEF OneHourTo
<1>5. inbox' \in Messages
  BY <1>1, TypesNamed, ReadTypes
<1>6. /\ initial' \in Begins
      /\ latch' \in Latches
  <2>1. /\ began.door \in Door /\ began.anti \in Anti
        /\ "Default" \in Door /\ "Default" \in Anti
    BY <1>3 DEF Begins, Door, Anti
  <2>2. initial' \in Begins
    <3> HIDE DEF began, opened, armed, ended
    <3> QED BY <1>1, <2>1 DEF Begins
  <2>3. latch' \in Latches
    <3>1. /\ doorSeen \in BOOLEAN /\ antiSeen \in BOOLEAN
      OBVIOUS
    <3> HIDE DEF began, opened, armed, ended, doorSeen, antiSeen
    <3> QED BY <1>1, <1>3, <3>1 DEF Latches
  <2> QED
    BY <2>2, <2>3
<1>7. req \in Requests /\ HourReset(req, ended) \in Requests
  <2>1. req \in Requests
    BY <1>3
  <2> HIDE DEF req, ended
  <2> QED
    BY <2>1, ConstantTypes DEF HourReset, Requests, MaxRequests, Off
<1>8. PMTypeOK'
  <2>1. /\ stay \in 0 .. MaxStay /\ asked \in BOOLEAN
        /\ MaxStay \in Nat /\ HourStop \in Nat
    BY ConstantTypes DEF PMTypeOK
  <2>2. /\ stay' \in 0 .. MaxStay
        /\ hour' \in Off .. HourStop + 1
        /\ mode' \in {"Normal", "OneHour", "Silent", "Standby", "Sleep"}
    <3> HIDE DEF to, left, ended, elapsed, answer
    <3> QED BY <1>1, <1>3, <1>4, <2>1 DEF Off
  <2>3. asked' \in BOOLEAN
    <3> HIDE DEF req, left, ended
    <3> QED BY <1>1, <2>1
  <2>4. hourReq' \in Requests
    <3> HIDE DEF req, left, ended
    <3> QED BY <1>1, <1>7
  <2> QED
    BY <1>2, <1>3, <1>5, <1>6, <2>2, <2>3, <2>4
    DEF PMTypeOK, Messages, Begins, Latches
<1>9. (hour < HourStart => hourReq.sent = 0) /\ hour \in Off .. HourStop + 1
  BY DEF TimersFresh, PMTypeOK
<1>10. CASE left
  <2>1. hour' = Off /\ hourReq'.sent = 0 /\ five' = five /\ five = Off
    BY <1>1, <1>2, <1>10 DEF HourReset, TimersFresh
  <2>2. TimersFresh' /\ HourAsksSoc'
    BY <2>1, <1>2, ConstantTypes DEF TimersFresh, HourAsksSoc, Off
  <2>3. FiveWithinStay'
    <3>1. stay' = 0 /\ pc' = "silent"
      BY <1>1, <1>2, <1>10
    <3> QED BY <2>1, <3>1 DEF FiveWithinStay, Behind, Off
  <2> QED
    BY <1>2, <1>4, <1>1, <1>8, <2>2, <2>3
    DEF CanWakeStaysUp, SleepIsHalt, CountIsPeriodic
<1>11. CASE ~left
  <2>1. mode' = "OneHour"
    BY <1>1, <1>11
  <2>2. elapsed =< HourStop
    BY <1>3, <1>11, ConstantTypes DEF OneHourTo
  <2>3. answer \in {None, "no"}
    <3>1. answer \in {None, "yes", "no"}
      BY DEF PMTypeOK
    <3>2. answer # "yes"
      BY <1>11 DEF OneHourTo
    <3> QED BY <3>1, <3>2
  <2>4. CASE ended
    <3>1. answer = "no"
      BY <2>2, <2>3, <2>4, <1>3, ConstantTypes
    <3>2. hour' = Off /\ hourReq'.sent = 0
      BY <1>1, <3>1, <2>4 DEF HourReset
    <3>3. TimersFresh' /\ HourAsksSoc'
      BY <3>2, <2>1, <1>2, ConstantTypes DEF TimersFresh, HourAsksSoc, Off
    <3> QED
      BY <1>2, <2>1, <1>8, <3>3
      DEF FiveWithinStay, CanWakeStaysUp, SleepIsHalt, CountIsPeriodic
  <2>5. CASE ~ended
    <3>1. /\ hour' = elapsed /\ hourReq' = req
          /\ asked' = (asked \/ req.sent > hourReq.sent)
      <4>1. answer # "no"
        BY <2>5 DEF None
      <4> HIDE DEF left, ended, answer, req, elapsed
      <4> QED BY <1>1, <1>11, <2>5, <4>1
    <3>2. hour' < HourStart => hourReq'.sent = 0
      <4>1. ASSUME elapsed < HourStart PROVE req.sent = 0
        <5>1. hourReq.sent = 0
          BY <4>1, <1>3, <1>9, ConstantTypes DEF Off
        <5>2. ~inWindow
          BY <4>1, <1>3, ConstantTypes
        <5> QED BY <5>1, <5>2
      <4> HIDE DEF req, elapsed
      <4> QED BY <3>1, <4>1
    <3>3. HourAsksSoc'
      <4>1. CASE hour >= HourStart
        BY <4>1, <3>1 DEF HourAsksSoc
      <4>2. CASE ~(hour >= HourStart) /\ elapsed >= HourStart
        <5>1. hourReq.sent = 0 /\ req = timeoutRequest(hourReq)
          BY <4>2, <1>9, <1>3, <2>2, ConstantTypes DEF Off
        <5>2. req.sent > hourReq.sent
          BY <5>1, <1>3
        <5>3. asked'
          <6> HIDE DEF req
          <6> QED BY <5>2, <3>1
        <5> QED BY <5>3 DEF HourAsksSoc
      <4> QED
        BY <4>1, <4>2, <3>1 DEF HourAsksSoc
    <3>4. TimersFresh'
      BY <3>2, <2>1, <1>2 DEF TimersFresh
    <3> QED
      BY <1>2, <2>1, <1>8, <3>3, <3>4
      DEF FiveWithinStay, CanWakeStaysUp, SleepIsHalt, CountIsPeriodic
  <2> QED
    BY <2>4, <2>5
<1> QED
  BY <1>10, <1>11

\* The silent mode: its timer is never further than the stay, and is as new
\* when the mode is left.
LEMMA SilentKeeps ==
    ASSUME PMInv, Silent_Work
    PROVE  PMInv' /\ (mode' = "Standby" => stay >= FiveStart)
<1> USE DEF PMInv
<1> DEFINE
      elapsed == Running(five, FiveStop)
      inWindow == elapsed \in FiveStart .. FiveStop
      answer == IF inWindow THEN inbox.spi ELSE None
      ended == answer # None \/ elapsed > FiveStop
      req == IF inWindow THEN timeoutRequest(fiveReq) ELSE fiveReq
      armSeen == latch.silentAnti \/ sig'.anti = "Arm"
      disarmed == armSeen /\ sig'.anti = "Disarm"
      period == IF disarmed THEN TRUE
                ELSE latch.period /\ ~(~latch.silentAnti /\ sig'.anti = "Arm")
      to == SilentTo(sig', inbox.touch = "click" \/ (sig'.door = "Open" /\ period),
                     elapsed > FiveStop \/ answer = "yes")
      left == to # "Silent"
<1>1. /\ mode' = to
      /\ stay' = IF to = mode THEN stay ELSE 0
      /\ asked' = IF left \/ ended THEN FALSE ELSE asked \/ req.sent > fiveReq.sent
      /\ inbox' = Rest(IF inWindow THEN None ELSE inbox.spi)
      /\ initial' = [initial EXCEPT !.fresh = @ \/ left]
      /\ latch' = [latch EXCEPT
           !.silentAnti = ~left /\ armSeen /\ ~disarmed,
           !.period = ~left /\ period]
      /\ five' = FiveLeft(IF ended THEN Off ELSE elapsed, left)
      /\ fiveReq' = IF ended THEN [req EXCEPT !.sent = 0] ELSE req
  BY DEF Silent_Work, Note
<1>2. /\ mode = "Silent" /\ pc = "silent" /\ pc' = "save"
      /\ sig' = Read(sig)
      /\ UNCHANGED <<hour, hourReq, canSleep, count, wake, gpio, nmSleep, events>>
  BY DEF Silent_Work, Next_
<1>3. /\ sig' \in Levels
      /\ elapsed \in 0 .. FiveStop + 1
      /\ elapsed =< five + 1
      /\ five \in Off .. FiveStop + 1
      /\ fiveReq \in Requests /\ timeoutRequest(fiveReq) \in Requests
  BY <1>2, TypesNamed, ReadTypes, ConstantTypes, RunningRange, RequestType
  DEF PMTypeOK
<1>4. to \in {"Normal", "OneHour", "Silent", "Standby"}
  BY DEF SilentTo
<1>5. inbox' \in Messages
  BY <1>1, TypesNamed, ReadTypes
<1>6. initial' \in Begins
  <2> HIDE DEF left
  <2> QED BY <1>1, TypesNamed DEF Begins
<1>7. latch' \in Latches
  <2>1. period \in BOOLEAN
    BY TypesNamed DEF Latches
  <2> HIDE DEF left, armSeen, disarmed, period
  <2> QED BY <1>1, <2>1, TypesNamed DEF Latches
<1>8. fiveReq' \in Requests
  <2>1. req \in Requests
    BY <1>3
  <2> HIDE DEF req, ended
  <2> QED BY <1>1, <2>1 DEF Requests, MaxRequests
<1>9. /\ five' \in Off .. FiveStop + 1
      /\ left => five' = Off
      /\ five' =< elapsed
  <2> HIDE DEF ended, left, elapsed
  <2> QED BY <1>1, <1>3, ConstantTypes DEF FiveLeft, Off
<1>10. elapsed =< stay \/ stay = MaxStay
  <2>1. five + 1 <= stay \/ stay = MaxStay
    BY <1>2 DEF FiveWithinStay, Behind
  <2> QED BY <2>1, <1>3, ConstantTypes DEF PMTypeOK, Off
<1>11. /\ stay \in 0 .. MaxStay /\ asked \in BOOLEAN
       /\ MaxStay \in Nat
  BY ConstantTypes DEF PMTypeOK
<1>12. stay' \in 0 .. MaxStay /\ asked' \in BOOLEAN
  <2>1. stay' \in 0 .. MaxStay
    <3> HIDE DEF to
    <3> QED BY <1>1, <1>11
  <2>2. asked' \in BOOLEAN
    <3> HIDE DEF req, left, ended
    <3> QED BY <1>1, <1>11
  <2> QED BY <2>1, <2>2
<1>13. PMTypeOK'
  <2>1. mode' \in {"Normal", "OneHour", "Silent", "Standby", "Sleep"}
    BY <1>1, <1>4
  <2> QED
    BY <1>2, <1>3, <1>5, <1>6, <1>7, <1>8, <1>9, <1>12, <2>1
    DEF PMTypeOK, Messages, Begins, Latches
<1>14. hour = Off /\ hourReq.sent = 0
  BY <1>2, ConstantTypes DEF TimersFresh, Off
<1>15. TimersFresh' /\ HourAsksSoc'
  <2>1. mode' # "Silent" => five' = Off
    BY <1>1, <1>9
  <2> QED BY <2>1, <1>2, <1>14, ConstantTypes DEF TimersFresh, HourAsksSoc, Off
<1>16. FiveWithinStay'
  <2>1. CASE left
    BY <2>1, <1>1 DEF FiveWithinStay
  <2>2. CASE ~left
    <3>1. stay' = stay
      BY <1>1, <1>2, <2>2
    <3>2. five' <= stay' \/ stay' = MaxStay
      BY <3>1, <1>3, <1>9, <1>10, <1>11 DEF Off
    <3> QED BY <3>2, <1>2, <1>9, <1>11, ConstantTypes DEF FiveWithinStay, Behind, Off
  <2> QED BY <2>1, <2>2
<1>17. CanWakeStaysUp' /\ SleepIsHalt' /\ CountIsPeriodic'
  BY <1>1, <1>2, <1>4 DEF CanWakeStaysUp, SleepIsHalt, CountIsPeriodic
<1>18. mode' = "Standby" => stay >= FiveStart
  <2>1. ASSUME to = "Standby" PROVE elapsed >= FiveStart
    <3>1. elapsed > FiveStop \/ answer = "yes"
      BY <2>1 DEF SilentTo
    <3> QED BY <3>1, <1>3, ConstantTypes, PowerAssumption DEF None
  <2> QED
    BY <2>1, <1>1, <1>3, <1>10, <1>11, ConstantTypes
<1> QED
  BY <1>13, <1>15, <1>16, <1>17, <1>18

\* The two ways Power_Save_Work goes on: it asks the network, or ends.
LEMMA SaveSteps ==
    ASSUME PMInv, Power_Save_Work
    PROVE  \E began \in Begins, woken \in BOOLEAN :
             LET to == SaveTo(sig', woken) IN
             \/ /\ AsksNetwork(sig') /\ pc' = "network" /\ initial' = began
                /\ Note(to, FALSE) /\ canSleep' = canSleep
             \/ SaveEnd(began, to, canSleep)
<1> DEFINE
      armSeen == Began.anti = "Disarm" /\ (latch.saveAnti \/ sig'.anti = "Arm")
      again == armSeen /\ sig'.anti = "Disarm"
      disarmed == again \/ (Began.anti # "Disarm" /\ sig'.anti = "Disarm")
      noted == [Began EXCEPT !.anti = IF again THEN "Default" ELSE @]
      awake == disarmed \/ sig'.dbc \/ inbox.tbox # None
      to == SaveTo(sig', awake)
<1>1. \/ /\ AsksNetwork(sig') /\ pc' = "network" /\ initial' = noted
         /\ Note(to, FALSE) /\ canSleep' = canSleep
      \/ SaveEnd(noted, to, canSleep)
  BY DEF Power_Save_Work
<1>2. sig' \in Levels /\ Began \in Begins
  BY TypesNamed, ReadTypes, BeganType DEF PMInv, Power_Save_Work
<1>3. noted \in Begins
  <2> HIDE DEF again
  <2> QED BY <1>2 DEF Begins, Anti
<1>4. awake \in BOOLEAN
  BY <1>2 DEF Levels
<1> HIDE DEF noted, awake
<1> QED BY <1>1, <1>3, <1>4

\* The end of the handler: a CAN wake-up that is still held keeps the unit from halting.
LEMMA SaveEndKeeps ==
    ASSUME PMInv, NEW began \in Begins, NEW m \in {"Normal", "Silent", "Standby"},
           NEW asleep \in BOOLEAN, SaveEnd(began, m, asleep),
           mode # "OneHour", mode = "Silent" => m = "Silent", wake.can => ~asleep,
           sig' \in Levels, inbox' \in Messages, latch' \in Latches,
           count' \in 0 .. Period, pc = "save" => count' = 0, pc = "network" => count' = count,
           pc \in {"save", "network"},
           UNCHANGED <<hour, five, hourReq, fiveReq, wake, gpio, nmSleep, events>>
    PROVE  PMInv'
<1> USE DEF PMInv
<1> DEFINE halt == asleep /\ m = "Standby"
<1>1. /\ canSleep' = asleep /\ initial' = SaveLeft(began, m)
      /\ pc' = IF halt THEN "asleep" ELSE "wait"
      /\ mode' = IF halt THEN "Sleep" ELSE m
      /\ stay' = IF (IF halt THEN "Sleep" ELSE m) = mode THEN stay ELSE 0
      /\ asked' = FALSE
  BY DEF SaveEnd, Note
<1>2. initial' \in Begins
  BY <1>1 DEF SaveLeft, Begins
<1>3. stay' \in 0 .. MaxStay
  <2>1. stay \in 0 .. MaxStay /\ MaxStay \in Nat
    BY ConstantTypes DEF PMTypeOK
  <2> HIDE DEF halt
  <2> QED BY <1>1, <2>1
<1>4. PMTypeOK'
  <2>1. /\ mode' \in {"Normal", "OneHour", "Silent", "Standby", "Sleep"}
        /\ pc' \in {"wait", "asleep"}
        /\ asked' \in BOOLEAN /\ canSleep' \in BOOLEAN
    BY <1>1
  <2>2. /\ hour' \in Off .. HourStop + 1 /\ five' \in Off .. FiveStop + 1
        /\ hourReq' \in Requests /\ fiveReq' \in Requests
        /\ wake' \in [can: BOOLEAN, age: 0 .. WakeHold]
        /\ gpio' \in BOOLEAN /\ nmSleep' \in BOOLEAN
        /\ events' \in 0 .. MaxEvents
    BY DEF PMTypeOK
  <2> QED BY <1>2, <1>3, <2>1, <2>2 DEF PMTypeOK, Messages, Begins, Latches
<1>5. hour = Off /\ hourReq.sent = 0
  BY ConstantTypes DEF TimersFresh, Off
<1>6. TimersFresh' /\ HourAsksSoc'
  <2>1. mode' # "Silent" => five = Off
    BY <1>1 DEF TimersFresh
  <2> QED BY <1>1, <1>5, <2>1, ConstantTypes DEF TimersFresh, HourAsksSoc, Off
<1>7. FiveWithinStay'
  <2> SUFFICES ASSUME mode' = "Silent" PROVE five' + Behind' <= stay' \/ stay' = MaxStay
    BY DEF FiveWithinStay
  <2>1. m = "Silent" /\ Behind' = 0 /\ stay' \in Nat
    BY <1>1, <1>3, ConstantTypes DEF Behind
  <2>2. CASE mode = "Silent"
    <3>1. stay' = stay /\ (five + Behind <= stay \/ stay = MaxStay) /\ Behind \in {0, 1}
      BY <1>1, <2>1, <2>2 DEF FiveWithinStay, Behind
    <3>2. five \in Int /\ stay \in Int
      BY ConstantTypes DEF PMTypeOK, Off
    <3> QED BY <2>1, <3>1, <3>2
  <2>3. CASE mode # "Silent"
    BY <2>1, <2>3, ConstantTypes DEF TimersFresh, Off
  <2> QED BY <2>2, <2>3
<1>8. SleepIsHalt'
  BY <1>1 DEF SleepIsHalt
<1>9. CountIsPeriodic'
  BY ConstantTypes DEF CountIsPeriodic, PMTypeOK
<1>10. CanWakeStaysUp'
  BY <1>1 DEF CanWakeStaysUp
<1> QED
  BY <1>4, <1>6, <1>7, <1>8, <1>9, <1>10

\* The standby mode.
LEMMA SaveKeeps ==
    ASSUME PMInv, Power_Save_Work
    PROVE  PMInv'
<1> USE DEF PMInv
<1>1. PICK began \in Begins, woken \in BOOLEAN :
          LET to == SaveTo(sig', woken) IN
          \/ /\ AsksNetwork(sig') /\ pc' = "network" /\ initial' = began
             /\ Note(to, FALSE) /\ canSleep' = canSleep
          \/ SaveEnd(began, to, canSleep)
  BY SaveSteps
<1> DEFINE to == SaveTo(sig', woken)
<1>2. /\ mode = "Standby" /\ pc = "save" /\ count' = 0
      /\ sig' = Read(sig) /\ inbox' = NoMessages
      /\ UNCHANGED <<hour, five, hourReq, fiveReq, wake, gpio, nmSleep, events>>
  BY DEF Power_Save_Work
<1>3. /\ sig' \in Levels /\ inbox' \in Messages
      /\ to \in {"Normal", "Silent", "Standby"} /\ count' \in 0 .. Period
  BY <1>2, TypesNamed, ReadTypes, ConstantTypes DEF SaveTo
<1>4. latch' \in Latches
  <2> DEFINE
        armSeen == Began.anti = "Disarm" /\ (latch.saveAnti \/ sig'.anti = "Arm")
        again == armSeen /\ sig'.anti = "Disarm"
  <2>1. latch' = [Relatched EXCEPT
           !.saveAnti = IF Began.anti = "Disarm" THEN armSeen /\ ~again ELSE @]
    BY DEF Power_Save_Work
  <2>2. Relatched \in Latches
    BY TypesNamed, RelatchedType
  <2>3. armSeen \in BOOLEAN
    OBVIOUS
  <2> HIDE DEF armSeen, again
  <2> QED BY <2>1, <2>2, <2>3 DEF Latches
<1> HIDE DEF to
<1>5. CASE SaveEnd(began, to, canSleep)
  <2>1. canSleep \in BOOLEAN /\ (wake.can => ~canSleep)
    BY DEF PMTypeOK, CanWakeStaysUp
  <2> QED BY <1>2, <1>3, <1>4, <1>5, <2>1, SaveEndKeeps
<1>6. CASE pc' = "network" /\ initial' = began /\ Note(to, FALSE) /\ canSleep' = canSleep
  <2>1. /\ mode' = to /\ stay' = (IF to = mode THEN stay ELSE 0) /\ asked' = FALSE
    BY <1>6 DEF Note
  <2>2. stay' \in 0 .. MaxStay
    BY <2>1, ConstantTypes DEF PMTypeOK
  <2>3. PMTypeOK'
    <3>1. /\ mode' \in {"Normal", "OneHour", "Silent", "Standby", "Sleep"}
          /\ asked' \in BOOLEAN /\ canSleep' \in BOOLEAN /\ initial' \in Begins
      BY <1>3, <1>6, <2>1 DEF PMTypeOK
    <3>2. /\ hour' \in Off .. HourStop + 1 /\ five' \in Off .. FiveStop + 1
          /\ hourReq' \in Requests /\ fiveReq' \in Requests
          /\ wake' \in [can: BOOLEAN, age: 0 .. WakeHold]
          /\ gpio' \in BOOLEAN /\ nmSleep' \in BOOLEAN
          /\ events' \in 0 .. MaxEvents
      BY <1>2 DEF PMTypeOK
    <3> QED BY <1>3, <1>4, <1>6, <2>2, <3>1, <3>2 DEF PMTypeOK, Messages, Begins, Latches
  <2>4. hour = Off /\ five = Off /\ hourReq.sent = 0
    BY <1>2, ConstantTypes DEF TimersFresh, Off
  <2>5. TimersFresh' /\ HourAsksSoc'
    BY <1>2, <2>4, ConstantTypes DEF TimersFresh, HourAsksSoc, Off
  <2>6. FiveWithinStay'
    BY <1>2, <1>6, <2>2, <2>4, ConstantTypes DEF FiveWithinStay, Behind, Off
  <2>7. SleepIsHalt' /\ CountIsPeriodic' /\ CanWakeStaysUp'
    BY <1>2, <1>3, <1>6, <2>1, ConstantTypes
    DEF SleepIsHalt, CountIsPeriodic, CanWakeStaysUp
  <2> QED
    BY <2>3, <2>5, <2>6, <2>7
<1> QED
  BY <1>1, <1>5, <1>6 DEF to

\* What has happened while the handler waited for the network changes nothing of it.
LEMMA NetworkKeeps ==
    ASSUME PMInv, AskedIsQuiet, getCanWorkSts
    PROVE  PMInv'
<1>1. /\ pc = "network" /\ SaveEnd(initial, mode, nmSleep)
      /\ UNCHANGED <<sig, inbox, latch, count>>
      /\ UNCHANGED <<hour, five, hourReq, fiveReq, wake, gpio, nmSleep, events>>
  BY DEF getCanWorkSts, world
<1>2. ~wake.can /\ mode \in {"Silent", "Standby"}
  BY <1>1 DEF AskedIsQuiet
<1>3. /\ sig \in Levels /\ inbox \in Messages /\ initial \in Begins /\ latch \in Latches
      /\ nmSleep \in BOOLEAN /\ count \in 0 .. Period
  BY TypesNamed DEF PMInv, PMTypeOK
<1> QED BY <1>1, <1>2, <1>3, SaveEndKeeps

\* The task between its handlers.
LEMMA TickKeeps ==
    ASSUME PMInv, Tick
    PROVE  PMInv'
<1> USE DEF PMInv
<1>1. PMTypeOK'
  <2>1. count' \in 0 .. Period
    BY ConstantTypes DEF Tick, PMTypeOK, CountIsPeriodic
  <2>2. wake' \in [can: BOOLEAN, age: 0 .. WakeHold]
    BY ConstantTypes DEF Tick, PMTypeOK, Capped
  <2>3. /\ hourReq' \in Requests /\ fiveReq' \in Requests
    BY ConstantTypes DEF Tick, PMTypeOK, Capped, Requests, Off
  <2>4. stay' \in 0 .. MaxStay
    BY ConstantTypes DEF Tick, PMTypeOK, Capped
  <2> QED
    BY <2>1, <2>2, <2>3, <2>4 DEF Tick, world, PMTypeOK
<1>2. TimersFresh' /\ HourAsksSoc'
  BY DEF Tick, TimersFresh, HourAsksSoc, PMTypeOK, Requests
<1>3. FiveWithinStay'
  BY ConstantTypes DEF Tick, FiveWithinStay, Behind, Capped, PMTypeOK, Off
<1>4. CanWakeStaysUp'
  BY DEF Tick, CanWakeStaysUp, PMTypeOK
<1>5. SleepIsHalt' /\ CountIsPeriodic'
  BY DEF Tick, SleepIsHalt, CountIsPeriodic
<1> QED
  BY <1>1, <1>2, <1>3, <1>4, <1>5

LEMMA SkipKeeps ==
    ASSUME PMInv, Skip
    PROVE  PMInv'
<1> USE DEF PMInv
<1>1. PICK h \in Handlers :
        /\ Next_(h[1], h[2])
        /\ mode # h[3] \/ (pc = "save" /\ count < Period)
        /\ count' = IF pc = "save" /\ count >= Period THEN 0 ELSE count
        /\ UNCHANGED <<mode, sig, initial, latch, hour, five, hourReq, fiveReq,
                       canSleep, wake, world, stay, asked>>
  BY DEF Skip
<1>2. \/ pc = "normal" /\ pc' = "oneHour"
      \/ pc = "oneHour" /\ pc' = "silent"
      \/ pc = "silent" /\ pc' = "save" /\ mode # "Silent"
      \/ pc = "save" /\ pc' = "wait"
  BY <1>1 DEF Handlers, Next_
<1>3. PMTypeOK'
  BY <1>1, <1>2, ConstantTypes DEF PMTypeOK, world
<1>4. TimersFresh' /\ HourAsksSoc' /\ CanWakeStaysUp' /\ SleepIsHalt'
  BY <1>1, <1>2 DEF TimersFresh, HourAsksSoc, CanWakeStaysUp, SleepIsHalt
<1>5. FiveWithinStay'
  BY <1>1, <1>2 DEF FiveWithinStay, Behind
<1>6. CountIsPeriodic'
  BY <1>1, <1>2, ConstantTypes DEF CountIsPeriodic, PMTypeOK
<1> QED
  BY <1>3, <1>4, <1>5, <1>6

\* Messages, wires and wake-ups.
LEMMA SurroundingsKeep ==
    ASSUME PMInv, Surroundings
    PROVE  PMInv'
<1> USE DEF PMInv
<1>1. CASE Publish
  <2>1. inbox' \in Messages
    <3>1. inbox \in Messages
      BY TypesNamed
    <3> QED BY <1>1, <3>1 DEF Publish, Messages
  <2>2. events' \in 0 .. MaxEvents
    BY <1>1, ConstantTypes DEF Publish, Event, PMTypeOK
  <2>3. PMTypeOK'
    BY <1>1, <2>1, <2>2 DEF Publish, task, PMTypeOK, Messages
  <2> QED
    BY <1>1, <2>3 DEF Publish, task, TimersFresh, HourAsksSoc, FiveWithinStay,
       Behind, CanWakeStaysUp, SleepIsHalt, CountIsPeriodic
<1>2. CASE Wire \/ NetworkWakes \/ NetworkSleeps
  <2>1. events' \in 0 .. MaxEvents
    BY <1>2, ConstantTypes DEF Wire, NetworkWakes, NetworkSleeps, Event, PMTypeOK
  <2>2. gpio' \in BOOLEAN /\ nmSleep' \in BOOLEAN
    BY <1>2 DEF Wire, NetworkWakes, NetworkSleeps, PMTypeOK
  <2>3. UNCHANGED <<task, inbox, stay, asked>>
    BY <1>2 DEF Wire, NetworkWakes, NetworkSleeps
  <2>4. PMTypeOK'
    BY <2>1, <2>2, <2>3 DEF task, PMTypeOK
  <2> QED
    BY <2>3, <2>4 DEF task, TimersFresh, HourAsksSoc, FiveWithinStay,
       Behind, CanWakeStaysUp, SleepIsHalt, CountIsPeriodic
<1>3. CASE Wake
  <2>1. mode = "Sleep"
    BY <1>3 DEF Wake, SleepIsHalt
  <2>2. PICK byCan \in BOOLEAN :
          /\ gpio' = (gpio \/ ~byCan)
          /\ wake' = [can |-> wake.can \/ byCan, age |-> 0]
    BY <1>3 DEF Wake
  <2>3. /\ gpio' \in BOOLEAN
        /\ wake' \in [can: BOOLEAN, age: 0 .. WakeHold]
    BY <2>2, ConstantTypes DEF PMTypeOK
  <2>4. mode' \in {"Normal", "Standby"}
    BY <1>3 DEF Wake, Note
  <2>5. initial' \in Begins
    BY <1>3, TypesNamed DEF Wake, SaveLeft, Begins
  <2>6. /\ stay' \in 0 .. MaxStay /\ asked' = FALSE /\ canSleep' = FALSE
        /\ nmSleep' = FALSE /\ pc' = "wait" /\ events' \in 0 .. MaxEvents
    BY <1>3, ConstantTypes DEF Wake, Note, Event, PMTypeOK
  <2>7. UNCHANGED <<sig, latch, hour, five, hourReq, fiveReq, count, inbox>>
    BY <1>3 DEF Wake
  <2>8. PMTypeOK'
    <3>1. /\ asked' \in BOOLEAN /\ canSleep' \in BOOLEAN /\ nmSleep' \in BOOLEAN
      BY <2>6
    <3> QED
      BY <2>3, <2>4, <2>5, <2>6, <2>7, <3>1 DEF PMTypeOK, Begins
  <2>9. hour = Off /\ five = Off /\ hourReq.sent = 0
    BY <2>1, ConstantTypes DEF TimersFresh, Off
  <2>10. TimersFresh' /\ HourAsksSoc'
    BY <2>7, <2>9, ConstantTypes DEF TimersFresh, HourAsksSoc, Off
  <2>11. FiveWithinStay' /\ CanWakeStaysUp' /\ SleepIsHalt'
    BY <2>4, <2>6 DEF FiveWithinStay, CanWakeStaysUp, SleepIsHalt
  <2>12. CountIsPeriodic'
    BY <1>3, <2>7 DEF Wake, CountIsPeriodic
  <2> QED
    BY <2>8, <2>10, <2>11, <2>12
<1> QED
  BY <1>1, <1>2, <1>3 DEF Surroundings

-----------------------------------------------------------------------------
(* The theorems.                                                           *)

LEMMA PowerBegins == PowerInit => PMInv
<1> SUFFICES ASSUME PowerInit PROVE PMInv
  OBVIOUS
<1>1. PMTypeOK
  <2>1. /\ sig \in Levels /\ initial \in Begins /\ latch \in Latches
        /\ inbox \in Messages
    BY DEF PowerInit, Levels, Ign, Anti, Door, Begins, Latches, NoMessages, Messages
  <2>2. /\ hour \in Off .. HourStop + 1 /\ five \in Off .. FiveStop + 1
        /\ hourReq \in Requests /\ fiveReq \in Requests
        /\ count \in 0 .. Period /\ events \in 0 .. MaxEvents
        /\ stay \in 0 .. MaxStay
    BY ConstantTypes DEF PowerInit, Requests, MaxRequests, Off
  <2>3. /\ wake \in [can: BOOLEAN, age: 0 .. WakeHold]
    BY ConstantTypes DEF PowerInit
  <2>4. /\ canSleep \in BOOLEAN /\ nmSleep \in BOOLEAN /\ asked \in BOOLEAN
        /\ gpio \in BOOLEAN /\ pc = "wait"
        /\ mode \in {"Normal", "Standby"}
    BY DEF PowerInit
  <2> QED
    BY <2>1, <2>2, <2>3, <2>4 DEF PMTypeOK, Begins, Latches, Messages
<1> QED
  BY <1>1, ConstantTypes DEF PMInv, PowerInit, TimersFresh, HourAsksSoc,
     FiveWithinStay, Behind, CanWakeStaysUp, SleepIsHalt, CountIsPeriodic, Off

LEMMA PowerKeeps == PMInv /\ AskedIsQuiet /\ [PowerNext]_vars => PMInv'
<1> SUFFICES ASSUME PMInv, AskedIsQuiet, [PowerNext]_vars PROVE PMInv'
  OBVIOUS
<1>1. CASE Task
  BY <1>1, TickKeeps, NormalKeeps, OneHourKeeps, SilentKeeps, SaveKeeps, NetworkKeeps, SkipKeeps
  DEF Task
<1>2. CASE Surroundings
  BY <1>2, SurroundingsKeep
<1>3. CASE UNCHANGED vars
  BY <1>3 DEF vars, task, world, PMInv, PMTypeOK, TimersFresh, HourAsksSoc,
     FiveWithinStay, Behind, CanWakeStaysUp, SleepIsHalt, CountIsPeriodic
<1> QED
  BY <1>1, <1>2, <1>3 DEF PowerNext

\* Nothing but a wake-up sets wake.can, and there is none while the task waits.
LEMMA AskedKeeps == PMInv /\ AskedIsQuiet /\ [PowerNext]_vars => AskedIsQuiet'
<1> SUFFICES ASSUME PMInv, AskedIsQuiet, [PowerNext]_vars, pc' = "network"
             PROVE  ~wake'.can /\ sig'.ign = "Off" /\ mode' \in {"Silent", "Standby"}
  BY DEF AskedIsQuiet
<1>1. CASE Power_Save_Work
  <2>1. PICK began \in Begins, woken \in BOOLEAN :
          \/ AsksNetwork(sig') /\ Note(SaveTo(sig', woken), FALSE)
          \/ SaveEnd(began, SaveTo(sig', woken), canSleep)
    BY <1>1, SaveSteps
  <2>2. ~SaveEnd(began, SaveTo(sig', woken), canSleep)
    BY DEF SaveEnd
  <2> QED BY <1>1, <2>1, <2>2 DEF Power_Save_Work, AsksNetwork, Note, SaveTo
<1>2. CASE getCanWorkSts
  BY <1>2 DEF getCanWorkSts, SaveEnd
<1>3. CASE Tick \/ Normal_Work \/ One_Hour_Work \/ Silent_Work
  BY <1>3 DEF Tick, Normal_Work, One_Hour_Work, Silent_Work, Next_
<1>4. CASE Skip
  BY <1>4 DEF Skip, Handlers, Next_
<1>5. CASE Publish \/ Wire \/ NetworkSleeps \/ NetworkWakes
  BY <1>5 DEF Publish, Wire, NetworkSleeps, NetworkWakes, task, AskedIsQuiet
<1>6. CASE Wake
  BY <1>6 DEF Wake
<1>7. CASE UNCHANGED vars
  BY <1>7 DEF vars, task, AskedIsQuiet
<1> QED
  BY <1>1, <1>2, <1>3, <1>4, <1>5, <1>6, <1>7 DEF PowerNext, Task, Surroundings

LEMMA PowerInvariant == PowerSpec => [](PMInv /\ AskedIsQuiet)
<1>1. PowerInit => AskedIsQuiet
  BY DEF PowerInit, AskedIsQuiet
<1> QED
  BY <1>1, PowerBegins, PowerKeeps, AskedKeeps, PTL DEF PowerSpec

\* Every variable of the power modes keeps its type: in particular no more
\* than three requests are counted, and no timer outruns its window.
THEOREM PowerTypeCorrect == PowerSpec => []PMTypeOK
<1>1. PMInv => PMTypeOK
  BY DEF PMInv
<1> QED
  BY <1>1, PowerInvariant, PTL

\* The one hour mode always asks the SoC before its window is over.
THEOREM HourAlwaysAsks == PowerSpec => []HourAsksSoc
<1>1. PMInv => HourAsksSoc
  BY DEF PMInv
<1> QED
  BY <1>1, PowerInvariant, PTL

\* A wake-up by CAN keeps the processor awake for the time it is held.
THEOREM CanWakeHolds == PowerSpec => []CanWakeStaysUp
<1>1. PMInv => CanWakeStaysUp
  BY DEF PMInv
<1> QED
  BY <1>1, PowerInvariant, PTL

\* Standby is reached from the silent mode after a full stay only.
THEOREM StandbyAfterFullStay == PowerSpec => FullStay
<1>1. PMInv /\ [PowerNext]_vars
        => [mode = "Silent" /\ mode' = "Standby" => stay >= FiveStart]_vars
  <2> SUFFICES ASSUME PMInv, PowerNext, mode = "Silent", mode' = "Standby"
               PROVE  stay >= FiveStart
    OBVIOUS
  <2>1. CASE Silent_Work
    BY <2>1, SilentKeeps
  <2>2. CASE Wake
    BY <2>2 DEF Wake, PMInv, SleepIsHalt
  <2>3. CASE Publish \/ Wire \/ NetworkSleeps \/ NetworkWakes
    BY <2>3 DEF Publish, Wire, NetworkSleeps, NetworkWakes, task
  <2>4. CASE Tick \/ Skip \/ Normal_Work \/ One_Hour_Work \/ Power_Save_Work
    BY <2>4 DEF Tick, Skip, Normal_Work, One_Hour_Work, Power_Save_Work
  <2>5. CASE getCanWorkSts
    BY <2>5 DEF getCanWorkSts, SaveEnd, Note
  <2> QED
    BY <2>1, <2>2, <2>3, <2>4, <2>5 DEF PowerNext, Task, Surroundings
<1> QED
  BY <1>1, PowerInvariant, PTL DEF PowerSpec, FullStay

-----------------------------------------------------------------------------
(* The ignition.                                                           *)

\* A running one hour timer has seen an iteration of its mode, and the ignition
\* is lost on no mode but the silent one that One_Hour_Work has just entered.
AccInv ==
    /\ mode = "OneHour" /\ hour # Off /\ pc \in {"normal", "oneHour"} => stay > 0
    /\ sig.ign = "Acc" => \/ mode = "Normal"
                          \/ mode = "OneHour" /\ hour = Off /\ stay > 0
                          \/ mode = "Silent" /\ pc = "silent"

LEMMA AccBegins == PowerInit => AccInv
BY DEF PowerInit, AccInv

LEMMA AccOneHour ==
    ASSUME PMInv, AccInv, One_Hour_Work
    PROVE  AccInv'
<1> DEFINE
      elapsed == Running(hour, HourStop)
      inWindow == elapsed \in HourStart .. HourStop
      answer == IF inWindow THEN inbox.spi ELSE None
<1>1. PICK moved \in BOOLEAN, to \in {"Normal", "OneHour", "Silent"} :
        /\ to = OneHourTo(sig', moved, elapsed, answer)
        /\ Note(to, asked')
        /\ hour' = IF to # "OneHour" \/ answer = "no" THEN Off ELSE elapsed
  <2> DEFINE
        began == Began
        doorSeen == began.door = "Open" /\ (Relatched.hourDoor \/ sig'.door = "Close")
        antiSeen == began.anti = "Arm" /\ (Relatched.hourAnti \/ sig'.anti = "Disarm")
        opened == IF began.door = "Open" THEN DoorOpened(sig', began, doorSeen)
                  ELSE sig'.ign = "Off" /\ sig'.door = "Open"
        moved == opened \/ Armed(sig', began, antiSeen) \/ inbox.touch = "five"
        to == OneHourTo(sig', moved, elapsed, answer)
  <2>1. to \in {"Normal", "OneHour", "Silent"} /\ moved \in BOOLEAN
    BY DEF OneHourTo
  <2>2. /\ Note(to, asked')
        /\ hour' = IF to # "OneHour" \/ answer = "no" THEN Off ELSE elapsed
    BY DEF One_Hour_Work, Note
  <2> HIDE DEF moved
  <2> QED BY <2>1, <2>2
<1>2. mode = "OneHour" /\ pc = "oneHour" /\ pc' = "silent"
  BY DEF One_Hour_Work, Next_
<1>3. sig'.ign = "Acc" => to \in {"Normal", "Silent"} \/ answer = "no"
  BY <1>1 DEF OneHourTo
<1>4. answer = "no" => stay > 0
  <2> SUFFICES ASSUME answer = "no" PROVE stay > 0
    OBVIOUS
  <2>1. inWindow
    BY DEF None
  <2>2. hour # Off
    BY <2>1, ConstantTypes DEF Running
  <2> QED BY <1>2, <2>2 DEF AccInv
<1>5. CASE to = "OneHour"
  <2>1. mode' = "OneHour" /\ stay' = stay
    BY <1>1, <1>2, <1>5 DEF Note
  <2>2. answer = "no" => hour' = Off
    <3> HIDE DEF answer, elapsed
    <3> QED BY <1>1
  <2> QED
    BY <1>2, <1>3, <1>4, <1>5, <2>1, <2>2 DEF AccInv
<1>6. CASE to # "OneHour"
  <2>1. mode' = to /\ mode' \in {"Normal", "Silent"}
    BY <1>1, <1>6 DEF Note
  <2> QED
    BY <1>2, <2>1 DEF AccInv
<1> QED
  BY <1>5, <1>6

LEMMA AccKeeps == PMInv /\ AskedIsQuiet /\ AccInv /\ [PowerNext]_vars => AccInv'
<1> SUFFICES ASSUME PMInv, AskedIsQuiet, AccInv, [PowerNext]_vars PROVE AccInv'
  OBVIOUS
<1>1. CASE Tick
  BY <1>1, ConstantTypes DEF Tick, AccInv, PMInv, PMTypeOK, Capped
<1>2. CASE Normal_Work
  <2>1. hour = Off
    BY <1>2 DEF Normal_Work, PMInv, TimersFresh
  <2> QED
    BY <1>2, <2>1 DEF Normal_Work, Next_, Note, AccInv
<1>3. CASE One_Hour_Work
  BY <1>3, AccOneHour
<1>4. CASE Silent_Work
  <2>1. hour = Off /\ hour' = hour /\ pc' = "save"
    BY <1>4 DEF Silent_Work, PMInv, TimersFresh, Next_
  <2>2. sig'.ign = "Acc" => mode' = "Normal"
    BY <1>4 DEF Silent_Work, Note, SilentTo
  <2> QED
    BY <2>1, <2>2 DEF AccInv
<1>5. CASE Power_Save_Work
  <2>1. hour = Off /\ hour' = hour
    BY <1>5 DEF Power_Save_Work, PMInv, TimersFresh
  <2>2. sig'.ign = "Acc" => mode' = "Normal"
    <3>1. PICK woken \in BOOLEAN :
            Note(SaveTo(sig', woken), FALSE)
              \/ \E began : SaveEnd(began, SaveTo(sig', woken), canSleep)
      BY <1>5, SaveSteps
    <3> QED BY <3>1 DEF SaveEnd, Note, SaveTo
  <2> QED
    BY <2>1, <2>2 DEF AccInv
<1>6. CASE Skip
  <2>1. \/ pc = "normal" /\ pc' = "oneHour"
        \/ pc = "oneHour" /\ pc' = "silent"
        \/ pc = "silent" /\ pc' = "save" /\ mode # "Silent"
        \/ pc = "save" /\ pc' = "wait"
    BY <1>6 DEF Skip, Handlers, Next_
  <2>2. UNCHANGED <<mode, sig, hour, stay>>
    BY <1>6 DEF Skip
  <2> QED
    BY <2>1, <2>2 DEF AccInv
<1>7. CASE Publish \/ Wire \/ NetworkSleeps \/ NetworkWakes
  BY <1>7 DEF Publish, Wire, NetworkSleeps, NetworkWakes, task, AccInv
<1>8. CASE Wake
  <2>1. sig.ign # "Acc"
    BY <1>8 DEF Wake, PMInv, SleepIsHalt, AccInv
  <2>2. sig' = sig /\ mode' \in {"Normal", "Standby"}
    BY <1>8 DEF Wake, Note
  <2> QED
    BY <2>1, <2>2 DEF AccInv
<1>9. CASE UNCHANGED vars
  BY <1>9 DEF vars, task, AccInv
<1>10. CASE getCanWorkSts
  <2>1. sig' = sig /\ sig.ign = "Off" /\ pc' \in {"wait", "asleep"}
    BY <1>10 DEF getCanWorkSts, SaveEnd, AskedIsQuiet
  <2> QED BY <2>1 DEF AccInv
<1> QED
  BY <1>1, <1>2, <1>3, <1>4, <1>5, <1>6, <1>7, <1>8, <1>9, <1>10
  DEF PowerNext, Task, Surroundings

\* Once it has been seen in ACC or Ready the ignition wins over every other
\* signal, whatever comes in with it.
THEOREM AccWins == PowerSpec => []AccIsNormal
<1>1. AccInv => AccIsNormal
  BY DEF AccInv, AccIsNormal
<1> QED
  BY <1>1, PowerInvariant, AccBegins, AccKeeps, PTL DEF PowerSpec
=============================================================================

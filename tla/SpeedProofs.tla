------------------------------ MODULE SpeedProofs ------------------------------
(***************************************************************************)
(* Theorems about the speed game, for any working time, gap between turns  *)
(* and launch time, and any presses in any order.                          *)
(***************************************************************************)
EXTENDS Speed, ScriptInputProofs, Clocks

(* Every action of the script is one of its calls of the rest of the program,
   or none. *)
LEMMA ScriptCalls ==
  ASSUME Script
  PROVE  \/ HasEvent /\ PopEvent
         \/ FindNone
         \/ clearButtonEvents
         \/ getWebAction
         \/ TicksOff
         \/ Rebase
         \/ UNCHANGED inputVars
<1>1. CASE SetupLoop("Speed")
  BY <1>1 DEF SetupLoop, SetupEvent, SetupWeb, SetupClear
<1>2. CASE WaitEvent \/ WaitNoEvent \/ WaitWeb \/ StartClear \/ StartRebase \/ StartTime
  BY <1>2 DEF WaitEvent, WaitNoEvent, WaitWeb, StartClear, StartRebase, StartTime, inputVars
<1>3. CASE Loop \/ LoopWeb \/ DrainEvent \/ DrainNoEvent \/ LoopTime \/ LoopEnd
  BY <1>3 DEF Loop, LoopWeb, DrainEvent, DrainNoEvent, LoopTime, LoopEnd, inputVars
<1>4. CASE FinishZero \/ FinishRebase \/ FinishStart \/ FinishClear \/ Restart
  BY <1>4 DEF FinishZero, FinishRebase, FinishStart, FinishClear, Restart, inputVars
<1> QED
  BY <1>1, <1>2, <1>3, <1>4 DEF Script

(* The event list, the ticks and the web action keep their types. *)
LEMMA InputStep == InputTypeOK /\ [Next]_vars => InputTypeOK'
<1> SUFFICES ASSUME InputTypeOK, [Next]_vars PROVE InputTypeOK'
  OBVIOUS
<1>1. CASE Outside
  BY <1>1, OutsideTypes
<1>2. CASE AnyPress
  BY <1>2, PressTypes
<1>3. CASE Script
  BY <1>3, ScriptCalls, CallTypes
<1>4. CASE UNCHANGED vars
  BY <1>4, CallTypes DEF vars
<1> QED
  BY <1>1, <1>2, <1>3, <1>4 DEF Next

(* An event that is handled carries a time that is not taken for "no time". *)
LEMMA StampIsSet ==
  ASSUME NEW ev \in ButtonEvent
  PROVE  ev.time \in Int /\ ev.time # Unset
BY InputAssumption, SpeedAssumption DEF ButtonEvent, Stamps, Unset

(* The ticks are an integer. *)
LEMMA TicksInt == InputTypeOK => getTicks \in Int
BY InputAssumption DEF InputTypeOK, getTicks

--------------------------------------------------------------------------------
(* The state that a turn leads to is a state. *)
LEMMA NextStateType ==
  ASSUME NEW t, state \in BeforeTiming \cup Timing \cup {TooLate}
  PROVE  NextState(t) \in BeforeTiming \cup Timing \cup {TooLate}
BY DEF NextState, BeforeTiming, Timing, TooLate, StationA, StationB

(* Handling an event keeps the types of the game's variables. *)
LEMMA HandleTypes ==
  ASSUME GameTypeOK, NEW b, NEW ev \in ButtonEvent, Handle(b, ev),
         UNCHANGED <<started, now, start>>
  PROVE  GameTypeOK'
<1>0. ev.time \in Int /\ ev.old \in BOOLEAN /\ Unset \in Int
  BY StampIsSet DEF ButtonEvent, Unset
<1>1. CASE Turn(b, ev)
  BY <1>0, <1>1, NextStateType DEF Turn, GameTypeOK
<1>2. CASE LastTurn(b, ev)
  BY <1>0, <1>2 DEF LastTurn, GameTypeOK
<1>3. CASE RelaunchPilot(b, ev)
  BY <1>0, <1>3 DEF RelaunchPilot, GameTypeOK, BeforeTiming, seen
<1>4. CASE StartTimer(b, ev)
  BY <1>4 DEF StartTimer, GameTypeOK
<1>5. CASE ResetPressed(b, ev)
  BY <1>5 DEF ResetPressed, GameTypeOK, timers, seen
<1>6. CASE Ignored(b, ev)
  BY <1>6 DEF Ignored, GameTypeOK, timers, seen
<1> QED
  BY <1>1, <1>2, <1>3, <1>4, <1>5, <1>6 DEF Handle

(* Every step keeps the types of the game's variables. *)
LEMMA GameStep == TypeOK /\ [Next]_vars => GameTypeOK'
<1> SUFFICES ASSUME TypeOK, [Next]_vars PROVE GameTypeOK'
  OBVIOUS
<1>0. GameTypeOK /\ InputTypeOK /\ getTicks \in Int /\ Unset \in Int
  BY TicksInt DEF TypeOK, Unset
<1> USE <1>0 DEF timers, seen
<1>1. CASE UNCHANGED <<pc, gameVars>>
  BY <1>1 DEF GameTypeOK, gameVars
<1>2. CASE SetupLoop("Speed") /\ UNCHANGED gameVars
  BY <1>2 DEF SetupLoop, SetupEvent, SetupWeb, SetupClear, gameVars, GameTypeOK
<1>3. CASE WaitEvent
  BY <1>3 DEF WaitEvent, GameTypeOK
<1>4. CASE WaitNoEvent
  BY <1>4 DEF WaitNoEvent, GameTypeOK, gameVars
<1>5. CASE WaitWeb
  BY <1>5 DEF WaitWeb, GameTypeOK
<1>6. CASE StartClear \/ StartRebase
  BY <1>6 DEF StartClear, StartRebase, GameTypeOK, gameVars
<1>7. CASE StartTime
  BY <1>7 DEF StartTime, GameTypeOK, BeforeTiming
<1>8. CASE Loop
  BY <1>8 DEF Loop, GameTypeOK
<1>9. CASE LoopWeb
  BY <1>9 DEF LoopWeb, GameTypeOK, gameVars
<1>10. CASE DrainEvent
  BY <1>10, HeadEvent, HandleTypes DEF DrainEvent
<1>11. CASE DrainNoEvent
  BY <1>11 DEF DrainNoEvent, GameTypeOK, gameVars
<1>12. CASE LoopTime
  BY <1>12 DEF LoopTime, GameTypeOK
<1>13. CASE LoopEnd
  BY <1>13 DEF LoopEnd, GameTypeOK
<1>14. CASE FinishZero \/ FinishRebase
  BY <1>14 DEF FinishZero, FinishRebase, GameTypeOK, gameVars
<1>15. CASE FinishStart
  BY <1>15 DEF FinishStart, GameTypeOK
<1>16. CASE FinishClear
  BY <1>16 DEF FinishClear, GameTypeOK, BeforeTiming
<1>17. CASE Restart
  <2>1. /\ state' \in BeforeTiming
        /\ now' \in Int /\ start' \in Int
    BY <1>17 DEF Restart, BeforeTiming
  <2>2. /\ flightStart' \in Int /\ lastflighttime' \in Int
        /\ lastEventTime' \in Int /\ speed60Time' \in Int
    BY <1>17 DEF Restart
  <2>3. /\ started' \in BOOLEAN
        /\ sawOld' \in BOOLEAN /\ nowOld' \in BOOLEAN /\ timerOld' \in BOOLEAN
    BY <1>17 DEF Restart
  <2> QED
    BY <1>17, <2>1, <2>2, <2>3 DEF Restart, GameTypeOK
<1> QED
  BY <1>1, <1>2, <1>3, <1>4, <1>5, <1>6, <1>7, <1>8, <1>9, <1>10, <1>11, <1>12,
     <1>13, <1>14, <1>15, <1>16, <1>17 DEF Next, Script, vars

(* The variables of the game and of its input always have their types. *)
THEOREM TypeCorrect == Spec => []TypeOK
<1>1. ASSUME Init PROVE TypeOK
  <2>1. InputTypeOK
    BY <1>1, InitTypes DEF Init
  <2>2. /\ state \in BeforeTiming
        /\ now \in Int /\ start \in Int
    BY <1>1 DEF Init, BeforeTiming
  <2>3. /\ flightStart \in Int /\ lastflighttime \in Int
        /\ lastEventTime \in Int /\ speed60Time \in Int
    BY <1>1 DEF Init, Unset
  <2>4. /\ started \in BOOLEAN
        /\ sawOld \in BOOLEAN /\ nowOld \in BOOLEAN /\ timerOld \in BOOLEAN
    BY <1>1 DEF Init
  <2> QED
    BY <1>1, <2>1, <2>2, <2>3, <2>4 DEF Init, TypeOK, GameTypeOK
<1>2. TypeOK /\ [Next]_vars => TypeOK'
  BY InputStep, GameStep DEF TypeOK
<1> QED
  BY <1>1, <1>2, PTL DEF Spec
--------------------------------------------------------------------------------
(***************************************************************************)
(* The floor of a flight's time is not inductive.  It follows from how far *)
(* the latest turn lies behind the start of the flight on every leg, and   *)
(* that in turn needs to know when a flight has a start time.              *)
(***************************************************************************)
Finishing == pc \in {"finishZero", "finishRebase", "finishStart", "finishClear"}

Legs ==
  ~Finishing /\ state \in Timing =>
    /\ lastEventTime # Unset
    /\ state = 10 => lastEventTime >= flightStart
    /\ state = 11 => lastEventTime - flightStart > TURN_GAP
    /\ state = 12 => lastEventTime - flightStart > 2 * TURN_GAP
    /\ state = 13 => lastEventTime - flightStart > 3 * TURN_GAP

FlightInv ==
  /\ TimingConsistent
  /\ FlightTimeFloor
  /\ Finishing => state = 13
  /\ Legs

(* Steps that leave the game's variables, and stay out of or in the finish. *)
LEMMA FlightUnchanged ==
  ASSUME FlightInv, UNCHANGED <<state, timers>>, Finishing' => Finishing,
         Finishing => Finishing' \/ state \notin Timing
  PROVE  FlightInv'
BY DEF FlightInv, TimingConsistent, FlightTimeFloor, Legs, Finishing, timers

(* Handling an event. *)
LEMMA HandleFlight ==
  ASSUME GameTypeOK, FlightInv, ~Finishing, pc = "drain",
         NEW b, NEW ev \in ButtonEvent, Handle(b, ev)
  PROVE  FlightInv'
<1>0. /\ ev.time \in Int /\ ev.time # Unset
      /\ flightStart \in Int /\ lastEventTime \in Int /\ lastflighttime \in Int
      /\ TURN_GAP \in Nat
      /\ state \in BeforeTiming \cup Timing \cup {TooLate}
  BY StampIsSet, SpeedAssumption DEF GameTypeOK
<1>1. CASE Turn(b, ev)
  <2>1. ~Finishing'
    BY <1>1 DEF Turn, Finishing
  <2>2. TimingConsistent'
    BY <1>0, <1>1 DEF Turn, FlightInv, TimingConsistent, NextState, BeforeTiming,
                      Timing, TooLate, StationA, StationB
  <2>3. FlightTimeFloor'
    BY <1>1 DEF Turn, FlightInv, FlightTimeFloor
  <2>4. Legs'
    <3>1. CASE state = 1 /\ b.t = StationA
      <4>1. state' = 10 /\ lastEventTime' = ev.time /\ flightStart' = ev.time
        BY <1>1, <3>1 DEF Turn, NextState
      <4> QED
        BY <1>0, <4>1 DEF Legs
    <3>2. CASE ~(state = 1 /\ b.t = StationA)
      <4>1. lastEventTime' = ev.time /\ flightStart' = flightStart
        BY <1>1, <3>2 DEF Turn
      <4>2. state \in Timing => ev.time - lastEventTime > TURN_GAP
        BY <1>1 DEF Turn, IsTurn, FlightInv, Legs
      <4>3. \/ state' = state
            \/ state' = 1
            \/ state = 10 /\ state' = 11
            \/ state = 11 /\ state' = 12
            \/ state = 12 /\ state' = 13
        BY <1>1, <3>2 DEF Turn, NextState
      <4> QED
        BY <1>0, <4>1, <4>2, <4>3 DEF FlightInv, Legs, Timing
    <3> QED
      BY <3>1, <3>2
  <2> QED
    BY <2>1, <2>2, <2>3, <2>4 DEF FlightInv
<1>2. CASE LastTurn(b, ev)
  <2>1. state = 13 /\ state' = 13 /\ Finishing' /\ flightStart' = flightStart
    BY <1>2 DEF LastTurn, Finishes, Finishing
  <2>2. lastEventTime - flightStart > 3 * TURN_GAP /\ ev.time - lastEventTime > TURN_GAP
    BY <1>2, <2>1 DEF LastTurn, IsTurn, FlightInv, Legs, Timing
  <2>3. lastflighttime' = ev.time - flightStart
    BY <1>2 DEF LastTurn
  <2>4. FlightTimeFloor'
    BY <1>0, <2>2, <2>3 DEF FlightTimeFloor
  <2>5. TimingConsistent'
    BY <1>2, <2>1 DEF LastTurn, FlightInv, TimingConsistent
  <2> QED
    BY <2>1, <2>4, <2>5 DEF FlightInv, Legs
<1>3. CASE RelaunchPilot(b, ev)
  BY <1>3 DEF RelaunchPilot, FlightInv, TimingConsistent, FlightTimeFloor, Legs,
              Finishing, Timing, TooLate
<1>4. CASE StartTimer(b, ev)
  BY <1>0, <1>4 DEF StartTimer, FlightInv, TimingConsistent, FlightTimeFloor, Legs,
                    Finishing, Timing, TooLate
<1>5. CASE ResetPressed(b, ev)
  BY <1>5, FlightUnchanged DEF ResetPressed, Finishing
<1>6. CASE Ignored(b, ev)
  BY <1>6, FlightUnchanged DEF Ignored, Finishing
<1> QED
  BY <1>1, <1>2, <1>3, <1>4, <1>5, <1>6 DEF Handle

(* The invariant of a flight is kept by every step. *)
LEMMA FlightStep == TypeOK /\ FlightInv /\ [Next]_vars => FlightInv'
<1> SUFFICES ASSUME TypeOK, FlightInv, [Next]_vars PROVE FlightInv'
  OBVIOUS
<1>0. GameTypeOK /\ InputTypeOK
  BY DEF TypeOK
<1>1. CASE UNCHANGED <<pc, gameVars>>
  BY <1>1, FlightUnchanged DEF gameVars, Finishing
<1>2. CASE SetupLoop("Speed") /\ UNCHANGED gameVars
  BY <1>2, FlightUnchanged DEF SetupLoop, SetupEvent, SetupWeb, SetupClear, gameVars,
                               Finishing
<1>3. CASE WaitEvent
  BY <1>3, FlightUnchanged DEF WaitEvent, Finishing
<1>4. CASE WaitNoEvent
  BY <1>4, FlightUnchanged DEF WaitNoEvent, Finishing, gameVars
<1>5. CASE WaitWeb
  BY <1>5, FlightUnchanged DEF WaitWeb, Finishing
<1>6. CASE StartClear \/ StartRebase
  BY <1>6, FlightUnchanged DEF StartClear, StartRebase, Finishing, gameVars
<1>7. CASE StartTime
  BY <1>7 DEF StartTime, FlightInv, TimingConsistent, FlightTimeFloor, Legs,
              Finishing, Timing, TooLate
<1>8. CASE Loop
  <2>1. ~Finishing /\ ~Finishing' /\ UNCHANGED timers
    BY <1>8 DEF Loop, Finishing
  <2>2. CASE LaunchOver /\ state < 10
    <3>1. state' = TooLate /\ state \notin Timing /\ speed60Time # Unset
      BY <1>0, <1>8, <2>2 DEF Loop, LaunchOver, Timing, Unset, GameTypeOK
    <3> QED
      BY <2>1, <3>1 DEF FlightInv, TimingConsistent, FlightTimeFloor, Legs, timers,
                        Timing, TooLate
  <2>3. CASE ~(LaunchOver /\ state < 10)
    BY <1>8, <2>1, <2>3, FlightUnchanged DEF Loop
  <2> QED
    BY <2>2, <2>3
<1>9. CASE LoopWeb
  BY <1>9, FlightUnchanged DEF LoopWeb, Finishing, gameVars
<1>10. CASE DrainEvent
  <2>1. ~Finishing /\ pc = "drain"
    BY <1>10 DEF DrainEvent, Finishing
  <2> QED
    BY <1>0, <1>10, <2>1, HeadEvent, HandleFlight DEF DrainEvent
<1>11. CASE DrainNoEvent
  BY <1>11, FlightUnchanged DEF DrainNoEvent, Finishing, gameVars
<1>12. CASE LoopTime
  BY <1>12, FlightUnchanged DEF LoopTime, Finishing
<1>13. CASE LoopEnd
  BY <1>13, FlightUnchanged DEF LoopEnd, Finishing
<1>14. CASE FinishZero \/ FinishRebase
  BY <1>14, FlightUnchanged DEF FinishZero, FinishRebase, Finishing, gameVars
<1>15. CASE FinishStart
  BY <1>15 DEF FinishStart, FlightInv, TimingConsistent, FlightTimeFloor, Legs, Finishing
<1>16. CASE FinishClear
  BY <1>16 DEF FinishClear, FlightInv, TimingConsistent, FlightTimeFloor, Legs,
               Finishing, Timing, TooLate
<1>17. CASE Restart
  BY <1>17 DEF Restart, FlightInv, TimingConsistent, FlightTimeFloor, Legs,
               Finishing, Timing, TooLate
<1> QED
  BY <1>1, <1>2, <1>3, <1>4, <1>5, <1>6, <1>7, <1>8, <1>9, <1>10, <1>11, <1>12,
     <1>13, <1>14, <1>15, <1>16, <1>17 DEF Next, Script, vars

(* No flight is being timed at the start. *)
LEMMA FlightInit == Init => FlightInv
BY DEF Init, FlightInv, TimingConsistent, FlightTimeFloor, Legs, Finishing, Timing, TooLate

(* No order of presses, and no move of the tick origin, gives a flight a time
   of four gaps between turns or less. *)
THEOREM FlightsTakeTime == Spec => []FlightTimeFloor
<1>1. FlightInv => FlightTimeFloor
  BY DEF FlightInv
<1> QED
  BY <1>1, FlightInit, FlightStep, TypeCorrect, PTL DEF Spec

(* A flight is timed exactly while it has a start time, and never together
   with the 60 seconds. *)
THEOREM TimingIsConsistent == Spec => []TimingConsistent
<1>1. FlightInv => TimingConsistent
  BY DEF FlightInv
<1> QED
  BY <1>1, FlightInit, FlightStep, TypeCorrect, PTL DEF Spec
--------------------------------------------------------------------------------
(***************************************************************************)
(* A time of the game is not ahead of the ticks because the events are not *)
(* (Fresh), and neither is now; what a finished flight leaves behind, when *)
(* it sets the ticks back, is marked by the histories or reset before the  *)
(* next event is looked at.  A flight has no 60 seconds to leave behind.   *)
(***************************************************************************)
Running == pc \in {"loop", "web", "drain", "time"}

ClockInv ==
  /\ Running \/ pc \in {"start", "finishStart", "finishClear"} => based
  /\ pc \in {"finishRebase", "finishStart", "finishClear"} => nowOld
  /\ Running \/ pc = "finishClear" => (~sawOld => lastEventTime <= ticks)
  /\ Running => /\ ~nowOld => now <= ticks
                /\ ~timerOld => speed60Time <= ticks

(* Steps that leave the times of the game and do not set the ticks back. *)
LEMMA ClockLater ==
  ASSUME TypeOK, ClockInv, Running => Running', ~Running => ~Running',
         UNCHANGED <<based, seen, now, lastEventTime, speed60Time>>,
         Running \/ pc' = pc, ticks' = ticks \/ ticks' = ticks + 1
  PROVE  ClockInv'
BY DEF ClockInv, Running, TypeOK, InputTypeOK, GameTypeOK, seen

(* Handling an event, which the list gives with a stamp that is due. *)
LEMMA HandleClock ==
  ASSUME TypeOK, ClockInv, pc = "drain", UNCHANGED <<ticks, based, now>>,
         NEW b, NEW ev \in ButtonEvent, Due(ev), Handle(b, ev)
  PROVE  ClockInv'
<1>0. /\ ticks \in Nat /\ ev.time \in Int /\ based /\ Running
      /\ ~ev.old => ev.time <= ticks
  BY StampIsSet, NoneAssumption DEF TypeOK, InputTypeOK, Due, ClockInv, Running
<1>1. CASE Turn(b, ev)
  <2>1. /\ pc' = pc /\ lastEventTime' = ev.time /\ sawOld' = (sawOld \/ ev.old)
        /\ UNCHANGED <<nowOld, timerOld>>
        /\ speed60Time' \in {speed60Time, -1}
    BY <1>1 DEF Turn, Unset
  <2>2. ~timerOld => speed60Time' <= ticks
    BY <1>0, <2>1 DEF ClockInv
  <2>3. ~sawOld' => lastEventTime' <= ticks
    <3>1. ~sawOld' => ~ev.old
      BY <2>1, Zenon
    <3> QED
      BY <1>0, <2>1, <3>1
  <2>4. pc' = "drain"
    BY <2>1
  <2> QED
    BY <1>0, <2>1, <2>2, <2>3, <2>4 DEF ClockInv, Running
<1>2. CASE LastTurn(b, ev)
  BY <1>2 DEF LastTurn, ClockInv, Running
<1>3. CASE RelaunchPilot(b, ev)
  <2>1. /\ pc' = pc /\ UNCHANGED <<lastEventTime, sawOld, nowOld, timerOld>>
        /\ speed60Time' = -1
    BY <1>3 DEF RelaunchPilot, Unset, seen
  <2> QED
    BY <1>0, <2>1 DEF ClockInv, Running
<1>4. CASE StartTimer(b, ev)
  BY <1>0, <1>4 DEF StartTimer, ClockInv, Running
<1>5. CASE ResetPressed(b, ev)
  BY <1>5 DEF ResetPressed, ClockInv, Running
<1>6. CASE Ignored(b, ev)
  BY <1>6 DEF Ignored, timers, seen, ClockInv, Running
<1> QED
  BY <1>1, <1>2, <1>3, <1>4, <1>5, <1>6 DEF Handle

LEMMA ClockStep == TypeOK /\ FlightInv /\ Fresh /\ ClockInv /\ [Next]_vars => ClockInv'
<1> SUFFICES ASSUME TypeOK, FlightInv, Fresh, ClockInv, [Next]_vars PROVE ClockInv'
  OBVIOUS
<1>0. /\ ticks \in Nat /\ ticks <= ticks /\ 0 <= 0 /\ -1 <= ticks
      /\ Unset = -1
  BY DEF TypeOK, InputTypeOK, Unset
<1>1. CASE Outside /\ UNCHANGED <<pc, gameVars>>
  <2>1. UNCHANGED based /\ (ticks' = ticks \/ ticks' = ticks + 1)
    BY <1>1 DEF Outside, Tick, Deliver, WebRequest
  <2> QED
    BY <1>1, <2>1, ClockLater DEF gameVars, timers, seen, Running
<1>2. CASE AnyPress /\ UNCHANGED <<pc, gameVars>>
  BY <1>2, ClockLater DEF AnyPress, Press, gameVars, timers, seen, Running
<1>3. CASE SetupLoop("Speed")
  BY <1>3 DEF SetupLoop, SetupEvent, SetupWeb, SetupClear, ClockInv, Running
<1>4. CASE WaitEvent \/ WaitNoEvent \/ WaitWeb \/ StartClear
  BY <1>4 DEF WaitEvent, WaitNoEvent, WaitWeb, StartClear, ClockInv, Running
<1>5. CASE StartRebase
  BY <1>5 DEF StartRebase, Rebase, ClockInv, Running
<1>6. CASE StartTime
  BY <1>0, <1>6 DEF StartTime, inputVars, getTicks, ClockInv, Running
<1>7. CASE Loop
  BY <1>7, ClockLater DEF Loop, inputVars, timers, Running
<1>8. CASE LoopWeb
  BY <1>8 DEF LoopWeb, getWebAction, gameVars, timers, seen, ClockInv, Running
<1>9. CASE DrainEvent
  <2>1. Head(events) \in ButtonEvent /\ Due(Head(events))
    <3>1. 1 \in DOMAIN events /\ Head(events) = events[1]
      BY <1>9 DEF DrainEvent, HasEvent, TypeOK, InputTypeOK
    <3>2. based
      BY <1>9 DEF DrainEvent, ClockInv, Running
    <3> QED
      BY <1>9, <3>1, <3>2, HeadEvent DEF DrainEvent, Fresh, TypeOK
  <2>2. /\ pc = "drain" /\ UNCHANGED <<ticks, based, now>>
        /\ Handle(resolveButton(Head(events).button), Head(events))
    BY <1>9 DEF DrainEvent, PopEvent
  <2> QED
    BY <2>1, <2>2, HandleClock
<1>10. CASE DrainNoEvent
  BY <1>10, ClockLater DEF DrainNoEvent, FindNone, inputVars, gameVars, timers, Running
<1>11. CASE LoopTime
  BY <1>0, <1>11 DEF LoopTime, inputVars, getTicks, timers, ClockInv, Running
<1>12. CASE FinishZero
  BY <1>12 DEF FinishZero, ClockInv, Running
<1>13. CASE FinishRebase
  BY <1>13 DEF FinishRebase, Rebase, gameVars, seen, ClockInv, Running
<1>14. CASE FinishStart
  BY <1>0, <1>14 DEF FinishStart, inputVars, getTicks, ClockInv, Running
<1>15. CASE FinishClear
  <2>1. speed60Time' = -1
    BY <1>15 DEF FinishClear, FlightInv, Finishing, TimingConsistent, Timing, Unset
  <2>2. /\ pc = "finishClear" /\ pc' = "drain"
        /\ UNCHANGED <<based, ticks, now, lastEventTime, sawOld, nowOld, timerOld>>
    BY <1>15 DEF FinishClear, clearButtonEvents, seen
  <2> QED
    BY <1>0, <2>1, <2>2 DEF ClockInv, Running
<1>16. CASE LoopEnd \/ Restart
  BY <1>16 DEF LoopEnd, Restart, ClockInv, Running
<1>17. CASE UNCHANGED vars
  BY <1>17, ClockLater DEF vars, inputVars, gameVars, timers, Running
<1> QED
  BY <1>1, <1>2, <1>3, <1>4, <1>5, <1>6, <1>7, <1>8, <1>9, <1>10, <1>11, <1>12,
     <1>13, <1>14, <1>15, <1>16, <1>17 DEF Next, Script

(* Every step keeps the stamps due. *)
LEMMA FreshStep == InputTypeOK /\ Fresh /\ [Next]_vars => Fresh'
<1> SUFFICES ASSUME InputTypeOK, Fresh, [Next]_vars PROVE Fresh'
  OBVIOUS
<1>1. CASE Outside
  BY <1>1, OutsideFresh
<1>2. CASE AnyPress
  BY <1>2, PressFresh
<1>3. CASE Script
  BY <1>3, ScriptCalls, CallFresh, SpeedAssumption
<1>4. CASE UNCHANGED vars
  BY <1>4, CallFresh, SpeedAssumption DEF vars
<1> QED
  BY <1>1, <1>2, <1>3, <1>4 DEF Next

(* While a working time runs, the time of the last turn and the start of the
   60 seconds lie in the past: unless a turn with an old stamp was counted, or
   the 60 seconds were begun with an old now, after a flight had set the ticks
   back. *)
THEOREM TimesAreNotAhead == Spec => []TimesFollowClock
<1>1. Init => FlightInv /\ Fresh /\ ClockInv
  <2>1. Init => ClockInv
    BY DEF Init, ClockInv, Running
  <2> QED
    BY <2>1, FlightInit, InitFresh DEF Init
<1>2. TypeOK /\ FlightInv /\ Fresh /\ ClockInv /\ [Next]_vars
        => FlightInv' /\ Fresh' /\ ClockInv'
  BY FlightStep, FreshStep, ClockStep DEF TypeOK
<1>3. ClockInv => TimesFollowClock
  BY DEF ClockInv, Running, TimesFollowClock
<1> QED
  BY <1>1, <1>2, <1>3, TypeCorrect, PTL DEF Spec
--------------------------------------------------------------------------------
(***************************************************************************)
(* The digits of the clock signs, of which the speed game has all three    *)
(* kinds.  They need nothing of the state.                                 *)
(***************************************************************************)
\* Division by a positive number, in the terms of its remainder.
LEMMA QuotientOfNat ==
    ASSUME NEW a \in Nat, NEW b \in Nat \ {0}
    PROVE  /\ Quotient(a, b) \in Nat
           /\ Remainder(a, b) \in 0..b - 1
           /\ a = b * Quotient(a, b) + Remainder(a, b)
<1>1. a \div b \in Nat
  OBVIOUS
<1>2. a = b * (a \div b) + (a % b) /\ a % b \in 0 .. b - 1
  OBVIOUS
<1>3. Quotient(a, b) = a \div b
  BY DEF Quotient
<1>4. b * (a \div b) \in Nat
  BY <1>1
<1> DEFINE p == b * (a \div b)
<1> HIDE DEF p
<1>5. Remainder(a, b) = a % b
  BY <1>2, <1>3, <1>4 DEF Remainder, p
<1> QED
  BY <1>1, <1>2, <1>3, <1>5

LEMMA Hundreds ==
    ASSUME NEW a \in Nat
    PROVE  Remainder(a, 100) \in 0..99 /\ a = 100 * Quotient(a, 100) + Remainder(a, 100)
BY DEF Quotient, Remainder

\* The ones and the tens of a number.
LEMMA TwoDigits ==
    ASSUME NEW n \in 0..99
    PROVE  /\ Remainder(n, 10) \in Digit /\ Quotient(n, 10) \in Digit
           /\ n = Remainder(n, 10) + 10 * Quotient(n, 10)
<1>1. /\ Quotient(n, 10) \in Nat /\ Remainder(n, 10) \in 0..9
      /\ n = 10 * Quotient(n, 10) + Remainder(n, 10)
  <2>1. n \in Nat /\ 10 \in Nat \ {0} /\ 10 - 1 = 9
    OBVIOUS
  <2> QED
    BY <2>1, QuotientOfNat
<1> DEFINE q == Quotient(n, 10)  r == Remainder(n, 10)
<1> HIDE DEF q, r
<1>2. q \in Nat /\ r \in 0..9 /\ n = 10 * q + r => q \in 0..9 /\ n = r + 10 * q
  OBVIOUS
<1> QED
  BY <1>1, <1>2 DEF q, r, Digit

LEMMA TensOfNumber ==
    ASSUME NEW n \in 0..99
    PROVE  /\ Remainder(n, 10) \in Digit /\ Tens(n) \in (1..9) \cup {Blank}
           /\ Number(Remainder(n, 10), Tens(n)) = n
<1>1. /\ Remainder(n, 10) \in Digit /\ Quotient(n, 10) \in Digit
      /\ n = Remainder(n, 10) + 10 * Quotient(n, 10)
  BY TwoDigits
<1> DEFINE q == Quotient(n, 10)  r == Remainder(n, 10)
<1> HIDE DEF q, r
<1>2. r \in 0..9 /\ q \in 0..9 /\ n = r + 10 * q
  BY <1>1 DEF q, r, Digit
<1>3. CASE n > 9
  <2>1. q \in 1..9 /\ q # 10
    BY <1>2, <1>3
  <2>2. Tens(n) = q
    BY <1>3 DEF Tens, q
  <2> QED
    BY <1>1, <1>2, <2>1, <2>2 DEF Number, Blank, r
<1>4. CASE ~(n > 9)
  <2>1. Tens(n) = 10 /\ r = n
    BY <1>2, <1>4 DEF Tens, Blank
  <2> QED
    BY <1>1, <1>2, <2>1 DEF Number, Blank, r
<1> QED
  BY <1>3, <1>4

(***************************************************************************)
(* Before its end, and up to 100 minutes, a clock shows the time left,     *)
(* rounded up to whole seconds: never 0:00 before the end, and all four    *)
(* places are digits or dark.                                              *)
(***************************************************************************)
THEOREM ClockShowsTimeLeft ==
    ASSUME NEW left \in Nat, left \div 1000 < 5999
    PROVE  /\ IsTime(setClockTime(left))
           /\ Seconds(setClockTime(left)) = left \div 1000 + 1
<1> DEFINE seconds == Quotient(left, 1000) + 1
           minutes == Quotient(seconds, 60)
           rest == seconds - minutes * 60
<1>1. seconds = left \div 1000 + 1 /\ seconds \in 1..5999
  BY DEF Quotient
<1>2. minutes \in 0..99 /\ rest \in 0..59
  <2>1. minutes = seconds \div 60
    BY <1>1 DEF Quotient
  <2> HIDE DEF seconds
  <2>2. minutes \in 0..99 /\ rest = seconds % 60
    BY <1>1, <2>1
  <2>3. \A n \in Nat : n % 60 \in 0..59
    OBVIOUS
  <2>4. seconds % 60 \in 0..59
    BY <1>1, <2>3
  <2> HIDE DEF minutes, rest
  <2> QED
    BY <2>2, <2>4
<1>3. setClockTime(left) = [s0 |-> Remainder(rest, 10), s1 |-> Quotient(rest, 10),
                            s2 |-> Remainder(minutes, 10), s3 |-> Tens(minutes)]
  BY DEF setClockTime
<1> HIDE DEF rest, minutes
<1>4. /\ Remainder(rest, 10) \in Digit /\ Quotient(rest, 10) \in 0..5
      /\ rest = Remainder(rest, 10) + 10 * Quotient(rest, 10)
  <2>1. /\ Remainder(rest, 10) \in Digit /\ Quotient(rest, 10) \in Digit
        /\ rest = Remainder(rest, 10) + 10 * Quotient(rest, 10)
    BY <1>2, TwoDigits
  <2> QED
    BY <1>2, <2>1 DEF Digit
<1>5. /\ Remainder(minutes, 10) \in Digit /\ Tens(minutes) \in (1..9) \cup {Blank}
      /\ Number(Remainder(minutes, 10), Tens(minutes)) = minutes
  BY <1>2, TensOfNumber
<1>6. Number(Remainder(rest, 10), Quotient(rest, 10)) = rest
  BY <1>2, <1>4 DEF Number, Blank, Digit
<1>7. seconds = rest + 60 * minutes
  BY <1>1, <1>2 DEF rest
<1> QED
  BY <1>1, <1>3, <1>4, <1>5, <1>6, <1>7 DEF IsTime, Seconds

(***************************************************************************)
(* Division towards zero keeps the last second on the clock for a second   *)
(* after the end: the one that the speed game shows when it is over, with  *)
(* a totalTime of getTime()-1, is 0:01; the other games, with -1000, show  *)
(* 0:00.                                                                   *)
(***************************************************************************)
THEOREM LastSecondStays ==
    ASSUME NEW left \in -1999..-1
    PROVE  Seconds(setClockTime(left)) = IF left > -1000 THEN 1 ELSE 0
<1> DEFINE seconds == Quotient(left, 1000) + 1
<1>1. seconds = IF left > -1000 THEN 1 ELSE 0
  BY DEF Quotient
<1>2. \A s \in {0, 1} : /\ Quotient(s, 60) = 0 /\ Quotient(s, 10) = 0 /\ Remainder(s, 10) = s
                        /\ Remainder(0, 10) = 0
  BY DEF Quotient, Remainder
<1>3. setClockTime(left).s0 = seconds /\ setClockTime(left).s1 = 0
      /\ setClockTime(left).s2 = 0 /\ setClockTime(left).s3 = Blank
  BY <1>1, <1>2 DEF setClockTime, Tens
<1> QED
  BY <1>1, <1>3 DEF Seconds, Number, Blank

(***************************************************************************)
(* The time of a flight is shown to the hundredth, cut off, up to 100 s.   *)
(***************************************************************************)
THEOREM FlightTimeIsShown ==
    ASSUME NEW speedTime \in Nat, speedTime \div 1000 < 100
    PROVE  LET d == setLedClockTimeSpeed(speedTime)
           IN /\ {d.s0, d.s1, d.s2} \subseteq Digit /\ d.s3 \in (1..9) \cup {Blank}
              /\ Number(d.s0, d.s1) + 100 * Number(d.s2, d.s3) = speedTime \div 10
<1> DEFINE seconds == Quotient(speedTime, 1000)
           all == Quotient(speedTime, 10)
           hundredths == Remainder(all, 100)
<1>1. seconds = speedTime \div 1000 /\ seconds \in 0..99
      /\ all = speedTime \div 10 /\ all \in Nat
  BY DEF Quotient
<1>2. hundredths \in 0..99 /\ all = 100 * Quotient(all, 100) + hundredths
  <2>1. all \in Nat
    BY <1>1
  <2> HIDE DEF all
  <2> QED
    BY <2>1, Hundreds
<1>3. all = hundredths + 100 * seconds
  <2>1. (speedTime \div 10) \div 100 = speedTime \div 1000
    OBVIOUS
  <2>2. Quotient(all, 100) = seconds
    BY <1>1, <2>1 DEF Quotient
  <2> HIDE DEF all, hundredths, seconds
  <2> QED
    BY <1>1, <1>2, <2>2
<1>4. setLedClockTimeSpeed(speedTime) =
        [s0 |-> Remainder(hundredths, 10), s1 |-> Quotient(hundredths, 10),
         s2 |-> Remainder(seconds, 10), s3 |-> Tens(seconds)]
  BY DEF setLedClockTimeSpeed
<1> HIDE DEF hundredths, seconds, all
<1>5. /\ Remainder(hundredths, 10) \in Digit /\ Quotient(hundredths, 10) \in Digit
      /\ hundredths = Remainder(hundredths, 10) + 10 * Quotient(hundredths, 10)
  BY <1>2, TwoDigits
<1>6. Number(Remainder(hundredths, 10), Quotient(hundredths, 10)) = hundredths
  BY <1>2, <1>5 DEF Number, Blank, Digit
<1>7. /\ Remainder(seconds, 10) \in Digit /\ Tens(seconds) \in (1..9) \cup {Blank}
      /\ Number(Remainder(seconds, 10), Tens(seconds)) = seconds
  BY <1>1, TensOfNumber
<1> QED
  BY <1>1, <1>3, <1>4, <1>5, <1>6, <1>7

(***************************************************************************)
(* The 60 seconds are shown as they are, and nothing when they do not run. *)
(***************************************************************************)
THEOREM SixtySecondsAreShown ==
    ASSUME NEW timeLeft \in -1..60
    PROVE  LET d == setClock60Speed(timeLeft)
           IN IF timeLeft = -1 THEN d.s0 = Blank /\ d.s1 = Blank
              ELSE d.s0 \in Digit /\ d.s1 \in 0..6 /\ Number(d.s0, d.s1) = timeLeft
<1>1. CASE timeLeft = -1
  BY <1>1 DEF setClock60Speed
<1>2. CASE timeLeft \in 0..60
  <2>1. /\ Remainder(timeLeft, 10) \in Digit /\ Quotient(timeLeft, 10) \in Digit
        /\ timeLeft = Remainder(timeLeft, 10) + 10 * Quotient(timeLeft, 10)
    BY <1>2, TwoDigits
  <2>2. Quotient(timeLeft, 10) \in 0..6
    BY <1>2, <2>1 DEF Digit
  <2>3. setClock60Speed(timeLeft) =
          [s0 |-> Remainder(timeLeft, 10), s1 |-> Quotient(timeLeft, 10)]
    BY <1>2 DEF setClock60Speed
  <2> QED
    BY <1>2, <2>1, <2>2, <2>3 DEF Number, Blank
<1> QED
  BY <1>1, <1>2
================================================================================

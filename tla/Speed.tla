--------------------------------- MODULE Speed ---------------------------------
(***************************************************************************)
(* The speed game of MainBoard/script.lua, with the setup loop before it.  *)
(*                                                                         *)
(* In a working time the pilot makes flights of four legs between station  *)
(* A and station B; a press of either of two players' buttons counts as a  *)
(* turn.  A finished flight starts the working time again: the ticks are   *)
(* set back to 0 in the middle of the loop that handles the events.        *)
(***************************************************************************)
EXTENDS Setup

CONSTANTS
  SPEED_WORK_TIME,  \* the working time
  TURN_GAP,         \* 1000 in the code: turns this close together are one
  LAUNCH_TIME,      \* 60*1000 in the code: from the launch to the first timing
  MaxStart          \* bound: the ms that pass inside getTime(1)

ASSUME SpeedAssumption ==
  /\ SPEED_WORK_TIME \in Nat /\ TURN_GAP \in Nat /\ LAUNCH_TIME \in Nat
  /\ MaxStart \in Nat
  /\ MaxTicks >= MaxStart + SPEED_WORK_TIME
  /\ Wall # -1
  /\ NoteOrigin = TRUE

VARIABLES
  started, now, start,
  state,           \* 0, 1: before the timing; 10 .. 13: legs flown; 20: too late
  flightStart, lastflighttime, lastEventTime, speed60Time,
  sawOld,          \* history: a turn stamped before the ticks were last set
                   \* back was accepted after that
  nowOld,          \* history: now was read before the ticks were last set back
  timerOld         \* history: speed60Time was set from such a now

seen == <<sawOld, nowOld, timerOld>>
timers == <<flightStart, lastflighttime, lastEventTime, speed60Time>>
gameVars == <<started, now, start, state, timers, seen>>
vars == <<inputVars, pc, gameVars>>

Unset == -1
Timing == 10 .. 13
BeforeTiming == {0, 1}
TooLate == 20

Init ==
  /\ InputInit
  /\ pc = "setup"
  /\ started = FALSE
  /\ now = 0 /\ start = 0 /\ state = 0
  /\ flightStart = Unset /\ lastflighttime = Unset
  /\ lastEventTime = Unset /\ speed60Time = Unset
  /\ sawOld = FALSE /\ nowOld = FALSE /\ timerOld = FALSE
--------------------------------------------------------------------------------
(***************************************************************************)
(* Waiting for the start button or the web action; the global reset button *)
(* ends the run of the script at once.                                     *)
(***************************************************************************)
WaitEvent ==
  /\ pc = "wait"
  /\ HasEvent /\ PopEvent
  /\ LET t == resolveButton(Head(events).button).t
     IN /\ pc' = IF t = GlobalReset THEN "restart" ELSE "wait"
        /\ started' = (started \/ t = StartButton)
  /\ UNCHANGED <<now, start, state, timers, seen>>

WaitNoEvent ==
  /\ pc = "wait"
  /\ FindNone
  /\ pc' = "waitWeb"
  /\ UNCHANGED gameVars

WaitWeb ==
  /\ pc = "waitWeb"
  /\ getWebAction
  /\ started' = (started \/ webAction = "Start")
  /\ pc' = IF started' THEN "clear" ELSE "wait"
  /\ UNCHANGED <<now, start, state, timers, seen>>

StartClear ==
  /\ pc = "clear"
  /\ clearButtonEvents
  /\ pc' = "rebase"
  /\ UNCHANGED gameVars

StartRebase ==
  /\ pc = "rebase"
  /\ Rebase
  /\ pc' = "start"
  /\ UNCHANGED gameVars

StartTime ==
  /\ pc = "start"
  /\ now' = getTicks /\ start' = getTicks
  /\ flightStart' = Unset /\ lastflighttime' = Unset
  /\ lastEventTime' = Unset /\ speed60Time' = Unset
  /\ state' = 0
  /\ sawOld' = FALSE /\ nowOld' = FALSE /\ timerOld' = FALSE
  /\ pc' = "loop"
  /\ UNCHANGED <<inputVars, started>>
--------------------------------------------------------------------------------
(***************************************************************************)
(* The top of a turn: the end of the working time, and the 60 seconds.     *)
(***************************************************************************)
InTime == now < start + SPEED_WORK_TIME
LaunchOver == speed60Time > Unset /\ now - speed60Time > LAUNCH_TIME

Loop ==
  /\ pc = "loop"
  /\ InTime
  /\ state' = IF LaunchOver /\ state < 10 THEN TooLate ELSE state
  /\ pc' = "web"
  /\ UNCHANGED <<inputVars, started, now, start, timers, seen>>

LoopWeb ==
  /\ pc = "web"
  /\ getWebAction
  /\ pc' = IF webAction = "Reset" THEN "restart" ELSE "drain"
  /\ UNCHANGED gameVars
--------------------------------------------------------------------------------
(***************************************************************************)
(* One event.  Turns are presses of player 1's or 2's station buttons that *)
(* are not too close to the turn before.                                   *)
(***************************************************************************)
IsTurn(b, time) ==
  /\ b.p \in {1, 2} /\ b.t \in {StationA, StationB}
  /\ lastEventTime = Unset \/ time - lastEventTime > TURN_GAP

\* Mutant of NextState: any station ends a leg.
NextState_AnyStation(t) ==
  CASE state = 0  /\ t = StationA -> 1
    [] state = 1  /\ t = StationA -> 10
    [] state \in Timing -> state + 1
    [] OTHER -> state

\* The state that a turn at station t leads to.
NextState(t) ==
  CASE state = 0  /\ t = StationA -> 1
    [] state = 1  /\ t = StationA -> 10
    [] state = 10 /\ t = StationB -> 11
    [] state = 11 /\ t = StationA -> 12
    [] state = 12 /\ t = StationB -> 13
    [] OTHER -> state

Finishes(t) == state = 13 /\ t = StationA

\* Mutant of Turn: the debounce time is not kept.
Turn_NoDebounce(b, ev) ==
  /\ IsTurn(b, ev.time) /\ ~Finishes(b.t)
  /\ lastEventTime' = lastEventTime
  /\ state' = NextState(b.t)
  /\ IF state = 1 /\ b.t = StationA
     THEN flightStart' = ev.time /\ speed60Time' = Unset
     ELSE UNCHANGED <<flightStart, speed60Time>>
  /\ sawOld' = (sawOld \/ ev.old)
  /\ UNCHANGED <<pc, lastflighttime, nowOld, timerOld>>

\* Mutant of Turn: the 60 seconds run on when the timing starts.
Turn_KeepsTimer(b, ev) ==
  /\ IsTurn(b, ev.time) /\ ~Finishes(b.t)
  /\ lastEventTime' = ev.time
  /\ state' = NextState(b.t)
  /\ flightStart' = IF state = 1 /\ b.t = StationA THEN ev.time ELSE flightStart
  /\ sawOld' = (sawOld \/ ev.old)
  /\ UNCHANGED <<pc, lastflighttime, speed60Time, nowOld, timerOld>>

Turn(b, ev) ==
  /\ IsTurn(b, ev.time) /\ ~Finishes(b.t)
  /\ lastEventTime' = ev.time
  /\ state' = NextState(b.t)
  /\ IF state = 1 /\ b.t = StationA
     THEN flightStart' = ev.time /\ speed60Time' = Unset
     ELSE UNCHANGED <<flightStart, speed60Time>>
  /\ sawOld' = (sawOld \/ ev.old)
  /\ UNCHANGED <<pc, lastflighttime, nowOld, timerOld>>

LastTurn(b, ev) ==
  /\ IsTurn(b, ev.time) /\ Finishes(b.t)
  /\ lastEventTime' = ev.time
  /\ lastflighttime' = ev.time - flightStart
  /\ sawOld' = (sawOld \/ ev.old)
  /\ pc' = "finishZero"
  /\ UNCHANGED <<state, flightStart, speed60Time, nowOld, timerOld>>

RelaunchPilot(b, ev) ==
  /\ b.t = Relaunch /\ b.p \in {1, 2}
  /\ state \in BeforeTiming \cup {TooLate}
  /\ state' = 0
  /\ flightStart' = Unset /\ speed60Time' = Unset
  /\ UNCHANGED <<pc, lastflighttime, lastEventTime, seen>>

\* Mutant of StartTimer: the 60 seconds begin at the press.
StartTimer_Pressed(b, ev) ==
  /\ b.p = 5
  /\ speed60Time = Unset /\ state < 10
  /\ speed60Time' = ev.time
  /\ timerOld' = nowOld
  /\ UNCHANGED <<pc, state, flightStart, lastflighttime, lastEventTime, sawOld, nowOld>>

\* Any button of player 5 starts the 60 seconds, at the time of the last turn of
\* the loop.
StartTimer(b, ev) ==
  /\ b.p = 5
  /\ speed60Time = Unset /\ state < 10
  /\ speed60Time' = now
  /\ timerOld' = nowOld
  /\ UNCHANGED <<pc, state, flightStart, lastflighttime, lastEventTime, sawOld, nowOld>>

ResetPressed(b, ev) ==
  /\ b.t = GlobalReset
  /\ pc' = "restart"
  /\ UNCHANGED <<state, timers, seen>>

Ignored(b, ev) ==
  /\ b.t # GlobalReset
  /\ ~IsTurn(b, ev.time)
  /\ ~(b.t = Relaunch /\ b.p \in {1, 2} /\ state \in BeforeTiming \cup {TooLate})
  /\ ~(b.p = 5 /\ speed60Time = Unset /\ state < 10)
  /\ UNCHANGED <<pc, state, timers, seen>>

Handle(b, ev) ==
  \/ Turn(b, ev) \/ LastTurn(b, ev)
  \/ RelaunchPilot(b, ev) \/ StartTimer(b, ev)
  \/ ResetPressed(b, ev) \/ Ignored(b, ev)

DrainEvent ==
  /\ pc = "drain"
  /\ HasEvent /\ PopEvent
  /\ Handle(resolveButton(Head(events).button), Head(events))
  /\ UNCHANGED <<started, now, start>>
--------------------------------------------------------------------------------
(***************************************************************************)
(* After the last turn: getTime(1), in its two stores, the start of the    *)
(* new working time, and the event list cleared.                           *)
(***************************************************************************)
FinishZero ==
  /\ pc = "finishZero"
  /\ TicksOff
  /\ pc' = "finishRebase"
  /\ nowOld' = TRUE
  /\ UNCHANGED <<started, now, start, state, timers, sawOld, timerOld>>

FinishRebase ==
  /\ pc = "finishRebase"
  /\ Rebase
  /\ pc' = "finishStart"
  /\ UNCHANGED gameVars

FinishStart ==
  /\ pc = "finishStart"
  /\ start' = getTicks
  /\ lastEventTime' = getTicks
  /\ sawOld' = FALSE
  /\ pc' = "finishClear"
  /\ UNCHANGED <<inputVars, started, now, state, flightStart, lastflighttime,
                 speed60Time, nowOld, timerOld>>

FinishClear ==
  /\ pc = "finishClear"
  /\ clearButtonEvents
  /\ state' = 0
  /\ flightStart' = Unset
  /\ pc' = "drain"
  /\ UNCHANGED <<started, now, start, lastflighttime, lastEventTime, speed60Time,
                 seen>>
--------------------------------------------------------------------------------
DrainNoEvent ==
  /\ pc = "drain"
  /\ FindNone
  /\ pc' = "time"
  /\ UNCHANGED gameVars

\* Mutant of LoopTime: now keeps the time of the start.
LoopTime_Stale ==
  /\ pc = "time"
  /\ pc' = "loop"
  /\ UNCHANGED <<inputVars, gameVars>>

LoopTime ==
  /\ pc = "time"
  /\ now' = getTicks
  /\ nowOld' = FALSE
  /\ pc' = "loop"
  /\ UNCHANGED <<inputVars, started, start, state, timers, sawOld, timerOld>>

\* Out of working time: back to waiting for the start, in the same run.
LoopEnd ==
  /\ pc = "loop"
  /\ ~InTime
  /\ TicksOff
  /\ started' = FALSE
  /\ pc' = "wait"
  /\ UNCHANGED <<now, start, state, timers, seen>>

Restart ==
  /\ pc = "restart"
  /\ TicksOff
  /\ started' = FALSE
  /\ now' = 0 /\ start' = 0 /\ state' = 0
  /\ flightStart' = Unset /\ lastflighttime' = Unset
  /\ lastEventTime' = Unset /\ speed60Time' = Unset
  /\ sawOld' = FALSE /\ nowOld' = FALSE /\ timerOld' = FALSE
  /\ pc' = "setup"
--------------------------------------------------------------------------------
Script ==
  \/ SetupLoop("Speed") /\ UNCHANGED gameVars
  \/ WaitEvent \/ WaitNoEvent \/ WaitWeb
  \/ StartClear \/ StartRebase \/ StartTime
  \/ Loop \/ LoopWeb \/ DrainEvent \/ DrainNoEvent \/ LoopTime \/ LoopEnd
  \/ FinishZero \/ FinishRebase \/ FinishStart \/ FinishClear
  \/ Restart

StartIsShort == pc \in {"start", "finishStart"} => ticks' <= MaxStart

Next ==
  \/ Outside /\ StartIsShort /\ UNCHANGED <<pc, gameVars>>
  \/ AnyPress /\ UNCHANGED <<pc, gameVars>>
  \/ Script

Spec == Init /\ [][Next]_vars

\* As in Distance: the clock and the script run, and the list gets empty.
Fairness ==
  /\ WF_vars(Tick /\ StartIsShort /\ UNCHANGED <<pc, gameVars>>)
  /\ WF_vars(Script)
  /\ SF_vars(DrainNoEvent)

FairSpec == Spec /\ Fairness
--------------------------------------------------------------------------------
GameTypeOK ==
  /\ pc \in {"setup", "setupWeb", "setupClear", "wait", "waitWeb", "clear",
             "rebase", "start", "loop", "web", "drain", "finishZero",
             "finishRebase", "finishStart", "finishClear", "time", "restart"}
  /\ started \in BOOLEAN
  /\ now \in Int /\ start \in Int
  /\ state \in BeforeTiming \cup Timing \cup {TooLate}
  /\ flightStart \in Int /\ lastflighttime \in Int
  /\ lastEventTime \in Int /\ speed60Time \in Int
  /\ sawOld \in BOOLEAN /\ nowOld \in BOOLEAN /\ timerOld \in BOOLEAN

(* Every variable keeps its type. *)
TypeOK == InputTypeOK /\ GameTypeOK

(* A flight is being timed exactly while it has a start time, and then the 60
   seconds do not run; a pilot is only too late while they have run out. *)
TimingConsistent ==
  /\ state \in Timing <=> flightStart # Unset
  /\ state \in Timing => speed60Time = Unset
  /\ state = TooLate => speed60Time # Unset

(* The time of a flight is the time of its four legs, each of which is longer
   than the gap: no bouncing button, reordered stamp, relaunch or new tick
   origin ever produces a shorter one. *)
FlightTimeFloor == lastflighttime = Unset \/ lastflighttime > 4 * TURN_GAP

(* Neither the debounce nor the 60 seconds look into the future, where the one
   would shut out every turn until the ticks got there and the other would give
   the pilot more than 60 of them: unless a turn stamped before the ticks were
   set back was accepted after it, or the 60 seconds were begun between the end
   of a flight and the next reading of the time. *)
TimesFollowClock ==
  pc \in {"loop", "web", "drain", "time"} =>
    /\ ~sawOld => lastEventTime <= ticks
    /\ ~timerOld => speed60Time <= ticks

(* A working time ends or is started again by a finished flight, if the script
   catches up with the presses again and again. *)
WorkTimeEnds ==
  []<>(events = <<>>) => (pc = "loop" ~> pc \in {"wait", "restart", "finishStart"})
================================================================================

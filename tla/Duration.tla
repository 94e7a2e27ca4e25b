-------------------------------- MODULE Duration --------------------------------
(***************************************************************************)
(* The duration game of MainBoard/script.lua, with the setup loop before   *)
(* it and the restart of the script by luaLoop after it.                   *)
(*                                                                         *)
(* Two working times may run at once.  A start takes the place of the one  *)
(* with the smaller start time, where -1 is a working time not running.    *)
(***************************************************************************)
EXTENDS Setup

CONSTANT DURATION_WORK_TIME

ASSUME DurationAssumption == DURATION_WORK_TIME \in Nat

VARIABLES
  startTime1, startTime2,
  event,       \* button and time, the local variables of the loop; None is nil
  replaced,    \* history: times that were running when a start replaced them
  overtaken,   \* history: a start was older than both times that were running
  resetLost    \* history: a web Start took the place of a reset button

gameVars == <<startTime1, startTime2, event, replaced, overtaken, resetLost>>
history == <<replaced, overtaken, resetLost>>
vars == <<inputVars, pc, gameVars>>

Idle == -1
GameInit ==
  /\ startTime1 = Idle /\ startTime2 = Idle
  /\ event = None
  /\ replaced = {} /\ overtaken = FALSE /\ resetLost = FALSE

Init == InputInit /\ pc = "setup" /\ GameInit
--------------------------------------------------------------------------------
Start ==
  /\ pc = "wait"
  /\ Rebase
  /\ pc' = "time1"
  /\ UNCHANGED gameVars

(***************************************************************************)
(* A turn of the loop begins with the working times that are over.         *)
(***************************************************************************)
Over(startTime) == startTime > Idle /\ (DURATION_WORK_TIME + startTime) - getTicks < 0

Time1 ==
  /\ pc = "time1"
  /\ startTime1' = IF Over(startTime1) THEN Idle ELSE startTime1
  /\ pc' = "time2"
  /\ UNCHANGED <<inputVars, startTime2, event, history>>

\* Mutant of Time2: the end of the second time stops the first.
Time2_StopsFirst ==
  /\ pc = "time2"
  /\ startTime1' = IF Over(startTime2) THEN Idle ELSE startTime1
  /\ pc' = "event"
  /\ UNCHANGED <<inputVars, startTime2, event, history>>

Time2 ==
  /\ pc = "time2"
  /\ startTime2' = IF Over(startTime2) THEN Idle ELSE startTime2
  /\ pc' = "event"
  /\ UNCHANGED <<inputVars, startTime1, event, history>>

(***************************************************************************)
(* Then an event and a web action are fetched, and Start puts itself in    *)
(* the place of the event.                                                 *)
(***************************************************************************)
FetchEvent ==
  /\ pc = "event"
  /\ \/ HasEvent /\ PopEvent /\ event' = Head(events)
     \/ FindNone /\ event' = None
  /\ pc' = "web"
  /\ UNCHANGED <<startTime1, startTime2, history>>

IsReset(ev) == ev # None /\ resolveButton(ev.button).t = GlobalReset

FetchWeb ==
  /\ pc = "web"
  /\ getWebAction
  /\ event' = IF webAction = "Start"
              THEN [button |-> 2, time |-> getTicks, old |-> FALSE] ELSE event
  /\ resetLost' = (resetLost \/ (webAction = "Start" /\ IsReset(event)))
  /\ pc' = IF webAction = "Reset" THEN "restart"
           ELSE IF event' = None THEN "time1" ELSE "handle"
  /\ UNCHANGED <<startTime1, startTime2, replaced, overtaken>>

(***************************************************************************)
(* This event and all that have come meanwhile are handled.                *)
(***************************************************************************)
Type == resolveButton(event.button).t

\* Mutant of StartPress: the other of the two times is replaced.
StartPress_Other ==
  /\ Type = StartButton
  /\ IF startTime2 > startTime1
     THEN startTime2' = event.time /\ UNCHANGED startTime1
     ELSE startTime1' = event.time /\ UNCHANGED startTime2
  /\ replaced' = replaced
       \cup ({IF startTime2 > startTime1 THEN startTime2 ELSE startTime1} \ {Idle})
  /\ overtaken' = (overtaken \/ (event.time < startTime1 /\ event.time < startTime2))
  /\ pc' = "next"
  /\ UNCHANGED <<event, resetLost>>

StartPress ==
  /\ Type = StartButton
  /\ IF startTime2 < startTime1
     THEN startTime2' = event.time /\ UNCHANGED startTime1
     ELSE startTime1' = event.time /\ UNCHANGED startTime2
  /\ replaced' = replaced
       \cup ({IF startTime2 < startTime1 THEN startTime2 ELSE startTime1} \ {Idle})
  /\ overtaken' = (overtaken \/ (event.time < startTime1 /\ event.time < startTime2))
  /\ pc' = "next"
  /\ UNCHANGED <<event, resetLost>>

ResetPress ==
  /\ Type = GlobalReset
  /\ pc' = "restart"
  /\ UNCHANGED gameVars

OtherPress ==
  /\ Type \notin {StartButton, GlobalReset}
  /\ pc' = "next"
  /\ UNCHANGED gameVars

Handle ==
  /\ pc = "handle"
  /\ StartPress \/ ResetPress \/ OtherPress
  /\ UNCHANGED inputVars

NextEvent ==
  /\ pc = "next"
  /\ HasEvent /\ PopEvent
  /\ event' = Head(events)
  /\ pc' = "handle"
  /\ UNCHANGED <<startTime1, startTime2, history>>

\* Mutant of NextNoEvent: the list is cleared.
NextNoEvent_Clears ==
  /\ pc = "next"
  /\ clearButtonEvents
  /\ event' = None
  /\ pc' = "time1"
  /\ UNCHANGED <<startTime1, startTime2, history>>

NextNoEvent ==
  /\ pc = "next"
  /\ FindNone
  /\ event' = None
  /\ pc' = "time1"
  /\ UNCHANGED <<startTime1, startTime2, history>>

Restart ==
  /\ pc = "restart"
  /\ TicksOff
  /\ pc' = "setup"
  /\ startTime1' = Idle /\ startTime2' = Idle
  /\ event' = None
  /\ replaced' = {} /\ overtaken' = FALSE /\ resetLost' = FALSE
--------------------------------------------------------------------------------
Script ==
  \/ SetupLoop("Duration") /\ UNCHANGED gameVars
  \/ Start \/ Time1 \/ Time2 \/ FetchEvent \/ FetchWeb
  \/ Handle \/ NextEvent \/ NextNoEvent \/ Restart

Next ==
  \/ Outside /\ UNCHANGED <<pc, gameVars>>
  \/ AnyPress /\ UNCHANGED <<pc, gameVars>>
  \/ Script

Spec == Init /\ [][Next]_vars

\* As in the other games: the clock and the script run on, and the script
\* empties the list in the end.
FairSpec ==
  /\ Spec
  /\ WF_vars(Tick /\ UNCHANGED <<pc, gameVars>>)
  /\ WF_vars(Script)
  /\ SF_vars(NextNoEvent)
--------------------------------------------------------------------------------
(* The working times that run are those of the two latest starts: one that was
   replaced while it was running is older than both, or its time is over.  Only
   a press older than both times, which was held up behind two later starts, from
   the web or from the other thread that pushes, can put itself in the place of a
   later one. *)
LatestTwoRun ==
  \/ overtaken
  \/ \A s \in replaced :
       \/ s <= startTime1 /\ s <= startTime2
       \/ s + DURATION_WORK_TIME < getTicks

(* A working time that began on the ticks of the game ends, if the script
   catches up with the presses again and again, and with the last one handled
   finds no more. *)
WorkTimesEnd ==
  []<>(events = <<>> /\ pc # "handle") =>
    \A s \in {t \in 0 .. MaxTicks : t + DURATION_WORK_TIME < MaxTicks} :
      (startTime1 = s ~> startTime1 # s) /\ (startTime2 = s ~> startTime2 # s)

(* A reset that has been pressed in a game ends it, whatever else is pressed,
   unless a web Start takes its place. *)
ResetEndsGame ==
  (pc \in {"event", "next"} /\ \E i \in DOMAIN events : IsReset(events[i]))
    ~> (pc = "restart" \/ resetLost)
================================================================================

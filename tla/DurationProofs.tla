---------------------------- MODULE DurationProofs ----------------------------
(***************************************************************************)
(* A theorem about the duration game, for any working time, and any        *)
(* presses and web actions in any order.                                   *)
(***************************************************************************)
EXTENDS Duration, ScriptInputProofs

(* Every action of the script is one of its calls of the rest of the program,
   or none. *)
LEMMA ScriptCalls ==
  ASSUME Script
  PROVE  \/ HasEvent /\ PopEvent
         \/ FindNone
         \/ clearButtonEvents
         \/ getWebAction
         \/ TicksOff
         \/ Rebase
         \/ UNCHANGED inputVars
<1>1. CASE SetupLoop("Duration")
  BY <1>1 DEF SetupLoop, SetupEvent, SetupWeb, SetupClear
<1>2. CASE Start \/ Time1 \/ Time2 \/ FetchEvent \/ FetchWeb
  BY <1>2 DEF Start, Time1, Time2, FetchEvent, FetchWeb, inputVars
<1>3. CASE Handle \/ NextEvent \/ NextNoEvent \/ Restart
  BY <1>3 DEF Handle, NextEvent, NextNoEvent, Restart
<1> QED
  BY <1>1, <1>2, <1>3 DEF Script

(* The event list, the ticks and the web action keep their types. *)
LEMMA InputStep == InputTypeOK /\ [Next]_vars => InputTypeOK'
<1> SUFFICES ASSUME InputTypeOK, [Next]_vars PROVE InputTypeOK'
  OBVIOUS
<1>1. CASE Outside
  BY <1>1, OutsideTypes
<1>2. CASE AnyPress
  BY <1>2, PressTypes
<1>3. CASE Script
  BY <1>3, ScriptCalls, CallTypes
<1>4. CASE UNCHANGED vars
  BY <1>4, CallTypes DEF vars
<1> QED
  BY <1>1, <1>2, <1>3, <1>4 DEF Next

--------------------------------------------------------------------------------
(***************************************************************************)
(* That the two latest starts run is inductive once it is known that the   *)
(* ticks run through the game, and that no time has been replaced when     *)
(* they are set to 0.  A working time that is over takes those it had      *)
(* replaced with it: they are older, so they are over too.                 *)
(***************************************************************************)
Waiting == pc \in {"setup", "setupWeb", "setupClear", "wait"}
InLoop == pc \in {"time1", "time2", "event", "web", "handle", "next"}

GameTypeOK ==
  /\ Waiting \/ InLoop \/ pc = "restart"
  /\ startTime1 \in Int /\ startTime2 \in Int
  /\ event \in ButtonEvent \cup {None}
  /\ pc = "handle" => event # None
  /\ replaced \subseteq Int

DurationInv ==
  /\ GameTypeOK
  /\ InLoop => based
  /\ Waiting => replaced = {}
  /\ LatestTwoRun

(* A time that was replaced: it is older than the two that run, or over. *)
Past(s) ==
  \/ s <= startTime1 /\ s <= startTime2
  \/ s + DURATION_WORK_TIME < getTicks

LEMMA PastAll == LatestTwoRun <=> overtaken \/ \A s \in replaced : Past(s)
BY DEF LatestTwoRun, Past

(* Steps that change neither the game's times nor, in a game, set the ticks
   back. *)
LEMMA DurationKept ==
  ASSUME InputTypeOK, DurationInv, GameTypeOK',
         UNCHANGED <<startTime1, startTime2, replaced, overtaken, based>>,
         ticks' = ticks \/ (based /\ ticks' = ticks + 1),
         InLoop' => InLoop, Waiting' => Waiting
  PROVE  DurationInv'
<1>1. /\ ticks \in Nat /\ DURATION_WORK_TIME \in Nat /\ replaced \subseteq Int
      /\ startTime1 \in Int /\ startTime2 \in Int
  BY DurationAssumption DEF InputTypeOK, DurationInv, GameTypeOK
<1>2. getTicks' = getTicks \/ (getTicks = ticks /\ getTicks' = ticks + 1)
  BY DEF getTicks
<1>3. ASSUME NEW s \in replaced, Past(s) PROVE Past(s)'
  <2>1. s \in Int
    BY <1>1
  <2>2. CASE s <= startTime1 /\ s <= startTime2
    BY <2>2 DEF Past
  <2>3. CASE s + DURATION_WORK_TIME < getTicks
    BY <1>1, <1>2, <2>1, <2>3 DEF Past
  <2> QED
    BY <1>3, <2>2, <2>3 DEF Past
<1>4. LatestTwoRun'
  BY <1>3 DEF DurationInv, LatestTwoRun, Past
<1> QED
  BY <1>4 DEF DurationInv

(* The times that are over. *)
LEMMA TimesOver ==
  ASSUME InputTypeOK, DurationInv, Time1 \/ Time2
  PROVE  DurationInv'
<1>1. /\ ticks \in Nat /\ DURATION_WORK_TIME \in Nat /\ replaced \subseteq Int
      /\ startTime1 \in Int /\ startTime2 \in Int
      /\ based /\ getTicks = ticks /\ getTicks' = ticks
      /\ UNCHANGED <<event, replaced, overtaken, based>>
  BY DurationAssumption DEF InputTypeOK, DurationInv, GameTypeOK, InLoop, Time1, Time2,
                            inputVars, getTicks, history
<1>2. /\ \/ startTime1' = startTime1
         \/ startTime1' = -1 /\ startTime1 + DURATION_WORK_TIME < ticks
      /\ \/ startTime2' = startTime2
         \/ startTime2' = -1 /\ startTime2 + DURATION_WORK_TIME < ticks
  BY <1>1 DEF Time1, Time2, Over, Idle
<1>3. ASSUME NEW s \in replaced, Past(s) PROVE Past(s)'
  <2>1. s \in Int
    BY <1>1
  <2>2. CASE s <= startTime1 /\ s <= startTime2
    BY <1>1, <1>2, <2>1, <2>2 DEF Past
  <2>3. CASE s + DURATION_WORK_TIME < ticks
    BY <1>1, <2>3 DEF Past
  <2> QED
    BY <1>1, <1>3, <2>2, <2>3 DEF Past
<1>4. LatestTwoRun'
  BY <1>1, <1>3 DEF DurationInv, LatestTwoRun, Past
<1>5. GameTypeOK' /\ InLoop'
  BY <1>1, <1>2 DEF DurationInv, GameTypeOK, Time1, Time2, InLoop, Waiting
<1>6. ~Waiting'
  BY DEF Time1, Time2, Waiting
<1> QED
  BY <1>1, <1>4, <1>5, <1>6 DEF DurationInv

(* A start takes the place of the older of the two times. *)
LEMMA StartReplaces ==
  ASSUME InputTypeOK, DurationInv, pc = "handle", StartPress, UNCHANGED inputVars
  PROVE  DurationInv'
<1> DEFINE t == event.time
<1>1. /\ ticks \in Nat /\ DURATION_WORK_TIME \in Nat /\ replaced \subseteq Int
      /\ startTime1 \in Int /\ startTime2 \in Int /\ t \in Int
      /\ based /\ UNCHANGED <<based, ticks, event>> /\ pc' = "next"
  BY InputAssumption, DurationAssumption
     DEF InputTypeOK, DurationInv, GameTypeOK, InLoop, StartPress, inputVars,
         ButtonEvent, Stamps
<1>2. /\ \/ /\ startTime2 < startTime1
            /\ startTime2' = t /\ startTime1' = startTime1
            /\ replaced' = replaced \cup ({startTime2} \ {Idle})
         \/ /\ ~(startTime2 < startTime1)
            /\ startTime1' = t /\ startTime2' = startTime2
            /\ replaced' = replaced \cup ({startTime1} \ {Idle})
      /\ overtaken' <=> overtaken \/ (t < startTime1 /\ t < startTime2)
  BY DEF StartPress
<1> HIDE DEF t
<1>3. getTicks' = getTicks
  BY <1>1 DEF getTicks
<1>4. GameTypeOK'
  <2>1. event' \in ButtonEvent \cup {None}
    BY <1>1 DEF DurationInv, GameTypeOK
  <2>2. startTime1' \in Int /\ startTime2' \in Int /\ replaced' \subseteq Int
    BY <1>1, <1>2
  <2> QED
    BY <1>1, <2>1, <2>2 DEF GameTypeOK, InLoop
<1>5. ASSUME ~overtaken' PROVE \A s \in replaced' : Past(s)'
  <2>1. ~overtaken /\ ~(t < startTime1 /\ t < startTime2)
    BY <1>2, <1>5
  <2>2. \A s \in replaced : Past(s)
    BY <2>1, PastAll DEF DurationInv
  <2>3. SUFFICES ASSUME NEW s \in replaced' PROVE Past(s)'
    OBVIOUS
  <2>4. CASE s \in replaced
    <3>1. s \in Int
      BY <1>1, <2>4
    <3>2. CASE s <= startTime1 /\ s <= startTime2
      BY <1>1, <1>2, <2>1, <3>1, <3>2 DEF Past
    <3>3. CASE s + DURATION_WORK_TIME < getTicks
      BY <1>3, <3>3 DEF Past
    <3> QED
      BY <2>2, <2>4, <3>2, <3>3 DEF Past
  <2>5. CASE s \notin replaced
    BY <1>1, <1>2, <2>1, <2>5 DEF Past
  <2> QED
    BY <2>4, <2>5
<1>6. LatestTwoRun'
  BY <1>5 DEF LatestTwoRun, Past
<1> QED
  BY <1>1, <1>4, <1>6 DEF DurationInv, InLoop, Waiting

(* The event that is fetched, or put in its place. *)
LEMMA FetchTypes ==
  ASSUME InputTypeOK, DurationInv, FetchEvent \/ FetchWeb \/ NextEvent \/ NextNoEvent
  PROVE  DurationInv'
<1>1. event' \in ButtonEvent \cup {None}
  <2>1. CASE FetchEvent \/ NextEvent \/ NextNoEvent
    BY <2>1, HeadEvent DEF FetchEvent, NextEvent, NextNoEvent
  <2>2. CASE FetchWeb
    <3>1. getTicks \in Stamps /\ 2 \in 0 .. 31
      BY DEF InputTypeOK, getTicks, Stamps
    <3>2. [button |-> 2, time |-> getTicks, old |-> FALSE] \in ButtonEvent
      BY <3>1 DEF ButtonEvent
    <3> QED
      BY <2>2, <3>2 DEF FetchWeb, DurationInv, GameTypeOK
  <2> QED
    BY <2>1, <2>2
<1>2. pc' = "handle" => event' # None
  <2>1. CASE NextEvent
    BY <2>1, HeadEvent, NoneAssumption DEF NextEvent
  <2>2. CASE FetchEvent \/ FetchWeb \/ NextNoEvent
    BY <2>2 DEF FetchEvent, FetchWeb, NextNoEvent
  <2> QED
    BY <2>1, <2>2
<1>3. /\ UNCHANGED <<startTime1, startTime2, replaced, overtaken, based, ticks>>
      /\ pc' \in {"web", "restart", "time1", "handle"} /\ InLoop
  BY DEF FetchEvent, FetchWeb, NextEvent, NextNoEvent, PopEvent, FindNone,
         getWebAction, inputVars, history, InLoop
<1>4. GameTypeOK'
  BY <1>1, <1>2, <1>3 DEF DurationInv, GameTypeOK, InLoop
<1>5. ~Waiting'
  BY <1>3 DEF Waiting
<1> QED
  BY <1>3, <1>4, <1>5, DurationKept

LEMMA DurationStep == InputTypeOK /\ DurationInv /\ [Next]_vars => DurationInv'
<1> SUFFICES ASSUME InputTypeOK, DurationInv, [Next]_vars PROVE DurationInv'
  OBVIOUS
<1>0. GameTypeOK
  BY DEF DurationInv
<1>1. CASE Outside /\ UNCHANGED <<pc, gameVars>>
  <2>1. UNCHANGED based /\ (ticks' = ticks \/ (based /\ ticks' = ticks + 1))
    BY <1>1 DEF Outside, Tick, Deliver, WebRequest
  <2> QED
    BY <1>0, <1>1, <2>1, DurationKept DEF gameVars, GameTypeOK, InLoop, Waiting
<1>2. CASE AnyPress /\ UNCHANGED <<pc, gameVars>>
  BY <1>0, <1>2, DurationKept DEF AnyPress, Press, gameVars, GameTypeOK,
     InLoop, Waiting
<1>3. CASE SetupLoop("Duration") /\ UNCHANGED gameVars
  <2>1. Waiting /\ Waiting' /\ ~InLoop' /\ UNCHANGED gameVars /\ pc' # "handle"
    BY <1>3 DEF SetupLoop, SetupEvent, SetupWeb, SetupClear, Waiting, InLoop
  <2> QED
    BY <1>0, <2>1 DEF DurationInv, GameTypeOK, LatestTwoRun, gameVars
<1>4. CASE Start
  <2>1. /\ Waiting /\ pc' = "time1" /\ based' /\ UNCHANGED gameVars
    BY <1>4 DEF Start, Rebase, Waiting
  <2> QED
    BY <1>0, <2>1 DEF DurationInv, GameTypeOK, LatestTwoRun, gameVars, InLoop, Waiting
<1>5. CASE Time1 \/ Time2
  BY <1>5, TimesOver
<1>6. CASE FetchEvent \/ FetchWeb \/ NextEvent \/ NextNoEvent
  BY <1>6, FetchTypes
<1>7. CASE Handle
  <2>1. CASE StartPress
    BY <1>7, <2>1, StartReplaces DEF Handle
  <2>2. CASE ResetPress \/ OtherPress
    <3>1. /\ pc = "handle" /\ pc' \in {"restart", "next"}
          /\ UNCHANGED <<gameVars, based, ticks>>
      BY <1>7, <2>2 DEF Handle, ResetPress, OtherPress, inputVars
    <3>2. GameTypeOK'
      BY <1>0, <3>1 DEF GameTypeOK, gameVars, InLoop
    <3> QED
      BY <3>1, <3>2, DurationKept DEF gameVars, InLoop, Waiting
  <2> QED
    BY <1>7, <2>1, <2>2 DEF Handle
<1>8. CASE Restart
  BY <1>8 DEF Restart, DurationInv, GameTypeOK, LatestTwoRun, Idle, InLoop, Waiting
<1>9. CASE UNCHANGED vars
  BY <1>0, <1>9, DurationKept DEF vars, inputVars, gameVars, GameTypeOK, InLoop, Waiting
<1> QED
  BY <1>1, <1>2, <1>3, <1>4, <1>5, <1>6, <1>7, <1>8, <1>9 DEF Next, Script

(* The two working times that run are those of the two latest starts: a time
   that was replaced while it was running is older than both, or over, through
   ends, starts by button and web, and the ticks that go on; unless a press that
   was held up behind a web Start is older than both. *)
THEOREM LatestStartsRun == Spec => []LatestTwoRun
<1>1. Init => InputTypeOK /\ DurationInv
  <2>1. Init => InputTypeOK
    BY InitTypes DEF Init
  <2>2. Init => DurationInv
    BY DEF Init, GameInit, DurationInv, GameTypeOK, LatestTwoRun, Idle, InLoop, Waiting
  <2> QED
    BY <2>1, <2>2
<1>2. InputTypeOK /\ DurationInv /\ [Next]_vars => InputTypeOK' /\ DurationInv'
  BY InputStep, DurationStep
<1>3. DurationInv => LatestTwoRun
  BY DEF DurationInv
<1> QED
  BY <1>1, <1>2, <1>3, PTL DEF Spec
================================================================================

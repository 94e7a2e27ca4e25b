---------------------------- MODULE DistanceProofs ----------------------------
(***************************************************************************)
(* Theorems about the distance game, for any working and flying time and   *)
(* any presses in any order.                                               *)
(***************************************************************************)
EXTENDS Distance, ScriptInputProofs, FiniteSetTheorems

(* Every action of the script is one of its calls of the rest of the program,
   or none. *)
LEMMA ScriptCalls ==
  ASSUME Script
  PROVE  \/ HasEvent /\ PopEvent
         \/ FindNone
         \/ clearButtonEvents
         \/ getWebAction
         \/ TicksOff
         \/ Rebase
         \/ UNCHANGED inputVars
<1>1. CASE SetupLoop("Distance")
  BY <1>1 DEF SetupLoop, SetupEvent, SetupWeb, SetupClear
<1>2. CASE WaitEvent \/ WaitNoEvent \/ WaitWeb \/ StartClear \/ StartRebase \/ StartTime
  BY <1>2 DEF WaitEvent, WaitNoEvent, WaitWeb, StartClear, StartRebase, StartTime, inputVars
<1>3. CASE Loop \/ DrainEvent \/ DrainNoEvent \/ LoopWeb \/ LoopTime \/ LoopEnd
  BY <1>3 DEF Loop, LoopWeb, DrainEvent, DrainNoEvent, LoopTime, LoopEnd, inputVars
<1>4. CASE OverEvent \/ OverNoEvent \/ OverWeb \/ Restart
  BY <1>4 DEF OverEvent, OverNoEvent, OverWeb, Restart
<1> QED
  BY <1>1, <1>2, <1>3, <1>4 DEF Script

(* The event list, the ticks and the web action keep their types. *)
LEMMA InputStep == InputTypeOK /\ [Next]_vars => InputTypeOK'
<1> SUFFICES ASSUME InputTypeOK, [Next]_vars PROVE InputTypeOK'
  OBVIOUS
<1>1. CASE Outside
  BY <1>1, OutsideTypes
<1>2. CASE AnyPress
  BY <1>2, PressTypes
<1>3. CASE Script
  BY <1>3, ScriptCalls, CallTypes
<1>4. CASE UNCHANGED vars
  BY <1>4, CallTypes DEF vars
<1> QED
  BY <1>1, <1>2, <1>3, <1>4 DEF Next

(* The lists of the players start as zeros. *)
LEMMA ZerosTypes ==
  /\ Zeros \in [PlayerIds -> Landed .. ToA]
  /\ Zeros \in [PlayerIds -> Nat]
  /\ Zeros \in [PlayerIds -> Int]
<1>1. 0 \in Landed .. ToA /\ 0 \in Nat /\ 0 \in Int
  BY DEF Landed, ToA
<1> QED
  BY <1>1 DEF Zeros

(* There are no more threads that hold an event than threads. *)
LEMMA HoldersTypes ==
  /\ 0 \in 0 .. Cardinality(Producers)
  /\ Cardinality(Held) \in 0 .. Cardinality(Producers)
<1>1. Held \subseteq Producers /\ IsFiniteSet(Producers)
  BY InputAssumption DEF Held
<1> QED
  BY <1>1, FS_Subset, FS_CardinalityType

(* Every button belongs to a player. *)
LEMMA ButtonPlayer ==
  ASSUME NEW b \in 0 .. 31
  PROVE  resolveButton(b).p \in PlayerIds
<1>1. CASE b \in 4 .. 15 /\ b % 2 = 0
  BY <1>1 DEF resolveButton, PlayerIds
<1>2. CASE b \in 4 .. 15 /\ b % 2 = 1
  BY <1>2 DEF resolveButton, PlayerIds
<1>3. CASE b \in 23 .. 31 /\ b % 2 = 1
  BY <1>3 DEF resolveButton, PlayerIds
<1>4. CASE ~(b \in 4 .. 15) /\ ~(b \in 23 .. 31 /\ b % 2 = 1)
  BY <1>4 DEF resolveButton, PlayerIds
<1> QED
  BY <1>1, <1>2, <1>3, <1>4
--------------------------------------------------------------------------------
(***************************************************************************)
(* Before a game nobody has taken off.  With that, the three properties of *)
(* laps and signs are inductive together: the branches that do not write   *)
(* the sign leave laps that a fresh flight has set to 0.                   *)
(***************************************************************************)
Nobody == ~InGame => playerStatus = Zeros /\ playerLaps = Zeros

LapInv == GameTypeOK /\ Nobody /\ LapParity /\ FreshFlight /\ SignShowsLaps

(* A game starts with no laps, an even number. *)
LEMMA ZeroEven == 0 % 2 = 0
OBVIOUS

(* One more lap makes an even number odd, and an odd one even. *)
LEMMA ParityStep ==
  ASSUME NEW n \in Nat
  PROVE  /\ n % 2 = 0 => (n + 1) % 2 = 1
         /\ n % 2 = 1 => (n + 1) % 2 = 0
OBVIOUS

(* Handling an event of a player. *)
LEMMA HandleLaps ==
  ASSUME LapInv, pc = "drain", UNCHANGED <<pc, now, start, holders>>,
         NEW p \in PlayerIds, NEW t, NEW time \in Int, Handle(p, t, time)
  PROVE  LapInv'
<1>0. /\ playerStatus \in [PlayerIds -> Landed .. ToA]
      /\ playerLaps \in [PlayerIds -> Nat]
      /\ playerStartTime \in [PlayerIds -> Int]
      /\ scoreSign \in [PlayerIds -> Nat \cup {None}]
      /\ InGame /\ InGame' /\ Nobody'
      /\ SignPlayers \subseteq PlayerIds
  BY DEF LapInv, GameTypeOK, InGame, Nobody, SignPlayers, PlayerIds
<1> USE DEF Landed, WaitA, Leaving, Entering, ToB, ToA
<1>1. CASE Takeoff(p, t, time)
  <2>1. GameTypeOK'
    BY <1>0, <1>1 DEF Takeoff, LapInv, GameTypeOK
  <2>2. LapParity' /\ FreshFlight'
    BY <1>0, <1>1 DEF Takeoff, LapInv, LapParity, FreshFlight
  <2>3. SignShowsLaps'
    BY <1>0, <1>1 DEF Takeoff, LapInv, SignShowsLaps
  <2> QED
    BY <1>0, <2>1, <2>2, <2>3 DEF LapInv
<1>2. CASE LeaveField(p, t, time)
  <2>1. GameTypeOK'
    BY <1>0, <1>2 DEF LeaveField, LapInv, GameTypeOK
  <2>2. LapParity' /\ FreshFlight'
    BY <1>0, <1>2 DEF LeaveField, LapInv, LapParity, FreshFlight
  <2>3. SignShowsLaps'
    BY <1>0, <1>2 DEF LeaveField, LapInv, SignShowsLaps
  <2> QED
    BY <1>0, <2>1, <2>2, <2>3 DEF LapInv
<1>3. CASE EnterField(p, t, time)
  <2>1. GameTypeOK'
    BY <1>0, <1>3 DEF EnterField, LapInv, GameTypeOK
  <2>2. LapParity' /\ FreshFlight'
    BY <1>0, <1>3, ZeroEven DEF EnterField, LapInv, LapParity, FreshFlight
  <2>3. playerLaps[p] = 0
    BY <1>3 DEF EnterField, LapInv, FreshFlight
  <2>4. SignShowsLaps'
    BY <1>0, <1>3, <2>3 DEF EnterField, LapInv, SignShowsLaps
  <2> QED
    BY <1>0, <2>1, <2>2, <2>4 DEF LapInv
<1>4. CASE RelaunchPlayer(p, t, time)
  <2>1. GameTypeOK'
    BY <1>0, <1>4 DEF RelaunchPlayer, LapInv, GameTypeOK
  <2>2. LapParity' /\ FreshFlight'
    BY <1>0, <1>4 DEF RelaunchPlayer, LapInv, LapParity, FreshFlight
  <2>3. SignShowsLaps'
    BY <1>0, <1>4 DEF RelaunchPlayer, LapInv, SignShowsLaps
  <2> QED
    BY <1>0, <2>1, <2>2, <2>3 DEF LapInv
<1>5. CASE Lap(p, t, time)
  <2>1. GameTypeOK'
    BY <1>0, <1>5 DEF Lap, LapInv, GameTypeOK
  <2>2. FreshFlight'
    BY <1>0, <1>5 DEF Lap, Turning, LapInv, FreshFlight
  <2>3. LapParity'
    <3>1. playerLaps[p] \in Nat /\ playerLaps'[p] = playerLaps[p] + 1
      BY <1>0, <1>5 DEF Lap
    <3>2. CASE playerStatus[p] = ToB
      BY <1>0, <1>5, <3>1, <3>2, ParityStep DEF Lap, LapInv, LapParity
    <3>3. CASE playerStatus[p] = ToA
      BY <1>0, <1>5, <3>1, <3>3, ParityStep DEF Lap, LapInv, LapParity
    <3> QED
      BY <1>5, <3>2, <3>3 DEF Lap, Turning
  <2>4. SignShowsLaps'
    BY <1>0, <1>5 DEF Lap, LapInv, SignShowsLaps
  <2> QED
    BY <1>0, <2>1, <2>2, <2>3, <2>4 DEF LapInv
<1>6. CASE GameReset(p, t, time) \/ Ignored(p, t, time)
  BY <1>0, <1>6 DEF GameReset, Ignored, playerVars, LapInv, GameTypeOK, LapParity,
                    FreshFlight, SignShowsLaps
<1> QED
  BY <1>1, <1>2, <1>3, <1>4, <1>5, <1>6 DEF Handle

(* Steps that leave the players alone and stay in, or out of, the game. *)
LEMMA PlayersUnchanged ==
  ASSUME LapInv, GameTypeOK', UNCHANGED playerVars, InGame' <=> InGame
  PROVE  LapInv'
BY DEF LapInv, Nobody, LapParity, FreshFlight, SignShowsLaps, playerVars

(* The types of what the steps below change beside the players. *)
LEMMA LapStep == InputTypeOK /\ LapInv /\ [Next]_vars => LapInv'
<1> SUFFICES ASSUME InputTypeOK, LapInv, [Next]_vars PROVE LapInv'
  OBVIOUS
<1>0. GameTypeOK /\ getTicks \in Int
  BY InputAssumption DEF LapInv, InputTypeOK, getTicks
<1> USE DEF playerVars
<1>1. CASE UNCHANGED <<pc, gameVars>>
  BY <1>0, <1>1, PlayersUnchanged DEF gameVars, GameTypeOK, InGame
<1>2. CASE SetupLoop("Distance") /\ UNCHANGED gameVars
  BY <1>0, <1>2, PlayersUnchanged DEF SetupLoop, SetupEvent, SetupWeb, SetupClear,
     gameVars, GameTypeOK, InGame
<1>3. CASE WaitEvent \/ WaitNoEvent
  BY <1>0, <1>3, PlayersUnchanged DEF WaitEvent, WaitNoEvent, gameVars, GameTypeOK, InGame
<1>4. CASE WaitWeb
  BY <1>0, <1>4, PlayersUnchanged DEF WaitWeb, GameTypeOK, InGame
<1>5. CASE StartClear
  <2>1. playerStatus = Zeros /\ playerLaps = Zeros /\ UNCHANGED <<playerStatus, playerLaps>>
    BY <1>5 DEF StartClear, LapInv, Nobody, InGame
  <2>2. scoreSign' \in [PlayerIds -> Nat \cup {None}]
    BY <1>0, <1>5 DEF StartClear, GameTypeOK
  <2>3. GameTypeOK'
    BY <1>0, <1>5, <2>2 DEF StartClear, GameTypeOK
  <2>4. SignShowsLaps'
    BY <1>5, <2>1 DEF StartClear, SignShowsLaps, Zeros, SignPlayers, PlayerIds
  <2> QED
    BY <1>5, <2>1, <2>3, <2>4 DEF StartClear, LapInv, Nobody, InGame, LapParity, FreshFlight
<1>6. CASE StartRebase \/ StartTime
  BY <1>0, <1>6, PlayersUnchanged DEF StartRebase, StartTime, gameVars, GameTypeOK, InGame
<1>7. CASE Loop \/ DrainNoEvent \/ LoopWeb
  BY <1>0, <1>7, PlayersUnchanged, HoldersTypes DEF Loop, DrainNoEvent, LoopWeb, gameVars, GameTypeOK, InGame
<1>8. CASE DrainEvent
  <2> DEFINE ev == Head(events)
             b == resolveButton(ev.button)
  <2>1. ev.button \in 0 .. 31 /\ ev.time \in Int
    BY <1>8, HeadEvent, InputAssumption DEF DrainEvent, ButtonEvent, Stamps
  <2>2. b.p \in PlayerIds
    BY <2>1, ButtonPlayer
  <2>3. Handle(b.p, b.t, ev.time) /\ pc = "drain" /\ UNCHANGED <<pc, now, start, holders>>
    BY <1>8 DEF DrainEvent
  <2> HIDE DEF ev, b
  <2> QED
    BY <2>1, <2>2, <2>3, HandleLaps
<1>9. CASE LoopTime
  BY <1>0, <1>9, PlayersUnchanged DEF LoopTime, GameTypeOK, InGame
<1>10. CASE LoopEnd
  BY <1>0, <1>10, PlayersUnchanged DEF LoopEnd, GameTypeOK, InGame
<1>11. CASE OverEvent \/ OverNoEvent \/ OverWeb
  BY <1>0, <1>11, PlayersUnchanged DEF OverEvent, OverNoEvent, OverWeb, gameVars,
     GameTypeOK, InGame
<1>12. CASE Restart
  <2>1. /\ playerStatus' = Zeros /\ playerLaps' = Zeros /\ playerStartTime' = Zeros
        /\ pc' = "setup" /\ started' = FALSE /\ now' = 0 /\ start' = 0
        /\ holders' = 0
    BY <1>12 DEF Restart
  <2>2. scoreSign' \in [PlayerIds -> Nat \cup {None}]
    BY <1>12 DEF Restart
  <2>3. /\ playerStatus' \in [PlayerIds -> Landed .. ToA]
        /\ playerLaps' \in [PlayerIds -> Nat]
        /\ playerStartTime' \in [PlayerIds -> Int]
    BY <2>1, ZerosTypes
  <2>4. now' \in Int /\ start' \in Int
    BY <2>1, SMT
  <2>5. started' \in BOOLEAN
    BY <2>1, Zenon
  <2>6. GameTypeOK'
    BY <2>1, <2>2, <2>3, <2>4, <2>5, HoldersTypes, Zenon DEF GameTypeOK
  <2> QED
    BY <2>1, <2>6 DEF LapInv, Nobody, InGame, LapParity, FreshFlight, SignShowsLaps,
       Zeros, WaitA, Leaving, Entering, ToB, ToA
<1> QED
  BY <1>1, <1>2, <1>3, <1>4, <1>5, <1>6, <1>7, <1>8, <1>9, <1>10, <1>11, <1>12
     DEF Next, Script, vars

(* Nobody flies and nothing is in the list when the program starts. *)
LEMMA StartInv == Init => InputTypeOK /\ LapInv
<1> SUFFICES ASSUME Init PROVE InputTypeOK /\ LapInv
  OBVIOUS
<1>1. InputTypeOK
  BY InitTypes DEF Init
<1>2. /\ playerStatus = Zeros /\ playerLaps = Zeros /\ playerStartTime = Zeros
      /\ pc = "setup" /\ started = FALSE /\ now = 0 /\ start = 0
      /\ holders = 0
      /\ scoreSign \in [PlayerIds -> Nat \cup {None}]
  BY DEF Init
<1>3. /\ playerStatus \in [PlayerIds -> Landed .. ToA]
      /\ playerLaps \in [PlayerIds -> Nat]
      /\ playerStartTime \in [PlayerIds -> Int]
  BY <1>2, ZerosTypes
<1>4. now \in Int /\ start \in Int
  BY <1>2, SMT
<1>5. started \in BOOLEAN
  BY <1>2, Zenon
<1>6. GameTypeOK
  BY <1>2, <1>3, <1>4, <1>5, HoldersTypes, Zenon DEF GameTypeOK
<1> QED
  BY <1>1, <1>2, <1>6 DEF LapInv, Nobody, InGame, LapParity, FreshFlight, SignShowsLaps,
     Zeros, WaitA, Leaving, Entering, ToB, ToA

(* The two invariants hold in every state. *)
LEMMA LapsAlways == Spec => [](InputTypeOK /\ LapInv)
BY StartInv, InputStep, LapStep, PTL DEF Spec

(* The variables of the game and of its input always have their types. *)
THEOREM TypeCorrect == Spec => []TypeOK
<1>1. InputTypeOK /\ LapInv => TypeOK
  BY DEF LapInv, TypeOK
<1> QED
  BY <1>1, LapsAlways, PTL

(* The number of laps is even on the way to B and odd on the way to A, in any
   order of presses. *)
THEOREM LapsAlternate == Spec => []LapParity
<1>1. InputTypeOK /\ LapInv => LapParity
  BY DEF LapInv
<1> QED
  BY <1>1, LapsAlways, PTL

(* Before the field is entered a flight has no laps, and the score signs show
   the laps counted. *)
THEOREM LapsAreShown == Spec => [](FreshFlight /\ SignShowsLaps)
<1>1. InputTypeOK /\ LapInv => FreshFlight /\ SignShowsLaps
  BY DEF LapInv
<1> QED
  BY <1>1, LapsAlways, PTL
--------------------------------------------------------------------------------
(***************************************************************************)
(* The table is honest because the list was empty after the last time that *)
(* now was read: what is late came from threads that held it then, and     *)
(* moves into the list one by one.  A press after that is stamped with     *)
(* later ticks, as long as these run.                                      *)
(***************************************************************************)
Counting == pc \in {"loop", "drain", "web", "time"}

LateEvents == {i \in DOMAIN events : Late(events[i])}
LateHeld == {p \in Producers : Late(stamped[p])}
FewLate == Cardinality(LateEvents) + Cardinality(LateHeld) <= holders

TableInv ==
  /\ Counting \/ pc = "start" => based
  /\ Counting => now <= ticks
  /\ pc = "web" => FewLate

(* The late ones can be counted. *)
LEMMA LateFinite ==
  ASSUME TypeOK
  PROVE  /\ IsFiniteSet(LateEvents) /\ Cardinality(LateEvents) \in Nat
         /\ IsFiniteSet(LateHeld) /\ Cardinality(LateHeld) \in Nat
<1>1. Len(events) \in Nat /\ DOMAIN events = 1 .. Len(events)
  BY DEF TypeOK, InputTypeOK
<1>2. IsFiniteSet(1 .. Len(events))
  BY <1>1, FS_Interval
<1>3. LateEvents \subseteq 1 .. Len(events) /\ LateHeld \subseteq Producers
  BY <1>1 DEF LateEvents, LateHeld
<1> QED
  BY <1>2, <1>3, InputAssumption, FS_Subset, FS_CardinalityType

(* An event that is entered into the list is late there if it was late before. *)
LEMMA DeliverLate ==
  ASSUME TypeOK, FewLate, NEW p \in Producers, Deliver(p),
         UNCHANGED <<now, holders>>
  PROVE  FewLate'
<1> DEFINE n == Len(events) + 1
<1>1. /\ events' = Append(events, stamped[p])
      /\ stamped' = [stamped EXCEPT ![p] = None]
      /\ events \in Seq(ButtonEvent)
      /\ stamped \in [Producers -> ButtonEvent \cup {None}]
  BY DEF Deliver, TypeOK, InputTypeOK
<1>2. /\ DOMAIN events = 1 .. Len(events) /\ Len(events) \in Nat
      /\ DOMAIN events' = 1 .. n
      /\ \A i \in 1 .. Len(events) : events'[i] = events[i]
      /\ events'[n] = stamped[p]
  BY <1>1
<1>3. ~Late(None) /\ \A ev : Late(ev)' <=> Late(ev)
  BY DEF Late
<1>4. LateHeld' = LateHeld \ {p}
  <2>1. \A q \in Producers : stamped'[q] = IF q = p THEN None ELSE stamped[q]
    BY <1>1
  <2> QED
    BY <1>3, <2>1 DEF LateHeld
<1>5. LateEvents' = IF Late(stamped[p]) THEN LateEvents \cup {n} ELSE LateEvents
  <2>1. LateEvents' = {i \in 1 .. n : Late(events'[i])}
    BY <1>2 DEF LateEvents, Late
  <2>2. LateEvents = {i \in 1 .. Len(events) : Late(events[i])}
    BY <1>2 DEF LateEvents
  <2>3. 1 .. n = 1 .. Len(events) \cup {n}
    BY <1>2
  <2> QED
    BY <1>2, <2>1, <2>2, <2>3
<1>6. n \notin LateEvents
  BY <1>2 DEF LateEvents
<1> HIDE DEF n
<1>7. CASE Late(stamped[p])
  <2>1. Cardinality(LateEvents') = Cardinality(LateEvents) + 1
    BY <1>5, <1>6, <1>7, LateFinite, FS_AddElement
  <2>2. Cardinality(LateHeld') = Cardinality(LateHeld) - 1
    BY <1>4, <1>7, LateFinite, FS_RemoveElement DEF LateHeld
  <2>3. holders \in Int
    BY HoldersTypes DEF TypeOK, GameTypeOK
  <2> QED
    BY <2>1, <2>2, <2>3, LateFinite DEF FewLate
<1>8. CASE ~Late(stamped[p])
  BY <1>4, <1>5, <1>8 DEF LateHeld, FewLate
<1> QED
  BY <1>7, <1>8

(* The ticks go on, a thread enters its event, or a request comes. *)
LEMMA OutsideTable ==
  ASSUME TypeOK, TableInv, Outside, UNCHANGED <<pc, gameVars>>
  PROVE  TableInv'
<1>0. /\ UNCHANGED <<pc, now, based, holders>> /\ (ticks' = ticks \/ ticks' = ticks + 1)
      /\ ticks \in Nat /\ now \in Int
  BY DEF Outside, Tick, Deliver, WebRequest, gameVars, TypeOK, InputTypeOK, GameTypeOK
<1>1. ASSUME pc = "web" PROVE FewLate'
  <2>0. FewLate
    BY <1>1 DEF TableInv
  <2>1. CASE UNCHANGED <<events, stamped>>
    BY <1>0, <2>0, <2>1 DEF FewLate, LateEvents, LateHeld, Late
  <2>2. ASSUME NEW p \in Producers, Deliver(p) PROVE FewLate'
    BY <1>0, <2>0, <2>2, DeliverLate
  <2> QED
    BY <2>1, <2>2 DEF Outside, Tick, WebRequest
<1> QED
  BY <1>0, <1>1 DEF TableInv, Counting

(* A press is not late. *)
LEMMA PressTable ==
  ASSUME TypeOK, TableInv, AnyPress, UNCHANGED <<pc, gameVars>>
  PROVE  TableInv'
<1>0. /\ UNCHANGED <<pc, now, based, ticks, events, holders>>
      /\ ticks \in Nat /\ now \in Int
  BY DEF AnyPress, Press, gameVars, TypeOK, InputTypeOK, GameTypeOK
<1>1. ASSUME pc = "web" PROVE FewLate'
  <2>1. PICK p \in Producers, b \in Presses : Press(p, b)
    BY DEF AnyPress
  <2>2. stamped'[p].time = ticks /\ now <= ticks
    BY <1>1, <2>1 DEF Press, getTicks, TableInv, Counting, TypeOK, InputTypeOK
  <2>3. /\ \A q \in Producers \ {p} : stamped'[q] = stamped[q]
        /\ stamped[p] = None
    BY <2>1 DEF Press, Held, TypeOK, InputTypeOK
  <2>4. LateHeld' = LateHeld /\ LateEvents' = LateEvents
    <3>1. ~Late(stamped[p]) /\ ~Late(stamped[p])'
      BY <1>0, <2>2, <2>3 DEF Late
    <3>2. \A q \in Producers \ {p} : Late(stamped[q])' <=> Late(stamped[q])
      BY <1>0, <2>3 DEF Late
    <3>3. LateHeld' = LateHeld
      BY <3>1, <3>2 DEF LateHeld
    <3> QED
      BY <1>0, <3>3 DEF LateEvents, Late
  <2> QED
    BY <1>0, <1>1, <2>4 DEF TableInv, FewLate
<1> QED
  BY <1>0, <1>1 DEF TableInv, Counting

LEMMA TableStep == TypeOK /\ TableInv /\ [Next]_vars => TableInv'
<1> SUFFICES ASSUME TypeOK, TableInv, [Next]_vars PROVE TableInv'
  OBVIOUS
<1>0. ticks \in Nat /\ ticks <= ticks /\ now \in Int
  BY DEF TypeOK, InputTypeOK, GameTypeOK
<1> USE DEF Counting
<1>1. CASE Outside /\ UNCHANGED <<pc, gameVars>>
  BY <1>1, OutsideTable
<1>2. CASE AnyPress /\ UNCHANGED <<pc, gameVars>>
  BY <1>2, PressTable
<1>3. CASE SetupLoop("Distance")
  BY <1>3 DEF SetupLoop, SetupEvent, SetupWeb, SetupClear, TableInv
<1>4. CASE WaitEvent \/ WaitNoEvent \/ WaitWeb \/ StartClear
  BY <1>4 DEF WaitEvent, WaitNoEvent, WaitWeb, StartClear, TableInv
<1>5. CASE StartRebase
  BY <1>5 DEF StartRebase, Rebase, TableInv
<1>6. CASE StartTime
  BY <1>0, <1>6 DEF StartTime, inputVars, getTicks, TableInv
<1>7. CASE Loop
  BY <1>7 DEF Loop, inputVars, gameVars, TableInv
<1>8. CASE DrainEvent
  BY <1>8 DEF DrainEvent, PopEvent, TableInv
<1>9. CASE DrainNoEvent
  <2>1. /\ pc = "drain" /\ pc' = "web" /\ events' = <<>>
        /\ UNCHANGED <<now, ticks, based, stamped>>
        /\ holders' = Cardinality(Held)
    BY <1>9 DEF DrainNoEvent, FindNone, inputVars
  <2>2. LateEvents' = {}
    BY <2>1 DEF LateEvents
  <2>3. LateHeld' = LateHeld /\ LateHeld \subseteq Held
    BY <2>1 DEF LateHeld, Held, Late
  <2>4. Cardinality(LateHeld) <= Cardinality(Held)
    <3>1. Held \subseteq Producers
      BY DEF Held
    <3>2. IsFiniteSet(Held)
      BY <3>1, InputAssumption, FS_Subset
    <3> QED
      BY <2>3, <3>2, FS_Subset
  <2>5. Cardinality(LateEvents') = 0
    BY <2>2, FS_EmptySet
  <2>6. Cardinality(LateHeld) \in Nat /\ Cardinality(Held) \in Int
    BY LateFinite, HoldersTypes
  <2>7. FewLate'
    BY <2>1, <2>3, <2>4, <2>5, <2>6 DEF FewLate
  <2> QED
    BY <2>1, <2>7 DEF TableInv
<1>10. CASE LoopWeb
  BY <1>10 DEF LoopWeb, getWebAction, TableInv
<1>11. CASE LoopTime
  BY <1>0, <1>11 DEF LoopTime, inputVars, getTicks, TableInv
<1>12. CASE LoopEnd \/ OverEvent \/ OverNoEvent \/ OverWeb \/ Restart
  BY <1>12 DEF LoopEnd, OverEvent, OverNoEvent, OverWeb, Restart, TableInv
<1>13. CASE UNCHANGED vars
  BY <1>13 DEF vars, inputVars, gameVars, TableInv, FewLate, LateEvents, LateHeld, Late
<1> QED
  BY <1>1, <1>2, <1>3, <1>4, <1>5, <1>6, <1>7, <1>8, <1>9, <1>10, <1>11, <1>12, <1>13
     DEF Next, Script

(* When the table says that a player's time is up, the presses that were
   stamped before that time and have not been handled are no more than the
   threads held when the list was found empty, so at most one for each thread
   that pushes. *)
THEOREM TableIsHonest ==
  Spec => [](TimeUpIsHonest /\ holders <= Cardinality(Producers))
<1>1. Init => TableInv
  BY DEF Init, TableInv, Counting
<1>2. TableInv => TimeUpIsHonest
  BY DEF TableInv, FewLate, LateEvents, LateHeld, TimeUpIsHonest
<1>3. TypeOK => holders <= Cardinality(Producers)
  BY HoldersTypes DEF TypeOK, GameTypeOK
<1> QED
  BY <1>1, <1>2, <1>3, TypeCorrect, TableStep, PTL DEF Spec
================================================================================

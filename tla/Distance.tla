-------------------------------- MODULE Distance --------------------------------
(***************************************************************************)
(* The distance game of MainBoard/script.lua, with the setup loop before   *)
(* it and the restart of the script by luaLoop after it.                   *)
(*                                                                         *)
(* A player takes off with a press at station B, leaves the field at A,    *)
(* enters it at A, which starts the flying time, and then scores a lap for *)
(* every pass of B and A in turn.                                          *)
(***************************************************************************)
EXTENDS Setup, FiniteSets

CONSTANTS
  DISTANCE_WORK_TIME,  \* how long a game takes
  DISTANCE_FLY_TIME,   \* how long after its start a player's laps count
  MaxStart,            \* bound: the ms that pass inside getTime(1)
  MaxLaps              \* bound: no button is pressed once a player has these

ASSUME DistanceAssumption ==
  /\ DISTANCE_WORK_TIME \in Nat /\ DISTANCE_FLY_TIME \in Nat
  /\ MaxStart \in Nat /\ MaxLaps \in Nat
  /\ MaxTicks >= MaxStart + DISTANCE_WORK_TIME

VARIABLES
  started,
  now, start,
  playerStatus, playerLaps, playerStartTime,
  scoreSign,        \* scoreSign[p]: what setScoreSign last showed for p, or
                    \* None: the sign is dark
  holders           \* history: how many threads held an event when the list was
                    \* found empty in this turn; 0 once the turn is over

gameVars == <<started, now, start, playerStatus, playerLaps, playerStartTime, scoreSign,
              holders>>
playerVars == <<playerStatus, playerLaps, playerStartTime, scoreSign>>
vars == <<inputVars, pc, gameVars>>

\* The states of a player in the comment of script.lua:324-332; the state that
\* follows entering the field (3) is 4, flying towards B.
Landed == 0
WaitA == 1
Leaving == 2
Entering == 3
ToB == 4
ToA == 5

Zeros == [p \in PlayerIds |-> 0]
SignPlayers == 1 .. 5

Init ==
  /\ InputInit
  /\ pc = "setup"
  /\ started = FALSE
  /\ now = 0 /\ start = 0
  /\ playerStatus = Zeros /\ playerLaps = Zeros /\ playerStartTime = Zeros
  /\ scoreSign = [p \in PlayerIds |-> None]
  /\ holders = 0
--------------------------------------------------------------------------------
(***************************************************************************)
(* Waiting for the operator, who starts the game with the button or with   *)
(* the web action.  Every event in the list is looked at in one turn.      *)
(***************************************************************************)
WaitEvent ==
  /\ pc = "wait"
  /\ HasEvent /\ PopEvent
  /\ started' = (started \/ resolveButton(Head(events).button).t = StartButton)
  /\ UNCHANGED <<pc, now, start, playerVars, holders>>

WaitNoEvent ==
  /\ pc = "wait"
  /\ FindNone
  /\ pc' = "waitWeb"
  /\ UNCHANGED gameVars

WaitWeb ==
  /\ pc = "waitWeb"
  /\ getWebAction
  /\ started' = (started \/ webAction = "Start")
  /\ pc' = IF started' THEN "clear" ELSE "wait"
  /\ UNCHANGED <<now, start, playerVars, holders>>

(***************************************************************************)
(* The start: the score signs, the event list and the ticks, in that order.*)
(***************************************************************************)
StartClear ==
  /\ pc = "clear"
  /\ clearButtonEvents
  /\ scoreSign' = [p \in PlayerIds |-> IF p \in SignPlayers THEN 0 ELSE scoreSign[p]]
  /\ pc' = "rebase"
  /\ UNCHANGED <<started, now, start, playerStatus, playerLaps, playerStartTime,
                 holders>>

StartRebase ==
  /\ pc = "rebase"
  /\ Rebase
  /\ pc' = "start"
  /\ UNCHANGED gameVars

StartTime ==
  /\ pc = "start"
  /\ now' = getTicks /\ start' = getTicks
  /\ pc' = "loop"
  /\ UNCHANGED <<inputVars, started, playerVars, holders>>
--------------------------------------------------------------------------------
(***************************************************************************)
(* The main loop: every turn takes all events, then one web action, then   *)
(* the time that decides on the next turn.                                 *)
(***************************************************************************)
InTime == started /\ now < start + DISTANCE_WORK_TIME

Loop ==
  /\ pc = "loop"
  /\ InTime
  /\ pc' = "drain"
  /\ UNCHANGED <<inputVars, gameVars>>

Takeoff(p, t, time) ==
  /\ playerStatus[p] = Landed /\ t = StationB
  /\ playerLaps' = [playerLaps EXCEPT ![p] = 0]
  /\ scoreSign' = [scoreSign EXCEPT ![p] = 0]
  /\ playerStatus' = [playerStatus EXCEPT ![p] = WaitA]
  /\ UNCHANGED <<started, playerStartTime>>

\* Station A seen at the start, and the field left at A.
LeaveField(p, t, time) ==
  /\ playerStatus[p] \in {WaitA, Leaving} /\ t = StationA
  /\ playerStatus' = [playerStatus EXCEPT ![p] = @ + 1]
  /\ UNCHANGED <<started, playerLaps, playerStartTime, scoreSign>>

\* Mutant of EnterField: the flight starts towards A.
EnterField_ToA(p, t, time) ==
  /\ playerStatus[p] = Entering /\ t = StationA
  /\ playerStatus' = [playerStatus EXCEPT ![p] = ToA]
  /\ playerLaps' = [playerLaps EXCEPT ![p] = 0]
  /\ playerStartTime' = [playerStartTime EXCEPT ![p] = time]
  /\ UNCHANGED <<started, scoreSign>>

EnterField(p, t, time) ==
  /\ playerStatus[p] = Entering /\ t = StationA
  /\ playerStatus' = [playerStatus EXCEPT ![p] = ToB]
  /\ playerLaps' = [playerLaps EXCEPT ![p] = 0]
  /\ playerStartTime' = [playerStartTime EXCEPT ![p] = time]
  /\ UNCHANGED <<started, scoreSign>>

\* Mutant of RelaunchPlayer: the laps go, the sign stays.
RelaunchPlayer_Laps(p, t, time) ==
  /\ playerStatus[p] > Landed /\ t = Relaunch
  /\ playerStatus' = [playerStatus EXCEPT ![p] = Landed]
  /\ playerLaps' = [playerLaps EXCEPT ![p] = 0]
  /\ playerStartTime' = [playerStartTime EXCEPT ![p] = 0]
  /\ UNCHANGED <<started, scoreSign>>

RelaunchPlayer(p, t, time) ==
  /\ playerStatus[p] > Landed /\ t = Relaunch
  /\ playerStatus' = [playerStatus EXCEPT ![p] = Landed]
  /\ playerStartTime' = [playerStartTime EXCEPT ![p] = 0]
  /\ UNCHANGED <<started, playerLaps, scoreSign>>

Turning(p, t) ==
  \/ playerStatus[p] = ToB /\ t = StationB
  \/ playerStatus[p] = ToA /\ t = StationA

\* Mutant of Lap: the status counts on instead of going back to 4.
Lap_CountsOn(p, t, time) ==
  /\ Turning(p, t)
  /\ time < playerStartTime[p] + DISTANCE_FLY_TIME
  /\ playerStatus' = [playerStatus EXCEPT ![p] = @ + 1]
  /\ playerLaps' = [playerLaps EXCEPT ![p] = @ + 1]
  /\ scoreSign' = [scoreSign EXCEPT ![p] = playerLaps'[p]]
  /\ UNCHANGED <<started, playerStartTime>>

Lap(p, t, time) ==
  /\ Turning(p, t)
  /\ time < playerStartTime[p] + DISTANCE_FLY_TIME
  /\ playerStatus' = [playerStatus EXCEPT ![p] = IF @ = ToB THEN ToA ELSE ToB]
  /\ playerLaps' = [playerLaps EXCEPT ![p] = @ + 1]
  /\ scoreSign' = [scoreSign EXCEPT ![p] = playerLaps'[p]]
  /\ UNCHANGED <<started, playerStartTime>>

GameReset(p, t, time) ==
  /\ t = GlobalReset
  /\ started' = FALSE
  /\ UNCHANGED playerVars

\* A turn out of flying time, and a press that is not valid right now.
Ignored(p, t, time) ==
  /\ t # GlobalReset
  /\ ~(playerStatus[p] = Landed /\ t = StationB)
  /\ ~(playerStatus[p] \in {WaitA, Leaving, Entering} /\ t = StationA)
  /\ ~(playerStatus[p] > Landed /\ t = Relaunch)
  /\ Turning(p, t) => time >= playerStartTime[p] + DISTANCE_FLY_TIME
  /\ UNCHANGED <<started, playerVars>>

Handle(p, t, time) ==
  \/ Takeoff(p, t, time)
  \/ LeaveField(p, t, time)
  \/ EnterField(p, t, time)
  \/ RelaunchPlayer(p, t, time)
  \/ Lap(p, t, time)
  \/ GameReset(p, t, time)
  \/ Ignored(p, t, time)

DrainEvent ==
  /\ pc = "drain"
  /\ HasEvent /\ PopEvent
  /\ LET b == resolveButton(Head(events).button)
     IN  Handle(b.p, b.t, Head(events).time)
  /\ UNCHANGED <<pc, now, start, holders>>

\* Mutant of DrainNoEvent: the list need not be empty (one event in a turn, as
\* in the setup loop).
DrainNoEvent_Leaves ==
  /\ pc = "drain"
  /\ holders' = Cardinality(Held)
  /\ pc' = "web"
  /\ UNCHANGED <<inputVars, started, now, start, playerVars>>

DrainNoEvent ==
  /\ pc = "drain"
  /\ FindNone
  /\ holders' = Cardinality(Held)
  /\ pc' = "web"
  /\ UNCHANGED <<started, now, start, playerVars>>

LoopWeb ==
  /\ pc = "web"
  /\ getWebAction
  /\ started' = (started /\ webAction # "Reset")
  /\ holders' = 0
  /\ pc' = "time"
  /\ UNCHANGED <<now, start, playerVars>>

\* Mutant of LoopTime: now keeps the time of the start.
LoopTime_Stale ==
  /\ pc = "time"
  /\ pc' = "loop"
  /\ UNCHANGED <<inputVars, gameVars>>

LoopTime ==
  /\ pc = "time"
  /\ now' = getTicks
  /\ pc' = "loop"
  /\ UNCHANGED <<inputVars, started, start, playerVars, holders>>
--------------------------------------------------------------------------------
(***************************************************************************)
(* The end: the ticks are switched off, and the result stays until it is   *)
(* reset.  The script is then run again, in a new Lua state.               *)
(***************************************************************************)
LoopEnd ==
  /\ pc = "loop"
  /\ ~InTime
  /\ TicksOff
  /\ started' = TRUE
  /\ pc' = "over"
  /\ UNCHANGED <<now, start, playerVars, holders>>

OverEvent ==
  /\ pc = "over"
  /\ HasEvent /\ PopEvent
  /\ started' = (started /\ resolveButton(Head(events).button).t # GlobalReset)
  /\ UNCHANGED <<pc, now, start, playerVars, holders>>

OverNoEvent ==
  /\ pc = "over"
  /\ FindNone
  /\ pc' = "overWeb"
  /\ UNCHANGED gameVars

OverWeb ==
  /\ pc = "overWeb"
  /\ getWebAction
  /\ LET go == started /\ webAction # "Reset"
     IN IF go
        THEN pc' = "over" /\ UNCHANGED gameVars
        ELSE /\ pc' = "restart"
             /\ started' = FALSE
             /\ UNCHANGED <<now, start, playerVars, holders>>

Restart ==
  /\ pc = "restart"
  /\ TicksOff
  /\ started' = FALSE /\ now' = 0 /\ start' = 0
  /\ playerStatus' = Zeros /\ playerLaps' = Zeros /\ playerStartTime' = Zeros
  /\ scoreSign' = [p \in PlayerIds |-> None]
  /\ holders' = 0
  /\ pc' = "setup"
--------------------------------------------------------------------------------
Script ==
  \/ SetupLoop("Distance") /\ UNCHANGED gameVars
  \/ WaitEvent \/ WaitNoEvent \/ WaitWeb
  \/ StartClear \/ StartRebase \/ StartTime
  \/ Loop \/ DrainEvent \/ DrainNoEvent \/ LoopWeb \/ LoopTime
  \/ LoopEnd \/ OverEvent \/ OverNoEvent \/ OverWeb \/ Restart

StartIsShort == pc = "start" => ticks' <= MaxStart
LapsLeft == \A p \in PlayerIds : playerLaps[p] < MaxLaps

Next ==
  \/ Outside /\ StartIsShort /\ UNCHANGED <<pc, gameVars>>
  \/ LapsLeft /\ AnyPress /\ UNCHANGED <<pc, gameVars>>
  \/ Script

Spec == Init /\ [][Next]_vars

(***************************************************************************)
(* The clock runs and the script keeps running.  It empties the list in    *)
(* the end: an event is handled in microseconds, and a press comes from a  *)
(* hand.                                                                   *)
(***************************************************************************)
Fairness ==
  /\ WF_vars(Tick /\ StartIsShort /\ UNCHANGED <<pc, gameVars>>)
  /\ WF_vars(Script)
  /\ SF_vars(DrainNoEvent)

FairSpec == Spec /\ Fairness
--------------------------------------------------------------------------------
GameTypeOK ==
  /\ pc \in {"setup", "setupWeb", "setupClear", "wait", "waitWeb", "clear",
             "rebase", "start", "loop", "drain", "web", "time", "over",
             "overWeb", "restart"}
  /\ started \in BOOLEAN
  /\ now \in Int /\ start \in Int
  /\ playerStatus \in [PlayerIds -> Landed .. ToA]
  /\ playerLaps \in [PlayerIds -> Nat]
  /\ playerStartTime \in [PlayerIds -> Int]
  /\ scoreSign \in [PlayerIds -> Nat \cup {None}]
  /\ holders \in 0 .. Cardinality(Producers)

(* Every variable keeps its type. *)
TypeOK == InputTypeOK /\ GameTypeOK

(* The lap count says on which leg a player is: a player flying towards B has
   an even number of laps, one flying towards A an odd number.  No order of
   presses, relaunches and late turns counts a lap twice or skips one. *)
LapParity ==
  \A p \in PlayerIds :
    /\ playerStatus[p] = ToB => playerLaps[p] % 2 = 0
    /\ playerStatus[p] = ToA => playerLaps[p] % 2 = 1

(* A player who has not entered the field since the takeoff has no laps: a
   relaunched player does not keep those of the abandoned flight. *)
FreshFlight ==
  \A p \in PlayerIds :
    playerStatus[p] \in {WaitA, Leaving, Entering} => playerLaps[p] = 0

InGame == pc \in {"rebase", "start", "loop", "drain", "web", "time", "over", "overWeb", "restart"}

(* During and after a game the score sign of every player shows the laps the
   script has counted, although two branches change the laps and do not write
   the sign. *)
SignShowsLaps ==
  InGame => \A p \in SignPlayers : scoreSign[p] = playerLaps[p]

Late(ev) == ev # None /\ ev.time < now

(* When the table says that a player's time is up, every press stamped before
   that has been counted, save those that the threads which push, at most one
   each, held between its stamp and the list when the list was found empty,
   wherever they have got to since. *)
TimeUpIsHonest ==
  pc = "web" =>
    Cardinality({i \in DOMAIN events : Late(events[i])})
      + Cardinality({p \in Producers : Late(stamped[p])}) <= holders

(* A game that is running ends, if the script catches up with the presses
   again and again. *)
FlightEnds ==
  []<>(events = <<>>) => (pc = "loop" ~> pc = "over")
================================================================================

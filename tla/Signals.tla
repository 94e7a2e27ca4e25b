-------------------------------- MODULE Signals --------------------------------
(***************************************************************************)
(* The horns and lamps: startSignal and getOutputs of MainBoard/io.c, and  *)
(* the part of ioLoop that sends the outputs to the two cards.             *)
(*                                                                         *)
(* The script thread starts a signal; the I/O thread ends it.  They share  *)
(* outputStarted, outputEndTime and tickZero, and no mutex protects any of *)
(* them.  outputStarted is one int: it is loaded and stored as a whole.    *)
(***************************************************************************)
EXTENDS Integers, FiniteSets

CONSTANTS
  CardSize,    \* outputs on a card; outputStarted has one bit for each output
  Length,      \* how long a signal sounds, in ms
  FirstClock,  \* bound: the wall clock when the program starts
  LastStart,   \* bound: the script does nothing after this time
  LastClock    \* bound: the wall clock stops here

ASSUME SignalsAssumption ==
  /\ CardSize \in Nat \ {0}
  /\ Length \in Nat
  /\ FirstClock \in Nat /\ LastStart \in Nat /\ LastClock \in Nat

Outputs == 0 .. 2 * CardSize - 1
Cards == {0, 1}
OnCard(c) == {o \in Outputs : (o >= CardSize) <=> (c = 1)}

VARIABLES
  clock,          \* gettimeofday(), in ms
  tickZero,       \* the clock value getTicks() counts from
  outputStarted,  \* the outputs whose bit is set
  outputEndTime,
  lua,            \* the startSignal or getTime call of the script
  io,             \* the turn of ioLoop
  resetFlags,     \* a card reported a restart that is not acknowledged yet
  lamp,           \* lamp[c]: the outputs that card c was last told to switch on
  raced,          \* history: the script wrote during this pass of getOutputs
  base            \* history: base[o] is the tickZero that the end time of o
                  \* was counted from

vars == <<clock, tickZero, outputStarted, outputEndTime, lua, io, resetFlags,
          lamp, raced, base>>

getTicks == clock - tickZero

NoCall == [todo |-> {}, out |-> 0, now |-> 0, reg |-> {}]
\* The call with one access done: over with the last one.
Done(step) == IF lua.todo = {step} THEN NoCall ELSE [lua EXCEPT !.todo = @ \ {step}]

Init ==
  /\ clock = FirstClock
  /\ tickZero = 0
  /\ outputStarted = {}
  /\ outputEndTime = [o \in Outputs |-> 0]
  /\ lua = NoCall
  /\ io = [pc |-> "idle", card |-> 0, now |-> 0, reg |-> {}, dirty |-> FALSE, at |-> 0]
  /\ resetFlags = FALSE
  /\ lamp = [c \in Cards |-> {}]
  /\ raced = FALSE
  /\ base = [o \in Outputs |-> 0]

Tick ==
  /\ clock < LastClock
  /\ clock' = clock + 1
  /\ UNCHANGED <<tickZero, outputStarted, outputEndTime, lua, io, resetFlags,
                 lamp, raced, base>>
--------------------------------------------------------------------------------
(***************************************************************************)
(* The script.  After it has read the ticks, startSignal has three         *)
(* accesses to make: load and store outputStarted, and store the end time. *)
(* None of them is volatile or ordered, so the end time may be written     *)
(* before, between or after the other two.                                 *)
(***************************************************************************)
ScriptIdle == lua.todo = {}
Passing == io.pc # "idle"

startSignal(o) ==
  /\ ScriptIdle
  /\ clock <= LastStart
  /\ lua' = [todo |-> {"load", "store", "end"}, out |-> o, now |-> getTicks, reg |-> {}]
  /\ raced' = Passing
  /\ UNCHANGED <<clock, tickZero, outputStarted, outputEndTime, io, resetFlags,
                 lamp, base>>

LoadStarted ==
  /\ "load" \in lua.todo
  /\ lua' = [lua EXCEPT !.todo = @ \ {"load"}, !.reg = outputStarted]
  /\ raced' = Passing
  /\ UNCHANGED <<clock, tickZero, outputStarted, outputEndTime, io, resetFlags,
                 lamp, base>>

StoreStarted ==
  /\ "load" \notin lua.todo /\ "store" \in lua.todo
  /\ outputStarted' = lua.reg \cup {lua.out}
  /\ lua' = Done("store")
  /\ raced' = Passing
  /\ UNCHANGED <<clock, tickZero, outputEndTime, io, resetFlags, lamp, base>>

\* Mutant of StoreEnd: the end time is counted on the wall clock.
StoreEnd_WallClock ==
  /\ "end" \in lua.todo
  /\ outputEndTime' = [outputEndTime EXCEPT ![lua.out] = lua.now + tickZero + Length]
  /\ base' = [base EXCEPT ![lua.out] = tickZero]
  /\ lua' = Done("end")
  /\ raced' = Passing
  /\ UNCHANGED <<clock, tickZero, outputStarted, io, resetFlags, lamp>>

StoreEnd ==
  /\ "end" \in lua.todo
  /\ outputEndTime' = [outputEndTime EXCEPT ![lua.out] = lua.now + Length]
  /\ base' = [base EXCEPT ![lua.out] = tickZero]
  /\ lua' = Done("end")
  /\ raced' = Passing
  /\ UNCHANGED <<clock, tickZero, outputStarted, io, resetFlags, lamp>>

\* getTime(1) stores tickZero twice, getTime(0) once.
RebaseZero ==
  /\ ScriptIdle
  /\ clock <= LastStart
  /\ tickZero' = 0
  /\ lua' \in {NoCall, [NoCall EXCEPT !.todo = {"rebase"}]}
  /\ raced' = Passing
  /\ UNCHANGED <<clock, outputStarted, outputEndTime, io, resetFlags, lamp, base>>

RebaseNow ==
  /\ "rebase" \in lua.todo
  /\ tickZero' = clock
  /\ lua' = NoCall
  /\ raced' = Passing
  /\ UNCHANGED <<clock, outputStarted, outputEndTime, io, resetFlags, lamp, base>>

Script ==
  \/ \E o \in Outputs : startSignal(o)
  \/ LoadStarted \/ StoreStarted \/ StoreEnd
  \/ RebaseZero \/ RebaseNow
--------------------------------------------------------------------------------
(***************************************************************************)
(* The I/O thread, at the end of a turn: what the cards say about their    *)
(* reset flags.  While resetFlags is set ioLoop sends only the request to  *)
(* clear them, and no outputs.                                             *)
(***************************************************************************)
StatusMsg ==
  /\ io.pc = "idle"
  /\ resetFlags' = TRUE
  /\ UNCHANGED <<clock, tickZero, outputStarted, outputEndTime, lua, io, lamp,
                 raced, base>>

AckMsg ==
  /\ io.pc = "idle"
  /\ resetFlags
  /\ resetFlags' = FALSE
  /\ UNCHANGED <<clock, tickZero, outputStarted, outputEndTime, lua, io, lamp,
                 raced, base>>

(***************************************************************************)
(* getOutputs.  getTicks() reads the wall clock and then tickZero.  The    *)
(* build decides how often outputStarted is loaded and stored during the   *)
(* pass: the -g build loads it for every test and stores it for every bit  *)
(* it clears, the -O2 build may keep it in a register (io.reg) and store   *)
(* it once.  Reload and StoreOutputs may happen at any point of the pass.  *)
(***************************************************************************)
StartPass ==
  /\ io.pc = "idle"
  /\ ~resetFlags
  /\ io' = [io EXCEPT !.pc = "ticks", !.now = clock]
  /\ raced' = ~ScriptIdle
  /\ UNCHANGED <<clock, tickZero, outputStarted, outputEndTime, lua, resetFlags,
                 lamp, base>>

ReadTicks ==
  /\ io.pc = "ticks"
  /\ io' = [io EXCEPT !.pc = "pass", !.now = @ - tickZero,
                      !.reg = outputStarted, !.at = 0]
  /\ UNCHANGED <<clock, tickZero, outputStarted, outputEndTime, lua, resetFlags,
                 lamp, raced, base>>

TestOutput_Always ==
  /\ io.pc = "pass" /\ io.at \in Outputs
  /\ io' = [io EXCEPT !.at = @ + 1, !.dirty = TRUE, !.reg = @ \ {io.at}]
  /\ UNCHANGED <<clock, tickZero, outputStarted, outputEndTime, lua, resetFlags,
                 lamp, raced, base>>

TestOutput ==
  /\ io.pc = "pass" /\ io.at \in Outputs
  /\ LET over == io.at \in io.reg /\ io.now >= outputEndTime[io.at]
     IN io' = [io EXCEPT !.at = @ + 1, !.dirty = @ \/ over,
                         !.reg = IF over THEN @ \ {io.at} ELSE @]
  /\ UNCHANGED <<clock, tickZero, outputStarted, outputEndTime, lua, resetFlags,
                 lamp, raced, base>>

StoreOutputs ==
  /\ io.pc = "pass"
  /\ outputStarted' = io.reg
  /\ io' = [io EXCEPT !.dirty = FALSE]
  /\ UNCHANGED <<clock, tickZero, outputEndTime, lua, resetFlags, lamp, raced, base>>

\* A register with a cleared bit is stored before outputStarted is loaded again.
Reload ==
  /\ io.pc = "pass"
  /\ ~io.dirty
  /\ io' = [io EXCEPT !.reg = outputStarted]
  /\ UNCHANGED <<clock, tickZero, outputStarted, outputEndTime, lua, resetFlags,
                 lamp, raced, base>>

EndPass ==
  /\ io.pc = "pass" /\ io.at \notin Outputs
  /\ ~io.dirty
  /\ io' = [io EXCEPT !.pc = "send"]
  /\ UNCHANGED <<clock, tickZero, outputStarted, outputEndTime, lua, resetFlags,
                 lamp, raced, base>>

getOutputs ==
  StartPass \/ ReadTicks \/ TestOutput \/ StoreOutputs \/ Reload \/ EndPass

(***************************************************************************)
(* The outputs go to one card in a turn, to the other in the next.         *)
(* writeMsg does not wait for an answer: the message may be lost.          *)
(***************************************************************************)
\* Mutants of SendOutputs: a card with nothing to switch on is not written to;
\* there is a third card.
SendOutputs_OnlyOn(arrives) ==
  /\ io.pc = "send"
  /\ LET on == io.reg \cap OnCard(io.card)
     IN lamp' = IF arrives /\ on # {} THEN [lamp EXCEPT ![io.card] = on] ELSE lamp
  /\ io' = [io EXCEPT !.pc = "idle", !.card = 1 - @, !.reg = {}, !.now = 0, !.at = 0]
  /\ raced' = FALSE
  /\ UNCHANGED <<clock, tickZero, outputStarted, outputEndTime, lua, resetFlags,
                 base>>

SendOutputs(arrives) ==
  /\ io.pc = "send"
  /\ lamp' = IF arrives THEN [lamp EXCEPT ![io.card] = io.reg \cap OnCard(io.card)]
             ELSE lamp
  /\ io' = [io EXCEPT !.pc = "idle", !.card = 1 - @, !.reg = {}, !.now = 0, !.at = 0]
  /\ raced' = FALSE
  /\ UNCHANGED <<clock, tickZero, outputStarted, outputEndTime, lua, resetFlags,
                 base>>
--------------------------------------------------------------------------------
ioLoop ==
  \/ StatusMsg \/ AckMsg
  \/ getOutputs
  \/ \E arrives \in BOOLEAN : SendOutputs(arrives)

Next == Tick \/ Script \/ ioLoop

Spec == Init /\ [][Next]_vars

(***************************************************************************)
(* The clock runs, and the two threads keep running.  A pass is finished:  *)
(* the build's loads and stores are finitely many.  The cards answer: a    *)
(* pending reset is acknowledged again and again, and of the messages sent *)
(* to a card again and again some arrive.                                  *)
(***************************************************************************)
Fairness ==
  /\ WF_vars(Tick)
  /\ WF_vars(LoadStarted \/ StoreStarted \/ StoreEnd \/ RebaseNow)
  /\ WF_vars(AckMsg) /\ SF_vars(StartPass)
  /\ WF_vars(ReadTicks) /\ WF_vars(TestOutput)
  /\ WF_vars(io.dirty /\ StoreOutputs) /\ SF_vars(EndPass)
  /\ \A c \in Cards : SF_vars(io.card = c /\ SendOutputs(TRUE))

FairSpec == Spec /\ Fairness
--------------------------------------------------------------------------------
Stranded(o) == base[o] # tickZero

\* The end of a signal on the wall clock, which no move of the origin changes.
EndOnClock(o) == base[o] + outputEndTime[o]

(* The I/O thread switches an output off before its time has come on the wall
   clock for two reasons only.  Either the script was inside startSignal or moved
   the tick origin during that very pass: the lost update and the early test of
   the missing mutex.  Or the origin was moved between the start of the signal
   and the pass, as getTime(0) does at the end of a game, and the end time it was
   given has come on the new origin: the wall clock then is past every time of
   the game, and a signal that sounds is cut by the next pass. *)
CutShortOnlyByRaceOrMove ==
  [][\A o \in outputStarted \ outputStarted' :
       \/ clock >= EndOnClock(o)
       \/ raced
       \/ Stranded(o) /\ getTicks >= outputEndTime[o]]_vars

(* A signal never has more than its length to go, unless the tick origin was
   moved after it was started. *)
RemainingBounded ==
  \A o \in Outputs : ~Stranded(o) => outputEndTime[o] - getTicks <= Length

(* What a card was told to switch on it is later told to switch off, through
   lost messages and card resets, unless the tick origin was moved while the
   signal was on. *)
EverySignalEnds ==
  \A c \in Cards : \A o \in OnCard(c) :
    o \in lamp[c] ~> (o \notin lamp[c] \/ Stranded(o))
================================================================================

-------------------------------- MODULE IoProofs --------------------------------
(***************************************************************************)
(* Theorems about MainBoard/io.c and what is on its lines: the horns and   *)
(* lamps of Signals, the parser of CardBus, the sign bus of SignBus and    *)
(* the mechanical digit of FlipDigit.  Of the last three this module has   *)
(* instances, with variables of their own but for resetFlags, which        *)
(* Signals and CardBus have, and for got, loop, delayCnt and events, which *)
(* SignBus and FlipDigit have; no theorem is about two of them.            *)
(***************************************************************************)
EXTENDS Signals, SequenceTheorems, TLAPS

CONSTANTS Ports, Words, Talkers, Flags, CharSigned, MaxFaults
VARIABLES line, sentWord, state, header, bcc, code, dataLen, data, inputState,
          cur, since, faults, invented, owed

Parser == INSTANCE CardBus WITH Cards <- Ports

CONSTANTS Stride, Rows, PerRow, DemoAfter, LastDemo, Nums, MaxEvents
VARIABLES on, signNum, signIdx, step, valid, buffer, wire, got, values, timeout,
          loop, loaded, delayCnt, passed, everSet, events, upset

Bus == INSTANCE SignBus WITH line <- wire

CONSTANT Other
VARIABLES sending, nextOutput, currentOutput, updatePos, segments

Digit == INSTANCE FlipDigit WITH line <- sending
--------------------------------------------------------------------------------
(***************************************************************************)
(* The horns and lamps, for any number of outputs, any length of a signal, *)
(* and any way in which the build loads and stores outputStarted.          *)
(***************************************************************************)
Call == [todo : SUBSET {"load", "store", "end", "rebase"}, out : Outputs,
         now : Int, reg : SUBSET Outputs]
Turn == [pc : {"idle", "ticks", "pass", "send"}, card : Cards, now : Int,
         reg : SUBSET Outputs, dirty : BOOLEAN, at : Nat]

(* What the two threads share and what each keeps in its registers. *)
Typed ==
  /\ clock \in Nat /\ tickZero \in Nat
  /\ outputStarted \in SUBSET Outputs
  /\ outputEndTime \in [Outputs -> Int]
  /\ lua \in Call
  /\ io \in Turn
  /\ raced \in BOOLEAN
  /\ base \in [Outputs -> Nat]

(* The end of a signal was counted from a time that has been: the tick origin
   does not move while the script is inside startSignal, so the ticks it has
   read are of the origin that its end time is counted from. *)
Bounded ==
  /\ \A o \in Outputs : outputEndTime[o] + base[o] <= clock + Length
  /\ "end" \in lua.todo => lua.now <= getTicks

(* The copy of outputStarted that the script holds between its load and its
   store lacks no output that is on, and that of the I/O thread has none that is
   off: the script only adds to it, the I/O thread only takes away. *)
Copies ==
  /\ "store" \in lua.todo /\ "load" \notin lua.todo => outputStarted \subseteq lua.reg
  /\ io.pc = "pass" => io.reg \subseteq outputStarted

(* A pass in which the script wrote nothing: the time it goes by has come, and
   the outputs it has taken out of its copy were over at that time. *)
Undisturbed ==
  Passing /\ ~raced =>
    /\ ScriptIdle
    /\ io.pc = "ticks" => io.now <= clock
    /\ io.pc = "pass" =>
         /\ io.now <= getTicks
         /\ \A o \in outputStarted \ io.reg : outputEndTime[o] <= io.now

IInv == Typed /\ Bounded /\ Copies /\ Undisturbed

(* The facts about the constants, in the form the steps use. *)
LEMMA ConstantFacts ==
  /\ Outputs \subseteq Nat /\ Length \in Nat
  /\ 0 \in Outputs
  /\ Cards = {0, 1}
  /\ NoCall \in Call /\ NoCall.todo = {}
<1>1. Outputs \subseteq Nat /\ Length \in Nat /\ 0 \in Outputs
  BY SignalsAssumption DEF Outputs
<1> QED
  BY <1>1 DEF NoCall, Call, Cards

(* Whatever of the call is done, what is left of it is part of it, and it is of
   the same output and of the same time. *)
LEMMA DoneFacts ==
  ASSUME lua \in Call, NEW access \in {"load", "store", "end"}
  PROVE  /\ Done(access) \in Call
         /\ Done(access).todo = lua.todo \ {access}
         /\ Done(access).todo # {} => Done(access).now = lua.now /\ Done(access).reg = lua.reg
<1>1. CASE lua.todo = {access}
  BY <1>1, ConstantFacts DEF Done
<1>2. CASE lua.todo # {access}
  BY <1>2 DEF Done, Call
<1> QED
  BY <1>1, <1>2

(* The fields of a turn that the steps change, each with a value of its type. *)
LEMMA TurnFacts ==
  ASSUME NEW t \in Turn
  PROVE  /\ \A i \in Int : [t EXCEPT !.pc = "ticks", !.now = i] \in Turn
         /\ \A o \in t.reg : [t EXCEPT !.at = @ + 1, !.dirty = TRUE, !.reg = @ \ {o}] \in Turn
         /\ \A c \in Cards :
              [t EXCEPT !.pc = "idle", !.card = c, !.reg = {}, !.now = 0, !.at = 0] \in Turn
<1>1. /\ t.at + 1 \in Nat /\ \A o : t.reg \ {o} \in SUBSET Outputs
      /\ 0 \in Int /\ 0 \in Nat /\ {} \in SUBSET Outputs
  BY DEF Turn
<1> QED
  BY <1>1, Zenon DEF Turn

LEMMA InitHolds == Init => IInv
<1> SUFFICES ASSUME Init PROVE IInv
  OBVIOUS
<1> USE ConstantFacts, SignalsAssumption DEF Init
<1>1. Typed
  <2>1. io \in Turn
    BY DEF Turn
  <2>2. outputEndTime \in [Outputs -> Int] /\ base \in [Outputs -> Nat]
    OBVIOUS
  <2> QED
    BY <2>1, <2>2 DEF Typed
<1>2. Bounded
  BY DEF Bounded
<1>3. Copies /\ Undisturbed
  BY DEF Copies, Undisturbed, Passing
<1> QED
  BY <1>1, <1>2, <1>3 DEF IInv
--------------------------------------------------------------------------------
LEMMA ScriptStep ==
  ASSUME IInv, Script
  PROVE  IInv'
<1> USE ConstantFacts DEF IInv
<1>1. ASSUME NEW o \in Outputs, startSignal(o) PROVE IInv'
  <2>1. Typed'
    BY <1>1 DEF startSignal, Typed, Call, getTicks, Passing
  <2>2. Bounded'
    BY <1>1 DEF startSignal, Typed, Call, Bounded, getTicks
  <2>3. Copies'
    BY <1>1 DEF startSignal, Copies
  <2>4. Undisturbed'
    BY <1>1 DEF startSignal, Undisturbed, Passing
  <2> QED
    BY <2>1, <2>2, <2>3, <2>4
<1>2. CASE LoadStarted
  <2>1. Typed'
    BY <1>2 DEF LoadStarted, Typed, Call, Passing
  <2>2. Bounded'
    BY <1>2 DEF LoadStarted, Typed, Call, Bounded, getTicks
  <2>3. Copies'
    BY <1>2 DEF LoadStarted, Copies, Typed, Call
  <2>4. Undisturbed'
    BY <1>2 DEF LoadStarted, Undisturbed, Passing
  <2> QED
    BY <2>1, <2>2, <2>3, <2>4
<1>3. CASE StoreStarted
  <2>1. /\ lua' = Done("store") /\ lua' \in Call /\ lua'.todo = lua.todo \ {"store"}
        /\ lua'.todo # {} => lua'.now = lua.now /\ lua'.reg = lua.reg
    BY <1>3, DoneFacts DEF StoreStarted, Typed
  <2>2. Typed'
    BY <1>3, <2>1 DEF StoreStarted, Typed, Call, Passing
  <2>3. Bounded'
    BY <1>3, <2>1 DEF StoreStarted, Typed, Bounded, getTicks
  <2>4. Copies'
    BY <1>3, <2>1 DEF StoreStarted, Copies
  <2>5. Undisturbed'
    BY <1>3 DEF StoreStarted, Undisturbed, Passing
  <2> QED
    BY <2>2, <2>3, <2>4, <2>5
<1>4. CASE StoreEnd
  <2>1. /\ lua' = Done("end") /\ lua' \in Call /\ lua'.todo = lua.todo \ {"end"}
        /\ lua'.todo # {} => lua'.now = lua.now /\ lua'.reg = lua.reg
    BY <1>4, DoneFacts DEF StoreEnd, Typed
  <2>2. Typed'
    BY <1>4, <2>1 DEF StoreEnd, Typed, Call, Passing
  <2>3. Bounded'
    <3>1. lua.now \in Int /\ lua.now + Length + tickZero <= clock + Length
      BY <1>4 DEF StoreEnd, Bounded, Typed, Call, getTicks
    <3>2. ASSUME NEW o \in Outputs PROVE outputEndTime'[o] + base'[o] <= clock' + Length
      BY <1>4, <3>1 DEF StoreEnd, Bounded, Typed
    <3> QED
      BY <2>1, <3>2 DEF Bounded
  <2>4. Copies'
    BY <1>4, <2>1 DEF StoreEnd, Copies
  <2>5. Undisturbed'
    BY <1>4 DEF StoreEnd, Undisturbed, Passing
  <2> QED
    BY <2>2, <2>3, <2>4, <2>5
<1>5. CASE RebaseZero
  <2>1. lua' \in Call /\ lua'.todo \subseteq {"rebase"}
    BY <1>5 DEF RebaseZero, NoCall, Call
  <2>2. Typed'
    BY <1>5, <2>1 DEF RebaseZero, Typed, Passing
  <2>3. Bounded' /\ Copies'
    BY <1>5, <2>1 DEF RebaseZero, Bounded, Copies
  <2>4. Undisturbed'
    BY <1>5 DEF RebaseZero, Undisturbed, Passing
  <2> QED
    BY <2>2, <2>3, <2>4
<1>6. CASE RebaseNow
  <2>1. Typed'
    BY <1>6 DEF RebaseNow, Typed, Passing
  <2>2. Bounded' /\ Copies'
    BY <1>6 DEF RebaseNow, Bounded, Copies
  <2>3. Undisturbed'
    BY <1>6 DEF RebaseNow, Undisturbed, Passing
  <2> QED
    BY <2>1, <2>2, <2>3
<1> QED
  BY <1>1, <1>2, <1>3, <1>4, <1>5, <1>6 DEF Script

LEMMA IoStep ==
  ASSUME IInv, ioLoop
  PROVE  IInv'
<1> USE ConstantFacts DEF IInv
<1>1. CASE StatusMsg \/ AckMsg
  <2>1. UNCHANGED <<clock, tickZero, outputStarted, outputEndTime, lua, io, raced, base>>
    BY <1>1 DEF StatusMsg, AckMsg
  <2> QED
    BY <2>1 DEF Typed, Bounded, Copies, Undisturbed, getTicks, Passing, ScriptIdle
<1>2. CASE StartPass
  <2>1. Typed'
    <3>1. io' \in Turn
      <4>1. io \in Turn /\ clock \in Int
        BY DEF Typed
      <4>2. io' = [io EXCEPT !.pc = "ticks", !.now = clock]
        BY <1>2 DEF StartPass
      <4> QED
        BY <4>1, <4>2, TurnFacts
    <3>2. raced' \in BOOLEAN
      BY <1>2 DEF StartPass
    <3> QED
      BY <1>2, <3>1, <3>2 DEF StartPass, Typed
  <2>2. Bounded' /\ Copies'
    BY <1>2 DEF StartPass, Bounded, Copies, getTicks, Typed, Turn
  <2>3. Undisturbed'
    <3>1. io'.pc = "ticks" /\ io'.now = clock /\ clock' = clock /\ clock \in Nat
      BY <1>2 DEF StartPass, Typed, Turn
    <3>2. raced' <=> ~(lua'.todo = {})
      BY <1>2 DEF StartPass, ScriptIdle
    <3> QED
      BY <3>1, <3>2 DEF Undisturbed, Passing, ScriptIdle
  <2> QED
    BY <2>1, <2>2, <2>3
<1>3. CASE ReadTicks
  <2>1. Typed'
    <3>1. io.now - tickZero \in Int /\ outputStarted \in SUBSET Outputs
      BY DEF Typed, Turn
    <3>2. io' \in Turn
      BY <1>3, <3>1 DEF ReadTicks, Typed, Turn
    <3> QED
      BY <1>3, <3>2 DEF ReadTicks, Typed
  <2>2. Bounded' /\ Copies'
    BY <1>3 DEF ReadTicks, Bounded, Copies, getTicks, Typed, Turn
  <2>3. Undisturbed'
    BY <1>3 DEF ReadTicks, Undisturbed, Passing, ScriptIdle, Typed, Turn, getTicks
  <2> QED
    BY <2>1, <2>2, <2>3
<1>4. CASE TestOutput
  <2> DEFINE over == io.at \in io.reg /\ io.now >= outputEndTime[io.at]
  <2>1. /\ io' = [io EXCEPT !.at = @ + 1, !.dirty = @ \/ over,
                            !.reg = IF over THEN @ \ {io.at} ELSE @]
        /\ io.pc = "pass"
        /\ UNCHANGED <<clock, tickZero, outputStarted, outputEndTime, lua, raced, base>>
    BY <1>4 DEF TestOutput
  <2>2. over \in BOOLEAN
    OBVIOUS
  <2>3. /\ io'.pc = "pass" /\ io'.now = io.now /\ io'.reg \subseteq io.reg
        /\ \A o \in io.reg \ io'.reg : outputEndTime[o] <= io.now
        /\ io' \in Turn
    <3>1. io \in Turn /\ outputEndTime \in [Outputs -> Int]
      BY DEF Typed
    <3>2. io.dirty \/ over \in BOOLEAN
      BY <2>2, <3>1 DEF Turn
    <3>3. CASE over
      <4>1. io' = [io EXCEPT !.at = @ + 1, !.dirty = TRUE, !.reg = @ \ {io.at}]
        BY <2>1, <3>3
      <4> QED
        <5>1. io.at \in Outputs /\ outputEndTime[io.at] \in Int /\ io.now \in Int
          BY <1>4, <3>1 DEF TestOutput, Turn
        <5>2. io'.pc = "pass" /\ io'.now = io.now /\ io'.reg = io.reg \ {io.at}
          BY <2>1, <3>1, <4>1 DEF Turn
        <5>3. io' \in Turn
          BY <3>1, <3>3, <4>1, TurnFacts
        <5>4. outputEndTime[io.at] <= io.now
          BY <3>3, <5>1
        <5> QED
          BY <5>2, <5>3, <5>4
    <3>4. CASE ~over
      <4>1. io' = [io EXCEPT !.at = @ + 1]
        BY <2>1, <3>1, <3>4 DEF Turn
      <4> QED
        BY <2>1, <3>1, <4>1 DEF Turn
    <3> QED
      BY <3>3, <3>4
  <2> HIDE DEF over
  <2>4. Typed'
    BY <2>1, <2>3 DEF Typed
  <2>5. Bounded' /\ Copies'
    BY <2>1, <2>3 DEF Bounded, Copies, getTicks
  <2>6. Undisturbed'
    BY <2>1, <2>3 DEF Undisturbed, Passing, ScriptIdle, getTicks
  <2> QED
    BY <2>4, <2>5, <2>6
<1>5. CASE StoreOutputs
  <2>1. Typed'
    BY <1>5 DEF StoreOutputs, Typed, Turn
  <2>2. Bounded' /\ Copies'
    BY <1>5 DEF StoreOutputs, Bounded, Copies, getTicks, Typed, Turn
  <2>3. Undisturbed'
    BY <1>5 DEF StoreOutputs, Undisturbed, Passing, ScriptIdle, Typed, Turn, getTicks
  <2> QED
    BY <2>1, <2>2, <2>3
<1>6. CASE Reload
  <2>1. Typed'
    BY <1>6 DEF Reload, Typed, Turn
  <2>2. Bounded' /\ Copies'
    BY <1>6 DEF Reload, Bounded, Copies, getTicks, Typed, Turn
  <2>3. Undisturbed'
    BY <1>6 DEF Reload, Undisturbed, Passing, ScriptIdle, Typed, Turn, getTicks
  <2> QED
    BY <2>1, <2>2, <2>3
<1>7. CASE EndPass
  <2>1. Typed'
    BY <1>7 DEF EndPass, Typed, Turn
  <2>2. Bounded' /\ Copies'
    BY <1>7 DEF EndPass, Bounded, Copies, getTicks, Typed, Turn
  <2>3. Undisturbed'
    BY <1>7 DEF EndPass, Undisturbed, Passing, ScriptIdle, Typed, Turn, getTicks
  <2> QED
    BY <2>1, <2>2, <2>3
<1>8. ASSUME NEW arrives \in BOOLEAN, SendOutputs(arrives) PROVE IInv'
  <2>1. Typed'
    <3>1. 1 - io.card \in Cards
      BY DEF Typed, Turn
    <3>2. io' \in Turn
      BY <1>8, <3>1, TurnFacts DEF SendOutputs, Typed
    <3> QED
      BY <1>8, <3>2 DEF SendOutputs, Typed
  <2>2. Bounded' /\ Copies'
    BY <1>8 DEF SendOutputs, Bounded, Copies, getTicks, Typed, Turn
  <2>3. Undisturbed'
    BY <1>8 DEF SendOutputs, Undisturbed, Passing, Typed, Turn
  <2> QED
    BY <2>1, <2>2, <2>3
<1> QED
  BY <1>1, <1>2, <1>3, <1>4, <1>5, <1>6, <1>7, <1>8 DEF ioLoop, getOutputs

LEMMA NextStep == IInv /\ [Next]_vars => IInv'
<1> SUFFICES ASSUME IInv, [Next]_vars PROVE IInv'
  OBVIOUS
<1>1. CASE Tick
  BY <1>1, ConstantFacts DEF Tick, IInv, Typed, Bounded, Copies, Undisturbed, getTicks,
     Passing, ScriptIdle, Call, Turn
<1>2. CASE UNCHANGED vars
  BY <1>2 DEF vars, IInv, Typed, Bounded, Copies, Undisturbed, getTicks, Passing, ScriptIdle
<1> QED
  BY <1>1, <1>2, ScriptStep, IoStep DEF Next
--------------------------------------------------------------------------------
(* A signal never has more than its length to go, unless the tick origin was
   moved after it was started: for any number of signals, started again or not,
   and whatever the I/O thread does meanwhile. *)
THEOREM SignalsAreShort == Spec => []RemainingBounded
<1>1. IInv => RemainingBounded
  <2> SUFFICES ASSUME IInv, NEW o \in Outputs, base[o] = tickZero
               PROVE  outputEndTime[o] - getTicks <= Length
    BY DEF RemainingBounded, Stranded
  <2>1. outputEndTime[o] \in Int /\ base[o] \in Nat /\ clock \in Nat /\ Length \in Nat
    BY ConstantFacts DEF IInv, Typed
  <2>2. outputEndTime[o] + base[o] <= clock + Length
    BY DEF IInv, Bounded
  <2> QED
    BY <2>1, <2>2 DEF getTicks
<1> QED
  BY <1>1, InitHolds, NextStep, PTL DEF Spec

(* An output is switched off before the wall clock has come to the end of its
   signal only in a pass during which the script was inside startSignal or moved
   the tick origin, or when the origin was moved since the start of the signal and
   its end time has come on the new one, however the build loads and stores
   outputStarted. *)
THEOREM OnlyRacesAndMovesCut == Spec => CutShortOnlyByRaceOrMove
<1>1. ASSUME IInv, [Next]_vars, NEW o \in outputStarted \ outputStarted'
      PROVE  getTicks >= outputEndTime[o] \/ raced
  <2>1. CASE Tick
    BY <1>1, <2>1 DEF Tick
  <2>2. CASE Script
    \* What the script stores was loaded while o was on, or it was put on since.
    BY <1>1, <2>2 DEF Script, startSignal, LoadStarted, StoreStarted, StoreEnd,
       RebaseZero, RebaseNow, IInv, Copies
  <2>3. CASE StoreOutputs
    <3>1. o \in Outputs /\ o \notin io.reg /\ io.pc = "pass"
      BY <1>1, <2>3 DEF StoreOutputs, IInv, Typed
    <3>2. raced \/ (outputEndTime[o] <= io.now /\ io.now <= getTicks)
      BY <1>1, <3>1 DEF IInv, Undisturbed, Passing
    <3>3. outputEndTime[o] \in Int /\ io.now \in Int /\ getTicks \in Int
      BY <1>1, <3>1 DEF IInv, Typed, Turn, getTicks
    <3> QED
      BY <3>2, <3>3
  <2>4. CASE ioLoop /\ ~StoreOutputs
    BY <1>1, <2>4 DEF ioLoop, getOutputs, StatusMsg, AckMsg, StartPass, ReadTicks,
       TestOutput, Reload, EndPass, SendOutputs
  <2>5. CASE UNCHANGED vars
    BY <1>1, <2>5 DEF vars
  <2> QED
    BY <1>1, <2>1, <2>2, <2>3, <2>4, <2>5 DEF Next
<1>2. ASSUME IInv, [Next]_vars, NEW o \in outputStarted \ outputStarted'
      PROVE  \/ clock >= EndOnClock(o)
             \/ raced
             \/ Stranded(o) /\ getTicks >= outputEndTime[o]
  <2>1. /\ clock \in Nat /\ tickZero \in Nat
        /\ outputEndTime[o] \in Int /\ base[o] \in Nat
    BY <1>2 DEF IInv, Typed
  <2>2. CASE Stranded(o)
    BY <1>1, <1>2, <2>2
  <2>3. CASE ~Stranded(o)
    BY <1>1, <1>2, <2>1, <2>3 DEF Stranded, EndOnClock, getTicks
  <2> QED
    BY <2>2, <2>3
<1>3. IInv /\ [Next]_vars =>
        [\A o \in outputStarted \ outputStarted' :
           \/ clock >= EndOnClock(o)
           \/ raced
           \/ Stranded(o) /\ getTicks >= outputEndTime[o]]_vars
  BY <1>2
<1> QED
  BY <1>3, InitHolds, NextStep, PTL DEF Spec, CutShortOnlyByRaceOrMove
--------------------------------------------------------------------------------
(***************************************************************************)
(* The parser of the bytes from the cards, for any number of ports, any    *)
(* words and any number of faults.  Nothing is assumed about the check     *)
(* byte: the parser finds the frames again by their headers and lengths.   *)
(***************************************************************************)
Settle == Parser!Settle

AllWords == UNION {Words[c] : c \in Ports}
Msgs == {Parser!InputsMsg(w) : w \in AllWords} \cup {Parser!StatusMsg(f) : f \in Flags}
          \cup {Parser!AckMsg}
Frames == {Parser!Frame(c, m) : c \in Ports, m \in Msgs}
Bytes == {f[i] : f \in Frames, i \in Nat}

ParserTyped ==
  /\ line \in [Ports -> [frame : Frames \cup {<<>>}, next : Nat \ {0}]]
  /\ state \in {"HDR1", "HDR2", "DATA", "BCC"}
  /\ data \in Seq(Bytes)
  /\ cur \in [card : Ports \cup {0}, n : Nat, ok : BOOLEAN]
  /\ since \in 0 .. Settle

(* A card that is sending has a byte of a frame to send. *)
Sending ==
  \A c \in Ports :
    \/ line[c] = Parser!Silent
    \/ /\ line[c].frame \in Frames
       /\ line[c].next \in 1 .. Len(line[c].frame)

(* How many bytes the parser has taken since the header, by its state. *)
Place ==
  /\ state = "HDR1" => cur = Parser!NoFrame
  /\ state = "HDR2" => cur.n = 1
  /\ state = "DATA" =>
       dataLen \in 1 .. Parser!MaxData /\ Len(data) < dataLen /\ cur.n = 2 + Len(data)
  /\ state = "BCC" => cur.n \in 2 .. Settle

(* The parser is where the card is in its frame, and knows how long it is. *)
Synced ==
  /\ cur.card \in Ports
  /\ line[cur.card].next = cur.n + 1
  /\ state = "DATA" => dataLen = line[cur.card].frame[2]

(* In the middle of something that is not such a frame the last fault is more
   recent than the header that the parser took it to begin with. *)
OrFault == state # "HDR1" => (cur.ok /\ Synced) \/ since < cur.n

SyncInv == ParserTyped /\ Sending /\ Place /\ OrFault

(* A frame has two bytes before the data and one after it, and the second byte
   is the length of the data. *)
LEMMA FrameIs ==
  ASSUME NEW S, NEW msg \in Seq(S), NEW c \in Ports
  PROVE  /\ Len(Parser!Frame(c, msg)) = Len(msg) + 3
         /\ Parser!Frame(c, msg)[2] = Len(msg)
<1> DEFINE head == <<128 + c, Len(msg)>>
           last == 127 - (Parser!Sum(head \o msg) % 128)
           T == S \cup {128 + c, Len(msg), last}
<1>1. Parser!Frame(c, msg) = head \o msg \o <<last>>
  BY DEF Parser!Frame
<1>2. head \in Seq(T) /\ msg \in Seq(T) /\ <<last>> \in Seq(T)
  <2>1. msg \in Seq(T)
    <3> HIDE DEF last
    <3> QED
      OBVIOUS
  <2> HIDE DEF last
  <2> QED
    BY <2>1
<1>3. Len(head) = 2 /\ head[2] = Len(msg) /\ Len(<<last>>) = 1
  OBVIOUS
<1> HIDE DEF head, last, T
<1>4. /\ head \o msg \in Seq(T) /\ Len(head \o msg) = 2 + Len(msg)
      /\ (head \o msg)[2] = Len(msg)
  <2>1. /\ head \o msg \in Seq(T)
        /\ Len(head \o msg) = Len(head) + Len(msg)
        /\ \A i \in 1 .. Len(head) + Len(msg) : (head \o msg)[i] =
             IF i <= Len(head) THEN head[i] ELSE msg[i - Len(head)]
    BY <1>2, ConcatProperties, Zenon
  <2>2. Len(msg) \in Nat
    BY LenProperties
  <2>3. 2 \in 1 .. 2 + Len(msg)
    BY <2>2
  <2> QED
    BY <1>3, <2>1, <2>3
<1>5. /\ Len((head \o msg) \o <<last>>) = Len(msg) + 3
      /\ ((head \o msg) \o <<last>>)[2] = Len(msg)
  BY <1>2, <1>3, <1>4
<1> QED
  BY <1>1, <1>5

LEMMA FrameFacts ==
  ASSUME NEW f \in Frames
  PROVE  f[2] \in 1 .. Parser!MaxData /\ Len(f) = f[2] + 3
<1>1. PICK c \in Ports, m \in Msgs : f = Parser!Frame(c, m)
  BY DEF Frames
<1>2. \E S : m \in Seq(S) /\ Len(m) \in {1, 2, 6}
  <2>1. CASE m \in {Parser!InputsMsg(w) : w \in AllWords}
    <3>1. PICK x, y : m = <<x, y>>
      BY <2>1 DEF Parser!InputsMsg
    <3> QED
      <4>1. m \in Seq({x, y}) /\ Len(m) = 2
        BY <3>1
      <4> QED
        BY <4>1
  <2>2. CASE m \in {Parser!StatusMsg(x) : x \in Flags}
    <3>1. PICK x : m = <<x, 0, 0, 0, 0, 0>>
      BY <2>2 DEF Parser!StatusMsg
    <3> QED
      <4>1. m \in Seq({x, 0}) /\ Len(m) = 6
        BY <3>1
      <4> QED
        BY <4>1
  <2>3. CASE m = Parser!AckMsg
    <3>1. m \in Seq({6}) /\ Len(m) = 1
      BY <2>3 DEF Parser!AckMsg
    <3> QED
      BY <3>1
  <2> QED
    BY <2>1, <2>2, <2>3 DEF Msgs
<1>3. Len(f) = Len(m) + 3 /\ f[2] = Len(m)
  BY <1>1, <1>2, FrameIs
<1>4. Len(m) \in {1, 2, 6}
  BY <1>2
<1> HIDE <1>2
<1> QED
  BY <1>3, <1>4 DEF Parser!MaxData

(* A byte of a card that sends, and what the card sends after it. *)
LEMMA ByteSent ==
  ASSUME ParserTyped, Sending, NEW c \in Ports, line[c] # Parser!Silent
  PROVE  /\ line[c].frame \in Frames
         /\ line[c].next \in 1 .. Len(line[c].frame)
         /\ Parser!NextByte(c) \in Bytes
         /\ Parser!Onward(c) =
              IF line[c].next = Len(line[c].frame) THEN Parser!Silent
              ELSE [frame |-> line[c].frame, next |-> line[c].next + 1]
         /\ Parser!Onward(c) \in [frame : Frames \cup {<<>>}, next : Nat \ {0}]
<1>1. line[c].frame \in Frames /\ line[c].next \in 1 .. Len(line[c].frame)
  BY DEF Sending
<1>2. line[c] \in [frame : Frames \cup {<<>>}, next : Nat \ {0}]
  BY DEF ParserTyped
<1>3. Parser!NextByte(c) \in Bytes
  BY <1>1, <1>2 DEF Parser!NextByte, Bytes
<1>4. Len(line[c].frame) \in Nat
  BY <1>1, FrameFacts DEF Parser!MaxData
<1> QED
  BY <1>1, <1>2, <1>3, <1>4 DEF Parser!Onward, Parser!Silent

(* What the history makes of a byte. *)
LEMMA TrackFacts ==
  ASSUME ParserTyped, NEW c \in Ports, NEW b, Parser!Track(c, b),
         state' \in {"HDR1", "HDR2", "DATA", "BCC"}
  PROVE  /\ cur' \in [card : Ports \cup {0}, n : Nat, ok : BOOLEAN]
         /\ since' \in 0 .. Settle /\ since' <= since + 1
         /\ Parser!IsHeader(b) /\ line[c].next > 1 => since' = 0
         /\ Parser!BreaksIn(c) => since' <= 1
         /\ state' = "HDR1" => cur' = Parser!NoFrame
         /\ state' = "HDR2" => /\ cur'.card = c /\ cur'.n = 1
                               /\ cur'.ok <=> line[c].next = 1
         /\ state' \in {"DATA", "BCC"} => /\ cur'.card = c /\ cur'.n = cur.n + 1
                                          /\ cur'.ok <=> Parser!Follows(c)
<1>1. /\ Parser!IsHeader(b) /\ line[c].next > 1 => since' = 0
      /\ Parser!BreaksIn(c) => since' \in {0, 1}
      /\ since' \in {0, 1} \/ since' = IF since < Settle THEN since + 1 ELSE since
  BY Zenon DEF Parser!Track, Settle
<1>2. since \in 0 .. Settle /\ Settle = 18
  BY DEF ParserTyped, Settle, Parser!Settle, Parser!MaxData
<1>3. /\ since' \in 0 .. Settle /\ since' <= since + 1
      /\ Parser!BreaksIn(c) => since' <= 1
  BY <1>1, <1>2
<1>4. /\ state' = "HDR1" => cur' = Parser!NoFrame
      /\ state' = "HDR2" => cur' = [card |-> c, n |-> 1, ok |-> line[c].next = 1]
      /\ state' \in {"DATA", "BCC"} =>
           cur' = [card |-> c, n |-> cur.n + 1, ok |-> Parser!Follows(c)]
  BY Zenon DEF Parser!Track
<1>5. cur \in [card : Ports \cup {0}, n : Nat, ok : BOOLEAN] /\ cur.n + 1 \in Nat
  BY DEF ParserTyped
<1>6. Parser!Follows(c) \in BOOLEAN
  BY DEF Parser!Follows
<1>7. CASE state' = "HDR1"
  <2>1. cur' \in [card : Ports \cup {0}, n : Nat, ok : BOOLEAN]
    <3>1. Parser!NoFrame \in [card : Ports \cup {0}, n : Nat, ok : BOOLEAN]
      BY DEF Parser!NoFrame
    <3> QED
      BY <1>4, <1>7, <3>1
  <2> QED
    BY <1>1, <1>3, <1>4, <1>7, <2>1
<1>8. CASE state' = "HDR2"
  <2>1. cur' = [card |-> c, n |-> 1, ok |-> line[c].next = 1]
    BY <1>4, <1>8
  <2>2. (line[c].next = 1) \in BOOLEAN /\ 1 \in Nat
    OBVIOUS
  <2>3. cur' \in [card : Ports \cup {0}, n : Nat, ok : BOOLEAN]
    BY <2>1, <2>2, Zenon
  <2>4. cur'.card = c /\ cur'.n = 1 /\ (cur'.ok <=> line[c].next = 1)
    BY <2>1, Zenon
  <2> QED
    BY <1>1, <1>3, <1>8, <2>3, <2>4
<1>9. CASE state' \in {"DATA", "BCC"}
  <2>1. cur' = [card |-> c, n |-> cur.n + 1, ok |-> Parser!Follows(c)]
    BY <1>4, <1>9
  <2>2. cur' \in [card : Ports \cup {0}, n : Nat, ok : BOOLEAN]
    BY <1>5, <1>6, <2>1, Zenon
  <2>3. cur'.card = c /\ cur'.n = cur.n + 1 /\ (cur'.ok <=> Parser!Follows(c))
    BY <1>5, <2>1, Zenon
  <2> QED
    BY <1>1, <1>3, <1>9, <2>2, <2>3
<1> QED
  BY <1>7, <1>8, <1>9

(* What the parser itself makes of a byte. *)
LEMMA ParserSteps ==
  ASSUME ParserTyped, Place, NEW b \in Bytes, Parser!processChar(b)
  PROVE  /\ state' \in {"HDR1", "HDR2", "DATA", "BCC"} /\ data' \in Seq(Bytes)
         /\ state' = "HDR2" => Parser!IsHeader(b)
         /\ state' = "DATA" =>
              \/ /\ state = "HDR2" /\ data' = <<>>
                 /\ dataLen' = b % 32 /\ dataLen' \in 1 .. Parser!MaxData
              \/ /\ state = "DATA" /\ dataLen' = dataLen
                 /\ Len(data') = Len(data) + 1 /\ Len(data') < dataLen
         /\ state' = "BCC" =>
              \/ state = "HDR2" /\ b % 32 \notin 1 .. Parser!MaxData
              \/ state = "DATA" /\ Len(data) + 1 = dataLen
<1> USE DEF ParserTyped
<1>1. CASE Parser!ExpectHdr1(b)
  BY <1>1 DEF Parser!ExpectHdr1, Parser!TakeHeader, Parser!parserVars
<1>2. CASE Parser!ExpectHdr2(b)
  <2>1. CASE Parser!IsHeader(b)
    BY <1>2, <2>1 DEF Parser!ExpectHdr2, Parser!TakeHeader
  <2>2. CASE ~Parser!IsHeader(b)
    BY <1>2, <2>2 DEF Parser!ExpectHdr2
  <2> QED
    BY <2>1, <2>2
<1>3. CASE Parser!ExpectData(b)
  <2>1. data' = Append(data, b) /\ data' \in Seq(Bytes) /\ Len(data') = Len(data) + 1
    BY <1>3 DEF Parser!ExpectData
  <2>2. /\ state = "DATA" /\ dataLen' = dataLen
        /\ state' = IF Len(data') = dataLen THEN "BCC" ELSE "DATA"
    BY <1>3 DEF Parser!ExpectData
  <2>3. dataLen \in 1 .. Parser!MaxData /\ Len(data) < dataLen /\ Len(data) \in Nat
    BY <2>2 DEF Place
  <2> QED
    BY <2>1, <2>2, <2>3 DEF Parser!MaxData
<1>4. CASE Parser!ExpectBcc(b)
  <2>1. state' = "HDR1" /\ UNCHANGED data
    BY <1>4, Zenon DEF Parser!ExpectBcc
  <2> QED
    BY <2>1
<1> QED
  BY <1>1, <1>2, <1>3, <1>4 DEF Parser!processChar

LEMMA ParserInit == Parser!Init => SyncInv
<1> SUFFICES ASSUME Parser!Init PROVE SyncInv
  OBVIOUS
<1> USE DEF Parser!Init
<1>1. ParserTyped
  <2>1. cur \in [card : Ports \cup {0}, n : Nat, ok : BOOLEAN]
    BY DEF Parser!NoFrame
  <2>2. since \in 0 .. Settle
    BY DEF Settle, Parser!Settle, Parser!MaxData
  <2>3. line \in [Ports -> [frame : Frames \cup {<<>>}, next : Nat \ {0}]]
    BY DEF Parser!Silent
  <2>4. state \in {"HDR1", "HDR2", "DATA", "BCC"} /\ data \in Seq(Bytes)
    OBVIOUS
  <2> QED
    BY <2>1, <2>2, <2>3, <2>4 DEF ParserTyped
<1>2. Sending /\ Place /\ OrFault
  BY DEF Sending, Place, OrFault
<1> QED
  BY <1>1, <1>2 DEF SyncInv

(* A card that begins a frame was silent, so the parser is not in the middle of
   a frame of that card. *)
LEMMA ReportSteps ==
  ASSUME SyncInv, NEW c \in Ports, NEW msg \in Msgs, Parser!StartFrame(c, msg),
         UNCHANGED <<state, dataLen, data, cur, since>>
  PROVE  SyncInv'
<1>1. /\ line[c] = Parser!Silent
      /\ line' = [line EXCEPT ![c] = [frame |-> Parser!Frame(c, msg), next |-> 1]]
  BY DEF Parser!StartFrame
<1>2. Parser!Frame(c, msg) \in Frames
  BY DEF Frames
<1>3. ParserTyped'
  BY <1>1, <1>2 DEF SyncInv, ParserTyped
<1>4. Sending'
  <2>1. 1 \in 1 .. Len(Parser!Frame(c, msg))
    BY <1>2, FrameFacts DEF Parser!MaxData
  <2> SUFFICES ASSUME NEW k \in Ports
               PROVE  \/ line'[k] = Parser!Silent
                      \/ /\ line'[k].frame \in Frames
                         /\ line'[k].next \in 1 .. Len(line'[k].frame)
    BY DEF Sending
  <2>2. CASE k = c
    <3>1. line'[k] = [frame |-> Parser!Frame(c, msg), next |-> 1]
      BY <1>1, <2>2 DEF SyncInv, ParserTyped
    <3> QED
      BY <1>2, <2>1, <3>1
  <2>3. CASE k # c
    BY <1>1, <2>3 DEF SyncInv, ParserTyped, Sending
  <2> QED
    BY <2>2, <2>3
<1>5. Place'
  BY DEF SyncInv, Place
<1>6. OrFault'
  <2>1. SUFFICES ASSUME state # "HDR1", cur.ok, Synced, ~(since < cur.n)
                 PROVE  Synced'
    BY DEF SyncInv, OrFault
  <2>2. cur.n >= 1 /\ cur.n \in Nat
    BY <2>1 DEF SyncInv, Place, ParserTyped
  <2>3. cur.card # c
    BY <1>1, <2>1, <2>2 DEF Synced, Parser!Silent
  <2> QED
    BY <1>1, <2>1, <2>3 DEF Synced, SyncInv, ParserTyped
<1> QED
  BY <1>3, <1>4, <1>5, <1>6 DEF SyncInv

(* What a step that takes a byte off a line does to the lines. *)
LEMMA LineMoves ==
  ASSUME ParserTyped, Sending, NEW c \in Ports, line[c] # Parser!Silent,
         line' = [line EXCEPT ![c] = Parser!Onward(c)]
  PROVE  /\ line' \in [Ports -> [frame : Frames \cup {<<>>}, next : Nat \ {0}]]
         /\ Sending'
         /\ \A k \in Ports \ {c} : line'[k] = line[k]
         /\ line[c].next < Len(line[c].frame) =>
              line'[c].next = line[c].next + 1 /\ line'[c].frame = line[c].frame
<1>1. /\ line[c].frame \in Frames /\ line[c].next \in 1 .. Len(line[c].frame)
      /\ Parser!Onward(c) =
              IF line[c].next = Len(line[c].frame) THEN Parser!Silent
              ELSE [frame |-> line[c].frame, next |-> line[c].next + 1]
      /\ Parser!Onward(c) \in [frame : Frames \cup {<<>>}, next : Nat \ {0}]
  BY ByteSent
<1>2. line' \in [Ports -> [frame : Frames \cup {<<>>}, next : Nat \ {0}]]
  BY <1>1 DEF ParserTyped
<1>3. line'[c] = Parser!Onward(c) /\ \A k \in Ports \ {c} : line'[k] = line[k]
  BY DEF ParserTyped
<1>4. Len(line[c].frame) \in Nat
  BY <1>1, FrameFacts DEF Parser!MaxData
<1>5. line[c].next < Len(line[c].frame) =>
        line'[c].next = line[c].next + 1 /\ line'[c].frame = line[c].frame
  BY <1>1, <1>3, <1>4
<1>6. Sending'
  <2> SUFFICES ASSUME NEW k \in Ports
               PROVE  \/ line'[k] = Parser!Silent
                      \/ /\ line'[k].frame \in Frames
                         /\ line'[k].next \in 1 .. Len(line'[k].frame)
    BY DEF Sending
  <2>1. CASE k = c /\ line[c].next = Len(line[c].frame)
    BY <1>1, <1>3, <2>1
  <2>2. CASE k = c /\ line[c].next # Len(line[c].frame)
    <3>1. /\ line[c].next < Len(line[c].frame)
          /\ line[c].next + 1 \in 1 .. Len(line[c].frame)
      BY <1>1, <1>4, <2>2
    <3> QED
      BY <1>1, <1>5, <2>2, <3>1
  <2>3. CASE k # c
    BY <1>3, <2>3 DEF Sending
  <2> QED
    BY <2>1, <2>2, <2>3
<1> QED
  BY <1>2, <1>3, <1>5, <1>6

(* What is lost is known of the frame of its port, which is followed no more. *)
LEMMA LoseFacts ==
  ASSUME ParserTyped, NEW c \in Ports, Parser!LoseByte(c)
  PROVE  /\ cur' \in [card : Ports \cup {0}, n : Nat, ok : BOOLEAN]
         /\ cur'.card = cur.card /\ cur'.n = cur.n
         /\ state = "HDR1" \/ c # cur.card => cur' = cur
         /\ state # "HDR1" /\ cur'.ok => cur.ok /\ c # cur.card
<1>1. cur' = IF state # "HDR1" /\ c = cur.card THEN [cur EXCEPT !.ok = FALSE] ELSE cur
  BY DEF Parser!LoseByte
<1>2. cur \in [card : Ports \cup {0}, n : Nat, ok : BOOLEAN]
  BY DEF ParserTyped
<1>3. CASE state # "HDR1" /\ c = cur.card
  <2>1. cur' = [cur EXCEPT !.ok = FALSE]
    BY <1>1, <1>3
  <2>2. /\ cur' \in [card : Ports \cup {0}, n : Nat, ok : BOOLEAN]
        /\ cur'.card = cur.card /\ cur'.n = cur.n /\ ~cur'.ok
    BY <1>2, <2>1
  <2> QED
    BY <1>3, <2>2
<1>4. CASE ~(state # "HDR1" /\ c = cur.card)
  BY <1>1, <1>2, <1>4
<1> QED
  BY <1>3, <1>4

LEMMA LoseStep ==
  ASSUME SyncInv, NEW c \in Ports, Parser!LoseByte(c)
  PROVE  SyncInv'
<1>1. /\ line[c] # Parser!Silent /\ line' = [line EXCEPT ![c] = Parser!Onward(c)]
      /\ since' = 0 /\ UNCHANGED <<state, dataLen, data>>
  BY DEF Parser!LoseByte, Parser!parserVars
<1>2. /\ cur' \in [card : Ports \cup {0}, n : Nat, ok : BOOLEAN] /\ cur'.n = cur.n
      /\ state = "HDR1" => cur' = cur
  BY LoseFacts DEF SyncInv
<1>3. ParserTyped' /\ Sending'
  <2>1. line' \in [Ports -> [frame : Frames \cup {<<>>}, next : Nat \ {0}]] /\ Sending'
    BY <1>1, LineMoves DEF SyncInv
  <2>2. since' \in 0 .. Settle
    BY <1>1 DEF Settle, Parser!Settle, Parser!MaxData
  <2> QED
    BY <1>1, <1>2, <2>1, <2>2 DEF SyncInv, ParserTyped
<1>4. Place'
  BY <1>1, <1>2 DEF SyncInv, Place
<1>5. OrFault'
  <2>1. ASSUME state # "HDR1" PROVE cur.n >= 1
    BY <2>1 DEF SyncInv, Place, ParserTyped
  <2>2. cur.n \in Nat
    BY DEF SyncInv, ParserTyped
  <2> QED
    BY <1>1, <1>2, <2>1, <2>2 DEF OrFault
<1> QED
  BY <1>3, <1>4, <1>5 DEF SyncInv

LEMMA ReadStep ==
  ASSUME SyncInv, NEW c \in Ports, Parser!ReadByte(c)
  PROVE  SyncInv'
<1> DEFINE b == Parser!NextByte(c)
<1>1. /\ ParserTyped /\ Sending /\ Place /\ OrFault
      /\ line[c] # Parser!Silent /\ line' = [line EXCEPT ![c] = Parser!Onward(c)]
      /\ Parser!processChar(b) /\ Parser!Track(c, b)
  BY DEF Parser!ReadByte, SyncInv
<1>2. /\ line[c].frame \in Frames /\ line[c].next \in 1 .. Len(line[c].frame)
      /\ b \in Bytes /\ b = line[c].frame[line[c].next]
  BY <1>1, ByteSent DEF Parser!NextByte
<1>3. /\ line[c].frame[2] \in 1 .. Parser!MaxData
      /\ Len(line[c].frame) = line[c].frame[2] + 3
  BY <1>2, FrameFacts
<1>11. Len(line[c].frame) > 3 /\ line[c].frame[2] \in Int
  <2>1. \A x \in 1 .. 16 : x + 3 > 3 /\ x \in Int
    OBVIOUS
  <2> QED
    BY <1>3, <2>1 DEF Parser!MaxData
<1> HIDE DEF b
<1>4. /\ line' \in [Ports -> [frame : Frames \cup {<<>>}, next : Nat \ {0}]]
      /\ Sending'
      /\ line[c].next < Len(line[c].frame) =>
           line'[c].next = line[c].next + 1 /\ line'[c].frame = line[c].frame
  BY <1>1, LineMoves
<1>5. /\ state' \in {"HDR1", "HDR2", "DATA", "BCC"} /\ data' \in Seq(Bytes)
      /\ state' = "HDR2" => Parser!IsHeader(b)
      /\ state' = "DATA" =>
           \/ /\ state = "HDR2" /\ data' = <<>>
              /\ dataLen' = b % 32 /\ dataLen' \in 1 .. Parser!MaxData
           \/ /\ state = "DATA" /\ dataLen' = dataLen
              /\ Len(data') = Len(data) + 1 /\ Len(data') < dataLen
      /\ state' = "BCC" =>
           \/ state = "HDR2" /\ b % 32 \notin 1 .. Parser!MaxData
           \/ state = "DATA" /\ Len(data) + 1 = dataLen
  BY <1>1, <1>2, ParserSteps
<1>6. /\ cur' \in [card : Ports \cup {0}, n : Nat, ok : BOOLEAN]
      /\ since' \in 0 .. Settle /\ since' <= since + 1
      /\ Parser!IsHeader(b) /\ line[c].next > 1 => since' = 0
      /\ Parser!BreaksIn(c) => since' <= 1
      /\ state' = "HDR1" => cur' = Parser!NoFrame
      /\ state' = "HDR2" => /\ cur'.card = c /\ cur'.n = 1
                            /\ cur'.ok <=> line[c].next = 1
      /\ state' \in {"DATA", "BCC"} => /\ cur'.card = c /\ cur'.n = cur.n + 1
                                       /\ cur'.ok <=> Parser!Follows(c)
  BY <1>1, <1>5, TrackFacts
<1>7. /\ cur.n \in Nat /\ since \in Nat /\ Settle = 18
      /\ state \in {"HDR1", "HDR2", "DATA", "BCC"}
  BY <1>1 DEF ParserTyped, Settle, Parser!Settle, Parser!MaxData
<1>8. ParserTyped'
  BY <1>4, <1>5, <1>6 DEF ParserTyped
<1>9. Place'
  <2>1. CASE state' \in {"HDR1", "HDR2"}
    BY <1>6, <2>1 DEF Place
  <2>2. CASE state' = "DATA"
    <3>1. cur'.n = cur.n + 1
      BY <1>6, <2>2
    <3>2. CASE state = "HDR2"
      <4>1. cur.n = 1 /\ data' = <<>> /\ dataLen' \in 1 .. Parser!MaxData
        BY <1>1, <1>5, <2>2, <3>2 DEF Place
      <4>2. Len(data') = 0
        BY <4>1
      <4> QED
        BY <2>2, <3>1, <4>1, <4>2 DEF Place, Parser!MaxData
    <3>3. CASE state = "DATA"
      <4>1. /\ dataLen' = dataLen /\ Len(data') = Len(data) + 1 /\ Len(data') < dataLen
        BY <1>5, <2>2, <3>3
      <4>2. /\ dataLen \in 1 .. Parser!MaxData /\ cur.n = 2 + Len(data)
            /\ Len(data) \in Nat
        BY <1>1, <3>3 DEF Place, ParserTyped
      <4> QED
        BY <2>2, <3>1, <4>1, <4>2 DEF Place
    <3> QED
      BY <1>5, <2>2, <3>2, <3>3
  <2>3. CASE state' = "BCC"
    <3>1. cur'.n = cur.n + 1
      BY <1>6, <2>3
    <3>2. cur.n + 1 \in 2 .. 18
      <4>1. CASE state = "HDR2"
        BY <1>1, <4>1 DEF Place
      <4>2. CASE state = "DATA"
        <5>1. /\ dataLen \in 1 .. Parser!MaxData /\ cur.n = 2 + Len(data)
              /\ Len(data) \in Nat /\ Len(data) < dataLen
          BY <1>1, <4>2 DEF Place, ParserTyped
        <5>2. \A l \in Nat, e \in 1 .. 16 : l < e => 2 + l + 1 \in 2 .. 18
          OBVIOUS
        <5> QED
          BY <5>1, <5>2 DEF Parser!MaxData
      <4> QED
        BY <1>5, <2>3, <4>1, <4>2
    <3> QED
      BY <1>7, <2>3, <3>1, <3>2 DEF Place
  <2> QED
    BY <1>5, <2>1, <2>2, <2>3
<1>10. OrFault'
  <2>1. CASE state' = "HDR1"
    BY <2>1 DEF OrFault
  <2>2. CASE state' = "HDR2"
    \* A header that is not the first byte of a frame counts as a fault.
    <3>1. cur'.card = c /\ cur'.n = 1 /\ (cur'.ok <=> line[c].next = 1) /\ Parser!IsHeader(b)
      BY <1>5, <1>6, <2>2
    <3>2. CASE line[c].next = 1
      <4>1. line'[c].next = 2
        BY <1>4, <1>11, <3>2
      <4> QED
        BY <2>2, <3>1, <3>2, <4>1 DEF OrFault, Synced
    <3>3. CASE line[c].next # 1
      <4>1. since' = 0
        BY <1>2, <1>3, <1>6, <3>1, <3>3 DEF Parser!MaxData
      <4> QED
        BY <3>1, <4>1 DEF OrFault
    <3> QED
      BY <3>2, <3>3
  <2>3. CASE state' \in {"DATA", "BCC"}
    <3>1. cur'.card = c /\ cur'.n = cur.n + 1 /\ (cur'.ok <=> Parser!Follows(c))
      BY <1>6, <2>3
    <3>2. state \in {"HDR2", "DATA"} /\ cur.n >= 1
      <4>1. state \in {"HDR2", "DATA"}
        BY <1>5, <2>3
      <4> QED
        BY <1>1, <1>7, <4>1 DEF Place, ParserTyped
    <3>3. CASE since < cur.n
      <4>1. since' < cur'.n
        BY <1>6, <1>7, <3>1, <3>3
      <4> QED
        BY <4>1 DEF OrFault
    <3>4. CASE cur.ok /\ Synced /\ ~Parser!Follows(c)
      <4>1. c # cur.card
        BY <3>4 DEF Synced, Parser!Follows
      <4>2. since' <= 1
        BY <1>6, <3>2, <4>1 DEF Parser!BreaksIn
      <4>3. since' < cur'.n
        BY <1>6, <1>7, <3>1, <3>2, <4>2
      <4> QED
        BY <4>3 DEF OrFault
    <3>5. CASE cur.ok /\ Synced /\ Parser!Follows(c)
      <4>1. c = cur.card /\ line[c].next = cur.n + 1
        BY <3>5 DEF Parser!Follows
      <4>2. CASE state = "HDR2"
        <5>1. cur.n = 1 /\ line[c].next = 2
          BY <1>1, <1>7, <4>1, <4>2 DEF Place
        <5>2. line'[c].next = 3 /\ line'[c].frame = line[c].frame
          BY <1>4, <1>11, <5>1
        <5>3. b = line[c].frame[2]
          BY <1>2, <5>1
        <5>4. b % 32 = b /\ b % 32 \in 1 .. Parser!MaxData
          BY <1>3, <5>3 DEF Parser!MaxData
        <5>5. state' = "DATA" /\ dataLen' = b % 32
          BY <1>5, <2>3, <4>2, <5>4
        <5>6. Synced'
          BY <3>1, <4>1, <5>1, <5>2, <5>3, <5>4, <5>5 DEF Synced
        <5> QED
          BY <3>1, <3>5, <5>6 DEF OrFault
      <4>3. CASE state = "DATA"
        <5>1. /\ cur.n = 2 + Len(data) /\ Len(data) < dataLen /\ Len(data) \in Nat
              /\ dataLen = line[c].frame[2]
          BY <1>1, <3>5, <4>1, <4>3 DEF Place, ParserTyped, Synced
        <5>2. line[c].next < Len(line[c].frame)
          <6>1. \A l \in Nat, e \in Int : l < e => 2 + l + 1 < e + 3
            OBVIOUS
          <6> QED
            BY <1>3, <1>11, <4>1, <5>1, <6>1
        <5>3. line'[c].next = cur.n + 1 + 1 /\ line'[c].frame = line[c].frame
          BY <1>4, <4>1, <5>2
        <5>4. state' = "DATA" => dataLen' = dataLen
          BY <1>5, <4>3
        <5>5. Synced'
          BY <3>1, <4>1, <5>1, <5>3, <5>4 DEF Synced
        <5> QED
          BY <3>1, <3>5, <5>5 DEF OrFault
      <4> QED
        BY <3>2, <4>2, <4>3
    <3> QED
      BY <1>1, <3>2, <3>3, <3>4, <3>5 DEF OrFault
  <2> QED
    BY <1>5, <2>1, <2>2, <2>3
<1> QED
  BY <1>4, <1>8, <1>9, <1>10 DEF SyncInv

LEMMA ParserNext == SyncInv /\ [Parser!Next]_Parser!vars => SyncInv'
<1> SUFFICES ASSUME SyncInv, [Parser!Next]_Parser!vars PROVE SyncInv'
  OBVIOUS
<1>1. ASSUME NEW c \in Ports, NEW w \in Words[c], Parser!ReportInputs(c, w) PROVE SyncInv'
  <2>1. /\ Parser!StartFrame(c, Parser!InputsMsg(w)) /\ Parser!InputsMsg(w) \in Msgs
        /\ UNCHANGED <<state, dataLen, data, cur, since>>
    BY <1>1 DEF Parser!ReportInputs, Parser!parserVars, Msgs, AllWords
  <2> QED
    BY <2>1, ReportSteps
<1>2. ASSUME NEW c \in Ports, Parser!ReportOther(c) PROVE SyncInv'
  <2>1. UNCHANGED <<state, dataLen, data, cur, since>>
    BY <1>2 DEF Parser!ReportOther, Parser!parserVars, Parser!history
  <2>2. PICK msg \in Msgs : Parser!StartFrame(c, msg)
    BY <1>2 DEF Parser!ReportOther, Msgs
  <2> QED
    BY <2>1, <2>2, ReportSteps
<1>3. CASE UNCHANGED Parser!vars
  BY <1>3 DEF Parser!vars, Parser!cardVars, Parser!parserVars, Parser!history, SyncInv,
     ParserTyped, Sending, Place, OrFault, Synced
<1> QED
  BY <1>1, <1>2, <1>3, LoseStep, ReadStep DEF Parser!Next

LEMMA SyncedAgain == SyncInv => Parser!SyncAgain
<1> SUFFICES ASSUME SyncInv, since = Parser!Settle PROVE cur.ok
  BY DEF Parser!SyncAgain
<1>1. CASE state = "HDR1"
  BY <1>1 DEF SyncInv, Place, Parser!NoFrame
<1>2. CASE state # "HDR1"
  <2>1. cur.n <= Settle
    <3>1. Settle = 18 /\ Parser!MaxData = 16
      BY DEF Settle, Parser!Settle, Parser!MaxData
    <3>2. state \in {"HDR2", "DATA", "BCC"} /\ Len(data) \in Nat
      BY <1>2 DEF SyncInv, ParserTyped
    <3> QED
      BY <3>1, <3>2 DEF SyncInv, Place
  <2>2. cur.n \in Nat /\ since \in Nat /\ since = Settle
    BY DEF SyncInv, ParserTyped, Settle
  <2>3. ~(since < cur.n)
    BY <2>1, <2>2
  <2> QED
    BY <1>2, <2>3 DEF SyncInv, OrFault
<1> QED
  BY <1>1, <1>2

(* Once as many bytes as the longest frame has were read after the last fault,
   the parser is never in the middle of anything but a frame it has followed
   from the header: whatever was lost, whichever port broke into which, and
   whatever the data looks like. *)
THEOREM ParserSyncsAgain == Parser!Spec => []Parser!SyncAgain
  BY SyncedAgain, ParserInit, ParserNext, PTL DEF Parser!Spec

(* What the handlers look at when the check byte comes: the data never outgrows
   its array, and a frame of a length that fits has had all its data. *)
DataReceived ==
  /\ Len(data) <= Parser!MaxData
  /\ state = "BCC" /\ dataLen \in 1 .. Parser!MaxData => Len(data) = dataLen

(* Nothing is written past the array of the data, and nothing is read from it that
   did not come with the frame, though the length comes from the line and the
   array keeps the data of earlier frames. *)
THEOREM DataIsReceived == Parser!Spec => []DataReceived
<1>1. Parser!Init => DataReceived
  <2> SUFFICES ASSUME Parser!Init PROVE DataReceived
    OBVIOUS
  <2>1. data = <<>> /\ state = "HDR1" /\ Len(<<>>) = 0 /\ 0 <= Parser!MaxData
    BY DEF Parser!Init, Parser!MaxData
  <2> QED
    BY <2>1 DEF DataReceived
<1>2. SyncInv /\ DataReceived /\ [Parser!Next]_Parser!vars => DataReceived'
  <2> SUFFICES ASSUME SyncInv, DataReceived, [Parser!Next]_Parser!vars PROVE DataReceived'
    OBVIOUS
  <2>1. data \in Seq(Bytes) /\ Len(data) \in Nat /\ Parser!MaxData = 16
    BY DEF SyncInv, ParserTyped, Parser!MaxData
  <2>2. CASE UNCHANGED <<state, dataLen, data>>
    BY <2>2 DEF DataReceived
  <2>3. CASE \E c \in Ports : Parser!ReadByte(c)
    <3>1. PICK c \in Ports : Parser!ReadByte(c)
      BY <2>3
    <3>2. PICK b \in Bytes : Parser!processChar(b)
      <4>1. line[c] # Parser!Silent /\ Parser!processChar(Parser!NextByte(c))
        BY <3>1 DEF Parser!ReadByte
      <4>2. Parser!NextByte(c) \in Bytes
        BY <4>1, ByteSent DEF SyncInv
      <4> QED
        BY <4>1, <4>2
    <3>3. CASE Parser!TakeHeader(b) \/ (state' = "HDR1" /\ UNCHANGED data)
      BY <3>3 DEF Parser!TakeHeader, DataReceived
    <3>4. CASE /\ data' = <<>>
               /\ state' = IF dataLen' \in 1 .. Parser!MaxData THEN "DATA" ELSE "BCC"
      BY <2>1, <3>4 DEF DataReceived
    <3>5. CASE Parser!ExpectData(b)
      <4>1. /\ dataLen' = dataLen /\ Len(data') = Len(data) + 1
            /\ state' = IF Len(data') = dataLen THEN "BCC" ELSE "DATA"
        BY <2>1, <3>5 DEF Parser!ExpectData
      <4>2. dataLen \in 1 .. 16 /\ Len(data) < dataLen
        BY <2>1, <3>5 DEF Parser!ExpectData, SyncInv, Place
      <4> QED
        BY <2>1, <4>1, <4>2 DEF DataReceived
    <3>6. Parser!ExpectBcc(b) => state' = "HDR1" /\ UNCHANGED data
      BY Zenon DEF Parser!ExpectBcc
    <3> QED
      BY <3>2, <3>3, <3>4, <3>5, <3>6, <2>2
      DEF Parser!processChar, Parser!ExpectHdr1, Parser!ExpectHdr2, Parser!parserVars
  <2>4. UNCHANGED <<state, dataLen, data>> \/ \E c \in Ports : Parser!ReadByte(c)
    BY DEF Parser!Next, Parser!ReportInputs, Parser!ReportOther, Parser!LoseByte,
       Parser!parserVars, Parser!vars, Parser!history
  <2> QED
    BY <2>2, <2>3, <2>4
<1> QED
  BY <1>1, <1>2, ParserInit, ParserNext, PTL DEF Parser!Spec
--------------------------------------------------------------------------------
(***************************************************************************)
(* What the parser makes of the frames: the sum and the words, the frame   *)
(* it follows, and the presses that come of it.  This is for any sets of   *)
(* words and flags, but for two cards.                                     *)
(***************************************************************************)
(* What the parser counts of a frame: the sum of its first n bytes, n at most 8. *)
UpTo(f, n) ==
  LET B(i) == IF i <= n THEN f[i] ELSE 0
  IN  B(1) + B(2) + B(3) + B(4) + B(5) + B(6) + B(7) + B(8)

LEMMA UpToFacts ==
  ASSUME NEW f, NEW n \in 0 .. 7, \A i \in 1 .. n + 1 : f[i] \in Int
  PROVE  /\ UpTo(f, 0) = 0
         /\ UpTo(f, n) \in Int
         /\ UpTo(f, n + 1) = UpTo(f, n) + f[n + 1]
<1>1. n \in {0, 1, 2, 3, 4, 5, 6, 7}
  OBVIOUS
<1> QED
  BY <1>1 DEF UpTo

(* Sum is defined by recursion: the recursive function exists, since UpTo is one,
   and has the values of UpTo. *)
LEMMA SumIs ==
  ASSUME NEW s \in Seq(Int), Len(s) \in 0 .. 8
  PROVE  Parser!Sum(s) = UpTo(s, Len(s)) /\ UpTo(s, Len(s)) \in Int
<1> DEFINE Step(g) == [n \in 0 .. Len(s) |-> IF n = 0 THEN 0 ELSE g[n - 1] + s[n]]
           sum == CHOOSE g : g = Step(g)
           total == [n \in 0 .. Len(s) |-> UpTo(s, n)]
<1>1. Parser!Sum(s) = sum[Len(s)]
  BY DEF Parser!Sum
<1>2. \A i \in 1 .. Len(s) : s[i] \in Int
  BY ElementOfSeq
<1>3. UpTo(s, 0) = 0
  BY DEF UpTo
<1>4. ASSUME NEW n \in 0 .. Len(s), n # 0
      PROVE  UpTo(s, n) = UpTo(s, n - 1) + s[n] /\ n - 1 \in 0 .. Len(s)
  <2>1. n - 1 \in 0 .. 7 /\ n - 1 \in 0 .. Len(s) /\ (n - 1) + 1 = n
    <3>1. \A l \in 0 .. 8, k \in Nat : k \in 0 .. l /\ k # 0 =>
            k - 1 \in 0 .. 7 /\ k - 1 \in 0 .. l /\ (k - 1) + 1 = k
      OBVIOUS
    <3>2. n \in Nat
      OBVIOUS
    <3> QED
      BY <1>4, <3>1, <3>2
  <2>2. \A i \in 1 .. (n - 1) + 1 : s[i] \in Int
    BY <1>2
  <2> QED
    BY <2>1, <2>2, UpToFacts
<1>5. total = Step(total)
  <2>1. ASSUME NEW n \in 0 .. Len(s)
        PROVE  UpTo(s, n) = IF n = 0 THEN 0 ELSE total[n - 1] + s[n]
    BY <1>3, <1>4
  <2> QED
    BY <2>1
<1>6. sum = Step(sum)
  BY <1>5
<1> HIDE DEF sum
<1>7. /\ sum[0] = UpTo(s, 0)
      /\ \A n \in 0 .. 7 : n + 1 <= Len(s) /\ sum[n] = UpTo(s, n) => sum[n + 1] = UpTo(s, n + 1)
  <2>1. sum[0] = UpTo(s, 0)
    BY <1>3, <1>6
  <2>2. ASSUME NEW n \in 0 .. 7, n + 1 <= Len(s), sum[n] = UpTo(s, n)
        PROVE  sum[n + 1] = UpTo(s, n + 1)
    <3>1. n + 1 \in 0 .. Len(s) /\ n + 1 # 0 /\ (n + 1) - 1 = n
      BY <2>2
    <3>2. sum[n + 1] = sum[n] + s[n + 1]
      BY <1>6, <3>1
    <3> QED
      BY <1>4, <2>2, <3>1, <3>2
  <2> QED
    BY <2>1, <2>2
<1>8. sum[Len(s)] = UpTo(s, Len(s))
  <2>1. ASSUME NEW l \in 0 .. 8, l <= Len(s) PROVE sum[l] = UpTo(s, l)
    <3>1. 1 <= Len(s) => sum[1] = UpTo(s, 1)
      BY <1>7
    <3>2. 2 <= Len(s) => sum[2] = UpTo(s, 2)
      BY <1>7, <3>1
    <3>3. 3 <= Len(s) => sum[3] = UpTo(s, 3)
      BY <1>7, <3>2
    <3>4. 4 <= Len(s) => sum[4] = UpTo(s, 4)
      BY <1>7, <3>3
    <3>5. 5 <= Len(s) => sum[5] = UpTo(s, 5)
      BY <1>7, <3>4
    <3>6. 6 <= Len(s) => sum[6] = UpTo(s, 6)
      BY <1>7, <3>5
    <3>7. 7 <= Len(s) => sum[7] = UpTo(s, 7)
      BY <1>7, <3>6
    <3>8. 8 <= Len(s) => sum[8] = UpTo(s, 8)
      BY <1>7, <3>7
    <3> QED
      BY <1>7, <2>1, <3>1, <3>2, <3>3, <3>4, <3>5, <3>6, <3>7, <3>8
  <2>2. \A l \in 0 .. 8 : l <= l
    OBVIOUS
  <2> QED
    BY <2>1, <2>2
<1>9. UpTo(s, Len(s)) \in Int
  <2>1. CASE Len(s) = 0
    BY <1>3, <2>1
  <2>2. CASE Len(s) # 0
    <3>1. /\ Len(s) - 1 \in 0 .. 7 /\ (Len(s) - 1) + 1 = Len(s)
          /\ Len(s) \in 1 .. Len(s) /\ Len(s) \in 0 .. Len(s)
      BY <2>2
    <3>2. s[Len(s)] \in Int
      BY <1>2, <3>1
    <3>3. \A i \in 1 .. (Len(s) - 1) + 1 : s[i] \in Int
      BY <1>2, <3>1
    <3>4. UpTo(s, Len(s) - 1) \in Int
      BY <3>1, <3>3, UpToFacts
    <3> QED
      BY <1>4, <2>2, <3>1, <3>2, <3>4
  <2> QED
    BY <2>1, <2>2
<1> QED
  BY <1>1, <1>8, <1>9

(* What CardBusAssumption says of the constants, for two cards: a third would have
   the buttons of the second. *)
ParserConstants ==
  /\ Ports \subseteq {0, 1}
  /\ Words \in [Ports -> SUBSET SUBSET (0 .. 15)]
  /\ Talkers \subseteq Ports
  /\ Flags \subseteq 0 .. 255
  /\ CharSigned \in BOOLEAN
  /\ MaxFaults \in Nat

LEMMA WordsFacts == ParserConstants => AllWords \subseteq SUBSET (0 .. 15)
BY DEF ParserConstants, AllWords

(* A byte has the bits of the inputs it was made of, and no others. *)
LEMMA ByteFacts ==
  ASSUME NEW w \in SUBSET (0 .. 7)
  PROVE  Parser!ByteOf(w) \in 0 .. 255 /\ Parser!Bits(Parser!ByteOf(w)) = w
<1> DEFINE Bit(i) == IF i \in w THEN 1 ELSE 0
<1>1. \A b0, b1, b2, b3, b4, b5, b6, b7 \in {0, 1} :
        LET x == b0 + 2 * b1 + 4 * b2 + 8 * b3 + 16 * b4 + 32 * b5 + 64 * b6 + 128 * b7
        IN  /\ x \in 0 .. 255
            /\ x % 2 = b0 /\ (x \div 2) % 2 = b1 /\ (x \div 4) % 2 = b2
            /\ (x \div 8) % 2 = b3 /\ (x \div 16) % 2 = b4 /\ (x \div 32) % 2 = b5
            /\ (x \div 64) % 2 = b6 /\ (x \div 128) % 2 = b7
  BY SMTT(60)
<1>2. 2 ^ 0 = 1 /\ 2 ^ 1 = 2 /\ 2 ^ 2 = 4 /\ 2 ^ 3 = 8 /\ 2 ^ 4 = 16 /\ 2 ^ 5 = 32
        /\ 2 ^ 6 = 64 /\ 2 ^ 7 = 128
  OBVIOUS
<1>3. /\ \A i \in 0 .. 7 : Bit(i) \in {0, 1} /\ (Bit(i) = 1 <=> i \in w)
      /\ 0 \in 0 .. 7 /\ 1 \in 0 .. 7 /\ 2 \in 0 .. 7 /\ 3 \in 0 .. 7
      /\ 4 \in 0 .. 7 /\ 5 \in 0 .. 7 /\ 6 \in 0 .. 7 /\ 7 \in 0 .. 7
  OBVIOUS
<1> DEFINE x == Bit(0) + 2 * Bit(1) + 4 * Bit(2) + 8 * Bit(3) + 16 * Bit(4) + 32 * Bit(5)
                  + 64 * Bit(6) + 128 * Bit(7)
<1>4. Parser!ByteOf(w) = x
  BY <1>2 DEF Parser!ByteOf
<1> HIDE DEF Bit
<1>5. /\ x \in 0 .. 255
      /\ x % 2 = Bit(0) /\ (x \div 2) % 2 = Bit(1) /\ (x \div 4) % 2 = Bit(2)
      /\ (x \div 8) % 2 = Bit(3) /\ (x \div 16) % 2 = Bit(4) /\ (x \div 32) % 2 = Bit(5)
      /\ (x \div 64) % 2 = Bit(6) /\ (x \div 128) % 2 = Bit(7)
  BY <1>1, <1>3
<1> HIDE DEF x
<1>6. x \div 1 = x
  BY <1>5
<1>7. ASSUME NEW i \in 0 .. 7 PROVE (x \div 2 ^ i) % 2 = Bit(i)
  <2>1. i \in {0, 1, 2, 3, 4, 5, 6, 7}
    OBVIOUS
  <2>2. /\ i = 0 => 2 ^ i = 1
        /\ i = 1 => 2 ^ i = 2
        /\ i = 2 => 2 ^ i = 4
        /\ i = 3 => 2 ^ i = 8
        /\ i = 4 => 2 ^ i = 16
        /\ i = 5 => 2 ^ i = 32
        /\ i = 6 => 2 ^ i = 64
        /\ i = 7 => 2 ^ i = 128
    BY <1>2, Zenon
  <2> QED
    BY <1>5, <1>6, <2>1, <2>2
<1>8. Parser!Bits(x) = w
  BY <1>3, <1>7 DEF Parser!Bits
<1> QED
  BY <1>4, <1>5, <1>8

(* The two bytes of a report are taken for the inputs that it was made of. *)
LEMMA WordFacts ==
  ASSUME NEW w \in SUBSET (0 .. 15)
  PROVE  \E low, high \in 0 .. 255 :
           /\ Parser!InputsMsg(w) = <<low, high>>
           /\ ~CharSigned => Parser!Word(low, high) = w
<1> DEFINE L == w \cap (0 .. 7)
           H == {i - 8 : i \in w \cap (8 .. 15)}
<1>1. L \in SUBSET (0 .. 7) /\ H \in SUBSET (0 .. 7)
  OBVIOUS
<1>2. {i + 8 : i \in H} = w \cap (8 .. 15)
  <2>1. \A i \in w \cap (8 .. 15) : (i - 8) + 8 = i
    OBVIOUS
  <2> QED
    BY <2>1
<1>3. w = L \cup (w \cap (8 .. 15))
  <2>1. \A i \in 0 .. 15 : i \in 0 .. 7 \/ i \in 8 .. 15
    OBVIOUS
  <2> QED
    BY <2>1, Zenon
<1>4. Parser!InputsMsg(w) = <<Parser!ByteOf(L), Parser!ByteOf(H)>>
  BY DEF Parser!InputsMsg
<1>5. ~CharSigned => Parser!Word(Parser!ByteOf(L), Parser!ByteOf(H)) = w
  <2>1. Parser!Bits(Parser!ByteOf(L)) = L /\ Parser!Bits(Parser!ByteOf(H)) = H
    BY <1>1, ByteFacts
  <2> HIDE DEF L, H
  <2> QED
    BY <1>2, <1>3, <2>1 DEF Parser!Word
<1>6. Parser!ByteOf(L) \in 0 .. 255 /\ Parser!ByteOf(H) \in 0 .. 255
  BY <1>1, ByteFacts
<1> QED
  BY <1>4, <1>5, <1>6

(* The messages of the cards are of one, two or six bytes. *)
LEMMA MsgFacts ==
  ASSUME ParserConstants, NEW m \in Msgs
  PROVE  m \in Seq(0 .. 255) /\ Len(m) \in {1, 2, 6}
<1>1. CASE m \in {Parser!InputsMsg(w) : w \in AllWords}
  <2>1. PICK x, y \in 0 .. 255 : m = <<x, y>>
    BY <1>1, WordFacts, WordsFacts
  <2> QED
    BY <2>1
<1>2. CASE m \in {Parser!StatusMsg(x) : x \in Flags}
  <2>1. PICK x \in 0 .. 255 : m = <<x, 0, 0, 0, 0, 0>>
    BY <1>2 DEF Parser!StatusMsg, ParserConstants
  <2> QED
    BY <2>1
<1>3. CASE m = Parser!AckMsg
  BY <1>3 DEF Parser!AckMsg
<1> QED
  BY <1>1, <1>2, <1>3 DEF Msgs

(* The bytes of a frame; the last makes up what is missing from the sum of all
   before it. *)
LEMMA FrameBytes ==
  ASSUME ParserConstants, NEW c \in Ports, NEW m \in Msgs
  PROVE  LET f == Parser!Frame(c, m)
         IN  /\ f \in Seq(0 .. 255)
             /\ Len(m) \in {1, 2, 6} /\ Len(f) = Len(m) + 3
             /\ f[1] = 128 + c /\ f[2] = Len(m)
             /\ \A i \in 1 .. Len(m) : f[i + 2] = m[i]
             /\ f[Len(m) + 3] = 127 - (UpTo(f, Len(m) + 2) % 128)
<1> DEFINE f == Parser!Frame(c, m)
           head == <<128 + c, Len(m)>>
           whole == head \o m
           last == 127 - (Parser!Sum(whole) % 128)
<1>1. m \in Seq(0 .. 255) /\ Len(m) \in {1, 2, 6}
  BY MsgFacts
<1>2. f = whole \o <<last>>
  BY DEF Parser!Frame
<1>3. /\ head \in Seq(0 .. 255) /\ Len(head) = 2
      /\ head[1] = 128 + c /\ head[2] = Len(m)
  <2>1. 128 + c \in 0 .. 255
    BY DEF ParserConstants
  <2> QED
    BY <1>1, <2>1
<1> HIDE DEF head
<1>4. /\ whole \in Seq(0 .. 255) /\ Len(whole) = Len(m) + 2
      /\ whole[1] = 128 + c /\ whole[2] = Len(m)
      /\ \A i \in 1 .. Len(m) : whole[i + 2] = m[i]
  <2>1. /\ whole \in Seq(0 .. 255)
        /\ Len(whole) = Len(head) + Len(m)
        /\ \A i \in 1 .. Len(head) + Len(m) : whole[i] =
             IF i <= Len(head) THEN head[i] ELSE m[i - Len(head)]
    BY <1>1, <1>3, ConcatProperties, Zenon
  <2>2. \A i \in 1 .. Len(m) : i + 2 \in 1 .. 2 + Len(m) /\ ~(i + 2 <= 2) /\ (i + 2) - 2 = i
    BY <1>1
  <2>3. 1 \in 1 .. 2 + Len(m) /\ 2 \in 1 .. 2 + Len(m) /\ 2 + Len(m) = Len(m) + 2
    BY <1>1
  <2> HIDE DEF whole
  <2> QED
    BY <1>3, <2>1, <2>2, <2>3
<1> HIDE DEF whole
<1>5. Parser!Sum(whole) = UpTo(whole, Len(m) + 2) /\ UpTo(whole, Len(m) + 2) \in Int
  <2>1. whole \in Seq(Int)
    <3>1. 0 .. 255 \subseteq Int
      OBVIOUS
    <3> QED
      BY <1>4, <3>1, SeqMonotonic, Zenon
  <2>2. Len(whole) \in 0 .. 8
    <3>1. \A l \in {1, 2, 6} : l + 2 \in 0 .. 8
      OBVIOUS
    <3> QED
      BY <1>1, <1>4, <3>1
  <2> QED
    BY <1>4, <2>1, <2>2, SumIs
<1>6. last \in 0 .. 255
  <2>1. \A x \in Int : 127 - (x % 128) \in 0 .. 255
    OBVIOUS
  <2> QED
    BY <1>5, <2>1
<1>7. last = 127 - (UpTo(whole, Len(m) + 2) % 128)
  BY <1>5
<1> HIDE DEF last
<1>8. /\ f \in Seq(0 .. 255) /\ Len(f) = Len(m) + 3
      /\ \A i \in 1 .. Len(m) + 2 : f[i] = whole[i]
      /\ f[Len(m) + 3] = last
  <2> DEFINE end == <<last>>
  <2>1. end \in Seq(0 .. 255) /\ Len(end) = 1 /\ end[1] = last
    BY <1>6
  <2>2. f = whole \o end
    BY <1>2
  <2> HIDE DEF end, f
  <2>3. /\ f \in Seq(0 .. 255)
        /\ Len(f) = Len(whole) + 1
        /\ \A i \in 1 .. Len(whole) + 1 : f[i] =
             IF i <= Len(whole) THEN whole[i] ELSE end[i - Len(whole)]
    <3>1. /\ whole \o end \in Seq(0 .. 255)
          /\ Len(whole \o end) = Len(whole) + Len(end)
          /\ \A i \in 1 .. Len(whole) + Len(end) : (whole \o end)[i] =
               IF i <= Len(whole) THEN whole[i] ELSE end[i - Len(whole)]
      <4>1. whole \in Seq(0 .. 255) /\ end \in Seq(0 .. 255)
        BY <1>4, <2>1
      <4> QED
        BY <4>1, ConcatProperties, Zenon
    <3> QED
      BY <2>1, <2>2, <3>1, Zenon
  <2>4. /\ \A i \in 1 .. Len(m) + 2 : i \in 1 .. (Len(m) + 2) + 1 /\ i <= Len(m) + 2
        /\ Len(m) + 3 \in 1 .. (Len(m) + 2) + 1 /\ ~(Len(m) + 3 <= Len(m) + 2)
        /\ (Len(m) + 3) - (Len(m) + 2) = 1 /\ (Len(m) + 2) + 1 = Len(m) + 3
    BY <1>1
  <2> QED
    BY <1>4, <2>1, <2>4, <2>3
<1> HIDE DEF f
<1>9. UpTo(f, Len(m) + 2) = UpTo(whole, Len(m) + 2)
  <2>1. \A i \in {1, 2, 3, 4, 5, 6, 7, 8} : i <= Len(m) + 2 => f[i] = whole[i]
    BY <1>1, <1>8
  <2>2. \A i \in {1, 2, 3, 4, 5, 6, 7, 8} :
          (IF i <= Len(m) + 2 THEN f[i] ELSE 0) = (IF i <= Len(m) + 2 THEN whole[i] ELSE 0)
    BY <2>1
  <2> QED
    BY <2>2 DEF UpTo
<1>10. 1 \in 1 .. Len(m) + 2 /\ 2 \in 1 .. Len(m) + 2
         /\ \A i \in 1 .. Len(m) : i + 2 \in 1 .. Len(m) + 2
  BY <1>1
<1>11. f[1] = 128 + c /\ f[2] = Len(m) /\ \A i \in 1 .. Len(m) : f[i + 2] = m[i]
  BY <1>4, <1>8, <1>10
<1>12. f[Len(m) + 3] = 127 - (UpTo(f, Len(m) + 2) % 128)
  BY <1>7, <1>8, <1>9
<1> QED
  BY <1>1, <1>8, <1>11, <1>12 DEF f

(* The same of a frame of which only that is known that a card sends it. *)
LEMMA FramesFacts ==
  ASSUME ParserConstants, NEW f \in Frames
  PROVE  /\ f \in Seq(0 .. 255) /\ f[2] \in {1, 2, 6} /\ Len(f) = f[2] + 3
         /\ Parser!IsHeader(f[1])
         /\ f[f[2] + 3] = 127 - (UpTo(f, f[2] + 2) % 128)
         /\ \A i \in 1 .. Len(f) : f[i] \in 0 .. 255
<1>1. PICK c \in Ports, m \in Msgs : f = Parser!Frame(c, m)
  BY DEF Frames
<1>2. /\ f \in Seq(0 .. 255) /\ Len(m) \in {1, 2, 6} /\ Len(f) = Len(m) + 3
      /\ f[1] = 128 + c /\ f[2] = Len(m)
      /\ f[Len(m) + 3] = 127 - (UpTo(f, Len(m) + 2) % 128)
  BY <1>1, FrameBytes
<1>3. Parser!IsHeader(f[1])
  BY <1>2 DEF Parser!IsHeader, ParserConstants
<1>4. \A i \in 1 .. Len(f) : f[i] \in 0 .. 255
  BY <1>2, ElementOfSeq
<1> QED
  BY <1>2, <1>3, <1>4

(* The types of all that the parser's invariant above says nothing of. *)
Fields ==
  /\ sentWord \in [Ports -> AllWords \cup {{}}]
  /\ header \in 0 .. 255 /\ bcc \in 0 .. 127 /\ code \in 0 .. 3 /\ dataLen \in 0 .. 31
  /\ data \in Seq(0 .. 255)
  /\ resetFlags \in BOOLEAN
  /\ inputState \in [0 .. 15 -> SUBSET (0 .. 15)]
  /\ faults \in Nat /\ invented \in BOOLEAN
  /\ owed \in [0 .. 31 -> Int]

(* A byte that a card sends is a byte. *)
LEMMA ByteRange ==
  ASSUME ParserConstants, ParserTyped, Sending, NEW c \in Ports, line[c] # Parser!Silent
  PROVE  Parser!NextByte(c) \in 0 .. 255
<1>1. line[c].frame \in Frames /\ line[c].next \in 1 .. Len(line[c].frame)
  BY ByteSent
<1> QED
  BY <1>1, FramesFacts DEF Parser!NextByte

LEMMA WordRange ==
  ASSUME NEW low, NEW high
  PROVE  Parser!Word(low, high) \in SUBSET (0 .. 15)
<1>1. Parser!Bits(low) \subseteq 0 .. 7 /\ Parser!Bits(high) \subseteq 0 .. 7
  BY DEF Parser!Bits
<1>2. \A i \in 0 .. 7 : i \in 0 .. 15 /\ i + 8 \in 0 .. 15
  OBVIOUS
<1>3. 8 .. 15 \subseteq 0 .. 15
  OBVIOUS
<1> QED
  BY <1>1, <1>2, <1>3 DEF Parser!Word

LEMMA FieldsInit == Parser!Init => Fields
<1> SUFFICES ASSUME Parser!Init PROVE Fields
  OBVIOUS
<1>1. 0 \in 0 .. 255 /\ 0 \in 0 .. 127 /\ 0 \in 0 .. 3 /\ 0 \in 0 .. 31 /\ 0 \in Nat
  OBVIOUS
<1>2. header \in 0 .. 255 /\ bcc \in 0 .. 127 /\ code \in 0 .. 3 /\ dataLen \in 0 .. 31
        /\ faults \in Nat
  BY <1>1, Zenon DEF Parser!Init
<1>3. resetFlags \in BOOLEAN /\ invented \in BOOLEAN
  BY Zenon DEF Parser!Init
<1>4. /\ sentWord \in [Ports -> AllWords \cup {{}}]
      /\ inputState \in [0 .. 15 -> SUBSET (0 .. 15)] /\ owed \in [0 .. 31 -> Int]
  BY DEF Parser!Init
<1>5. data \in Seq(0 .. 255)
  BY DEF Parser!Init
<1> QED
  BY <1>2, <1>3, <1>4, <1>5, Zenon DEF Fields

LEMMA FieldsRead ==
  ASSUME ParserConstants, SyncInv, Fields, NEW c \in Ports, Parser!ReadByte(c)
  PROVE  Fields'
<1> DEFINE b == Parser!NextByte(c)
<1>1. /\ line[c] # Parser!Silent /\ Parser!processChar(b) /\ Parser!Track(c, b)
      /\ sentWord' = sentWord
  BY DEF Parser!ReadByte
<1>2. b \in 0 .. 255
  BY <1>1, ByteRange DEF SyncInv
<1> HIDE DEF b
<1>3. /\ header' \in 0 .. 255 /\ bcc' \in 0 .. 127 /\ code' \in 0 .. 3
      /\ dataLen' \in 0 .. 31
  <2>1. /\ header' = header \/ header' = b
        /\ \/ bcc' = bcc
           \/ bcc' = b % 128
           \/ bcc' = (bcc + b) % 128
           \/ bcc' = 127 - bcc
        /\ code' = code \/ (~Parser!IsHeader(b) /\ code' = b \div 32)
        /\ dataLen' = dataLen \/ dataLen' = b % 32
    <3>1. Parser!ExpectBcc(b) => bcc' = 127 - bcc /\ UNCHANGED <<header, code, dataLen>>
      BY Zenon DEF Parser!ExpectBcc
    <3> QED
      BY <1>1, <3>1 DEF Parser!processChar, Parser!ExpectHdr1, Parser!ExpectHdr2,
         Parser!ExpectData, Parser!TakeHeader, Parser!parserVars
  <2>2. header \in 0 .. 255 /\ bcc \in 0 .. 127 /\ code \in 0 .. 3 /\ dataLen \in 0 .. 31
    BY DEF Fields
  <2>3. ~Parser!IsHeader(b) => b \div 32 \in 0 .. 3
    BY <1>2 DEF Parser!IsHeader
  <2>4. b % 128 \in 0 .. 127 /\ b % 32 \in 0 .. 31
    BY <1>2
  <2>5. (bcc + b) % 128 \in 0 .. 127 /\ 127 - bcc \in 0 .. 127
    BY <1>2, <2>2
  <2>6. bcc' \in 0 .. 127
    BY <2>1, <2>2, <2>4, <2>5
  <2>7. header' \in 0 .. 255 /\ code' \in 0 .. 3 /\ dataLen' \in 0 .. 31
    BY <1>2, <2>1, <2>2, <2>3, <2>4
  <2> QED
    BY <2>6, <2>7
<1>4. resetFlags' \in BOOLEAN /\ inputState' \in [0 .. 15 -> SUBSET (0 .. 15)]
  <2>1. CASE UNCHANGED Parser!effects
    BY <2>1 DEF Parser!effects, Fields
  <2>2. CASE Parser!ExpectBcc(b)
    <3>1. resetFlags' \in {TRUE, FALSE, resetFlags}
      BY <2>2, Zenon DEF Parser!ExpectBcc
    <3>2. \/ inputState' = inputState
          \/ inputState' = [inputState EXCEPT ![Parser!Card] = Parser!Inputs]
      BY <2>2, Zenon DEF Parser!ExpectBcc
    <3>3. Parser!Inputs \in SUBSET (0 .. 15)
      BY WordRange DEF Parser!Inputs
    <3>4. resetFlags \in BOOLEAN /\ inputState \in [0 .. 15 -> SUBSET (0 .. 15)]
      BY Zenon DEF Fields
    <3>5. resetFlags' \in BOOLEAN
      BY <3>1, <3>4, Zenon
    <3>6. inputState' \in [0 .. 15 -> SUBSET (0 .. 15)]
      BY <3>2, <3>3, <3>4
    <3> QED
      BY <3>5, <3>6
  <2> QED
    BY <1>1, <2>1, <2>2 DEF Parser!processChar, Parser!ExpectHdr1, Parser!ExpectHdr2,
       Parser!ExpectData, Parser!TakeHeader
<1>5. faults' \in Nat /\ invented' \in BOOLEAN /\ owed' \in [0 .. 31 -> Int]
  <2>1. faults \in Nat /\ invented \in BOOLEAN /\ owed \in [0 .. 31 -> Int]
    BY DEF Fields
  <2>2. faults' \in Nat
    <3>1. faults' = faults + 1 \/ faults' = faults
      BY <1>1 DEF Parser!Track
    <3> QED
      BY <2>1, <3>1
  <2>3. invented' \in BOOLEAN
    <3>1. invented' = (invented \/ (Parser!Checked(b) /\ Parser!IsInputs /\ ~Parser!Whole(c)))
      BY <1>1 DEF Parser!Track
    <3> QED
      BY <3>1, Zenon
  <2>4. owed' \in [0 .. 31 -> Int]
    <3>1. \/ owed' = owed
          \/ owed' = [n \in 0 .. 31 |->
               owed[n] - (IF n \in Parser!Buttons(Parser!Card, Parser!Rising) THEN 1 ELSE 0)]
      BY <1>1 DEF Parser!Track
    <3>2. \A n \in 0 .. 31 :
            owed[n] - (IF n \in Parser!Buttons(Parser!Card, Parser!Rising) THEN 1 ELSE 0) \in Int
      BY <2>1
    <3> QED
      BY <2>1, <3>1, <3>2
  <2> QED
    BY <2>2, <2>3, <2>4
<1>6. data' \in Seq(0 .. 255)
  <2>1. data' = data \/ data' = <<>> \/ data' = Append(data, b)
    <3>1. Parser!ExpectBcc(b) => data' = data
      BY Zenon DEF Parser!ExpectBcc
    <3> QED
      BY <1>1, <3>1 DEF Parser!processChar, Parser!ExpectHdr1, Parser!ExpectHdr2,
         Parser!ExpectData, Parser!TakeHeader, Parser!parserVars
  <2>2. data \in Seq(0 .. 255)
    BY DEF Fields
  <2>3. Append(data, b) \in Seq(0 .. 255)
    BY <1>2, <2>2, AppendProperties
  <2>4. <<>> \in Seq(0 .. 255)
    OBVIOUS
  <2> QED
    BY <2>1, <2>2, <2>3, <2>4
<1>7. sentWord' \in [Ports -> AllWords \cup {{}}]
  BY <1>1 DEF Fields
<1> QED
  BY <1>3, <1>4, <1>5, <1>6, <1>7, Zenon DEF Fields

LEMMA FieldsStep ==
  ASSUME ParserConstants, SyncInv, Fields, [Parser!Next]_Parser!vars
  PROVE  Fields'
<1>1. ASSUME NEW c \in Ports, NEW w \in Words[c], Parser!ReportInputs(c, w) PROVE Fields'
  <2>1. /\ sentWord' = [sentWord EXCEPT ![c] = w]
        /\ owed' = [b \in 0 .. 31 |->
             owed[b] + (IF b \in Parser!Buttons(c, w \ sentWord[c]) THEN 1 ELSE 0)]
        /\ UNCHANGED <<header, bcc, code, dataLen, data, resetFlags, inputState, faults, invented>>
    BY <1>1 DEF Parser!ReportInputs, Parser!parserVars, Parser!effects
  <2>2. owed \in [0 .. 31 -> Int] /\ sentWord \in [Ports -> AllWords \cup {{}}]
    BY DEF Fields
  <2>3. \A b \in 0 .. 31 :
          owed[b] + (IF b \in Parser!Buttons(c, w \ sentWord[c]) THEN 1 ELSE 0) \in Int
    BY <2>2
  <2>4. owed' \in [0 .. 31 -> Int]
    BY <2>1, <2>3
  <2>5. sentWord' \in [Ports -> AllWords \cup {{}}]
    BY <2>1, <2>2 DEF AllWords
  <2> QED
    BY <2>1, <2>4, <2>5, Zenon DEF Fields
<1>2. ASSUME NEW c \in Ports, Parser!ReportOther(c) PROVE Fields'
  BY <1>2 DEF Parser!ReportOther, Fields, Parser!parserVars, Parser!effects, Parser!history
<1>3. ASSUME NEW c \in Ports, Parser!LoseByte(c) PROVE Fields'
  <2>1. /\ UNCHANGED <<sentWord, header, bcc, code, dataLen, data, resetFlags, inputState>>
        /\ UNCHANGED <<invented, owed>> /\ faults' = faults + 1
    BY <1>3 DEF Parser!LoseByte, Parser!parserVars, Parser!effects
  <2>2. faults' \in Nat
    <3>1. faults \in Nat
      BY DEF Fields
    <3> QED
      BY <2>1, <3>1
  <2> QED
    BY <2>1, <2>2, Zenon DEF Fields
<1>4. CASE UNCHANGED Parser!vars
  BY <1>4 DEF Parser!vars, Parser!cardVars, Parser!parserVars, Parser!effects,
     Parser!history, Fields
<1> QED
  BY <1>1, <1>2, <1>3, <1>4, FieldsRead DEF Parser!Next

(* Every variable of the parser keeps its type, whatever comes from the lines:
   the sum of a frame, the length in it and the bytes of the words included. *)
THEOREM ParserIsTyped ==
  ASSUME ParserConstants
  PROVE  Parser!Spec => []Parser!TypeOK
<1>1. Parser!Init => SyncInv /\ Fields
  BY ParserInit, FieldsInit
<1>2. SyncInv /\ Fields /\ [Parser!Next]_Parser!vars => (SyncInv /\ Fields)'
  BY ParserNext, FieldsStep
<1>3. SyncInv /\ Fields /\ DataReceived => Parser!TypeOK
  <2> SUFFICES ASSUME SyncInv, Fields, DataReceived PROVE Parser!TypeOK
    OBVIOUS
  <2>1. \A f \in Frames : f \in Seq(0 .. 255)
    BY FramesFacts
  <2>2. line \in [Ports -> [frame : Seq(0 .. 255), next : Nat \ {0}]]
    <3>1. Frames \cup {<<>>} \subseteq Seq(0 .. 255)
      BY <2>1, EmptySeq, Zenon
    <3> QED
      BY <3>1 DEF SyncInv, ParserTyped
  <2>3. state = "DATA" => Len(data) < dataLen
    BY DEF SyncInv, Place
  <2>4. sentWord \in [Ports -> SUBSET (0 .. 15)]
    BY WordsFacts DEF Fields
  <2> QED
    BY <2>2, <2>3, <2>4 DEF Parser!TypeOK, SyncInv, ParserTyped, Fields, DataReceived,
       Parser!Byte, Settle
<1> QED
  BY <1>1, <1>2, <1>3, DataIsReceived, PTL DEF Parser!Spec

--------------------------------------------------------------------------------
(* While the parser follows a frame it holds what the card has sent of it. *)
Followed ==
  state # "HDR1" /\ cur.ok =>
    LET f == line[cur.card].frame
    IN  /\ cur.card \in Ports /\ line[cur.card].next = cur.n + 1
        /\ header = f[1] /\ bcc = UpTo(f, cur.n) % 128
        /\ state # "HDR2" =>
             /\ code = 0 /\ dataLen = f[2]
             /\ \A i \in 1 .. Len(data) : data[i] = f[i + 2]
        /\ state = "BCC" => Len(data) = dataLen /\ cur.n = 2 + dataLen

(* The frame that the parser follows, and the byte of it that comes next. *)
LEMMA FollowedFrame ==
  ASSUME ParserConstants, SyncInv, Followed, state # "HDR1", cur.ok
  PROVE  LET f == line[cur.card].frame
         IN  /\ f \in Frames /\ f[2] \in {1, 2, 6} /\ Len(f) = f[2] + 3
             /\ cur.n + 1 \in 2 .. Len(f) /\ cur.n \in 1 .. 8
             /\ \A i \in 1 .. 9 : i <= Len(f) => f[i] \in 0 .. 255
             /\ state = "HDR2" => cur.n = 1
             /\ state = "DATA" => cur.n = 2 + Len(data) /\ Len(data) < f[2]
             /\ state = "BCC" => cur.n = 2 + f[2] /\ Len(data) = f[2]
<1> DEFINE f == line[cur.card].frame
<1>1. cur.card \in Ports /\ line[cur.card].next = cur.n + 1 /\ cur.n \in Nat
  BY DEF Followed, SyncInv, ParserTyped
<1>2. state \in {"HDR2", "DATA", "BCC"}
  BY DEF SyncInv, ParserTyped
<1>3. cur.n >= 1
  <2>1. Len(data) \in Nat
    BY DEF SyncInv, ParserTyped
  <2>2. \A k \in 2 .. Settle : k >= 1
    BY DEF Settle, Parser!Settle, Parser!MaxData
  <2> QED
    BY <1>2, <2>1, <2>2 DEF SyncInv, Place
<1>4. line[cur.card] # Parser!Silent
  BY <1>1, <1>3 DEF Parser!Silent
<1>5. f \in Frames /\ cur.n + 1 \in 1 .. Len(f)
  BY <1>1, <1>4, ByteSent DEF SyncInv
<1>6. f[2] \in {1, 2, 6} /\ Len(f) = f[2] + 3 /\ \A i \in 1 .. Len(f) : f[i] \in 0 .. 255
  BY <1>5, FramesFacts
<1> HIDE DEF f
<1>7. cur.n + 1 \in 2 .. Len(f) /\ cur.n \in 1 .. 8
  BY <1>1, <1>3, <1>5, <1>6
<1>8. \A i \in 1 .. 9 : i <= Len(f) => f[i] \in 0 .. 255
  <2>1. \A i \in 1 .. 9 : i <= Len(f) => i \in 1 .. Len(f)
    BY <1>6
  <2> QED
    BY <1>6, <2>1
<1>9. /\ state = "HDR2" => cur.n = 1
      /\ state = "DATA" => cur.n = 2 + Len(data) /\ Len(data) < dataLen
  BY DEF SyncInv, Place
<1>10. /\ state # "HDR2" => dataLen = f[2]
       /\ state = "BCC" => Len(data) = dataLen /\ cur.n = 2 + dataLen
  BY DEF Followed, f
<1> QED
  BY <1>5, <1>6, <1>7, <1>8, <1>9, <1>10 DEF f

(* Reports, acknowledgements and losses leave the parser where it is, and leave
   the line of the frame it follows as it is. *)
LEMMA FollowedSends ==
  ASSUME ParserConstants, SyncInv, Followed, UNCHANGED Parser!parserVars,
         state # "HDR1" /\ cur'.ok =>
           /\ cur.ok /\ cur'.card = cur.card /\ cur'.n = cur.n
           /\ line'[cur.card] = line[cur.card]
  PROVE  Followed'
<1>1. UNCHANGED <<state, header, bcc, code, dataLen, data>>
  BY DEF Parser!parserVars
<1> QED
  BY <1>1 DEF Followed

(* A card that begins a frame was silent, and what is lost of the frame that the
   parser is in ends its being followed: neither moves the line of a frame that is
   still followed. *)
LEMMA FollowedBegins ==
  ASSUME ParserConstants, SyncInv, Followed, NEW c \in Ports, NEW msg \in Msgs,
         Parser!StartFrame(c, msg), UNCHANGED <<Parser!parserVars, cur>>
  PROVE  Followed'
<1>1. line[c] = Parser!Silent /\ \A k \in Ports \ {c} : line'[k] = line[k]
  BY DEF Parser!StartFrame, SyncInv, ParserTyped
<1>2. ASSUME state # "HDR1", cur.ok PROVE line'[cur.card] = line[cur.card]
  <2>1. cur.card \in Ports /\ line[cur.card].next = cur.n + 1 /\ cur.n \in 1 .. 8
    BY <1>2, FollowedFrame DEF Followed
  <2>2. line[cur.card] # Parser!Silent
    BY <2>1 DEF Parser!Silent
  <2> QED
    BY <1>1, <2>1, <2>2
<1> QED
  BY <1>2, FollowedSends

LEMMA FollowedLoses ==
  ASSUME ParserConstants, SyncInv, Followed, NEW c \in Ports, Parser!LoseByte(c)
  PROVE  Followed'
<1>1. /\ line[c] # Parser!Silent /\ line' = [line EXCEPT ![c] = Parser!Onward(c)]
      /\ UNCHANGED Parser!parserVars
  BY DEF Parser!LoseByte
<1>2. ParserTyped /\ Sending
  BY DEF SyncInv
<1>3. /\ cur'.card = cur.card /\ cur'.n = cur.n
      /\ state # "HDR1" /\ cur'.ok => cur.ok /\ c # cur.card
  BY <1>2, LoseFacts
<1>4. ASSUME state # "HDR1", cur'.ok PROVE cur.ok /\ line'[cur.card] = line[cur.card]
  <2>1. cur.ok /\ c # cur.card /\ cur.card \in Ports
    BY <1>3, <1>4 DEF Followed
  <2> QED
    BY <1>1, <1>2, <2>1, LineMoves
<1> QED
  BY <1>1, <1>3, <1>4, FollowedSends

LEMMA FollowedRead ==
  ASSUME ParserConstants, SyncInv, Followed, NEW c \in Ports, Parser!ReadByte(c)
  PROVE  Followed'
<1> DEFINE b == Parser!NextByte(c)
           f == line[c].frame
<1>1. /\ ParserTyped /\ Sending /\ Place
      /\ line[c] # Parser!Silent /\ line' = [line EXCEPT ![c] = Parser!Onward(c)]
      /\ Parser!processChar(b) /\ Parser!Track(c, b)
  BY DEF Parser!ReadByte, SyncInv
<1>2. f \in Frames /\ line[c].next \in 1 .. Len(f) /\ b = f[line[c].next] /\ b \in Bytes
  BY <1>1, ByteSent DEF Parser!NextByte
<1>3. f[2] \in {1, 2, 6} /\ Len(f) = f[2] + 3 /\ \A i \in 1 .. Len(f) : f[i] \in 0 .. 255
  BY <1>2, FramesFacts
<1>4. line[c].next < Len(f) => line'[c].next = line[c].next + 1 /\ line'[c].frame = f
  BY <1>1, LineMoves
<1> HIDE DEF b, f
<1>5. state' \in {"HDR1", "HDR2", "DATA", "BCC"}
  BY <1>1, <1>2, ParserSteps
<1>6. /\ state' = "HDR1" => cur' = Parser!NoFrame
      /\ state' = "HDR2" => /\ cur'.card = c /\ cur'.n = 1
                            /\ cur'.ok <=> line[c].next = 1
      /\ state' \in {"DATA", "BCC"} => /\ cur'.card = c /\ cur'.n = cur.n + 1
                                       /\ cur'.ok <=> Parser!Follows(c)
  BY <1>1, <1>5, TrackFacts
<1>7. Parser!ExpectBcc(b) => state = "BCC" /\ state' = "HDR1"
  BY Zenon DEF Parser!ExpectBcc
<1>8. CASE state' = "HDR1"
  BY <1>8 DEF Followed
<1>9. CASE state' = "HDR2"
  <2> SUFFICES ASSUME cur'.ok PROVE Followed'
    BY DEF Followed
  <2>1. line[c].next = 1 /\ cur'.card = c /\ cur'.n = 1
    BY <1>6, <1>9
  <2>2. line'[c].next = 2 /\ line'[c].frame = f
    <3>1. 1 < Len(f)
      BY <1>3
    <3> QED
      BY <1>4, <2>1, <3>1
  <2>3. b = f[1] /\ f[1] \in 0 .. 255
    <3>1. 1 \in 1 .. Len(f)
      BY <1>3
    <3> QED
      BY <1>2, <1>3, <2>1, <3>1
  <2>4. header' = b /\ bcc' = b % 128
    BY <1>1, <1>7, <1>9 DEF Parser!processChar, Parser!ExpectHdr1, Parser!ExpectHdr2,
       Parser!ExpectData, Parser!TakeHeader, Parser!parserVars
  <2>5. UpTo(f, 1) = f[1]
    BY <2>3 DEF UpTo
  <2> QED
    BY <1>9, <2>1, <2>2, <2>3, <2>4, <2>5 DEF Followed
<1>10. CASE state' \in {"DATA", "BCC"}
  <2> SUFFICES ASSUME cur'.ok PROVE Followed'
    BY DEF Followed
  <2>1. /\ cur'.card = c /\ cur'.n = cur.n + 1 /\ cur.ok /\ cur.card = c
        /\ line[c].next = cur.n + 1
    BY <1>6, <1>10 DEF Parser!Follows
  <2>2. state \in {"HDR2", "DATA"}
    BY <1>1, <1>2, <1>10, ParserSteps DEF ParserTyped
  <2>3. /\ cur.n + 1 \in 2 .. Len(f) /\ cur.n \in 1 .. 8
        /\ state = "HDR2" => cur.n = 1
        /\ state = "DATA" => cur.n = 2 + Len(data) /\ Len(data) < f[2]
        /\ \A i \in 1 .. 9 : i <= Len(f) => f[i] \in 0 .. 255
    BY <2>1, <2>2, FollowedFrame DEF f
  <2>4. /\ header = f[1] /\ bcc = UpTo(f, cur.n) % 128
        /\ state = "DATA" => /\ code = 0 /\ dataLen = f[2]
                             /\ \A i \in 1 .. Len(data) : data[i] = f[i + 2]
    BY <2>1, <2>2 DEF Followed, f
  <2>5. b = f[cur.n + 1] /\ b \in 0 .. 255
    BY <1>2, <1>3, <2>1
  <2>6. cur.n + 1 < Len(f) /\ cur.n \in 1 .. 7
    <3>1. Len(data) \in Nat
      BY <1>1 DEF ParserTyped
    <3> QED
      BY <1>3, <2>2, <2>3, <3>1
  <2>7. line'[c].next = cur.n + 1 + 1 /\ line'[c].frame = f
    BY <1>4, <2>1, <2>6
  <2>8. bcc' = (bcc + b) % 128 /\ header' = header
    BY <1>1, <1>7, <1>10 DEF Parser!processChar, Parser!ExpectHdr1, Parser!ExpectHdr2,
       Parser!ExpectData, Parser!TakeHeader, Parser!parserVars
  <2>9. bcc' = UpTo(f, cur.n + 1) % 128
    <3>1. \A i \in 1 .. cur.n + 1 : f[i] \in Int
      <4>1. \A i \in 1 .. cur.n + 1 : i \in 1 .. 9 /\ i <= Len(f)
        BY <1>3, <2>6
      <4>2. \A i \in 0 .. 255 : i \in Int
        OBVIOUS
      <4> QED
        BY <2>3, <4>1, <4>2
    <3>2. /\ UpTo(f, cur.n) \in Int
          /\ UpTo(f, cur.n + 1) = UpTo(f, cur.n) + f[cur.n + 1]
      <4>1. cur.n \in 0 .. 7
        BY <2>6
      <4> QED
        BY <3>1, <4>1, UpToFacts
    <3>3. \A x, y \in Int : ((x % 128) + y) % 128 = (x + y) % 128
      OBVIOUS
    <3>4. b \in Int
      BY <2>5
    <3> QED
      BY <2>4, <2>5, <2>8, <3>2, <3>3, <3>4
  <2>10. CASE state = "HDR2"
    <3>1. b = f[2] /\ b \in {1, 2, 6} /\ cur.n = 1
      BY <1>3, <2>3, <2>5, <2>10
    <3>2. ~Parser!IsHeader(b) /\ b \div 32 = 0 /\ b % 32 = b /\ b \in 1 .. Parser!MaxData
      BY <3>1 DEF Parser!IsHeader, Parser!MaxData
    <3>3. code' = 0 /\ dataLen' = b /\ data' = <<>> /\ state' = "DATA"
      BY <1>1, <1>7, <2>10, <3>2 DEF Parser!processChar, Parser!ExpectHdr1, Parser!ExpectHdr2,
         Parser!ExpectData
    <3>4. \A i \in 1 .. Len(data') : data'[i] = f[i + 2]
      BY <3>3
    <3> QED
      BY <2>1, <2>4, <2>7, <2>8, <2>9, <3>1, <3>3, <3>4 DEF Followed
  <2>11. CASE state = "DATA"
    <3>1. /\ data' = Append(data, b) /\ code' = code /\ dataLen' = dataLen
          /\ state' = IF Len(data') = dataLen THEN "BCC" ELSE "DATA"
      BY <1>1, <1>7, <2>11 DEF Parser!processChar, Parser!ExpectHdr1, Parser!ExpectHdr2,
         Parser!ExpectData
    <3>2. /\ Len(data) \in Nat /\ Len(data') = Len(data) + 1
          /\ \A i \in 1 .. Len(data) : data'[i] = data[i]
          /\ data'[Len(data) + 1] = b
      BY <1>1, <1>2, <3>1, AppendProperties DEF ParserTyped
    <3>3. cur.n = 2 + Len(data) /\ b = f[(Len(data) + 1) + 2]
      <4>1. 2 + Len(data) + 1 = (Len(data) + 1) + 2
        BY <3>2
      <4> QED
        BY <2>3, <2>5, <2>11, <4>1
    <3>4. \A i \in 1 .. Len(data') : data'[i] = f[i + 2]
      <4>1. \A i \in 1 .. Len(data) + 1 : i \in 1 .. Len(data) \/ i = Len(data) + 1
        BY <3>2
      <4> QED
        BY <2>4, <2>11, <3>2, <3>3, <4>1
    <3>5. state' = "BCC" => Len(data') = dataLen' /\ cur'.n = 2 + dataLen'
      <4>1. Len(data') = dataLen => cur.n + 1 = 2 + dataLen
        BY <3>2, <3>3
      <4> QED
        BY <2>1, <3>1, <4>1
    <3> QED
      BY <2>1, <2>4, <2>7, <2>8, <2>9, <2>11, <3>1, <3>4, <3>5 DEF Followed
  <2> QED
    BY <2>2, <2>10, <2>11
<1> QED
  BY <1>5, <1>8, <1>9, <1>10

LEMMA FollowedStep ==
  ParserConstants /\ SyncInv /\ Followed /\ [Parser!Next]_Parser!vars => Followed'
<1> SUFFICES ASSUME ParserConstants, SyncInv, Followed, [Parser!Next]_Parser!vars
             PROVE  Followed'
  OBVIOUS
<1>1. ASSUME NEW c \in Ports, NEW w \in Words[c], Parser!ReportInputs(c, w) PROVE Followed'
  <2>1. Parser!StartFrame(c, Parser!InputsMsg(w)) /\ Parser!InputsMsg(w) \in Msgs
    BY <1>1 DEF AllWords, Parser!ReportInputs, Msgs
  <2>2. UNCHANGED <<Parser!parserVars, cur>>
    BY <1>1 DEF Parser!ReportInputs
  <2> QED
    BY <2>1, <2>2, FollowedBegins
<1>2. ASSUME NEW c \in Ports, Parser!ReportOther(c) PROVE Followed'
  <2>1. UNCHANGED <<Parser!parserVars, cur>>
    BY <1>2 DEF Parser!ReportOther, Parser!history
  <2>2. PICK msg \in Msgs : Parser!StartFrame(c, msg)
    BY <1>2 DEF Parser!ReportOther, Msgs
  <2> QED
    BY <2>1, <2>2, FollowedBegins
<1>3. CASE UNCHANGED Parser!vars
  BY <1>3 DEF Parser!vars, Parser!cardVars, Parser!parserVars, Parser!history, Followed
<1> QED
  BY <1>1, <1>2, <1>3, FollowedLoses, FollowedRead DEF Parser!Next

(* The inputs that card c has reported last and the main board has not handled. *)
Pending(c) == sentWord[c] \ inputState[c]

(* A report that is on the line is of the inputs that its card reported last. *)
Reported ==
  \A c \in Ports : Len(line[c].frame) = 5 =>
    sentWord[c] \in AllWords /\ line[c].frame = Parser!Frame(c, Parser!InputsMsg(sentWord[c]))

(* As long as no inputs were made up there is no event without its press, and
   every input that is still to be handled was pressed. *)
Pressed ==
  ~invented =>
    /\ \A b \in 0 .. 31 : owed[b] >= 0
    /\ \A c \in Ports : \A b \in Parser!Buttons(c, Pending(c)) : owed[b] >= 1

(* Short of a fault the parser follows every frame, and it is the only one that
   a byte was read of. *)
Order ==
  faults = 0 =>
    /\ ~invented
    /\ state # "HDR1" => cur.ok
    /\ \A c \in Ports : line[c].next > 1 => state # "HDR1" /\ c = cur.card

(* Short of a fault all that a card reported was handled, but for the report that
   is on its line, and a button has one press to its name that was not. *)
Answered ==
  faults = 0 =>
    /\ \A c \in Ports : Len(line[c].frame) # 5 => sentWord[c] = inputState[c]
    /\ \A b \in 0 .. 31 :
         /\ owed[b] \in {0, 1}
         /\ owed[b] = 1 => \E c \in Ports : b \in Parser!Buttons(c, Pending(c))

CardInv ==
  SyncInv /\ Fields /\ Followed /\ Reported /\ Pressed /\ Order /\ Answered

(* No two cards share a button, and no two inputs of a card. *)
LEMMA ButtonFacts ==
  ASSUME ParserConstants, NEW c \in Ports, NEW S \in SUBSET (0 .. 15)
  PROVE  /\ Parser!Buttons(c, S) \subseteq 0 .. 31
         /\ \A k \in Ports, T \in SUBSET (0 .. 15) : \A b :
              b \in Parser!Buttons(c, S) /\ b \in Parser!Buttons(k, T) => c = k
<1>1. \A k \in {0, 1}, i \in 0 .. 15 :
        /\ Parser!Button(k, i) \in 0 .. 31
        /\ k = 0 <=> Parser!Button(k, i) < 16
  BY DEF Parser!Button
<1>2. Ports \subseteq {0, 1}
  BY DEF ParserConstants
<1> QED
  BY <1>1, <1>2 DEF Parser!Buttons

(* A report that was followed to its check byte is taken for what was sent. *)
LEMMA ReportTaken ==
  ASSUME ParserConstants, ~CharSigned, SyncInv, Followed, Reported,
         state = "BCC", cur.ok, dataLen = 2
  PROVE  Parser!Card = cur.card /\ Parser!Inputs = sentWord[cur.card]
<1> DEFINE c == cur.card
           w == sentWord[c]
           f == line[c].frame
<1>1. /\ c \in Ports /\ header = f[1] /\ dataLen = f[2] /\ Len(data) = dataLen
      /\ \A i \in 1 .. Len(data) : data[i] = f[i + 2]
  BY DEF Followed
<1>2. Len(f) = 5
  <2>1. Len(f) = f[2] + 3
    BY FollowedFrame
  <2> QED
    BY <1>1, <2>1
<1>3. w \in AllWords /\ f = Parser!Frame(c, Parser!InputsMsg(w))
  BY <1>1, <1>2 DEF Reported
<1>4. w \in SUBSET (0 .. 15) /\ Parser!InputsMsg(w) \in Msgs
  BY <1>3, WordsFacts DEF ParserConstants, Msgs
<1> HIDE DEF w, c, f
<1>5. PICK low, high \in 0 .. 255 :
        /\ Parser!InputsMsg(w) = <<low, high>>
        /\ ~CharSigned => Parser!Word(low, high) = w
  BY <1>4, WordFacts
<1> DEFINE m == Parser!InputsMsg(w)
<1>6. f[1] = 128 + c /\ \A i \in 1 .. Len(m) : f[i + 2] = m[i]
  <2>1. f = Parser!Frame(c, m) /\ m \in Msgs
    BY <1>3, <1>4
  <2> HIDE DEF m
  <2> QED
    BY <1>1, <2>1, FrameBytes
<1>7. f[1 + 2] = low /\ f[2 + 2] = high
  <2>1. Len(m) = 2 /\ m[1] = low /\ m[2] = high
    BY <1>5
  <2> HIDE DEF m
  <2> QED
    BY <1>6, <2>1
<1> HIDE DEF m
<1>8. data[1] = low /\ data[2] = high
  <2>1. 1 \in 1 .. Len(data) /\ 2 \in 1 .. Len(data)
    BY <1>1
  <2> QED
    BY <1>1, <1>7, <2>1
<1>9. (128 + c) % 16 = c
  <2>1. \A k \in {0, 1} : (128 + k) % 16 = k
    OBVIOUS
  <2> QED
    BY <1>1, <2>1 DEF ParserConstants
<1>10. Parser!Card = c /\ Parser!Inputs = w
  BY <1>1, <1>5, <1>6, <1>8, <1>9 DEF Parser!Card, Parser!Inputs
<1> QED
  BY <1>10 DEF c, w

(* The last byte of a frame that was followed is the one that the check asks for. *)
LEMMA CheckPasses ==
  ASSUME ParserConstants, SyncInv, Followed, state = "BCC", cur.ok
  PROVE  /\ Parser!Checked(Parser!NextByte(cur.card))
         /\ line[cur.card].next = Len(line[cur.card].frame)
<1> DEFINE f == line[cur.card].frame
<1>1. /\ f \in Frames /\ f[2] \in {1, 2, 6} /\ Len(f) = f[2] + 3 /\ cur.n = 2 + f[2]
  BY FollowedFrame
<1>2. line[cur.card].next = cur.n + 1 /\ code = 0 /\ bcc = UpTo(f, cur.n) % 128
  BY DEF Followed
<1>3. f[f[2] + 3] = 127 - (UpTo(f, f[2] + 2) % 128)
  BY <1>1, FramesFacts
<1> HIDE DEF f
<1>4. cur.n + 1 = f[2] + 3 /\ cur.n = f[2] + 2
  BY <1>1
<1>5. f[cur.n + 1] = 127 - bcc /\ cur.n + 1 = Len(f)
  BY <1>1, <1>2, <1>3, <1>4
<1> QED
  BY <1>2, <1>5 DEF Parser!Checked, Parser!NextByte, f

LEMMA CardInit == ParserConstants /\ Parser!Init => CardInv
<1> SUFFICES ASSUME ParserConstants, Parser!Init PROVE CardInv
  OBVIOUS
<1>1. /\ state = "HDR1" /\ ~invented /\ cur = Parser!NoFrame
      /\ line = [c \in Ports |-> Parser!Silent]
      /\ sentWord = [c \in Ports |-> {}] /\ inputState = [c \in 0 .. 15 |-> {}]
      /\ owed = [b \in 0 .. 31 |-> 0]
  BY Zenon DEF Parser!Init
<1>2. SyncInv /\ Fields
  BY ParserInit, FieldsInit
<1>3. Followed
  BY <1>1 DEF Followed
<1>4. \A c \in Ports : line[c].next = 1 /\ Len(line[c].frame) = 0
  BY <1>1 DEF Parser!Silent
<1>5. \A c \in Ports : sentWord[c] = {} /\ inputState[c] = {} /\ Pending(c) = {}
  BY <1>1 DEF ParserConstants, Pending
<1>6. \A b \in 0 .. 31 : owed[b] = 0
  BY <1>1
<1>7. Reported
  BY <1>4 DEF Reported
<1>8. Pressed
  BY <1>5, <1>6 DEF Pressed, Parser!Buttons
<1>9. Order /\ Answered
  <2>1. ASSUME NEW c \in Ports PROVE ~(line[c].next > 1)
    BY <1>4
  <2> QED
    BY <1>1, <1>5, <1>6, <2>1 DEF Order, Answered
<1> QED
  BY <1>2, <1>3, <1>7, <1>8, <1>9 DEF CardInv

(* The lines and the parser, when a card that was silent begins a frame. *)
LEMMA BeginSteps ==
  ASSUME ParserConstants, CardInv, NEW c \in Ports, NEW msg \in Msgs,
         Parser!StartFrame(c, msg),
         UNCHANGED <<Parser!parserVars, cur, faults, invented>>
  PROVE  /\ Followed' /\ Order'
         /\ sentWord[c] = inputState[c] \/ faults # 0
         /\ line'[c] = [frame |-> Parser!Frame(c, msg), next |-> 1]
         /\ \A k \in Ports \ {c} : line'[k] = line[k]
<1>1. /\ line[c] = Parser!Silent
      /\ line' = [line EXCEPT ![c] = [frame |-> Parser!Frame(c, msg), next |-> 1]]
  BY DEF Parser!StartFrame
<1>2. SyncInv /\ Followed /\ Order /\ Answered
  BY DEF CardInv
<1>3. /\ line'[c] = [frame |-> Parser!Frame(c, msg), next |-> 1]
      /\ \A k \in Ports \ {c} : line'[k] = line[k]
  BY <1>1, <1>2 DEF SyncInv, ParserTyped
<1>4. Followed'
  BY <1>2, FollowedBegins
<1>5. Order'
  <2>1. state' = state /\ cur' = cur /\ faults' = faults /\ (invented' <=> invented)
    BY DEF Parser!parserVars
  <2>2. ASSUME NEW k \in Ports, line'[k].next > 1
        PROVE  k # c /\ line'[k] = line[k]
    <3>1. ~([frame |-> Parser!Frame(c, msg), next |-> 1].next > 1)
      OBVIOUS
    <3> QED
      BY <1>3, <2>2, <3>1
  <2>3. \A k \in Ports : line'[k].next > 1 => line[k].next > 1
    BY <2>2
  <2> HIDE <1>1
  <2> QED
    BY <1>2, <2>1, <2>3, Zenon DEF Order
<1>6. sentWord[c] = inputState[c] \/ faults # 0
  <2>1. Len(line[c].frame) # 5
    BY <1>1 DEF Parser!Silent
  <2> QED
    BY <1>2, <2>1 DEF Answered
<1> QED
  BY <1>3, <1>4, <1>5, <1>6

LEMMA CardReports ==
  ASSUME ParserConstants, CardInv, NEW c \in Ports, NEW w \in Words[c], Parser!ReportInputs(c, w)
  PROVE  Followed' /\ Reported' /\ Pressed' /\ Order' /\ Answered'
<1> DEFINE fresh == Parser!Buttons(c, w \ sentWord[c])
<1>1. /\ Parser!StartFrame(c, Parser!InputsMsg(w))
      /\ sentWord' = [sentWord EXCEPT ![c] = w]
      /\ owed' = [b \in 0 .. 31 |-> owed[b] + (IF b \in fresh THEN 1 ELSE 0)]
      /\ UNCHANGED <<Parser!parserVars, inputState, cur, faults, invented>>
  BY DEF Parser!ReportInputs, Parser!effects
<1>2. w \in AllWords /\ Parser!InputsMsg(w) \in Msgs
  BY DEF AllWords, Msgs
<1>3. /\ Followed' /\ Order'
      /\ sentWord[c] = inputState[c] \/ faults # 0
      /\ line'[c] = [frame |-> Parser!Frame(c, Parser!InputsMsg(w)), next |-> 1]
      /\ \A k \in Ports \ {c} : line'[k] = line[k]
  BY <1>1, <1>2, BeginSteps
<1>4. /\ sentWord \in [Ports -> AllWords \cup {{}}]
      /\ inputState \in [0 .. 15 -> SUBSET (0 .. 15)] /\ owed \in [0 .. 31 -> Int]
      /\ Reported /\ Pressed /\ Answered
  BY DEF CardInv, Fields
<1>5. /\ sentWord'[c] = w /\ \A k \in Ports \ {c} : sentWord'[k] = sentWord[k]
      /\ inputState' = inputState /\ faults' = faults /\ (invented' <=> invented)
  BY <1>1, <1>4
<1>6. /\ w \in SUBSET (0 .. 15) /\ \A k \in Ports : sentWord[k] \in SUBSET (0 .. 15)
      /\ \A k \in Ports : Pending(k) \in SUBSET (0 .. 15)
  <2>1. w \in SUBSET (0 .. 15) /\ \A k \in Ports : sentWord[k] \in AllWords \cup {{}}
    BY <1>2, <1>4, WordsFacts
  <2>2. \A k \in Ports : sentWord[k] \in SUBSET (0 .. 15)
    BY <2>1, WordsFacts
  <2> QED
    BY <2>1, <2>2 DEF Pending
<1>7. \A k \in Ports \ {c} : Pending(k)' = Pending(k)
  BY <1>5 DEF Pending
<1>8. Pending(c)' \subseteq Pending(c) \cup (w \ sentWord[c])
  BY <1>5 DEF Pending
<1>9. fresh \subseteq 0 .. 31
  <2>1. w \ sentWord[c] \in SUBSET (0 .. 15)
    BY <1>6
  <2> QED
    BY <2>1, ButtonFacts
<1> HIDE DEF fresh
<1>10. \A b \in 0 .. 31 : /\ b \in fresh => owed'[b] = owed[b] + 1
                          /\ b \notin fresh => owed'[b] = owed[b]
                          /\ owed[b] \in Int
  BY <1>1, <1>4
<1>11. Reported'
  BY <1>2, <1>3, <1>4, <1>5 DEF Reported
<1>12. Pressed'
  <2> SUFFICES ASSUME ~invented' PROVE Pressed'
    BY DEF Pressed
  <2>1. /\ \A b \in 0 .. 31 : owed[b] >= 0
        /\ \A k \in Ports : \A b \in Parser!Buttons(k, Pending(k)) : owed[b] >= 1
    BY <1>4, <1>5 DEF Pressed
  <2>2. \A b \in 0 .. 31 : owed'[b] >= 0 /\ (owed[b] >= 1 => owed'[b] >= 1)
                             /\ (b \in fresh => owed'[b] >= 1)
    BY <1>10, <2>1
  <2>3. ASSUME NEW k \in Ports, NEW b \in Parser!Buttons(k, Pending(k)')
        PROVE  owed'[b] >= 1
    <3>1. b \in Parser!Buttons(k, Pending(k)) \/ b \in fresh
      <4>1. CASE k = c
        BY <1>8, <2>3, <4>1 DEF Parser!Buttons, fresh
      <4>2. CASE k # c
        BY <1>7, <2>3, <4>2
      <4> QED
        BY <4>1, <4>2
    <3>2. Parser!Buttons(k, Pending(k)) \subseteq 0 .. 31
      BY <1>6, ButtonFacts
    <3> QED
      BY <1>9, <2>1, <2>2, <3>1, <3>2
  <2> QED
    BY <2>2, <2>3 DEF Pressed
<1>13. Answered'
  <2> SUFFICES ASSUME faults' = 0 PROVE Answered'
    BY DEF Answered
  <2>1. /\ \A k \in Ports : Len(line[k].frame) # 5 => sentWord[k] = inputState[k]
        /\ \A b \in 0 .. 31 :
             /\ owed[b] \in {0, 1}
             /\ owed[b] = 1 => \E k \in Ports : b \in Parser!Buttons(k, Pending(k))
        /\ sentWord[c] = inputState[c]
    BY <1>3, <1>4, <1>5 DEF Answered
  <2>2. Len(line'[c].frame) = 5
    <3>1. \E low, high \in 0 .. 255 : Parser!InputsMsg(w) = <<low, high>>
      BY <1>6, WordFacts
    <3>2. Len(Parser!InputsMsg(w)) = 2
      BY <3>1
    <3>3. Len(Parser!Frame(c, Parser!InputsMsg(w))) = Len(Parser!InputsMsg(w)) + 3
      BY <1>2, FrameBytes
    <3> QED
      BY <1>3, <3>2, <3>3
  <2>3. \A k \in Ports : Len(line'[k].frame) # 5 => sentWord'[k] = inputState'[k]
    BY <1>3, <1>5, <2>1, <2>2
  <2>4. Pending(c) = {} /\ Pending(c)' = w \ sentWord[c]
    BY <1>5, <2>1 DEF Pending
  <2>5. ASSUME NEW b \in 0 .. 31
        PROVE  /\ owed'[b] \in {0, 1}
               /\ owed'[b] = 1 => \E k \in Ports : b \in Parser!Buttons(k, Pending(k)')
    <3>1. CASE b \in fresh
      <4>1. owed[b] # 1
        <5> SUFFICES ASSUME owed[b] = 1 PROVE FALSE
          OBVIOUS
        <5>1. PICK k \in Ports : b \in Parser!Buttons(k, Pending(k))
          BY <2>1
        <5>2. k = c
          <6>1. w \ sentWord[c] \in SUBSET (0 .. 15)
            BY <1>6
          <6> QED
            BY <1>6, <3>1, <5>1, <6>1, ButtonFacts DEF fresh
        <5> QED
          BY <2>4, <5>1, <5>2 DEF Parser!Buttons
      <4>2. owed'[b] = 1
        BY <1>10, <2>1, <3>1, <4>1
      <4> QED
        BY <2>4, <3>1, <4>2 DEF fresh
    <3>2. CASE b \notin fresh
      <4>1. owed'[b] = owed[b] /\ owed[b] \in {0, 1}
        BY <1>10, <2>1, <3>2
      <4>2. ASSUME owed'[b] = 1 PROVE \E k \in Ports : b \in Parser!Buttons(k, Pending(k)')
        <5>1. PICK k \in Ports : b \in Parser!Buttons(k, Pending(k))
          BY <2>1, <4>1, <4>2
        <5>2. k # c
          BY <2>4, <5>1 DEF Parser!Buttons
        <5> QED
          BY <1>7, <5>1, <5>2
      <4> QED
        BY <4>1, <4>2
    <3> QED
      BY <3>1, <3>2
  <2> QED
    BY <2>3, <2>5 DEF Answered
<1> QED
  BY <1>3, <1>11, <1>12, <1>13

LEMMA CardSendsOther ==
  ASSUME ParserConstants, CardInv, NEW c \in Ports, Parser!ReportOther(c)
  PROVE  Followed' /\ Reported' /\ Pressed' /\ Order' /\ Answered'
<1>1. UNCHANGED <<sentWord, Parser!parserVars, inputState, cur, faults, invented, owed>>
  BY DEF Parser!ReportOther, Parser!effects, Parser!history
<1>2. PICK msg \in {Parser!StatusMsg(f) : f \in Flags} \cup {Parser!AckMsg} :
        Parser!StartFrame(c, msg)
  BY DEF Parser!ReportOther
<1>3. msg \in Msgs /\ Len(msg) # 2
  <2>1. CASE msg \in {Parser!StatusMsg(f) : f \in Flags}
    <3>1. PICK f \in Flags : msg = <<f, 0, 0, 0, 0, 0>>
      BY <2>1 DEF Parser!StatusMsg
    <3>2. Len(msg) = 6
      BY <3>1
    <3> QED
      BY <2>1, <3>2 DEF Msgs
  <2>2. CASE msg = Parser!AckMsg
    <3>1. Len(msg) = 1
      BY <2>2 DEF Parser!AckMsg
    <3> QED
      BY <2>2, <3>1 DEF Msgs
  <2> QED
    BY <2>1, <2>2
<1>4. /\ Followed' /\ Order'
      /\ sentWord[c] = inputState[c] \/ faults # 0
      /\ line'[c] = [frame |-> Parser!Frame(c, msg), next |-> 1]
      /\ \A k \in Ports \ {c} : line'[k] = line[k]
  BY <1>1, <1>2, <1>3, BeginSteps
<1>5. Len(line'[c].frame) # 5
  <2>1. Len(Parser!Frame(c, msg)) = Len(msg) + 3 /\ Len(msg) \in {1, 2, 6}
    BY <1>3, FrameBytes
  <2>2. line'[c].frame = Parser!Frame(c, msg)
    BY <1>4
  <2>3. Len(msg) + 3 # 5
    <3>1. \A l \in {1, 2, 6} : l # 2 => l + 3 # 5
      OBVIOUS
    <3> QED
      BY <1>3, <2>1, <3>1
  <2> QED
    BY <2>1, <2>2, <2>3, Zenon
<1>6. Reported /\ Pressed /\ Answered
  BY DEF CardInv
<1>7. Reported'
  BY <1>1, <1>4, <1>5, <1>6 DEF Reported
<1>8. Pressed'
  BY <1>1, <1>6 DEF Pressed, Pending
<1>9. Answered'
  <2> SUFFICES ASSUME faults' = 0 PROVE Answered'
    BY DEF Answered
  <2>1. \A k \in Ports : Len(line'[k].frame) # 5 => sentWord'[k] = inputState'[k]
    BY <1>1, <1>4, <1>6 DEF Answered
  <2> QED
    BY <1>1, <1>6, <2>1 DEF Answered, Pending
<1> QED
  BY <1>4, <1>7, <1>8, <1>9

(* What a step that takes a byte off a line makes of the reports on the lines. *)
LEMMA ReportedMoves ==
  ASSUME ParserTyped, Sending, Reported, NEW c \in Ports, line[c] # Parser!Silent,
         line' = [line EXCEPT ![c] = Parser!Onward(c)], UNCHANGED sentWord
  PROVE  Reported'
<1>1. \A k \in Ports \ {c} : line'[k] = line[k]
  BY LineMoves
<1>2. line'[c] = Parser!Silent \/ line'[c].frame = line[c].frame
  <2>1. line'[c] = Parser!Onward(c)
    BY DEF ParserTyped
  <2>2. \/ Parser!Onward(c) = Parser!Silent
        \/ Parser!Onward(c) = [frame |-> line[c].frame, next |-> line[c].next + 1]
    BY ByteSent
  <2> QED
    BY <2>1, <2>2
<1>3. Len(Parser!Silent.frame) # 5
  BY DEF Parser!Silent
<1> QED
  BY <1>1, <1>2, <1>3 DEF Reported

LEMMA CardLoses ==
  ASSUME ParserConstants, CardInv, NEW c \in Ports, Parser!LoseByte(c)
  PROVE  Followed' /\ Reported' /\ Pressed' /\ Order' /\ Answered'
<1>1. /\ line[c] # Parser!Silent /\ line' = [line EXCEPT ![c] = Parser!Onward(c)]
      /\ faults' = faults + 1
      /\ UNCHANGED <<sentWord, Parser!parserVars, inputState, invented, owed>>
  BY DEF Parser!LoseByte, Parser!effects
<1>2. SyncInv /\ Followed /\ Reported /\ Pressed /\ ParserTyped /\ Sending /\ faults \in Nat
  BY DEF CardInv, SyncInv, Fields
<1>3. Followed'
  BY <1>2, FollowedLoses
<1>4. Reported'
  BY <1>1, <1>2, ReportedMoves
<1>5. Pressed'
  BY <1>1, <1>2 DEF Pressed, Pending
<1>6. faults' # 0
  BY <1>1, <1>2
<1> QED
  BY <1>3, <1>4, <1>5, <1>6 DEF Order, Answered

(* What a byte does beside the parser: the inputs of a frame that passes the check
   are handled, and nothing else is. *)
Takes(b) == Parser!Checked(b) /\ Parser!IsInputs

LEMMA ReadEffects ==
  ASSUME NEW c \in Ports, Parser!ReadByte(c)
  PROVE  LET b == Parser!NextByte(c)
         IN  /\ sentWord' = sentWord
             /\ faults' = IF Parser!BreaksIn(c) THEN faults + 1 ELSE faults
             /\ invented' <=> (invented \/ (Takes(b) /\ ~Parser!Whole(c)))
             /\ Takes(b) =>
                  /\ state = "BCC" /\ dataLen = 2
                  /\ inputState' = [inputState EXCEPT ![Parser!Card] = Parser!Inputs]
                  /\ owed' = [n \in 0 .. 31 |-> owed[n] -
                       (IF n \in Parser!Buttons(Parser!Card, Parser!Rising) THEN 1 ELSE 0)]
             /\ ~Takes(b) => UNCHANGED <<inputState, owed>>
<1> DEFINE b == Parser!NextByte(c)
<1>1. Parser!processChar(b) /\ Parser!Track(c, b) /\ sentWord' = sentWord
  BY DEF Parser!ReadByte
<1> HIDE DEF b
<1>2. /\ faults' = IF Parser!BreaksIn(c) THEN faults + 1 ELSE faults
      /\ invented' <=> (invented \/ (Takes(b) /\ ~Parser!Whole(c)))
      /\ Takes(b) => owed' = [n \in 0 .. 31 |-> owed[n] -
                       (IF n \in Parser!Buttons(Parser!Card, Parser!Rising) THEN 1 ELSE 0)]
      /\ ~Takes(b) => owed' = owed
  BY <1>1, Zenon DEF Parser!Track, Takes
<1>3. Takes(b) => state = "BCC" /\ dataLen = 2
  BY DEF Takes, Parser!Checked, Parser!IsInputs
<1>4. CASE state = "BCC"
  <2>1. Parser!ExpectBcc(b)
    BY <1>1, <1>4 DEF Parser!processChar, Parser!ExpectHdr1, Parser!ExpectHdr2,
       Parser!ExpectData
  <2>2. inputState' = IF Takes(b) THEN [inputState EXCEPT ![Parser!Card] = Parser!Inputs]
                      ELSE inputState
    BY <2>1, Zenon DEF Parser!ExpectBcc, Takes
  <2> QED
    BY <1>1, <1>2, <1>3, <2>2 DEF b
<1>5. CASE state # "BCC"
  <2>1. ~Parser!ExpectBcc(b)
    BY <1>5, Zenon DEF Parser!ExpectBcc
  <2>2. inputState' = inputState
    BY <1>1, <2>1 DEF Parser!processChar, Parser!ExpectHdr1, Parser!ExpectHdr2,
       Parser!ExpectData, Parser!TakeHeader, Parser!effects
  <2> QED
    BY <1>1, <1>2, <1>3, <1>5, <2>2 DEF b
<1> QED
  BY <1>4, <1>5

(* The report of card c is handled: what was pending of it is not any more. *)
LEMMA HandledFacts ==
  ASSUME ParserConstants, Fields, NEW c \in Ports,
         sentWord' = sentWord,
         inputState' = [inputState EXCEPT ![c] = sentWord[c]],
         owed' = [n \in 0 .. 31 |->
                   owed[n] - (IF n \in Parser!Buttons(c, Pending(c)) THEN 1 ELSE 0)]
  PROVE  /\ inputState'[c] = sentWord[c] /\ Pending(c)' = {}
         /\ \A k \in Ports \ {c} : inputState'[k] = inputState[k] /\ Pending(k)' = Pending(k)
         /\ \A b \in 0 .. 31 :
              /\ owed[b] \in Int
              /\ b \in Parser!Buttons(c, Pending(c)) => owed'[b] = owed[b] - 1
              /\ b \notin Parser!Buttons(c, Pending(c)) => owed'[b] = owed[b]
<1>1. inputState \in [0 .. 15 -> SUBSET (0 .. 15)] /\ owed \in [0 .. 31 -> Int]
  BY DEF Fields
<1>2. \A k \in Ports : k \in 0 .. 15
  BY DEF ParserConstants
<1>3. inputState'[c] = sentWord[c] /\ \A k \in Ports \ {c} : inputState'[k] = inputState[k]
  BY <1>1, <1>2
<1>4. Pending(c)' = {} /\ \A k \in Ports \ {c} : Pending(k)' = Pending(k)
  BY <1>3 DEF Pending
<1>5. ASSUME NEW b \in 0 .. 31
      PROVE  /\ owed[b] \in Int
             /\ b \in Parser!Buttons(c, Pending(c)) => owed'[b] = owed[b] - 1
             /\ b \notin Parser!Buttons(c, Pending(c)) => owed'[b] = owed[b]
  BY <1>1
<1> QED
  BY <1>3, <1>4, <1>5

LEMMA PendingRange ==
  ASSUME ParserConstants, Fields, NEW c \in Ports
  PROVE  Pending(c) \in SUBSET (0 .. 15)
<1>1. sentWord[c] \in AllWords \cup {{}}
  BY DEF Fields
<1>2. sentWord[c] \in SUBSET (0 .. 15)
  BY <1>1, WordsFacts
<1> QED
  BY <1>2 DEF Pending

(* A frame that was followed to its check byte is handled as it was sent. *)
LEMMA ReadHandles ==
  ASSUME ParserConstants, ~CharSigned, CardInv, NEW c \in Ports, Parser!ReadByte(c),
         Takes(Parser!NextByte(c)), cur.ok, c = cur.card
  PROVE  /\ inputState' = [inputState EXCEPT ![c] = sentWord[c]]
         /\ owed' = [n \in 0 .. 31 |->
                   owed[n] - (IF n \in Parser!Buttons(c, Pending(c)) THEN 1 ELSE 0)]
         /\ sentWord' = sentWord
<1>1. /\ state = "BCC" /\ dataLen = 2 /\ sentWord' = sentWord
      /\ inputState' = [inputState EXCEPT ![Parser!Card] = Parser!Inputs]
      /\ owed' = [n \in 0 .. 31 |-> owed[n] -
              (IF n \in Parser!Buttons(Parser!Card, Parser!Rising) THEN 1 ELSE 0)]
  BY ReadEffects
<1>2. Parser!Card = c /\ Parser!Inputs = sentWord[c]
  BY <1>1, ReportTaken DEF CardInv
<1>3. Parser!Rising = Pending(c)
  BY <1>2 DEF Parser!Rising, Pending
<1> QED
  BY <1>1, <1>2, <1>3

LEMMA PressedRead ==
  ASSUME ParserConstants, ~CharSigned, CardInv, NEW c \in Ports, Parser!ReadByte(c)
  PROVE  Pressed'
<1> DEFINE b == Parser!NextByte(c)
<1>1. /\ sentWord' = sentWord
      /\ invented' <=> (invented \/ (Takes(b) /\ ~Parser!Whole(c)))
      /\ ~Takes(b) => UNCHANGED <<inputState, owed>>
  BY ReadEffects
<1>2. Pressed /\ Fields
  BY DEF CardInv
<1>3. CASE ~Takes(b)
  BY <1>1, <1>2, <1>3 DEF Pressed, Pending
<1>4. CASE Takes(b) /\ invented'
  BY <1>4 DEF Pressed
<1>5. CASE Takes(b) /\ ~invented'
  <2>1. ~invented /\ cur.ok /\ c = cur.card
    BY <1>1, <1>5 DEF Parser!Whole, Parser!Follows
  <2>2. /\ \A n \in 0 .. 31 : owed[n] >= 0
        /\ \A k \in Ports : \A n \in Parser!Buttons(k, Pending(k)) : owed[n] >= 1
    BY <1>2, <2>1 DEF Pressed
  <2>3. /\ Pending(c)' = {}
        /\ \A k \in Ports \ {c} : Pending(k)' = Pending(k)
        /\ \A n \in 0 .. 31 :
              /\ owed[n] \in Int
              /\ n \in Parser!Buttons(c, Pending(c)) => owed'[n] = owed[n] - 1
              /\ n \notin Parser!Buttons(c, Pending(c)) => owed'[n] = owed[n]
    <3>1. /\ inputState' = [inputState EXCEPT ![c] = sentWord[c]]
          /\ owed' = [n \in 0 .. 31 |->
                   owed[n] - (IF n \in Parser!Buttons(c, Pending(c)) THEN 1 ELSE 0)]
      BY <1>5, <2>1, ReadHandles
    <3> QED
      BY <1>1, <1>2, <3>1, HandledFacts
  <2>4. ASSUME NEW n \in 0 .. 31 PROVE owed'[n] >= 0
    <3>1. CASE n \in Parser!Buttons(c, Pending(c))
      <4>1. owed[n] >= 1 /\ owed[n] \in Int /\ owed'[n] = owed[n] - 1
        BY <2>2, <2>3, <3>1
      <4> QED
        BY <4>1
    <3>2. CASE n \notin Parser!Buttons(c, Pending(c))
      <4>1. owed'[n] = owed[n]
        BY <2>3, <3>2
      <4> QED
        BY <2>2, <4>1
    <3> QED
      BY <3>1, <3>2
  <2>5. ASSUME NEW k \in Ports, NEW n \in Parser!Buttons(k, Pending(k)')
        PROVE  owed'[n] >= 1
    <3>1. k # c
      BY <2>3, <2>5 DEF Parser!Buttons
    <3>2. n \in Parser!Buttons(k, Pending(k))
      BY <2>3, <2>5, <3>1
    <3>3. n \notin Parser!Buttons(c, Pending(c)) /\ n \in 0 .. 31
      <4>1. Pending(k) \in SUBSET (0 .. 15) /\ Pending(c) \in SUBSET (0 .. 15)
        BY <1>2, PendingRange
      <4> QED
        BY <3>1, <3>2, <4>1, ButtonFacts
    <3> QED
      BY <2>2, <2>3, <3>2, <3>3
  <2> QED
    BY <2>4, <2>5 DEF Pressed
<1> QED
  BY <1>3, <1>4, <1>5

(* Short of a fault the next byte that is read is the next of the frame in
   progress, or the first of one. *)
LEMMA OrderRead ==
  ASSUME ParserConstants, ~CharSigned, CardInv, NEW c \in Ports, Parser!ReadByte(c)
  PROVE  Order'
<1> DEFINE b == Parser!NextByte(c)
           f == line[c].frame
<1>1. /\ ParserTyped /\ Sending /\ Place /\ SyncInv /\ Followed /\ Order /\ Fields
      /\ line[c] # Parser!Silent /\ line' = [line EXCEPT ![c] = Parser!Onward(c)]
      /\ Parser!processChar(b) /\ Parser!Track(c, b)
  BY DEF Parser!ReadByte, SyncInv, CardInv
<1>2. f \in Frames /\ line[c].next \in 1 .. Len(f) /\ b = f[line[c].next] /\ b \in Bytes
  BY <1>1, ByteSent DEF Parser!NextByte
<1>3. f[2] \in {1, 2, 6} /\ Len(f) = f[2] + 3 /\ Parser!IsHeader(f[1])
  BY <1>2, FramesFacts
<1>4. \A k \in Ports \ {c} : line'[k] = line[k]
  BY <1>1, LineMoves
<1>5. state' \in {"HDR1", "HDR2", "DATA", "BCC"}
  BY <1>1, <1>2, ParserSteps
<1>6. /\ faults' = IF Parser!BreaksIn(c) THEN faults + 1 ELSE faults
      /\ invented' <=> (invented \/ (Takes(b) /\ ~Parser!Whole(c)))
      /\ Takes(b) => state = "BCC"
  BY ReadEffects
<1> SUFFICES ASSUME faults' = 0 PROVE Order'
  BY DEF Order
<1>7. faults = 0 /\ (state = "HDR1" \/ c = cur.card)
  <2>1. faults \in Nat
    BY <1>1 DEF Fields
  <2>2. ~Parser!BreaksIn(c)
    BY <1>6, <2>1
  <2> QED
    BY <1>6, <2>2 DEF Parser!BreaksIn
<1>8. /\ ~invented /\ (state # "HDR1" => cur.ok)
      /\ \A k \in Ports : line[k].next > 1 => state # "HDR1" /\ k = cur.card
  BY <1>1, <1>7 DEF Order
<1>9. CASE state = "HDR1"
  <2>1. line[c].next = 1 /\ b = f[1]
    <3>1. ~(line[c].next > 1)
      BY <1>8, <1>9
    <3> QED
      BY <1>2, <1>3, <3>1
  <2> HIDE DEF b, f
  <2>2. state' = "HDR2"
    <3>1. Parser!IsHeader(b)
      BY <1>3, <2>1
    <3>2. ~Parser!ExpectBcc(b)
      BY <1>9, Zenon DEF Parser!ExpectBcc
    <3> QED
      BY <1>1, <1>9, <3>1, <3>2 DEF Parser!processChar, Parser!ExpectHdr1, Parser!ExpectHdr2,
         Parser!ExpectData, Parser!TakeHeader
  <2>3. cur'.card = c /\ cur'.ok
    BY <1>1, <1>5, <2>1, <2>2, TrackFacts
  <2>4. ~invented'
    BY <1>6, <1>8, <1>9
  <2>5. \A k \in Ports : line'[k].next > 1 => k = c
    BY <1>4, <1>8, <1>9
  <2> QED
    BY <2>2, <2>3, <2>4, <2>5 DEF Order
<1>10. CASE state # "HDR1"
  <2>1. cur.ok /\ c = cur.card /\ line[c].next = cur.n + 1 /\ Parser!Follows(c)
    BY <1>1, <1>7, <1>8, <1>10 DEF Followed, Parser!Follows
  <2>2. /\ state = "HDR2" => cur.n = 1
        /\ state = "BCC" => line[c].next = Len(f)
    BY <1>1, <1>10, <2>1, FollowedFrame, CheckPasses
  <2> HIDE DEF b, f
  <2>3. ~invented'
    BY <1>6, <1>8, <2>1, <2>2 DEF Parser!Whole, f
  <2>4. \A k \in Ports : line'[k].next > 1 => k = c
    BY <1>4, <1>8, <2>1
  <2>5. CASE state = "BCC"
    <3>1. line'[c] = Parser!Silent
      <4>1. Parser!Onward(c) = Parser!Silent
        BY <2>2, <2>5 DEF Parser!Onward, f
      <4> QED
        BY <1>1, <4>1 DEF ParserTyped
    <3>2. ~(line'[c].next > 1)
      BY <3>1 DEF Parser!Silent
    <3>3. state' = "HDR1"
      <4>1. Parser!ExpectBcc(b) => state' = "HDR1"
        BY Zenon DEF Parser!ExpectBcc
      <4> QED
        BY <1>1, <2>5, <4>1 DEF Parser!processChar, Parser!ExpectHdr1, Parser!ExpectHdr2,
           Parser!ExpectData
    <3> QED
      BY <2>3, <2>4, <3>2, <3>3 DEF Order
  <2>6. CASE state \in {"HDR2", "DATA"}
    <3>1. ~(state = "HDR2" /\ Parser!IsHeader(b))
      <4> SUFFICES ASSUME state = "HDR2" PROVE ~Parser!IsHeader(b)
        OBVIOUS
      <4>1. b = f[2]
        BY <1>2, <2>1, <2>2
      <4> QED
        BY <1>3, <4>1 DEF Parser!IsHeader
    <3>2. state' \in {"DATA", "BCC"}
      <4>1. Parser!ExpectBcc(b) => state = "BCC"
        BY Zenon DEF Parser!ExpectBcc
      <4> QED
        BY <1>1, <2>6, <3>1, <4>1 DEF Parser!processChar, Parser!ExpectHdr1,
           Parser!ExpectHdr2, Parser!ExpectData
    <3>3. cur'.card = cur.card /\ cur'.ok
      BY <1>1, <1>5, <2>1, <3>2, TrackFacts
    <3> QED
      BY <2>1, <2>3, <2>4, <3>2, <3>3 DEF Order
  <2> QED
    BY <1>1, <1>10, <2>5, <2>6 DEF ParserTyped
<1> QED
  BY <1>9, <1>10

(* The last byte of a frame, short of a fault, is the check byte of one that was
   followed, and it passes. *)
LEMMA LastByte ==
  ASSUME ParserConstants, CardInv, NEW c \in Ports, line[c] # Parser!Silent, faults = 0,
         line[c].next = Len(line[c].frame)
  PROVE  state = "BCC" /\ cur.ok /\ c = cur.card /\ Parser!Checked(Parser!NextByte(c))
<1>1. SyncInv /\ Followed /\ Order /\ ParserTyped /\ Sending
  BY DEF CardInv, SyncInv
<1>2. Len(line[c].frame) > 1
  <2>1. line[c].frame \in Frames
    BY <1>1, ByteSent
  <2>2. line[c].frame[2] \in {1, 2, 6} /\ Len(line[c].frame) = line[c].frame[2] + 3
    BY <2>1, FramesFacts
  <2>3. \A l \in {1, 2, 6} : l + 3 > 1
    OBVIOUS
  <2> QED
    BY <2>2, <2>3
<1>3. state # "HDR1" /\ c = cur.card /\ cur.ok
  BY <1>1, <1>2 DEF Order
<1>4. state = "BCC"
  <2>1. /\ state = "HDR2" => cur.n = 1
        /\ state = "DATA" => cur.n = 2 + Len(data) /\ Len(data) < line[c].frame[2]
        /\ line[c].frame[2] \in {1, 2, 6} /\ Len(line[c].frame) = line[c].frame[2] + 3
    BY <1>1, <1>3, FollowedFrame
  <2>2. cur.n + 1 = Len(line[c].frame) /\ Len(data) \in Nat
    BY <1>1, <1>3 DEF Followed, ParserTyped
  <2>3. state # "HDR2" /\ state # "DATA"
    BY <2>1, <2>2
  <2> QED
    BY <1>1, <1>3, <2>3 DEF ParserTyped
<1> QED
  BY <1>1, <1>3, <1>4, CheckPasses

LEMMA AnsweredRead ==
  ASSUME ParserConstants, ~CharSigned, CardInv, NEW c \in Ports, Parser!ReadByte(c)
  PROVE  Answered'
<1> DEFINE b == Parser!NextByte(c)
<1>1. /\ ParserTyped /\ Sending /\ Fields /\ Pressed /\ Order /\ Answered
      /\ line[c] # Parser!Silent /\ line' = [line EXCEPT ![c] = Parser!Onward(c)]
  BY DEF Parser!ReadByte, SyncInv, CardInv
<1>2. /\ sentWord' = sentWord
      /\ faults' = IF Parser!BreaksIn(c) THEN faults + 1 ELSE faults
      /\ Takes(b) => state = "BCC" /\ dataLen = 2
      /\ ~Takes(b) => UNCHANGED <<inputState, owed>>
  BY ReadEffects
<1> SUFFICES ASSUME faults' = 0 PROVE Answered'
  BY DEF Answered
<1>3. faults = 0 /\ (state = "HDR1" \/ c = cur.card)
  <2>1. faults \in Nat
    BY <1>1 DEF Fields
  <2>2. ~Parser!BreaksIn(c)
    BY <1>2, <2>1
  <2> QED
    BY <1>2, <2>2 DEF Parser!BreaksIn
<1>4. /\ ~invented /\ (state # "HDR1" => cur.ok)
      /\ \A k \in Ports : Len(line[k].frame) # 5 => sentWord[k] = inputState[k]
      /\ \A n \in 0 .. 31 :
           /\ owed[n] \in {0, 1}
           /\ owed[n] = 1 => \E k \in Ports : n \in Parser!Buttons(k, Pending(k))
  BY <1>1, <1>3 DEF Order, Answered
<1>5. \A k \in Ports \ {c} : line'[k] = line[k]
  BY <1>1, LineMoves
<1>6. CASE ~Takes(b)
  <2>1. Len(line'[c].frame) # 5 => sentWord[c] = inputState[c]
    <3>1. line'[c] = Parser!Onward(c)
      BY <1>1 DEF ParserTyped
    <3>2. CASE line[c].next = Len(line[c].frame)
      <4>1. state = "BCC" /\ cur.ok /\ c = cur.card /\ Parser!Checked(b)
        BY <1>1, <1>3, <3>2, LastByte
      <4>2. dataLen # 2
        BY <1>6, <4>1 DEF Takes, Parser!IsInputs
      <4>3. dataLen = line[c].frame[2] /\ Len(line[c].frame) = line[c].frame[2] + 3
              /\ line[c].frame[2] \in {1, 2, 6}
        BY <4>1, FollowedFrame DEF CardInv, Followed
      <4>4. Len(line[c].frame) # 5
        BY <4>2, <4>3
      <4> QED
        BY <1>4, <4>4
    <3>3. CASE line[c].next # Len(line[c].frame)
      <4>1. line'[c].frame = line[c].frame
        BY <1>1, <3>1, <3>3, ByteSent
      <4> QED
        BY <1>4, <4>1
    <3> QED
      BY <3>2, <3>3
  <2>2. \A k \in Ports : Len(line'[k].frame) # 5 => sentWord'[k] = inputState'[k]
    BY <1>2, <1>4, <1>5, <1>6, <2>1
  <2>3. owed' = owed /\ inputState' = inputState
    BY <1>2, <1>6
  <2> QED
    BY <1>2, <1>4, <2>2, <2>3 DEF Answered, Pending
<1>7. CASE Takes(b)
  <2>1. cur.ok /\ c = cur.card
    BY <1>2, <1>3, <1>4, <1>7
  <2>2. /\ inputState'[c] = sentWord[c] /\ Pending(c)' = {}
        /\ \A k \in Ports \ {c} : inputState'[k] = inputState[k] /\ Pending(k)' = Pending(k)
        /\ \A n \in 0 .. 31 :
              /\ owed[n] \in Int
              /\ n \in Parser!Buttons(c, Pending(c)) => owed'[n] = owed[n] - 1
              /\ n \notin Parser!Buttons(c, Pending(c)) => owed'[n] = owed[n]
    <3>1. /\ inputState' = [inputState EXCEPT ![c] = sentWord[c]]
          /\ owed' = [n \in 0 .. 31 |->
                   owed[n] - (IF n \in Parser!Buttons(c, Pending(c)) THEN 1 ELSE 0)]
      BY <1>7, <2>1, ReadHandles
    <3> QED
      BY <1>1, <1>2, <3>1, HandledFacts
  <2>3. \A k \in Ports : Len(line'[k].frame) # 5 => sentWord'[k] = inputState'[k]
    BY <1>2, <1>4, <1>5, <2>2
  <2>4. ASSUME NEW n \in 0 .. 31
        PROVE  /\ owed'[n] \in {0, 1}
               /\ owed'[n] = 1 => \E k \in Ports : n \in Parser!Buttons(k, Pending(k)')
    <3>1. CASE n \in Parser!Buttons(c, Pending(c))
      <4>1. owed[n] >= 1
        BY <1>1, <1>4, <3>1 DEF Pressed
      <4>2. owed'[n] = owed[n] - 1 /\ owed[n] \in {0, 1}
        BY <1>4, <2>2, <3>1
      <4>3. owed'[n] = 0
        BY <4>1, <4>2
      <4> QED
        BY <4>3
    <3>2. CASE n \notin Parser!Buttons(c, Pending(c))
      <4>1. owed'[n] = owed[n] /\ owed[n] \in {0, 1}
        BY <1>4, <2>2, <3>2
      <4>2. ASSUME owed'[n] = 1 PROVE \E k \in Ports : n \in Parser!Buttons(k, Pending(k)')
        <5>1. PICK k \in Ports : n \in Parser!Buttons(k, Pending(k))
          BY <1>4, <4>1, <4>2
        <5>2. k # c
          BY <3>2, <5>1
        <5> QED
          BY <2>2, <5>1, <5>2
      <4> QED
        BY <4>1, <4>2
    <3> QED
      BY <3>1, <3>2
  <2> QED
    BY <2>3, <2>4 DEF Answered
<1> QED
  BY <1>6, <1>7

LEMMA CardReads ==
  ASSUME ParserConstants, ~CharSigned, CardInv, NEW c \in Ports, Parser!ReadByte(c)
  PROVE  Followed' /\ Reported' /\ Pressed' /\ Order' /\ Answered'
<1>1. Followed'
  BY FollowedRead DEF CardInv
<1>2. Reported'
  BY ReportedMoves DEF CardInv, SyncInv, Parser!ReadByte
<1> QED
  BY <1>1, <1>2, PressedRead, OrderRead, AnsweredRead

LEMMA CardStep ==
  ParserConstants /\ ~CharSigned /\ CardInv /\ [Parser!Next]_Parser!vars => CardInv'
<1> SUFFICES ASSUME ParserConstants, ~CharSigned, CardInv, [Parser!Next]_Parser!vars
             PROVE  CardInv'
  OBVIOUS
<1>1. SyncInv' /\ Fields'
  BY ParserNext, FieldsStep DEF CardInv
<1>2. CASE UNCHANGED Parser!vars
  <2>1. UNCHANGED <<line, sentWord, state, header, bcc, code, dataLen, data, inputState, cur,
                    faults, invented, owed>>
    BY <1>2 DEF Parser!vars, Parser!cardVars, Parser!parserVars, Parser!effects, Parser!history
  <2>2. Followed' /\ Reported'
    BY <2>1 DEF CardInv, Followed, Reported
  <2>3. Pressed' /\ Order' /\ Answered'
    BY <2>1 DEF CardInv, Pressed, Order, Answered, Pending
  <2> QED
    BY <1>1, <2>2, <2>3 DEF CardInv
<1>3. CASE Parser!Next
  <2>1. Followed' /\ Reported' /\ Pressed' /\ Order' /\ Answered'
    BY <1>3, CardReports, CardSendsOther, CardLoses, CardReads DEF Parser!Next
  <2> QED
    BY <1>1, <2>1 DEF CardInv
<1> QED
  BY <1>2, <1>3

(* Inputs that no card sent are handled only where a byte was lost, or a frame was
   broken into by another port: short of that every frame is followed to its end,
   whatever the words, and passes the check. *)
THEOREM OnlyFaultsInvent ==
  ASSUME ParserConstants, ~CharSigned
  PROVE  Parser!Spec => [](faults = 0 => ~invented)
<1>1. CardInv => (faults = 0 => ~invented)
  BY DEF CardInv, Order
<1>2. ParserConstants /\ ~CharSigned
  OBVIOUS
<1> QED
  BY <1>1, <1>2, CardInit, CardStep, PTL DEF Parser!Spec

(* As long as no sum has passed that should not, a button never has more events
   than presses, whatever the faults; and short of a fault none is missing once
   the cards are silent: for every set of words. *)
THEOREM PressesCount ==
  ASSUME ParserConstants, ~CharSigned
  PROVE  Parser!Spec => []Parser!EveryPressCounts
<1>1. CardInv => Parser!EveryPressCounts
  <2> SUFFICES ASSUME CardInv, NEW b \in 0 .. 31
               PROVE  /\ ~invented => owed[b] >= 0
                      /\ faults = 0 /\ (\A c \in Ports : line[c] = Parser!Silent) => owed[b] = 0
    BY DEF Parser!EveryPressCounts
  <2>1. ~invented => owed[b] >= 0
    BY DEF CardInv, Pressed
  <2>2. ASSUME faults = 0, \A c \in Ports : line[c] = Parser!Silent PROVE owed[b] = 0
    <3>1. \A c \in Ports : Pending(c) = {}
      <4>1. Len(Parser!Silent.frame) # 5
        BY DEF Parser!Silent
      <4>2. \A c \in Ports : sentWord[c] = inputState[c]
        BY <2>2, <4>1 DEF CardInv, Answered
      <4> QED
        BY <4>2 DEF Pending
    <3>2. ~(owed[b] = 1)
      BY <2>2, <3>1 DEF CardInv, Answered, Parser!Buttons
    <3>3. owed[b] \in {0, 1}
      BY <2>2 DEF CardInv, Answered
    <3> QED
      BY <3>2, <3>3
  <2> QED
    BY <2>1, <2>2
<1>2. ParserConstants /\ ~CharSigned
  OBVIOUS
<1> QED
  BY <1>1, <1>2, CardInit, CardStep, PTL DEF Parser!Spec

(* A frame that was not sent passes the check only after a fault, and only as long
   as the parser has not found the frames again: for every set of words and any
   number of faults, later than that the inputs that are handled are those that a
   card has sent. *)
THEOREM FaultsInventOnlyNearby ==
  ASSUME ParserConstants, ~CharSigned
  PROVE  Parser!Spec => Parser!InventedNearFault
<1>1. Parser!Init => CardInv
  BY CardInit
<1>2. CardInv /\ [Parser!Next]_Parser!vars => CardInv'
  BY CardStep
<1>3. ASSUME CardInv, [Parser!Next]_Parser!vars, ~invented, invented'
      PROVE  /\ faults' > 0
             /\ since < Parser!Settle \/ faults' > faults
  <2>0. SyncInv /\ Fields /\ Followed
    BY <1>3 DEF CardInv
  <2>1. PICK c \in Ports : Parser!ReadByte(c)
    <3>1. ~(UNCHANGED invented)
      BY <1>3
    <3> QED
      BY <1>3, <3>1 DEF Parser!Next, Parser!vars, Parser!history, Parser!ReportInputs,
         Parser!ReportOther, Parser!LoseByte
  <2>2. /\ faults' = IF Parser!BreaksIn(c) THEN faults + 1 ELSE faults
        /\ Takes(Parser!NextByte(c)) /\ ~Parser!Whole(c) /\ state = "BCC"
    BY <1>3, <2>0, <2>1, ReadEffects
  <2>3. CASE c # cur.card
    <3>1. faults' = faults + 1 /\ faults \in Nat
      BY <2>0, <2>2, <2>3 DEF Fields, Parser!BreaksIn
    <3> QED
      BY <3>1
  <2>4. ASSUME c = cur.card, ~(since < Settle) PROVE FALSE
    <3>1. since \in 0 .. Settle /\ Settle \in Nat
      BY <2>0 DEF SyncInv, ParserTyped, Settle, Parser!Settle, Parser!MaxData
    <3>2. since = Parser!Settle
      BY <2>4, <3>1 DEF Settle
    <3>3. cur.ok
      BY <2>0, <3>2, SyncedAgain DEF Parser!SyncAgain
    <3>4. line[c].next = Len(line[c].frame) /\ line[c].next = cur.n + 1
      BY <2>0, <2>2, <2>4, <3>3, CheckPasses DEF Followed
    <3> QED
      BY <2>2, <2>4, <3>3, <3>4 DEF Parser!Whole, Parser!Follows
  <2>5. faults' > 0
    <3>1. faults' # 0
      BY <1>2, <1>3 DEF CardInv, Order
    <3>2. faults' \in Nat
      BY <1>2, <1>3 DEF CardInv, Fields
    <3> QED
      BY <3>1, <3>2
  <2> QED
    BY <2>3, <2>4, <2>5 DEF Settle
<1>4. CardInv /\ [Parser!Next]_Parser!vars
        => [~invented /\ invented' =>
              /\ faults' > 0
              /\ since < Parser!Settle \/ faults' > faults]_Parser!vars
  BY <1>3
<1>5. ParserConstants /\ ~CharSigned
  OBVIOUS
<1> QED
  BY <1>1, <1>2, <1>4, <1>5, PTL DEF Parser!Spec, Parser!InventedNearFault

--------------------------------------------------------------------------------
(***************************************************************************)
(* The sign bus, for any number of boards, of places on a board and of     *)
(* turns before the demo: BusTyped is the types of the sender and of the   *)
(* board, ShownInv follows a number from the script to the digit.          *)
(***************************************************************************)
(* The numbers of the boards and of their places.  The demo counts in a byte. *)
BusConstants ==
  /\ Rows \in Nat /\ 1 < Rows
  /\ Stride \in Nat /\ PerRow \in 1 .. Stride - 1
  /\ DemoAfter \in Nat /\ LastDemo \in 0 .. 255
  /\ Nums \subseteq Int

Wires == {f \in Seq(Int) : Len(f) = 5}

SenderTyped ==
  /\ on \in BOOLEAN /\ valid \in BOOLEAN
  /\ signNum \in [0 .. Bus!SIGN_COUNT - 1 -> Int]
  /\ signIdx \in 0 .. Bus!SIGN_COUNT
  /\ step \in {"clear", "test", "fill", "write"}
  /\ step = "fill" => signIdx \in Bus!Signs
  /\ buffer \in Seq(Wires) /\ Len(buffer) <= 4
  /\ step # "write" => Len(buffer) <= 3

BoardTyped ==
  /\ wire \in Seq(Wires) /\ Len(wire) <= 4
  /\ got \in Seq(Int) /\ Len(got) \in {0, 4}
  /\ values \in [Bus!Places -> 0 .. 255]
  /\ timeout \in 0 .. DemoAfter + 1 /\ loaded \in 0 .. DemoAfter + 1
  /\ delayCnt \in 0 .. LastDemo

BusTyped == SenderTyped /\ BoardTyped

(* A number divided into its board and its place. *)
LEMMA BoardAndPlace ==
  ASSUME NEW N \in Nat \ {0}, NEW q \in Int, NEW r \in 0 .. N - 1
  PROVE  (N * q + r) \div N = q /\ (N * q + r) % N = r
<1> DEFINE a == N * q + r  p == a \div N  s == a % N
<1>1. a \in Int
  OBVIOUS
<1>2. p \in Int /\ s \in 0 .. N - 1 /\ a = N * p + s
  <2> HIDE DEF a
  <2> QED
    BY <1>1
<1> HIDE DEF p, s
<1>3. N * (q - p) = s - r /\ N * (p - q) = r - s
  BY <1>2
<1>4. \A d \in Int : d >= 1 => N * d >= N
  OBVIOUS
<1>5. p = q
  <2>1. ~(q - p >= 1)
    BY <1>2, <1>3, <1>4
  <2>2. ~(p - q >= 1)
    BY <1>2, <1>3, <1>4
  <2> QED
    BY <1>2, <2>1, <2>2
<1>6. s = r
  BY <1>2, <1>3, <1>5
<1> QED
  BY <1>5, <1>6 DEF p, s

LEMMA SignFacts ==
  ASSUME BusConstants
  PROVE  /\ Stride \in Nat \ {0} /\ Bus!SIGN_COUNT \in Nat
         /\ \A s \in Bus!Signs : s \in 0 .. Bus!SIGN_COUNT - 1 /\ s + 1 \in 0 .. Bus!SIGN_COUNT
         /\ 0 \in Bus!Signs
         /\ \A p \in Bus!Places : /\ Bus!MySign(p) \in Bus!Signs
                                  /\ p \in 0 .. Stride - 1
<1> USE DEF BusConstants
<1>1. Stride \in Nat \ {0}
  OBVIOUS
<1>2. \A d \in Int : d >= 1 => Stride * d >= Stride
  BY <1>1
<1>3. Bus!SIGN_COUNT \in Nat
  BY DEF Bus!SIGN_COUNT
<1>4. ASSUME NEW s \in Bus!Signs PROVE s \in 0 .. Bus!SIGN_COUNT - 1
  <2>1. PICK row \in 0 .. Rows - 1, place \in Bus!Places : s = Stride * row + place
    BY DEF Bus!Signs
  <2>2. place \in 0 .. Stride - 1
    BY DEF Bus!Places
  <2>3. Stride * (Rows - row) >= Stride
    BY <1>2
  <2>4. Stride * Rows = Stride * row + Stride * (Rows - row)
    OBVIOUS
  <2>5. Stride * row \in Nat
    OBVIOUS
  <2> QED
    BY <2>1, <2>2, <2>3, <2>4, <2>5 DEF Bus!SIGN_COUNT
<1>5. 0 \in Bus!Signs
  <2>1. 0 \in 0 .. Rows - 1 /\ 0 \in Bus!Places /\ Stride * 0 + 0 = 0
    BY DEF Bus!Places
  <2> QED
    BY <2>1 DEF Bus!Signs
<1>6. ASSUME NEW p \in Bus!Places PROVE Bus!MySign(p) \in Bus!Signs /\ p \in 0 .. Stride - 1
  <2>1. 1 \in 0 .. Rows - 1 /\ p \in 0 .. Stride - 1
    BY DEF Bus!Places
  <2>2. Bus!MySign(p) = Stride * 1 + p
    BY DEF Bus!MySign, Bus!MyRow
  <2> QED
    BY <2>1, <2>2 DEF Bus!Signs
<1> QED
  BY <1>1, <1>3, <1>4, <1>5, <1>6

(* The sender only comes to numbers of signs. *)
LEMMA NextSignFacts ==
  ASSUME BusConstants, NEW i \in 0 .. Bus!SIGN_COUNT
  PROVE  Bus!NextSign(i) \in Bus!Signs
<1> DEFINE q == i \div Stride  r == i % Stride
<1>1. Stride \in Nat \ {0} /\ Bus!SIGN_COUNT \in Nat /\ 0 \in Bus!Signs
  BY SignFacts
<1>2. q \in Int /\ r \in 0 .. Stride - 1 /\ i = Stride * q + r
  BY <1>1
<1>3. Bus!NextSign(i) = LET j == IF r >= PerRow THEN Stride * (q + 1) ELSE i
                        IN IF j = Stride * Rows THEN 0 ELSE j
  BY DEF Bus!NextSign, Bus!SIGN_COUNT
<1>4. i \in 0 .. Stride * Rows
  BY DEF Bus!SIGN_COUNT
<1> HIDE DEF q, r
<1>5. \A d \in Int : d >= 1 => Stride * d >= Stride
  BY <1>1
<1>6. q >= 0
  <2>1. Stride * (0 - q) = r - i
    BY <1>1, <1>2, <1>4
  <2> QED
    BY <1>1, <1>2, <1>4, <1>5, <2>1
<1>7. q <= Rows
  <2>1. Stride * (q - Rows) = i - r - Stride * Rows
    BY <1>1, <1>2, <1>4 DEF BusConstants
  <2>2. Stride * Rows \in Int /\ Rows \in Nat
    BY <1>1 DEF BusConstants
  <2> QED
    BY <1>1, <1>2, <1>4, <1>5, <2>1, <2>2
<1>8. q = Rows => r = 0 /\ i = Stride * Rows
  BY <1>1, <1>2, <1>4 DEF BusConstants
<1>9. CASE q = Rows
  BY <1>1, <1>3, <1>8, <1>9 DEF BusConstants
<1>10. CASE q < Rows /\ r < PerRow
  <2>1. i \in Bus!Signs
    <3>1. q \in 0 .. Rows - 1 /\ r \in Bus!Places
      BY <1>2, <1>6, <1>10 DEF Bus!Places, BusConstants
    <3> QED
      BY <1>2, <3>1 DEF Bus!Signs
  <2> QED
    BY <1>1, <1>2, <1>3, <1>10, <2>1 DEF BusConstants
<1>11. CASE q < Rows /\ r >= PerRow
  <2>1. CASE q + 1 = Rows
    BY <1>1, <1>3, <1>11, <2>1
  <2>2. CASE q + 1 < Rows
    <3>1. q + 1 \in 0 .. Rows - 1 /\ 0 \in Bus!Places
      BY <1>2, <1>6, <2>2 DEF BusConstants, Bus!Places
    <3>2. Stride * (q + 1) + 0 \in Bus!Signs
      BY <3>1 DEF Bus!Signs
    <3>3. Stride * (q + 1) + 0 = Stride * (q + 1)
      BY <1>1, <1>2
    <3> QED
      BY <1>1, <1>3, <1>11, <3>2, <3>3
  <2> QED
    BY <1>2, <1>11, <2>1, <2>2 DEF BusConstants
<1> QED
  BY <1>2, <1>7, <1>9, <1>10, <1>11 DEF BusConstants

(* The bytes of a frame are of their sign and their number. *)
LEMMA WireFacts ==
  ASSUME BusConstants, NEW s \in Bus!Signs, NEW num \in Int
  PROVE  /\ Bus!Frame(s, num) \in Wires
         /\ Bus!Frame(s, num)[1] = Bus!START_BYTE
         /\ Bus!Address(Bus!Frame(s, num)) = s \div Stride + 48
         /\ Bus!Command(Bus!Frame(s, num)) = Bus!CMD_SET
         /\ Bus!Place(Bus!Frame(s, num)) = s % Stride
         /\ Bus!Value(Bus!Frame(s, num)) = (((num + 48) % 256) - 48) % 256
<1>1. s \in Int /\ s \div Stride \in Int /\ s % Stride \in Int
  BY SignFacts
<1> DEFINE q == s \div Stride  r == s % Stride  v == (num + 48) % 256
<1>2. Bus!Frame(s, num) = <<240, q + 48, 49, r + 48, v>>
  BY DEF Bus!Frame, Bus!START_BYTE, Bus!Digit0, Bus!CMD_SET
<1>3. q \in Int /\ r \in Int /\ v \in Int
  BY <1>1
<1> HIDE DEF q, r, v
<1>4. Bus!Frame(s, num) \in Wires
  BY <1>2, <1>3 DEF Wires
<1> DEFINE f == Bus!Frame(s, num)
<1>5. f[1] = 240 /\ f[2] = q + 48 /\ f[3] = 49 /\ f[4] = r + 48 /\ f[5] = v
  BY <1>2
<1> HIDE DEF f
<1>6. f[4] - 48 = r /\ (f[5] - 48) % 256 = (v - 48) % 256
  BY <1>3, <1>5
<1>7. /\ f[1] = Bus!START_BYTE /\ Bus!Address(f) = q + 48 /\ Bus!Command(f) = Bus!CMD_SET
      /\ Bus!Place(f) = r /\ Bus!Value(f) = (v - 48) % 256
  BY <1>5, <1>6 DEF Bus!START_BYTE, Bus!Address, Bus!Command, Bus!Place, Bus!Value,
     Bus!CMD_SET, Bus!Digit0
<1> QED
  BY <1>4, <1>7 DEF f, q, r, v

LEMMA WithoutFacts ==
  ASSUME NEW f \in Wires, NEW n \in 0 .. 5
  PROVE  /\ Bus!Without(f, n) \in Seq(Int)
         /\ Len(Bus!Without(f, n)) = IF n = 0 THEN 5 ELSE 4
         /\ n = 0 => Bus!Without(f, n) = f
<1>1. f \in Seq(Int) /\ Len(f) = 5
  BY DEF Wires
<1>2. CASE n = 0
  BY <1>1, <1>2 DEF Bus!Without
<1>3. CASE n \in 1 .. 5
  <2> DEFINE a == SubSeq(f, 1, n - 1)  z == SubSeq(f, n + 1, 5)
  <2>1. Bus!Without(f, n) = a \o z
    BY <1>1, <1>3 DEF Bus!Without, Bus!RemoveAt
  <2>2. a \in Seq(Int) /\ Len(a) = n - 1 /\ z \in Seq(Int) /\ Len(z) = 5 - n
    <3>1. \A i \in 1 .. 5 : f[i] \in Int
      BY <1>1, ElementOfSeq
    <3>2. (\A i \in 1 .. n - 1 : f[i] \in Int) /\ (\A i \in n + 1 .. 5 : f[i] \in Int)
      BY <1>3, <3>1
    <3>3. a \in Seq(Int) /\ Len(a) = IF 1 <= n - 1 THEN n - 1 - 1 + 1 ELSE 0
      BY <1>3, <3>2, SubSeqProperties
    <3>4. z \in Seq(Int) /\ Len(z) = IF n + 1 <= 5 THEN 5 - (n + 1) + 1 ELSE 0
      BY <1>3, <3>2, SubSeqProperties
    <3> HIDE DEF a, z
    <3> QED
      BY <1>3, <3>3, <3>4
  <2> HIDE DEF a, z
  <2>3. a \o z \in Seq(Int) /\ Len(a \o z) = Len(a) + Len(z)
    BY <2>2
  <2>4. n - 1 + (5 - n) = 4 /\ n # 0
    BY <1>3
  <2> QED
    BY <2>1, <2>2, <2>3, <2>4
<1> QED
  BY <1>2, <1>3

(* What the interrupt has when the bytes of a frame are in: nothing or four
   bytes, and a frame of five. *)
LEMMA ReceiveFacts ==
  ASSUME NEW g \in Seq(Int), Len(g) \in {0, 4},
         NEW bytes \in Seq(Int), Len(bytes) \in {4, 5}
  PROVE  LET received == Bus!ReceiveFrame(g, bytes)
         IN /\ received[1] \in Seq(Int) /\ Len(received[1]) \in {0, 4}
            /\ received[2] # Bus!NoFrame => received[2] \in Wires
            /\ g = <<>> /\ Len(bytes) = 5 /\ bytes[1] = Bus!START_BYTE =>
                 received = <<<<>>, bytes>>
<1> DEFINE received == Bus!ReceiveFrame(g, bytes)
<1>1. CASE g # <<>>
  <2>1. received = <<<<>>, Append(g, bytes[1])>>
    BY <1>1, Zenon DEF Bus!ReceiveFrame
  <2>2. bytes[1] \in Int /\ Len(g) = 4
    BY <1>1
  <2>3. Append(g, bytes[1]) \in Wires
    <3>1. Append(g, bytes[1]) \in Seq(Int) /\ Len(Append(g, bytes[1])) = Len(g) + 1
      BY <2>2, AppendProperties
    <3> QED
      BY <2>2, <3>1 DEF Wires
  <2> QED
    BY <1>1, <2>1, <2>3
<1>2. CASE g = <<>> /\ bytes[1] # Bus!START_BYTE
  <2>1. received = <<<<>>, Bus!NoFrame>>
    BY <1>2, Zenon DEF Bus!ReceiveFrame
  <2>2. received[1] = <<>> /\ received[2] = Bus!NoFrame
    BY <2>1
  <2> HIDE DEF received
  <2> QED
    <3>1. Len(<<>>) = 0 /\ <<>> \in Seq(Int)
      OBVIOUS
    <3> QED
      BY <1>2, <2>2, <3>1 DEF received
<1>3. CASE g = <<>> /\ bytes[1] = Bus!START_BYTE
  <2>1. received = IF Len(bytes) = 5 THEN <<<<>>, bytes>> ELSE <<bytes, Bus!NoFrame>>
    BY <1>3, Zenon DEF Bus!ReceiveFrame
  <2>2. CASE Len(bytes) = 5
    BY <2>1, <2>2 DEF Wires
  <2>3. CASE Len(bytes) = 4
    BY <2>1, <2>3
  <2> QED
    BY <2>2, <2>3
<1> QED
  BY <1>1, <1>2, <1>3

(* What the interrupt does with the bytes, and what the board shows then. *)
LEMMA InterruptFacts ==
  ASSUME BusTyped, NEW bytes \in Seq(Int), Len(bytes) \in {4, 5}, Bus!USART_RX(bytes)
  PROVE  LET received == Bus!ReceiveFrame(got, bytes)
             frame == received[2]
         IN /\ got' = received[1]
            /\ timeout' \in {0, timeout}
            /\ ~upset' => ~upset /\ Len(bytes) = 5
            /\ \/ values' = values
               \/ values' = [p \in Bus!Places |->
                               IF p < PerRow - 1 THEN Bus!Blank ELSE values[p]]
               \/ /\ frame # Bus!NoFrame /\ Bus!Address(frame) = Bus!MY_ADDR
                  /\ Bus!Place(frame) \in Bus!Places
                  /\ values' = [values EXCEPT ![Bus!Place(frame)] = Bus!Value(frame)]
<1> DEFINE received == Bus!ReceiveFrame(got, bytes)
           frame == received[2]
           mine == frame # Bus!NoFrame /\ Bus!Address(frame) = Bus!MY_ADDR
           command == IF mine THEN Bus!Command(frame) ELSE 0
<1>1. /\ got' = received[1]
      /\ timeout' = IF mine THEN 0 ELSE timeout
      /\ values' = CASE command = Bus!CMD_SET /\ Bus!Place(frame) \in Bus!Places ->
                          [values EXCEPT ![Bus!Place(frame)] = Bus!Value(frame)]
                     [] command = Bus!CMD_CLR ->
                          [p \in Bus!Places |-> IF p < PerRow - 1 THEN Bus!Blank ELSE values[p]]
                     [] OTHER -> values
      /\ upset' = (\/ upset \/ Len(bytes) < 5
                   \/ command = Bus!CMD_SET /\ Bus!Place(frame) \notin Bus!Places)
  BY Zenon DEF Bus!USART_RX
<1>2. command = Bus!CMD_SET => mine
  BY DEF Bus!CMD_SET
<1>3. ~upset' => ~upset /\ Len(bytes) = 5
  <2>1. ~upset' => ~upset /\ ~(Len(bytes) < 5)
    <3> HIDE DEF command
    <3> QED
      BY <1>1, Zenon
  <2>2. \A n \in {4, 5} : ~(n < 5) => n = 5
    OBVIOUS
  <2> QED
    BY <2>1, <2>2, Zenon
<1>4. values' = CASE command = Bus!CMD_SET /\ Bus!Place(frame) \in Bus!Places ->
                       [values EXCEPT ![Bus!Place(frame)] = Bus!Value(frame)]
                  [] command = Bus!CMD_CLR ->
                       [p \in Bus!Places |-> IF p < PerRow - 1 THEN Bus!Blank ELSE values[p]]
                  [] OTHER -> values
  BY <1>1
<1>5. Bus!CMD_SET # Bus!CMD_CLR
  BY DEF Bus!CMD_SET, Bus!CMD_CLR
<1> HIDE DEF received, frame, mine, command
<1>6. CASE command = Bus!CMD_SET /\ Bus!Place(frame) \in Bus!Places
  <2>1. values' = [values EXCEPT ![Bus!Place(frame)] = Bus!Value(frame)]
    BY <1>4, <1>5, <1>6, Zenon
  <2> QED
    BY <1>1, <1>2, <1>3, <1>6, <2>1 DEF received, frame, mine
<1>7. CASE ~(command = Bus!CMD_SET /\ Bus!Place(frame) \in Bus!Places)
  <2>1. \/ values' = values
        \/ values' = [p \in Bus!Places |-> IF p < PerRow - 1 THEN Bus!Blank ELSE values[p]]
    <3>1. CASE command = Bus!CMD_CLR
      BY <1>4, <1>7, <3>1, Zenon
    <3>2. CASE command # Bus!CMD_CLR
      BY <1>4, <1>7, <3>2, Zenon
    <3> QED
      BY <3>1, <3>2
  <2> QED
    BY <1>1, <1>3, <2>1 DEF received, frame, mine
<1> QED
  BY <1>6, <1>7

LEMMA BusTypedInit ==
  ASSUME BusConstants, Bus!Init
  PROVE  BusTyped
<1>6. /\ on = TRUE /\ valid = FALSE /\ step = "clear" /\ buffer = <<>> /\ wire = <<>>
      /\ got = <<>> /\ signNum = [s \in 0 .. Bus!SIGN_COUNT - 1 |-> 0] /\ signIdx = 0
      /\ timeout = 0 /\ loaded = 0 /\ delayCnt = 0
  BY Zenon DEF Bus!Init, Bus!Fresh
<1>7. values = [p \in Bus!Places |->
                  CASE p = 0 -> Bus!MyRow - 1 [] p \in 1 .. 6 -> p + 10 [] OTHER -> Bus!Blank]
  BY Zenon DEF Bus!Init
<1>1. /\ on \in BOOLEAN /\ valid \in BOOLEAN /\ step \in {"clear", "test", "fill", "write"}
      /\ step = "fill" => signIdx \in Bus!Signs
      /\ wire \in Seq(Wires) /\ Len(wire) <= 4 /\ got \in Seq(Int) /\ Len(got) \in {0, 4}
      /\ buffer \in Seq(Wires) /\ Len(buffer) <= 4 /\ (step # "write" => Len(buffer) <= 3)
  <2>1. <<>> \in Seq(Wires) /\ <<>> \in Seq(Int) /\ Len(<<>>) = 0
    OBVIOUS
  <2>2. 0 <= 4 /\ 0 <= 3 /\ 0 \in {0, 4}
    OBVIOUS
  <2> QED
    BY <1>6, <2>1, <2>2, Zenon
<1>2. signNum \in [0 .. Bus!SIGN_COUNT - 1 -> Int]
  BY <1>6
<1>3. signIdx \in 0 .. Bus!SIGN_COUNT
  BY <1>6, SignFacts
<1>4. /\ timeout \in 0 .. DemoAfter + 1 /\ loaded \in 0 .. DemoAfter + 1
      /\ delayCnt \in 0 .. LastDemo
  BY <1>6 DEF BusConstants
<1>5. values \in [Bus!Places -> 0 .. 255]
  <2> DEFINE start(p) == CASE p = 0 -> Bus!MyRow - 1 [] p \in 1 .. 6 -> p + 10
                           [] OTHER -> Bus!Blank
  <2>1. values = [p \in Bus!Places |-> start(p)]
    BY <1>7, Zenon
  <2>2. ASSUME NEW p \in Bus!Places PROVE start(p) \in 0 .. 255
    <3>1. CASE p = 0
      <4>1. ~(0 \in 1 .. 6) /\ Bus!MyRow - 1 \in 0 .. 255
        BY DEF Bus!MyRow
      <4> QED
        BY <3>1, <4>1, Zenon
    <3>2. CASE p \in 1 .. 6
      <4>1. p # 0 /\ p + 10 \in 0 .. 255
        BY <3>2
      <4> QED
        BY <3>2, <4>1, Zenon
    <3>3. CASE p # 0 /\ p \notin 1 .. 6
      <4>1. Bus!Blank \in 0 .. 255
        BY DEF Bus!Blank
      <4> QED
        BY <3>3, <4>1, Zenon
    <3> QED
      BY <3>1, <3>2, <3>3, Zenon
  <2> HIDE DEF start
  <2> QED
    BY <2>1, <2>2
<1> QED
  BY <1>1, <1>2, <1>3, <1>4, <1>5 DEF BusTyped, SenderTyped, BoardTyped

(* The main board: the script and ioLoop. *)
LEMMA BusTypedMain ==
  ASSUME BusConstants, BusTyped, Bus!setSignNr \/ Bus!Sender \/ Bus!Power
  PROVE  BusTyped'
<1>7. SenderTyped /\ BoardTyped
  BY DEF BusTyped
<1> USE DEF SenderTyped
<1>1. ASSUME Bus!setSignNr PROVE SenderTyped'
  <2>1. PICK place \in Bus!Places, num \in Nums :
          signNum' = [signNum EXCEPT ![Bus!MySign(place)] = num]
    BY <1>1 DEF Bus!setSignNr
  <2>2. num \in Int
    BY DEF BusConstants
  <2>3. signNum' \in [0 .. Bus!SIGN_COUNT - 1 -> Int]
    BY <1>7, <2>1, <2>2
  <2> QED
    BY <1>1, <1>7, <2>3 DEF Bus!setSignNr
<1>2. ASSUME Bus!TestSign PROVE SenderTyped'
  <2>1. signIdx' \in Bus!Signs /\ signIdx' \in 0 .. Bus!SIGN_COUNT
    <3>1. signIdx' \in Bus!Signs
      BY <1>7, <1>2, NextSignFacts DEF Bus!TestSign
    <3>2. Bus!SIGN_COUNT \in Nat /\ signIdx' \in 0 .. Bus!SIGN_COUNT - 1
      BY <3>1, SignFacts
    <3> QED
      BY <3>1, <3>2
  <2>2. valid' \in BOOLEAN
    BY <1>2 DEF Bus!TestSign
  <2> QED
    BY <1>2, <1>7, <2>1, <2>2 DEF Bus!TestSign
<1>3. ASSUME Bus!FillFrame PROVE SenderTyped'
  <2> DEFINE frame == Bus!Frame(signIdx, IF valid THEN signNum[signIdx] ELSE Bus!Blank)
  <2>1. signIdx \in Bus!Signs
    BY <1>7, <1>3 DEF Bus!FillFrame
  <2>2. signNum[signIdx] \in Int /\ Bus!Blank \in Int
    <3>1. signIdx \in 0 .. Bus!SIGN_COUNT - 1
      BY <2>1, SignFacts
    <3> QED
      BY <1>7, <3>1 DEF Bus!Blank
  <2>3. frame \in Wires
    <3>1. (IF valid THEN signNum[signIdx] ELSE Bus!Blank) \in Int
      BY <2>2
    <3> QED
      BY <2>1, <3>1, WireFacts
  <2>4. /\ buffer' = Append(buffer, frame) /\ signIdx' = signIdx + 1 /\ valid' = FALSE
        /\ step = "fill" /\ step' = IF Len(buffer) = 3 THEN "write" ELSE "test"
        /\ UNCHANGED <<on, signNum, wire, Bus!ledVars>>
    BY <1>7, <1>3 DEF Bus!FillFrame
  <2>5. signIdx' \in 0 .. Bus!SIGN_COUNT
    BY <1>7, <2>1, <2>4, SignFacts
  <2> HIDE DEF frame
  <2>6. /\ buffer' \in Seq(Wires) /\ Len(buffer') = Len(buffer) + 1
        /\ Len(buffer) \in Nat /\ Len(buffer) <= 3
    BY <1>7, <2>3, <2>4
  <2>7. Len(buffer') <= 4 /\ (step' # "write" => Len(buffer') <= 3)
    <3>1. \A l \in Nat : l <= 3 /\ l # 3 => l + 1 <= 3
      OBVIOUS
    <3>2. Len(buffer) = 3 => Len(buffer') = 4
      BY <2>6
    <3>3. Len(buffer) # 3 => Len(buffer') <= 3
      BY <2>6, <3>1
    <3> QED
      BY <2>4, <3>2, <3>3
  <2> QED
    BY <1>7, <2>4, <2>5, <2>6, <2>7
<1>4. ASSUME Bus!WriteFrames PROVE SenderTyped'
  <2>1. /\ step' = "test" /\ buffer' \in Seq(Wires) /\ Len(buffer') = 0
        /\ UNCHANGED <<on, signNum, signIdx, valid>>
    BY <1>4 DEF Bus!WriteFrames
  <2> QED
    BY <1>7, <2>1
<1>5. ASSUME Bus!Power PROVE SenderTyped'
  <2>1. 0 \in 0 .. Bus!SIGN_COUNT
    BY SignFacts
  <2>2. on' \in BOOLEAN /\ valid' \in BOOLEAN
    BY <1>5 DEF Bus!Power
  <2>3. signNum' \in [0 .. Bus!SIGN_COUNT - 1 -> Int]
    BY <1>5 DEF Bus!Power
  <2>4. buffer' \in Seq(Wires) /\ Len(buffer') = 0 /\ step' = "clear" /\ signIdx' = 0
    BY <1>5 DEF Bus!Power
  <2> QED
    BY <2>1, <2>2, <2>3, <2>4
<1>9. ASSUME Bus!ClearSign PROVE SenderTyped'
  <2>1. /\ step = "clear" /\ signIdx < Bus!SIGN_COUNT /\ signIdx' = signIdx + 1
        /\ signNum' = [signNum EXCEPT ![signIdx] = 255]
        /\ UNCHANGED <<on, step, valid, buffer>>
    BY <1>9 DEF Bus!ClearSign
  <2>2. signNum' \in [0 .. Bus!SIGN_COUNT - 1 -> Int]
    BY <1>7, <2>1, 255 \in Int
  <2>3. signIdx' \in 0 .. Bus!SIGN_COUNT
    BY <1>7, <2>1, SignFacts
  <2> QED
    BY <1>7, <2>1, <2>2, <2>3
<1>10. ASSUME Bus!OpenPorts PROVE SenderTyped'
  <2>1. 0 \in 0 .. Bus!SIGN_COUNT
    BY SignFacts
  <2>2. /\ step = "clear" /\ step' = "test" /\ signIdx' = 0
        /\ UNCHANGED <<on, signNum, valid, buffer>>
    BY <1>10 DEF Bus!OpenPorts
  <2> QED
    BY <1>7, <2>1, <2>2
<1>8. BoardTyped'
  <2>1. CASE Bus!WriteFrames
    BY <1>7, <2>1 DEF Bus!WriteFrames, Bus!ledVars, BoardTyped
  <2>2. CASE ~Bus!WriteFrames
    <3>1. UNCHANGED <<wire, Bus!ledVars>>
      BY <2>2 DEF Bus!Sender, Bus!setSignNr, Bus!ClearSign, Bus!OpenPorts, Bus!TestSign,
         Bus!FillFrame, Bus!Power
    <3> QED
      BY <1>7, <3>1 DEF Bus!ledVars, BoardTyped
  <2> QED
    BY <2>1, <2>2
<1> QED
  BY <1>1, <1>2, <1>3, <1>4, <1>5, <1>8, <1>9, <1>10 DEF Bus!Sender, BusTyped

(* The interrupt of the board for a frame, whole or not. *)
LEMMA BusTypedArrive ==
  ASSUME BusConstants, BusTyped, Bus!Sent,
         NEW n \in 0 .. 5, Bus!USART_RX(Bus!Without(Head(wire), n))
  PROVE  BusTyped'
<1> DEFINE bytes == Bus!Without(Head(wire), n)
           received == Bus!ReceiveFrame(got, bytes)
           frame == received[2]
<1>1. /\ wire \in Seq(Wires) /\ Len(wire) <= 4 /\ wire # <<>>
      /\ wire' = Tail(wire) /\ UNCHANGED <<Bus!mainVars, loaded, delayCnt>>
  BY DEF Bus!Sent, BusTyped, BoardTyped
<1>2. Head(wire) \in Wires
  BY <1>1
<1>3. bytes \in Seq(Int) /\ Len(bytes) \in {4, 5}
  BY <1>2, WithoutFacts
<1>4. /\ got \in Seq(Int) /\ Len(got) \in {0, 4}
  BY DEF BusTyped, BoardTyped
<1>5. /\ received[1] \in Seq(Int) /\ Len(received[1]) \in {0, 4}
      /\ frame # Bus!NoFrame => frame \in Wires
  BY <1>3, <1>4, ReceiveFacts
<1>6. /\ got' = received[1]
      /\ timeout' \in {0, timeout}
      /\ \/ values' = values
         \/ values' = [p \in Bus!Places |-> IF p < PerRow - 1 THEN Bus!Blank ELSE values[p]]
         \/ /\ frame # Bus!NoFrame
            /\ Bus!Place(frame) \in Bus!Places
            /\ values' = [values EXCEPT ![Bus!Place(frame)] = Bus!Value(frame)]
  BY <1>3, InterruptFacts
<1> HIDE DEF bytes, received, frame
<1>7. wire' \in Seq(Wires) /\ Len(wire') <= 4
  BY <1>1
<1>8. values' \in [Bus!Places -> 0 .. 255]
  <2>1. values \in [Bus!Places -> 0 .. 255] /\ Bus!Blank \in 0 .. 255
    BY DEF BusTyped, BoardTyped, Bus!Blank
  <2>2. frame # Bus!NoFrame => Bus!Value(frame) \in 0 .. 255
    <3>1. SUFFICES ASSUME frame \in Wires PROVE Bus!Value(frame) \in 0 .. 255
      BY <1>5
    <3>2. frame[5] \in Int
      <4>1. frame \in Seq(Int) /\ Len(frame) = 5
        BY <3>1 DEF Wires
      <4>2. 5 \in 1 .. Len(frame)
        BY <4>1
      <4> QED
        BY <4>1, <4>2, ElementOfSeq
    <3>3. \A i \in Int : (i - 48) % 256 \in 0 .. 255
      OBVIOUS
    <3> QED
      BY <3>2, <3>3 DEF Bus!Value, Bus!Digit0
  <2> QED
    BY <1>6, <2>1, <2>2
<1>9. timeout' \in 0 .. DemoAfter + 1
  BY <1>6 DEF BusTyped, BoardTyped, BusConstants
<1> QED
  BY <1>1, <1>5, <1>6, <1>7, <1>8, <1>9 DEF BusTyped, SenderTyped, BoardTyped, Bus!mainVars

(* The main loop of the board. *)
LEMMA BusTypedLoop ==
  ASSUME BusConstants, BusTyped, Bus!LedLoop
  PROVE  BusTyped'
<1>4. SenderTyped /\ BoardTyped
  BY DEF BusTyped
<1>5. SenderTyped'
  BY <1>4 DEF Bus!LedLoop, Bus!TestTimeout, Bus!Demo, Bus!StoreTimeout, Bus!mainVars, SenderTyped
<1> USE DEF BoardTyped
<1>1. ASSUME Bus!TestTimeout PROVE BoardTyped'
  <2>1. loaded' \in 0 .. DemoAfter + 1
    BY <1>1, <1>4 DEF Bus!TestTimeout, BusConstants
  <2> QED
    BY <1>1, <1>4, <2>1 DEF Bus!TestTimeout
<1>2. ASSUME Bus!Demo PROVE BoardTyped'
  <2>1. delayCnt' \in 0 .. LastDemo
    BY <1>2, <1>4 DEF Bus!Demo, BusConstants
  <2>2. delayCnt' \in 0 .. 255
    <3>1. delayCnt' \in Int /\ 0 <= delayCnt' /\ delayCnt' <= LastDemo
      BY <2>1 DEF BusConstants
    <3>2. LastDemo \in Int /\ LastDemo <= 255
      BY DEF BusConstants
    <3> QED
      BY <3>1, <3>2
  <2>3. values' \in [Bus!Places -> 0 .. 255]
    BY <1>2, <2>2 DEF Bus!Demo
  <2> QED
    BY <1>2, <1>4, <2>1, <2>3 DEF Bus!Demo
<1>3. ASSUME Bus!StoreTimeout PROVE BoardTyped'
  <2>1. 0 \in 0 .. DemoAfter + 1
    BY DEF BusConstants
  <2> QED
    BY <1>3, <1>4, <2>1 DEF Bus!StoreTimeout
<1> QED
  BY <1>1, <1>2, <1>3, <1>5 DEF Bus!LedLoop, BusTyped

LEMMA BusTypedStep ==
  ASSUME BusConstants, BusTyped, [Bus!Next]_Bus!vars
  PROVE  BusTyped'
<1>1. CASE Bus!setSignNr \/ Bus!Sender \/ Bus!Power
  BY <1>1, BusTypedMain
<1>2. CASE Bus!LedLoop
  BY <1>2, BusTypedLoop
<1>3. CASE Bus!Arrive
  <2>1. Bus!Sent /\ Bus!USART_RX(Head(wire))
    BY <1>3 DEF Bus!Arrive
  <2>2. Head(wire) \in Wires
    BY <2>1 DEF Bus!Sent, BusTyped, BoardTyped
  <2>3. Bus!Without(Head(wire), 0) = Head(wire) /\ 0 \in 0 .. 5
    BY <2>2, WithoutFacts
  <2>4. Bus!USART_RX(Bus!Without(Head(wire), 0))
    BY <2>1, <2>3
  <2> QED
    BY <2>1, <2>3, <2>4, BusTypedArrive
<1>4. CASE Bus!ArriveWithout
  <2>1. Bus!Sent
    BY <1>4 DEF Bus!ArriveWithout
  <2>2. PICK n \in 1 .. 5 : Bus!USART_RX(Bus!Without(Head(wire), n))
    BY <1>4 DEF Bus!ArriveWithout
  <2>3. n \in 0 .. 5
    OBVIOUS
  <2> QED
    BY <2>1, <2>2, <2>3, BusTypedArrive
<1>5. CASE UNCHANGED Bus!vars
  BY <1>5 DEF Bus!vars, Bus!mainVars, Bus!ledVars, BusTyped, SenderTyped, BoardTyped
<1> QED
  BY <1>1, <1>2, <1>3, <1>4, <1>5 DEF Bus!Next

THEOREM BusIsTyped ==
  ASSUME BusConstants
  PROVE  Bus!Spec => []Bus!TypeOK
<1>1. Bus!Init => BusTyped
  BY BusTypedInit
<1>2. BusTyped /\ [Bus!Next]_Bus!vars => BusTyped'
  BY BusTypedStep
<1>3. BusTyped => Bus!TypeOK
  <2>1. ASSUME BusTyped PROVE Len(got) <= 4
    <3>1. \A l \in {0, 4} : l <= 4
      OBVIOUS
    <3>2. Len(got) \in {0, 4}
      BY <2>1 DEF BusTyped, BoardTyped
    <3> QED
      BY <3>1, <3>2
  <2> QED
    BY <2>1 DEF BusTyped, SenderTyped, BoardTyped, Bus!TypeOK
<1> QED
  BY <1>1, <1>2, <1>3, PTL DEF Bus!Spec

(* The numbers that the script has: digits and others that fit in a byte, and the
   512 of a sign that is to be dark. *)
BusNumbers == Nums \subseteq 0 .. 255 \cup {512}

(* A frame of a sign of the board has a number that was set there, or nothing. *)
Honest(f, ever) ==
  \E s \in Bus!Signs, num \in Int :
    /\ f = Bus!Frame(s, num)
    /\ \A p \in Bus!Places : s = Bus!MySign(p) => num = Bus!Blank \/ num \in ever[p]

(* What ShownWasSet allows on a place. *)
Shown(p) ==
  everSet[p] \cup {Bus!Blank, IF p = 0 THEN Bus!MyRow - 1 ELSE p + 10}
             \cup (IF 512 \in everSet[p] THEN {0} ELSE {})

(* The sign that ioLoop has not come to when it puts 255 over all of them. *)
ToBeCleared(s) == step = "clear" /\ signIdx <= s

SetAndTested ==
  /\ everSet \in [Bus!Places -> SUBSET Nums]
  /\ \A p \in Bus!Places : \/ signNum[Bus!MySign(p)] \in {255} \cup everSet[p]
                            \/ ToBeCleared(Bus!MySign(p))
  /\ step = "fill" /\ valid =>
       \A p \in Bus!Places : signIdx = Bus!MySign(p) => signNum[signIdx] \in everSet[p]

Written == \A i \in 1 .. Len(buffer) : Honest(buffer[i], everSet)
OnTheLine == \A i \in 1 .. Len(wire) : Honest(wire[i], everSet)
ShownHere == ~upset => got = <<>> /\ \A p \in Bus!Places : values[p] \in Shown(p)

ShownInv == SetAndTested /\ Written /\ OnTheLine /\ ShownHere

(* The number that a board makes of the byte for a number. *)
LEMMA ValueFacts ==
  ASSUME NEW num \in 0 .. 255 \cup {512}
  PROVE  (((num + 48) % 256) - 48) % 256 = IF num = 512 THEN 0 ELSE num
<1>1. CASE num = 512
  BY <1>1
<1>2. CASE num \in 0 .. 207
  BY <1>2
<1>3. CASE num \in 208 .. 255
  BY <1>3
<1> QED
  BY <1>1, <1>2, <1>3

(* A frame for this board has the number of the place that it names. *)
LEMMA HonestFacts ==
  ASSUME BusConstants, BusNumbers, NEW ever \in [Bus!Places -> SUBSET Nums],
         NEW f, Honest(f, ever),
         Bus!Address(f) = Bus!MY_ADDR, Bus!Place(f) \in Bus!Places
  PROVE  LET mine == ever[Bus!Place(f)]
         IN Bus!Value(f) \in mine \cup {Bus!Blank} \cup (IF 512 \in mine THEN {0} ELSE {})
<1> DEFINE p == Bus!Place(f)
<1>1. PICK s \in Bus!Signs, num \in Int :
        /\ f = Bus!Frame(s, num)
        /\ \A q \in Bus!Places : s = Bus!MySign(q) => num = Bus!Blank \/ num \in ever[q]
  BY DEF Honest
<1>4. /\ Bus!Address(f) = s \div Stride + 48 /\ p = s % Stride
      /\ Bus!Value(f) = (((num + 48) % 256) - 48) % 256
  BY <1>1, WireFacts
<1>5. s \in Int /\ Stride \in Nat \ {0} /\ s \div Stride \in Int
  BY SignFacts
<1>6. s \div Stride = 1
  <2>1. s \div Stride + 48 = 49
    BY <1>4 DEF Bus!MY_ADDR, Bus!Digit0
  <2> HIDE DEF p
  <2> QED
    BY <1>5, <2>1
<1>7. s = Stride * 1 + p
  <2>1. s = Stride * (s \div Stride) + (s % Stride)
    BY <1>5
  <2> QED
    BY <1>4, <1>6, <2>1
<1>8. s = Bus!MySign(p)
  BY <1>7 DEF Bus!MySign, Bus!MyRow
<1>9. num = Bus!Blank \/ num \in ever[p]
  BY <1>1, <1>8
<1>2. num \in 0 .. 255 \cup {512}
  BY <1>9 DEF BusNumbers, Bus!Blank
<1>10. Bus!Value(f) = IF num = 512 THEN 0 ELSE num
  BY <1>2, <1>4, ValueFacts
<1> HIDE DEF p
<1>11. Bus!Blank # 512
  BY DEF Bus!Blank
<1>12. LET mine == ever[p]
       IN Bus!Value(f) \in mine \cup {Bus!Blank} \cup (IF 512 \in mine THEN {0} ELSE {})
  BY <1>9, <1>10, <1>11
<1> QED
  BY <1>12 DEF p

(* What was ever set is not forgotten. *)
LEMMA HonestStays ==
  ASSUME NEW e1, NEW e2, \A p \in Bus!Places : e1[p] \subseteq e2[p],
         NEW f, Honest(f, e1)
  PROVE  Honest(f, e2)
BY DEF Honest

LEMMA ShownInit ==
  ASSUME BusConstants, Bus!Init
  PROVE  ShownInv
<1>1. /\ valid = FALSE /\ step = "clear" /\ buffer = <<>> /\ wire = <<>> /\ got = <<>>
      /\ signIdx = 0
      /\ everSet = [p \in Bus!Places |-> {}]
      /\ values = [p \in Bus!Places |->
                     CASE p = 0 -> Bus!MyRow - 1 [] p \in 1 .. 6 -> p + 10 [] OTHER -> Bus!Blank]
  BY Zenon DEF Bus!Init, Bus!Fresh
<1>2. SetAndTested
  <2>1. \A p \in Bus!Places : ToBeCleared(Bus!MySign(p))
    BY <1>1, SignFacts DEF ToBeCleared
  <2> QED
    BY <1>1, <2>1 DEF SetAndTested
<1>3. Written /\ OnTheLine
  BY <1>1 DEF Written, OnTheLine
<1>4. ASSUME NEW p \in Bus!Places PROVE values[p] \in Shown(p)
  <2>1. values[p] = CASE p = 0 -> Bus!MyRow - 1 [] p \in 1 .. 6 -> p + 10 [] OTHER -> Bus!Blank
    BY <1>1, Zenon
  <2>2. ~(0 \in 1 .. 6)
    OBVIOUS
  <2>3. values[p] \in {Bus!Blank, IF p = 0 THEN Bus!MyRow - 1 ELSE p + 10}
    <3>1. CASE p = 0
      BY <2>1, <2>2, <3>1, Zenon
    <3>2. CASE p \in 1 .. 6
      BY <2>1, <2>2, <3>2, Zenon
    <3>3. CASE p # 0 /\ p \notin 1 .. 6
      BY <2>1, <3>3, Zenon
    <3> QED
      BY <3>1, <3>2, <3>3, Zenon
  <2> QED
    BY <2>3, Zenon DEF Shown
<1> QED
  BY <1>1, <1>2, <1>3, <1>4 DEF ShownInv, ShownHere

(* The script and ioLoop: what is put into a frame was set, and is still. *)
LEMMA ShownMain ==
  ASSUME BusConstants, BusTyped, ShownInv, Bus!setSignNr \/ Bus!Sender \/ Bus!Power
  PROVE  ShownInv'
<1>1. SetAndTested /\ Written /\ OnTheLine /\ ShownHere
  BY DEF ShownInv
<1>2. /\ everSet \in [Bus!Places -> SUBSET Nums]
      /\ signNum \in [0 .. Bus!SIGN_COUNT - 1 -> Int] /\ buffer \in Seq(Wires)
      /\ \A p \in Bus!Places : Bus!MySign(p) \in 0 .. Bus!SIGN_COUNT - 1
  BY <1>1, SignFacts DEF BusTyped, SenderTyped, SetAndTested
<1>3. ASSUME Bus!setSignNr PROVE ShownInv'
  <2>1. PICK place \in Bus!Places, num \in Nums :
          /\ signNum' = [signNum EXCEPT ![Bus!MySign(place)] = num]
          /\ everSet' = [everSet EXCEPT ![place] = @ \cup {num}]
    BY <1>3 DEF Bus!setSignNr
  <2>2. UNCHANGED <<signIdx, step, valid, buffer, wire, got, values, upset>>
    BY <1>3 DEF Bus!setSignNr, Bus!ledVars
  <2>3. /\ everSet' \in [Bus!Places -> SUBSET Nums]
        /\ \A p \in Bus!Places : everSet[p] \subseteq everSet'[p]
        /\ num \in everSet'[place]
    BY <1>2, <2>1
  <2>4. \A p \in Bus!Places : Bus!MySign(p) = Bus!MySign(place) => p = place
    <3>1. /\ Stride \in Int
          /\ \A p \in Bus!Places : p \in Int /\ Bus!MySign(p) = Stride * 1 + p
      BY SignFacts DEF Bus!MySign, Bus!MyRow
    <3>2. \A i, j, k \in Int : k * 1 + i = k * 1 + j => i = j
      OBVIOUS
    <3> QED
      BY <3>1, <3>2
  <2>5. ASSUME NEW p \in Bus!Places
        PROVE  signNum'[Bus!MySign(p)] =
                 IF p = place THEN num ELSE signNum[Bus!MySign(p)]
    BY <1>2, <2>1, <2>4
  <2>6. SetAndTested'
    <3>1. \A p \in Bus!Places : \/ signNum'[Bus!MySign(p)] \in {255} \cup everSet'[p]
                                \/ ToBeCleared(Bus!MySign(p))
      BY <1>1, <2>3, <2>5 DEF SetAndTested
    <3>2. ASSUME step = "fill" /\ valid, NEW p \in Bus!Places, signIdx = Bus!MySign(p)
          PROVE  signNum'[signIdx] \in everSet'[p]
      BY <1>1, <2>3, <2>5, <3>2 DEF SetAndTested
    <3> QED
      BY <2>2, <2>3, <3>1, <3>2 DEF SetAndTested, ToBeCleared, Bus!Places, Bus!MySign,
         Bus!MyRow
  <2>7. Written' /\ OnTheLine'
    BY <1>1, <2>2, <2>3, HonestStays DEF Written, OnTheLine
  <2>8. ShownHere'
    BY <1>1, <2>2, <2>3 DEF ShownHere, Shown
  <2> QED
    BY <2>6, <2>7, <2>8 DEF ShownInv
<1>4. ASSUME Bus!TestSign PROVE ShownInv'
  <2>1. /\ valid' <=> signNum[signIdx'] >= 0 /\ signNum[signIdx'] < 100
        /\ step = "test"
        /\ UNCHANGED <<signNum, buffer, wire, got, values, everSet, upset>>
    BY <1>4 DEF Bus!TestSign, Bus!ledVars, Bus!history
  <2>2. ASSUME valid', NEW p \in Bus!Places, signIdx' = Bus!MySign(p)
        PROVE  signNum[signIdx'] \in everSet[p]
    <3>1. signNum[signIdx'] \in {255} \cup everSet[p]
      BY <1>1, <2>1, <2>2 DEF SetAndTested, ToBeCleared
    <3>2. signNum[signIdx'] < 100
      BY <2>1, <2>2
    <3>3. \A n \in {255} : ~(n < 100)
      OBVIOUS
    <3> QED
      BY <3>1, <3>2, <3>3
  <2>3. SetAndTested'
    BY <1>1, <2>1, <2>2 DEF SetAndTested, ToBeCleared
  <2> QED
    BY <1>1, <2>1, <2>3 DEF ShownInv, Written, OnTheLine, ShownHere, Shown
<1>5. ASSUME Bus!FillFrame PROVE ShownInv'
  <2> DEFINE num == IF valid THEN signNum[signIdx] ELSE Bus!Blank
             frame == Bus!Frame(signIdx, num)
  <2>1. /\ step = "fill" /\ signIdx \in Bus!Signs
        /\ buffer' = Append(buffer, frame) /\ valid' = FALSE
        /\ UNCHANGED <<signNum, wire, got, values, everSet, upset>>
    BY <1>5 DEF Bus!FillFrame, Bus!ledVars, Bus!history, BusTyped, SenderTyped
  <2>2. SetAndTested'
    BY <1>1, <2>1 DEF SetAndTested, ToBeCleared
  <2>3. Honest(frame, everSet)
    <3>1. \A q \in Bus!Places : signIdx = Bus!MySign(q) => num = Bus!Blank \/ num \in everSet[q]
      BY <1>1, <2>1 DEF SetAndTested
    <3>2. num \in Int
      <4>1. signIdx \in 0 .. Bus!SIGN_COUNT - 1
        BY <2>1, SignFacts
      <4> QED
        BY <1>2, <4>1 DEF Bus!Blank
    <3> HIDE DEF num
    <3> QED
      BY <2>1, <3>1, <3>2 DEF Honest
  <2> HIDE DEF frame, num
  <2>4. Written'
    <3>1. ASSUME NEW i \in 1 .. Len(buffer') PROVE Honest(buffer'[i], everSet)
      <4>1. /\ Len(buffer') = Len(buffer) + 1 /\ Len(buffer) \in Nat
            /\ \A k \in 1 .. Len(buffer) : buffer'[k] = buffer[k]
            /\ buffer'[Len(buffer) + 1] = frame
        BY <1>2, <2>1
      <4>2. CASE i \in 1 .. Len(buffer)
        BY <1>1, <4>1, <4>2 DEF Written
      <4>3. CASE i = Len(buffer) + 1
        BY <2>3, <4>1, <4>3
      <4> QED
        BY <4>1, <4>2, <4>3
    <3> QED
      BY <2>1, <3>1 DEF Written, Honest
  <2> QED
    BY <1>1, <2>1, <2>2, <2>4 DEF ShownInv, OnTheLine, ShownHere, Shown
<1>6. ASSUME Bus!WriteFrames PROVE ShownInv'
  <2>1. /\ wire' = buffer /\ buffer' = <<>> /\ step = "write" /\ step' = "test"
        /\ UNCHANGED <<signNum, signIdx, valid, got, values, everSet, upset>>
    BY <1>6 DEF Bus!WriteFrames, Bus!ledVars, Bus!history
  <2>2. SetAndTested'
    BY <1>1, <2>1 DEF SetAndTested, ToBeCleared
  <2>3. Written' /\ OnTheLine'
    BY <1>1, <2>1 DEF Written, OnTheLine
  <2> QED
    BY <1>1, <2>1, <2>2, <2>3 DEF ShownInv, ShownHere, Shown
<1>7. ASSUME Bus!Power PROVE ShownInv'
  <2>1. /\ step' = "clear" /\ signIdx' = 0
        /\ buffer' = <<>> /\ valid' = FALSE
        /\ UNCHANGED <<wire, got, values, everSet, upset>>
    BY <1>7 DEF Bus!Power, Bus!ledVars
  <2>2. \A p \in Bus!Places : 0 <= Bus!MySign(p)
    BY <1>2
  <2>3. SetAndTested'
    BY <1>1, <2>1, <2>2 DEF SetAndTested, ToBeCleared, Bus!MySign, Bus!MyRow
  <2>4. Written'
    BY <2>1 DEF Written
  <2> QED
    BY <1>1, <2>1, <2>3, <2>4 DEF ShownInv, OnTheLine, ShownHere, Shown
<1>8. ASSUME Bus!ClearSign PROVE ShownInv'
  <2>1. /\ step = "clear" /\ step' = "clear" /\ signIdx' = signIdx + 1
        /\ signIdx \in 0 .. Bus!SIGN_COUNT
        /\ signNum' = [signNum EXCEPT ![signIdx] = 255]
        /\ UNCHANGED <<valid, buffer, wire, got, values, everSet, upset>>
    BY <1>8 DEF Bus!ClearSign, Bus!ledVars, Bus!history, BusTyped, SenderTyped
  <2>2. ASSUME NEW p \in Bus!Places
        PROVE  \/ signNum'[Bus!MySign(p)] \in {255} \cup everSet[p]
               \/ signIdx + 1 <= Bus!MySign(p)
    <3>1. CASE signIdx = Bus!MySign(p)
      BY <1>2, <2>1, <3>1
    <3>2. CASE signIdx # Bus!MySign(p)
      <4>1. signNum'[Bus!MySign(p)] = signNum[Bus!MySign(p)]
        BY <1>2, <2>1, <3>2
      <4>2. \/ signNum[Bus!MySign(p)] \in {255} \cup everSet[p]
            \/ signIdx <= Bus!MySign(p)
        BY <1>1 DEF SetAndTested, ToBeCleared
      <4>3. signIdx <= Bus!MySign(p) => signIdx + 1 <= Bus!MySign(p)
        BY <1>2, <2>1, <3>2, SignFacts
      <4> QED
        BY <4>1, <4>2, <4>3
    <3> QED
      BY <3>1, <3>2
  <2>3. SetAndTested'
    BY <1>1, <2>1, <2>2 DEF SetAndTested, ToBeCleared, Bus!MySign, Bus!MyRow
  <2> QED
    BY <1>1, <2>1, <2>3 DEF ShownInv, Written, OnTheLine, ShownHere, Shown
<1>9. ASSUME Bus!OpenPorts PROVE ShownInv'
  <2>1. /\ step' = "test" /\ signIdx = Bus!SIGN_COUNT
        /\ UNCHANGED <<signNum, valid, buffer, wire, got, values, everSet, upset>>
    BY <1>9 DEF Bus!OpenPorts, Bus!ledVars, Bus!history
  <2>2. ASSUME NEW p \in Bus!Places PROVE ~(signIdx <= Bus!MySign(p))
    BY <1>2, <2>1, SignFacts
  <2>3. SetAndTested'
    BY <1>1, <2>1, <2>2 DEF SetAndTested, ToBeCleared
  <2> QED
    BY <1>1, <2>1, <2>3 DEF ShownInv, Written, OnTheLine, ShownHere, Shown
<1> QED
  BY <1>3, <1>4, <1>5, <1>6, <1>7, <1>8, <1>9 DEF Bus!Sender

(* The interrupt: a whole frame, of which nothing was lost, has a number that was
   set on the place that it is for. *)
LEMMA ShownArrive ==
  ASSUME BusConstants, BusNumbers, BusTyped, ShownInv, Bus!Sent,
         NEW n \in 0 .. 5, Bus!USART_RX(Bus!Without(Head(wire), n))
  PROVE  ShownInv'
<1> DEFINE bytes == Bus!Without(Head(wire), n)
           received == Bus!ReceiveFrame(got, bytes)
           frame == received[2]
<1>1. SetAndTested /\ Written /\ OnTheLine /\ ShownHere
  BY DEF ShownInv
<1>2. /\ wire \in Seq(Wires) /\ wire # <<>> /\ wire' = Tail(wire)
      /\ UNCHANGED <<signNum, signIdx, step, valid, buffer, everSet>>
  BY DEF Bus!Sent, Bus!mainVars, BusTyped, BoardTyped
<1>3. Head(wire) \in Wires /\ Honest(Head(wire), everSet)
  BY <1>1, <1>2 DEF OnTheLine
<1>4. OnTheLine'
  <2>1. \A i \in 1 .. Len(Tail(wire)) : Tail(wire)[i] = wire[i + 1] /\ i + 1 \in 1 .. Len(wire)
    BY <1>2
  <2> QED
    BY <1>1, <1>2, <2>1 DEF OnTheLine
<1>5. SetAndTested' /\ Written'
  BY <1>1, <1>2 DEF SetAndTested, ToBeCleared, Written
<1>6. /\ bytes \in Seq(Int) /\ Len(bytes) \in {4, 5}
      /\ Len(bytes) = 5 => bytes = Head(wire)
  <2>1. /\ bytes \in Seq(Int) /\ Len(bytes) = IF n = 0 THEN 5 ELSE 4
        /\ n = 0 => bytes = Head(wire)
    BY <1>3, WithoutFacts
  <2> HIDE DEF bytes
  <2> QED
    BY <2>1
<1>7. /\ got' = received[1]
      /\ ~upset' => ~upset /\ Len(bytes) = 5
      /\ \/ values' = values
         \/ values' = [p \in Bus!Places |-> IF p < PerRow - 1 THEN Bus!Blank ELSE values[p]]
         \/ /\ frame # Bus!NoFrame /\ Bus!Address(frame) = Bus!MY_ADDR
            /\ Bus!Place(frame) \in Bus!Places
            /\ values' = [values EXCEPT ![Bus!Place(frame)] = Bus!Value(frame)]
  BY <1>6, InterruptFacts
<1>8. bytes = Head(wire) /\ got = <<>> => received = <<<<>>, bytes>>
  <2>1. Head(wire)[1] = Bus!START_BYTE
    BY <1>3, WireFacts DEF Honest
  <2>2. got \in Seq(Int) /\ Len(got) \in {0, 4} /\ Len(Head(wire)) = 5
    BY <1>3 DEF BusTyped, BoardTyped, Wires
  <2> QED
    BY <1>6, <2>1, <2>2, ReceiveFacts
<1> HIDE DEF bytes, received
<1>9. ASSUME ~upset'
      PROVE  got' = <<>> /\ \A p \in Bus!Places : values'[p] \in Shown(p)
  <2>1. ~upset /\ bytes = Head(wire) /\ got = <<>>
    BY <1>1, <1>6, <1>7, <1>9 DEF ShownHere
  <2>2. received = <<<<>>, bytes>>
    BY <1>8, <2>1
  <2>3. got' = <<>> /\ frame = Head(wire)
    BY <1>7, <2>1, <2>2
  <2>4. \A p \in Bus!Places : values[p] \in Shown(p) /\ Bus!Blank \in Shown(p)
    BY <1>1, <2>1 DEF ShownHere, Shown
  <2>5. values \in [Bus!Places -> 0 .. 255] /\ everSet \in [Bus!Places -> SUBSET Nums]
    BY <1>1 DEF BusTyped, BoardTyped, SetAndTested
  <2> HIDE DEF frame
  <2>6. CASE values' = values
    BY <2>3, <2>4, <2>6
  <2>7. CASE values' = [p \in Bus!Places |-> IF p < PerRow - 1 THEN Bus!Blank ELSE values[p]]
    BY <2>3, <2>4, <2>7
  <2>8. CASE /\ Bus!Address(frame) = Bus!MY_ADDR /\ Bus!Place(frame) \in Bus!Places
             /\ values' = [values EXCEPT ![Bus!Place(frame)] = Bus!Value(frame)]
    <3> DEFINE mine == everSet[Bus!Place(frame)]
    <3>1. Bus!Value(frame) \in mine \cup {Bus!Blank} \cup (IF 512 \in mine THEN {0} ELSE {})
      BY <1>3, <2>3, <2>5, <2>8, HonestFacts
    <3>2. Bus!Value(frame) \in Shown(Bus!Place(frame))
      BY <3>1 DEF Shown
    <3>3. ASSUME NEW p \in Bus!Places PROVE values'[p] \in Shown(p)
      <4>1. values'[p] = IF p = Bus!Place(frame) THEN Bus!Value(frame) ELSE values[p]
        BY <2>5, <2>8
      <4> QED
        BY <2>4, <3>2, <4>1
    <3> QED
      BY <2>3, <3>3
  <2> QED
    BY <1>7, <2>6, <2>7, <2>8 DEF frame
<1>10. ShownHere'
  BY <1>2, <1>9 DEF ShownHere, Shown
<1> QED
  BY <1>4, <1>5, <1>10 DEF ShownInv

LEMMA ShownStep ==
  ASSUME BusConstants, BusNumbers, BusTyped, ShownInv, [Bus!Next]_Bus!vars
  PROVE  ShownInv'
<1>1. CASE Bus!setSignNr \/ Bus!Sender \/ Bus!Power
  BY <1>1, ShownMain
<1>2. CASE Bus!Arrive
  <2>1. Bus!Sent /\ Bus!USART_RX(Head(wire))
    BY <1>2 DEF Bus!Arrive
  <2>2. Head(wire) \in Wires
    BY <2>1 DEF Bus!Sent, BusTyped, BoardTyped
  <2>3. Bus!Without(Head(wire), 0) = Head(wire) /\ 0 \in 0 .. 5
    BY <2>2, WithoutFacts
  <2>4. Bus!USART_RX(Bus!Without(Head(wire), 0))
    BY <2>1, <2>3
  <2> QED
    BY <2>1, <2>3, <2>4, ShownArrive
<1>3. CASE Bus!ArriveWithout
  <2>1. Bus!Sent
    BY <1>3 DEF Bus!ArriveWithout
  <2>2. PICK n \in 1 .. 5 : Bus!USART_RX(Bus!Without(Head(wire), n))
    BY <1>3 DEF Bus!ArriveWithout
  <2>3. n \in 0 .. 5
    OBVIOUS
  <2> QED
    BY <2>1, <2>2, <2>3, ShownArrive
<1>4. CASE Bus!LedLoop
  <2>1. SetAndTested /\ Written /\ OnTheLine /\ ShownHere
    BY DEF ShownInv
  <2>2. UNCHANGED <<Bus!mainVars, wire, got, everSet>>
    BY <1>4 DEF Bus!LedLoop, Bus!TestTimeout, Bus!Demo, Bus!StoreTimeout, Bus!history
  <2>3. upset' \/ UNCHANGED <<values, upset>>
    BY <1>4 DEF Bus!LedLoop, Bus!TestTimeout, Bus!Demo, Bus!StoreTimeout, Bus!history
  <2>4. SetAndTested' /\ Written' /\ OnTheLine'
    BY <2>1, <2>2 DEF SetAndTested, ToBeCleared, Written, OnTheLine, Bus!mainVars
  <2>5. ShownHere'
    BY <2>1, <2>2, <2>3 DEF ShownHere, Shown
  <2> QED
    BY <2>4, <2>5 DEF ShownInv
<1>5. CASE UNCHANGED Bus!vars
  <2>1. UNCHANGED <<signNum, signIdx, step, valid, buffer, wire, got, values, everSet, upset>>
    BY <1>5 DEF Bus!vars, Bus!mainVars, Bus!ledVars, Bus!history
  <2> QED
    BY <2>1 DEF ShownInv, SetAndTested, ToBeCleared, Written, OnTheLine, ShownHere, Shown
<1> QED
  BY <1>1, <1>2, <1>3, <1>4, <1>5 DEF Bus!Next

THEOREM BoardShowsWhatWasSet ==
  ASSUME BusConstants, BusNumbers
  PROVE  Bus!Spec => []Bus!ShownWasSet
<1>1. Bus!Init => BusTyped /\ ShownInv
  BY BusTypedInit, ShownInit
<1>2. BusTyped /\ ShownInv /\ [Bus!Next]_Bus!vars => (BusTyped /\ ShownInv)'
  BY BusTypedStep, ShownStep
<1>3. ShownInv => Bus!ShownWasSet
  BY Zenon DEF ShownInv, ShownHere, Shown, Bus!ShownWasSet
<1> QED
  BY <1>1, <1>2, <1>3, PTL DEF Bus!Spec

--------------------------------------------------------------------------------
(***************************************************************************)
(* A digit of mechanical segments: once it has been told a number it comes *)
(* nearer to showing it with every pulse, and keeps it.                    *)
(***************************************************************************)
(* Sign 3 is on the first board.  A number is sent as it is up to 99. *)
DigitConstants ==
  /\ Stride \in Nat /\ 3 < Stride
  /\ Nums \subseteq 0 .. 99

Pulsed == segments \subseteq Digit!Segment /\ updatePos \in 1 .. 8 /\ events \in Nat

(* The frames hold num, the interrupt is between two of them, and the main loop
   has read the number. *)
Told(num) ==
  /\ sending = Digit!Frame(Digit!MySign, num) /\ got = <<>>
  /\ nextOutput = num /\ currentOutput = num
  /\ loop # "demo"

(* The segments that are not turned as num has them. *)
Wrong(num) ==
  (segments \ Digit!segmentDef(num)) \cup (Digit!segmentDef(num) \ segments)

(* Unless something happens that is counted as an event, a number that was told
   stays told, no segment is turned away from it, and each pulse of one segment
   sets that one right, a pulse of all of them all. *)
Heals ==
  [][\A num \in Nums :
        Told(num) /\ events' = events =>
          /\ Told(num)'
          /\ Wrong(num)' \subseteq Wrong(num)
          /\ loop = "full" /\ loop' # loop => Wrong(num)' = {}
          /\ loop = "part" /\ loop' # loop =>
               Wrong(num)' = Wrong(num) \ Digit!Mask[updatePos]]_Digit!vars

(* What a pulse of the segments of mask leaves, when none of them misses it. *)
LEMMA PulseFacts ==
  ASSUME Pulsed, NEW shown, shown \subseteq Digit!Segment,
         NEW mask, mask \subseteq Digit!Segment,
         Digit!setOutputs(shown, mask)
  PROVE  /\ segments' \subseteq Digit!Segment
         /\ events' = events => segments' = (segments \ mask) \cup (shown \cap mask)
<1>1. \/ segments' = (segments \ mask) \cup (shown \cap mask)
      \/ /\ events' = events + 1
         /\ \E s \in mask :
              segments' = (segments \ (mask \ {s})) \cup (shown \cap (mask \ {s}))
  BY DEF Digit!setOutputs, Digit!Counted
<1>2. segments' \subseteq Digit!Segment
  BY <1>1 DEF Pulsed
<1>3. events + 1 # events
  BY DEF Pulsed
<1> QED
  BY <1>1, <1>2, <1>3

LEMMA DigitFacts ==
  /\ \A n : Digit!segmentDef(n) \subseteq Digit!Segment
  /\ \A i \in 1 .. 8 : Digit!Mask[i] \subseteq Digit!Segment
<1>1. \A n : Digit!segmentDef(n) \subseteq Digit!Segment
  BY Zenon DEF Digit!segmentDef, Digit!Segment
<1>2. \A i \in 1 .. 8 : Digit!Mask[i] \subseteq Digit!Segment
  BY DEF Digit!Mask, Digit!Segment
<1> QED
  BY <1>1, <1>2

LEMMA DigitInit == Digit!Init => Pulsed
  BY DEF Digit!Init, Pulsed

LEMMA DigitStep == Pulsed /\ [Digit!Next]_Digit!vars => Pulsed'
<1> SUFFICES ASSUME Pulsed, [Digit!Next]_Digit!vars PROVE Pulsed'
  OBVIOUS
<1>1. \A i \in 1 .. 8 : (IF i = 8 THEN 1 ELSE i + 1) \in 1 .. 8
  OBVIOUS
<1>2. events' = events \/ events' = events + 1
  BY DEF Digit!Next, Digit!vars, Digit!Send, Digit!Arrive, Digit!ArriveWithout, Digit!MainLoop,
     Digit!Power, Digit!Counted, Digit!Demo, Digit!Test, Digit!Load, Digit!Full, Digit!Part,
     Digit!setOutputs
<1>3. events' \in Nat
  BY <1>2 DEF Pulsed
<1>4. CASE Digit!Demo
  <2>1. Digit!setOutputs(Digit!segmentDef(delayCnt), Digit!Segment) /\ updatePos' = updatePos
    BY <1>4 DEF Digit!Demo
  <2> QED
    BY <1>3, <2>1, PulseFacts, DigitFacts DEF Pulsed
<1>5. CASE Digit!Full
  <2>1. Digit!setOutputs(Digit!segmentDef(currentOutput), Digit!Segment) /\ updatePos' = updatePos
    BY <1>5 DEF Digit!Full
  <2> QED
    BY <1>3, <2>1, PulseFacts, DigitFacts DEF Pulsed
<1>6. CASE Digit!Part
  <2>1. /\ Digit!setOutputs(Digit!segmentDef(currentOutput), Digit!Mask[updatePos])
        /\ updatePos' = IF updatePos = 8 THEN 1 ELSE updatePos + 1
    BY <1>6 DEF Digit!Part
  <2>2. segments' \subseteq Digit!Segment
    BY <2>1, PulseFacts, DigitFacts DEF Pulsed
  <2> QED
    BY <1>1, <1>3, <2>1, <2>2 DEF Pulsed
<1>7. CASE Digit!Power
  BY <1>3, <1>7 DEF Pulsed, Digit!Power
<1>8. CASE UNCHANGED <<segments, updatePos>>
  BY <1>3, <1>8 DEF Pulsed
<1> QED
  BY <1>4, <1>5, <1>6, <1>7, <1>8 DEF Digit!Next, Digit!vars, Digit!program, Digit!Send,
     Digit!Arrive, Digit!ArriveWithout, Digit!USART_RX, Digit!MainLoop, Digit!Test, Digit!Load

(* A whole frame with a number for this digit, received between two frames. *)
LEMMA ToldFrame ==
  ASSUME DigitConstants, NEW num \in 0 .. 99
  PROVE  LET f == Digit!Frame(Digit!MySign, num)
         IN  /\ Digit!ReceiveFrame(<<>>, f) = <<<<>>, f>>
             /\ f # Digit!NoFrame
             /\ Digit!Address(f) = Digit!MY_ADDR /\ Digit!Command(f) = Digit!CMD_SET
             /\ Digit!Place(f) = Digit!MY_SUBADDR /\ Digit!Value(f) = num
<1> DEFINE f == Digit!Frame(Digit!MySign, num)
<1>1. 3 \div Stride = 0 /\ 3 % Stride = 3
  BY DEF DigitConstants
<1>2. (num + 48) % 256 = num + 48 /\ (num + 48 - 48) % 256 = num
  OBVIOUS
<1>3. f = <<240, 48, 49, 51, num + 48>>
  BY <1>1, <1>2 DEF Digit!Frame, Digit!MySign, Digit!MY_SUBADDR, Digit!START_BYTE,
     Digit!Digit0, Digit!CMD_SET
<1> HIDE DEF f
<1>4. f[1] = 240 /\ f[2] = 48 /\ f[3] = 49 /\ f[4] = 51 /\ f[5] = num + 48 /\ Len(f) = 5
  BY <1>3
<1>5. f # <<>>
  BY <1>4
<1>6. Digit!ReceiveFrame(<<>>, f) = <<<<>>, f>>
  BY <1>4, Zenon DEF Digit!ReceiveFrame, Digit!START_BYTE
<1>7. f[4] - 48 = 3 /\ (f[5] - 48) % 256 = num
  BY <1>2, <1>4
<1> QED
  BY <1>4, <1>5, <1>6, <1>7 DEF Digit!NoFrame, Digit!Address, Digit!Command, Digit!Place,
     Digit!Value, Digit!MY_ADDR, Digit!MY_SUBADDR, Digit!CMD_SET, Digit!Digit0, f

THEOREM DigitHeals ==
  ASSUME DigitConstants
  PROVE  Digit!Spec => Heals
<1> DEFINE Step(num) ==
      Told(num) /\ events' = events =>
          /\ Told(num)'
          /\ Wrong(num)' \subseteq Wrong(num)
          /\ loop = "full" /\ loop' # loop => Wrong(num)' = {}
          /\ loop = "part" /\ loop' # loop =>
               Wrong(num)' = Wrong(num) \ Digit!Mask[updatePos]
<1>1. ASSUME Pulsed, Digit!Next, NEW num \in Nums, Told(num), events' = events
      PROVE  Step(num)
  <2>1. ~Digit!Counted
    BY <1>1 DEF Digit!Counted, Pulsed
  <2>2. /\ sending = Digit!Frame(Digit!MySign, num) /\ got = <<>>
        /\ nextOutput = num /\ currentOutput = num /\ loop # "demo"
    BY <1>1 DEF Told
  <2>3. CASE Digit!Arrive
    <3> DEFINE f == Digit!Frame(Digit!MySign, num)
    <3>1. /\ Digit!ReceiveFrame(<<>>, f) = <<<<>>, f>>
          /\ f # Digit!NoFrame
          /\ Digit!Address(f) = Digit!MY_ADDR /\ Digit!Command(f) = Digit!CMD_SET
          /\ Digit!Place(f) = Digit!MY_SUBADDR /\ Digit!Value(f) = num
      BY <1>1, ToldFrame DEF DigitConstants
    <3>2. /\ UNCHANGED <<sending, currentOutput, updatePos, loop, segments>>
          /\ Digit!USART_RX(f)
      BY <2>2, <2>3 DEF Digit!Arrive, Digit!USART_RX
    <3> HIDE DEF f
    <3>3. <<<<>>, f>>[1] = <<>> /\ <<<<>>, f>>[2] = f
      OBVIOUS
    <3>4. got' = <<>>
      BY <2>2, <3>1, <3>2, <3>3 DEF Digit!USART_RX
    <3>5. nextOutput' = num
      <4>1. Digit!ReceiveFrame(got, f)[2] = f /\ Digit!CMD_SET # Digit!CMD_CLR
        BY <2>2, <3>1, <3>3 DEF Digit!CMD_SET, Digit!CMD_CLR
      <4> DEFINE frame == Digit!ReceiveFrame(got, f)[2]
                 command == IF frame # Digit!NoFrame /\ Digit!Address(frame) = Digit!MY_ADDR
                            THEN Digit!Command(frame) ELSE 0
      <4>2. command = Digit!CMD_SET /\ Digit!Place(frame) = Digit!MY_SUBADDR
              /\ Digit!Value(frame) = num
        BY <3>1, <4>1
      <4>3. nextOutput' = CASE command = Digit!CMD_SET /\ Digit!Place(frame) = Digit!MY_SUBADDR ->
                                 Digit!Value(frame)
                            [] command = Digit!CMD_CLR -> Digit!Blank
                            [] OTHER -> nextOutput
        BY <3>2 DEF Digit!USART_RX
      <4> HIDE DEF command, frame
      <4> QED
        BY <4>1, <4>2, <4>3, Zenon
    <3> QED
      BY <2>2, <3>2, <3>4, <3>5 DEF Told, Wrong
  <2>4. CASE Digit!Test
    BY <2>2, <2>4 DEF Digit!Test, Told, Wrong
  <2>5. CASE Digit!Load
    BY <2>2, <2>5 DEF Digit!Load, Told, Wrong
  <2>6. CASE Digit!Full
    <3>1. /\ Digit!setOutputs(Digit!segmentDef(num), Digit!Segment)
          /\ UNCHANGED <<sending, got, nextOutput, currentOutput>>
          /\ loop = "full" /\ loop' = "test"
      BY <2>2, <2>6 DEF Digit!Full
    <3>2. segments' = (segments \ Digit!Segment) \cup (Digit!segmentDef(num) \cap Digit!Segment)
      BY <1>1, <3>1, PulseFacts, DigitFacts
    <3>3. segments' = Digit!segmentDef(num)
      BY <1>1, <3>2, DigitFacts DEF Pulsed
    <3> QED
      BY <2>2, <3>1, <3>3 DEF Told, Wrong
  <2>7. CASE Digit!Part
    <3> DEFINE mask == Digit!Mask[updatePos]
    <3>1. /\ Digit!setOutputs(Digit!segmentDef(num), mask)
          /\ UNCHANGED <<sending, got, nextOutput, currentOutput>>
          /\ loop = "part" /\ loop' = "test"
      BY <2>2, <2>7 DEF Digit!Part
    <3>2. mask \subseteq Digit!Segment
      BY <1>1, DigitFacts DEF Pulsed
    <3> HIDE DEF mask
    <3>3. segments' = (segments \ mask) \cup (Digit!segmentDef(num) \cap mask)
      BY <1>1, <3>1, <3>2, PulseFacts, DigitFacts
    <3>4. Wrong(num)' = Wrong(num) \ mask
      BY <3>3 DEF Wrong
    <3>5. Told(num)'
      BY <2>2, <3>1 DEF Told
    <3> QED
      BY <3>1, <3>4, <3>5 DEF mask
  <2> QED
    BY <1>1, <2>1, <2>2, <2>3, <2>4, <2>5, <2>6, <2>7 DEF Digit!Next, Digit!MainLoop,
       Digit!Send, Digit!ArriveWithout, Digit!Power, Digit!Demo
<1>2. Pulsed /\ [Digit!Next]_Digit!vars => [\A num \in Nums : Step(num)]_Digit!vars
  BY <1>1
<1> QED
  BY <1>2, DigitInit, DigitStep, PTL DEF Digit!Spec, Heals
================================================================================

-------------------------------- MODULE CardBus --------------------------------
(***************************************************************************)
(* The way of a press from an I/O card to the button event list: the       *)
(* frames of the cards, processChar, which finds them in the bytes that    *)
(* ioLoop reads, and processInputs of MainBoard/io.c.                      *)
(*                                                                         *)
(* Each card is on a serial port of its own, and all ports share one       *)
(* parser.  ioLoop reads a port until it has nothing more, then the next;  *)
(* as a byte may arrive at any time, the next byte may come from any port. *)
(***************************************************************************)
EXTENDS Integers, Sequences

CONSTANTS
  Cards,       \* the numbers of the cards
  Words,       \* Words[c]: the sets of inputs that card c reports to be on
  Talkers,     \* the cards that send status messages and acknowledgements too
  Flags,       \* the first byte of the status messages
  CharSigned,  \* the build has a signed char
  MaxFaults    \* bound: bytes lost, and changes of port inside a frame

ASSUME CardBusAssumption ==
  /\ Cards \subseteq 0 .. 15
  /\ Words \in [Cards -> SUBSET SUBSET (0 .. 15)]
  /\ Talkers \subseteq Cards
  /\ Flags \subseteq 0 .. 255
  /\ CharSigned \in BOOLEAN
  /\ MaxFaults \in Nat

Byte == 0 .. 255
MaxData == 16

VARIABLES
  line,        \* line[c]: the frame card c is sending, and the next byte of it
  sentWord,    \* sentWord[c]: the inputs that card c reported last
  state, header, bcc, code, dataLen,
  data,        \* data[0] .. data[dataSize - 1]
  resetFlags,
  inputState,
  cur,         \* history: the bytes of the frame in progress: the port of the
               \* last, how many, and whether they are the first of one frame and
               \* no byte of that port was lost since
  since,       \* history: bytes read since the last fault, or since a data byte
               \* that looks like a header, up to Settle
  faults,      \* history: bytes lost, and changes of port inside a frame
  invented,    \* history: inputs were handled that no card sent
  owed         \* history: owed[b]: presses of button b minus events for it

parserVars == <<state, header, bcc, code, dataLen, data>>
cardVars == <<line, sentWord>>
effects == <<resetFlags, inputState>>
history == <<cur, since, faults, invented, owed>>
vars == <<cardVars, parserVars, effects, history>>

Silent == [frame |-> <<>>, next |-> 1]
NoFrame == [card |-> 0, n |-> 0, ok |-> TRUE]
Settle == MaxData + 2

Init ==
  /\ line = [c \in Cards |-> Silent]
  /\ sentWord = [c \in Cards |-> {}]
  /\ state = "HDR1"
  /\ header = 0 /\ bcc = 0 /\ code = 0 /\ dataLen = 0 /\ data = <<>>
  /\ resetFlags = FALSE
  /\ inputState = [c \in 0 .. 15 |-> {}]
  /\ cur = NoFrame /\ since = Settle /\ faults = 0 /\ invented = FALSE
  /\ owed = [b \in 0 .. 31 |-> 0]
--------------------------------------------------------------------------------
(***************************************************************************)
(* A card sends frames in the format of writeMsg: a header with the high   *)
(* bit set, code and length, the data, and the complement of the sum.      *)
(***************************************************************************)
Sum(bytes) ==
  LET sum[n \in 0 .. Len(bytes)] == IF n = 0 THEN 0 ELSE sum[n - 1] + bytes[n]
  IN  sum[Len(bytes)]

Frame(c, msg) ==
  LET head == <<128 + c, Len(msg)>>
  IN  head \o msg \o <<127 - (Sum(head \o msg) % 128)>>

ByteOf(inputs) ==
  LET Bit(i) == IF i \in inputs THEN 2 ^ i ELSE 0
  IN  Bit(0) + Bit(1) + Bit(2) + Bit(3) + Bit(4) + Bit(5) + Bit(6) + Bit(7)

InputsMsg(w) ==
  <<ByteOf(w \cap (0 .. 7)), ByteOf({i - 8 : i \in w \cap (8 .. 15)})>>
StatusMsg(f) == <<f, 0, 0, 0, 0, 0>>
AckMsg == <<6>>

\* handleButton: the second and every further card has the buttons from 16 on.
Button(c, i) == IF c = 0 THEN i ELSE i + 16
Buttons(c, inputs) == {Button(c, i) : i \in inputs}

StartFrame(c, msg) ==
  /\ line[c] = Silent
  /\ line' = [line EXCEPT ![c] = [frame |-> Frame(c, msg), next |-> 1]]

ReportInputs(c, w) ==
  /\ StartFrame(c, InputsMsg(w))
  /\ sentWord' = [sentWord EXCEPT ![c] = w]
  /\ owed' = [b \in 0 .. 31 |->
                owed[b] + (IF b \in Buttons(c, w \ sentWord[c]) THEN 1 ELSE 0)]
  /\ UNCHANGED <<parserVars, effects, cur, since, faults, invented>>

ReportOther(c) ==
  /\ c \in Talkers
  /\ \/ \E f \in Flags : StartFrame(c, StatusMsg(f))
     \/ StartFrame(c, AckMsg)
  /\ UNCHANGED <<sentWord, parserVars, effects, history>>

NextByte(c) == line[c].frame[line[c].next]
Onward(c) ==
  IF line[c].next = Len(line[c].frame) THEN Silent
  ELSE [line[c] EXCEPT !.next = @ + 1]

LoseByte(c) ==
  /\ line[c] # Silent
  /\ faults < MaxFaults
  /\ faults' = faults + 1
  /\ since' = 0
  /\ line' = [line EXCEPT ![c] = Onward(c)]
  /\ cur' = IF state # "HDR1" /\ c = cur.card THEN [cur EXCEPT !.ok = FALSE] ELSE cur
  /\ UNCHANGED <<sentWord, parserVars, effects, invented, owed>>
--------------------------------------------------------------------------------
(***************************************************************************)
(* processChar, one action for each state.  Of bcc only the low 7 bits are *)
(* ever looked at.                                                         *)
(***************************************************************************)
IsHeader(b) == b >= 128

TakeHeader(b) ==
  /\ header' = b
  /\ bcc' = b % 128
  /\ state' = "HDR2"
  /\ UNCHANGED <<code, dataLen, data, effects>>

ExpectHdr1(b) ==
  /\ state = "HDR1"
  /\ IF IsHeader(b) THEN TakeHeader(b) ELSE UNCHANGED <<parserVars, effects>>

\* Mutant of ExpectHdr2: the length is not bounded.
ExpectHdr2_AnyLength(b) ==
  /\ state = "HDR2"
  /\ IF IsHeader(b)
     THEN TakeHeader(b)
     ELSE /\ code' = b \div 32
          /\ dataLen' = b % 32
          /\ bcc' = (bcc + b) % 128
          /\ data' = <<>>
          /\ state' = IF dataLen' > 0 THEN "DATA" ELSE "BCC"
          /\ UNCHANGED <<header, effects>>

ExpectHdr2(b) ==
  /\ state = "HDR2"
  /\ IF IsHeader(b)
     THEN TakeHeader(b)
     ELSE /\ code' = b \div 32
          /\ dataLen' = b % 32
          /\ bcc' = (bcc + b) % 128
          /\ data' = <<>>
          /\ state' = IF dataLen' \in 1 .. MaxData THEN "DATA" ELSE "BCC"
          /\ UNCHANGED <<header, effects>>

ExpectData(b) ==
  /\ state = "DATA"
  /\ data' = Append(data, b)
  /\ bcc' = (bcc + b) % 128
  /\ state' = IF Len(data') = dataLen THEN "BCC" ELSE "DATA"
  /\ UNCHANGED <<header, code, dataLen, effects>>

Checked(b) == state = "BCC" /\ b = 127 - bcc /\ code = 0
IsStatus == dataLen = 6 /\ data[1] # 0
IsAck == dataLen = 1 /\ data[1] = 6
IsInputs == dataLen = 2

\* data is char: a low byte from 128 on turns all the bits above it on where
\* char is signed.
Bits(byte) == {i \in 0 .. 7 : (byte \div 2 ^ i) % 2 = 1}
\* Mutant of Word: char is signed in the build for the main board.
Word_SignExtended(low, high) ==
  Bits(low) \cup {i + 8 : i \in Bits(high)}
    \cup (IF low >= 128 THEN 8 .. 15 ELSE {})

Word(low, high) ==
  Bits(low) \cup {i + 8 : i \in Bits(high)}
    \cup (IF CharSigned /\ low >= 128 THEN 8 .. 15 ELSE {})

Card == header % 16
Inputs == Word(data[1], data[2])

Rising == Inputs \ inputState[Card]

\* Mutant of ExpectBcc: a bad check byte leaves the state as it is.
ExpectBcc_StaysOnError(b) ==
  /\ state = "BCC"
  /\ state' = IF Checked(b) THEN "HDR1" ELSE "BCC"
  /\ bcc' = 127 - bcc
  /\ resetFlags' = IF Checked(b) /\ IsStatus THEN TRUE ELSE resetFlags
  /\ inputState' = IF Checked(b) /\ IsInputs
                   THEN [inputState EXCEPT ![Card] = Inputs]
                   ELSE inputState
  /\ UNCHANGED <<header, code, dataLen, data>>

ExpectBcc(b) ==
  /\ state = "BCC"
  /\ state' = "HDR1"
  /\ bcc' = 127 - bcc
  /\ resetFlags' = (CASE Checked(b) /\ IsStatus -> TRUE
                      [] Checked(b) /\ IsAck -> FALSE
                      [] OTHER -> resetFlags)
  /\ inputState' = IF Checked(b) /\ IsInputs
                   THEN [inputState EXCEPT ![Card] = Inputs]
                   ELSE inputState
  /\ UNCHANGED <<header, code, dataLen, data>>

processChar(b) == ExpectHdr1(b) \/ ExpectHdr2(b) \/ ExpectData(b) \/ ExpectBcc(b)
--------------------------------------------------------------------------------
(***************************************************************************)
(* What the byte does to the history.  ioLoop drains one port, then the     *)
(* next: a port breaks in when its byte comes in the middle of a frame of   *)
(* which the last byte came from another, and that is a fault like a lost  *)
(* byte, however many bytes of the port follow.                            *)
(***************************************************************************)
BreaksIn(c) == state # "HDR1" /\ c # cur.card
Follows(c) == cur.ok /\ c = cur.card /\ line[c].next = cur.n + 1
Whole(c) == Follows(c) /\ line[c].next = Len(line[c].frame)

Track(c, b) ==
  /\ faults' = IF BreaksIn(c) THEN faults + 1 ELSE faults
  /\ faults' <= MaxFaults
  /\ since' = CASE IsHeader(b) /\ line[c].next > 1 -> 0
                [] BreaksIn(c) /\ ~(IsHeader(b) /\ line[c].next > 1) -> 1
                [] OTHER -> IF since < Settle THEN since + 1 ELSE since
  /\ cur' = CASE state' = "HDR1" -> NoFrame
              [] state' = "HDR2" -> [card |-> c, n |-> 1, ok |-> line[c].next = 1]
              [] OTHER -> [card |-> c, n |-> cur.n + 1, ok |-> Follows(c)]
  /\ invented' = (invented \/ (Checked(b) /\ IsInputs /\ ~Whole(c)))
  /\ owed' = IF Checked(b) /\ IsInputs
             THEN [n \in 0 .. 31 |->
                    owed[n] - (IF n \in Buttons(Card, Rising) THEN 1 ELSE 0)]
             ELSE owed

ReadByte(c) ==
  /\ line[c] # Silent
  /\ processChar(NextByte(c))
  /\ Track(c, NextByte(c))
  /\ line' = [line EXCEPT ![c] = Onward(c)]
  /\ UNCHANGED sentWord

Next ==
  \E c \in Cards :
    \/ \E w \in Words[c] : ReportInputs(c, w)
    \/ ReportOther(c)
    \/ LoseByte(c)
    \/ ReadByte(c)

Spec == Init /\ [][Next]_vars
--------------------------------------------------------------------------------
(* Every variable keeps its type; the data part never grows past the array. *)
TypeOK ==
  /\ line \in [Cards -> [frame : Seq(Byte), next : Nat \ {0}]]
  /\ sentWord \in [Cards -> SUBSET (0 .. 15)]
  /\ state \in {"HDR1", "HDR2", "DATA", "BCC"}
  /\ header \in Byte /\ bcc \in 0 .. 127 /\ code \in 0 .. 3 /\ dataLen \in 0 .. 31
  /\ data \in Seq(Byte)
  /\ Len(data) <= MaxData
  /\ state = "DATA" => Len(data) < dataLen
  /\ resetFlags \in BOOLEAN
  /\ inputState \in [0 .. 15 -> SUBSET (0 .. 15)]
  /\ cur \in [card : Cards \cup {0}, n : Nat, ok : BOOLEAN]
  /\ since \in 0 .. Settle /\ faults \in Nat /\ invented \in BOOLEAN
  /\ owed \in [0 .. 31 -> Int]

(* The parser finds the frames again: from Settle bytes after the last fault on
   it is never in the middle of anything but a frame it has followed from the
   header.  A data byte above 127 can be taken for a header after a fault, and
   again in the next frame, so the bytes count from the last of these too. *)
SyncAgain == since = Settle => cur.ok

(* Inputs that no card sent are handled only after a fault, and soon after it: in
   the step that is one, or among the next Settle bytes, or among those after a
   data byte that looks like a header.  The sum alone does not keep them out.  If
   inputs 2 to 6 of card 1 are on alone and card 0 breaks into the frame, its
   check byte is right for what was read; if inputs 7 and 9 are on alone and the
   header of the report is lost, its data bytes, 128 and 2, are header and length
   of a frame that the next one completes.  Status messages can be made up too:
   acknowledgements that lost their length byte add up to one. *)
InventedNearFault ==
  [][~invented /\ invented' =>
       /\ faults' > 0
       /\ since < Settle \/ faults' > faults]_vars

(* As long as no wrong sum has passed, a button never has more events than
   presses: frames that are lost, and reports that repeat what is known, make no
   press of their own.  And without a fault every press has become an event of its
   button once the cards are silent, bit 7 of a byte included. *)
EveryPressCounts ==
  \A b \in 0 .. 31 :
    /\ ~invented => owed[b] >= 0
    /\ faults = 0 /\ (\A c \in Cards : line[c] = Silent) => owed[b] = 0
================================================================================

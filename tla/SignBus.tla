------------------------------- MODULE SignBus -------------------------------
(***************************************************************************)
(* From the numbers that the script sets to the digits on a LED board: the *)
(* script writes signNum place by place (setSignNr) while the I/O thread   *)
(* (ioLoop of io.c) sends all signs in turn, four in each pass, over a     *)
(* line that may lose bytes, to a board whose interrupt receives them      *)
(* while its main loop (ATTiny2313displayDriverLED/main.c) shows them, or  *)
(* runs a demo when it has heard nothing for a while.                      *)
(*                                                                         *)
(* The 20 bytes of a pass and the sleep of the I/O thread both take 10 ms: *)
(* a pass is put together when the one before has gone out, and it is      *)
(* shorter than a turn of the board's main loop, which takes 100 ms.       *)
(***************************************************************************)
EXTENDS SignFrame

CONSTANTS
    Rows,           \* boards on the bus, 5 in the code
    PerRow,         \* the places of a board, 10 in the code
    DemoAfter,      \* turns without a frame before the demo, 20 in the code
    LastDemo,       \* the demo counts to this, 16 in the code
    Nums,           \* the numbers that the script sets: digits, and 512 (0x200)
                    \* for every sign when it starts
    MaxEvents       \* bound: how often the script sets a sign, the main board is
                    \* switched off or on, and a byte is lost

SIGN_COUNT == Stride * Rows
Places == 0..PerRow - 1
Signs == {Stride * row + place : row \in 0..Rows - 1, place \in Places}
MY_ADDR == Digit0 + 1
MyRow == 1
MySign(place) == Stride * MyRow + place
Blank == 10

ASSUME SignAssumption == /\ Rows \in Nat /\ MyRow < Rows /\ DemoAfter \in Nat
                         /\ PerRow \in 1..Stride - 1 /\ Nums \subseteq Int

\* What ReceiveFrame takes together is what the bytes give one by one.
ASSUME ReceiveAssumption ==
    \A i, j \in Signs, num \in Nums, m \in 0..5, n \in 1..5 :
        LET rest == Receive(<<>>, Without(Frame(j, num), n))[1]
        IN \A got \in {<<>>, rest} :
             Receive(got, Without(Frame(i, num), m)) =
                 ReceiveFrame(got, Without(Frame(i, num), m))

VARIABLES
    (* the main board *)
    on,         \* it runs
    signNum,
    signIdx,    \* while ioLoop puts 255 over signNum it is still 0, and stands
                \* here for the j of that loop
    step,       \* the next access of ioLoop: "clear", "test", "fill" or "write"
    valid,      \* the test of the number was passed
    buffer,     \* the frames of this pass
    line,       \* the frames that have been written and not received
    (* the LED board *)
    got,        \* recvState and what belongs to it
    values,
    timeout,
    loop,       \* the next access of the main loop: "test", "store", or "late"
                \* for a store that the interrupt came before
    loaded,     \* the timeout that is about to be stored, or 0 for the demo
    delayCnt,
    passed,     \* a pass of the sender was received in this turn of the loop
    (* histories *)
    everSet,    \* the numbers each place of this board was ever set to
    events,     \* how often something has happened that MaxEvents bounds
    upset       \* a byte was lost, a value went astray or the demo ran

mainVars == <<on, signNum, signIdx, step, valid, buffer>>
ledVars == <<got, values, timeout, loop, loaded, delayCnt, passed>>
history == <<everSet, events, upset>>
vars == <<mainVars, line, ledVars, history>>

\* The program begins: the script's thread runs before that of ioLoop does.
Fresh == /\ signNum = [s \in 0..SIGN_COUNT - 1 |-> 0]
         /\ signIdx = 0 /\ step = "clear" /\ valid = FALSE
         /\ buffer = <<>>

Init == /\ on = TRUE
        /\ Fresh
        /\ line = <<>>
        /\ got = <<>>
        /\ values = [p \in Places |-> CASE p = 0 -> MyRow - 1 [] p \in 1..6 -> p + 10
                                        [] OTHER -> Blank]
        /\ timeout = 0 /\ loop = "test" /\ loaded = 0 /\ delayCnt = 0
        /\ passed = FALSE
        /\ everSet = [p \in Places |-> {}]
        /\ events = 0
        /\ upset = FALSE

Counted == events < MaxEvents /\ events' = events + 1

----------------------------------------------------------------------------
(* The script, at its own pace *)

setSignNr == /\ on
             /\ Counted
             /\ \E place \in Places, num \in Nums :
                  /\ signNum' = [signNum EXCEPT ![MySign(place)] = num]
                  /\ everSet' = [everSet EXCEPT ![place] = @ \cup {num}]
             /\ UNCHANGED <<on, signIdx, step, valid, buffer, line, ledVars, upset>>

----------------------------------------------------------------------------
(* ioLoop *)

\* 255 is put over one number after the other, also over those that the script,
\* whose thread is started first, has set by then.
ClearSign == /\ on /\ step = "clear" /\ signIdx < SIGN_COUNT
             /\ signNum' = [signNum EXCEPT ![signIdx] = 255]
             /\ signIdx' = signIdx + 1
             /\ UNCHANGED <<on, step, valid, buffer, line, ledVars, history>>

\* The ports are opened and the loop begins.
OpenPorts == /\ on /\ step = "clear" /\ signIdx = SIGN_COUNT
             /\ signIdx' = 0
             /\ step' = "test"
             /\ UNCHANGED <<on, signNum, valid, buffer, line, ledVars, history>>

\* Mutant of NextSign: the numbers between two boards are not left out.
NextSign_All(i) == IF i = SIGN_COUNT THEN 0 ELSE i

\* Only the first numbers of every board are signs; behind the last is the first.
NextSign(i) == LET j == IF i % Stride >= PerRow THEN Stride * (i \div Stride + 1) ELSE i
               IN IF j = SIGN_COUNT THEN 0 ELSE j

\* Mutant of TestSign: every number is sent as it is.
TestSign_Any == /\ on /\ step = "test" /\ line = <<>>
                /\ signIdx' = NextSign(signIdx)
                /\ valid' = TRUE
                /\ step' = "fill"
                /\ UNCHANGED <<on, signNum, buffer, line, ledVars, history>>

\* The number is tested, then read again for the frame.
TestSign == /\ on /\ step = "test" /\ line = <<>>
            /\ signIdx' = NextSign(signIdx)
            /\ valid' = (signNum[signIdx'] >= 0 /\ signNum[signIdx'] < 100)
            /\ step' = "fill"
            /\ UNCHANGED <<on, signNum, buffer, line, ledVars, history>>

FillFrame ==
    /\ on /\ step = "fill"
    /\ buffer' = Append(buffer, Frame(signIdx, IF valid THEN signNum[signIdx] ELSE Blank))
    /\ signIdx' = signIdx + 1
    /\ step' = IF Len(buffer) = 3 THEN "write" ELSE "test"
    /\ valid' = FALSE
    /\ UNCHANGED <<on, signNum, line, ledVars, history>>

WriteFrames == /\ on /\ step = "write"
               /\ line' = buffer
               /\ buffer' = <<>>
               /\ step' = "test"
               /\ UNCHANGED <<on, signNum, signIdx, valid, ledVars, history>>

\* The main board is switched on, or off, at any moment.
Power == /\ Counted
         /\ on' = ~on
         /\ signNum' = [s \in 0..SIGN_COUNT - 1 |-> 0]
         /\ signIdx' = 0 /\ step' = "clear" /\ valid' = FALSE
         /\ buffer' = <<>>
         /\ UNCHANGED <<line, ledVars, everSet, upset>>

----------------------------------------------------------------------------
(* The LED board *)

\* Mutant of USART_RX: a frame does not start the timeout again.
USART_RX_KeepsTimeout(bytes) ==
    LET received == ReceiveFrame(got, bytes)
        frame == received[2]
        mine == frame # NoFrame /\ Address(frame) = MY_ADDR
        command == IF mine THEN Command(frame) ELSE 0
    IN /\ got' = received[1]
       /\ timeout' = timeout
       /\ values' = CASE command = CMD_SET /\ Place(frame) \in Places ->
                           [values EXCEPT ![Place(frame)] = Value(frame)]
                      [] command = CMD_CLR ->
                           [p \in Places |-> IF p < PerRow - 1 THEN Blank ELSE values[p]]
                      [] OTHER -> values
       /\ upset' = (\/ upset \/ Len(bytes) < 5
                    \/ command = CMD_SET /\ Place(frame) \notin Places)

\* The interrupts for the bytes of a frame: only a command for this board changes
\* what the main loop reads.  A place that is not on the board, the number of a
\* sign taken for a place, writes somewhere else.
USART_RX(bytes) ==
    LET received == ReceiveFrame(got, bytes)
        frame == received[2]
        mine == frame # NoFrame /\ Address(frame) = MY_ADDR
        command == IF mine THEN Command(frame) ELSE 0
    IN /\ got' = received[1]
       /\ timeout' = IF mine THEN 0 ELSE timeout
       /\ values' = CASE command = CMD_SET /\ Place(frame) \in Places ->
                           [values EXCEPT ![Place(frame)] = Value(frame)]
                      [] command = CMD_CLR ->
                           [p \in Places |-> IF p < PerRow - 1 THEN Blank ELSE values[p]]
                      [] OTHER -> values
       /\ upset' = (\/ upset \/ Len(bytes) < 5
                    \/ command = CMD_SET /\ Place(frame) \notin Places)

\* Between the test of the timeout and what follows no second frame comes in.
Sent == /\ line # <<>> /\ loop # "late"
        /\ line' = Tail(line)
        /\ loop' = IF loop = "store" THEN "late" ELSE loop
        /\ passed' = (passed \/ Len(line) = 1)
        /\ UNCHANGED <<mainVars, loaded, delayCnt, everSet>>

Arrive == /\ Sent
          /\ USART_RX(Head(line))
          /\ UNCHANGED events

\* A byte of the frame is lost.
ArriveWithout == /\ Sent
                 /\ Counted
                 /\ \E n \in 1..5 : USART_RX(Without(Head(line), n))

\* A turn of the main loop: the demo, or one more turn without a frame.  The
\* interrupt may come between the load of the timeout and the stores.  The
\* wait of a tenth of a second, in which a sender that is in its loop makes at
\* least one pass, and setNumbers, which shows the values as they are then, end
\* the turn.
TestTimeout == /\ loop = "test"
               /\ passed \/ ~on \/ step = "clear"
               /\ passed' = FALSE
               /\ loaded' = IF timeout > DemoAfter THEN 0 ELSE timeout + 1
               /\ loop' = "store"
               /\ UNCHANGED <<mainVars, line, got, values, timeout, delayCnt, history>>

Demo == /\ loop \in {"store", "late"} /\ loaded = 0
        /\ delayCnt' = IF delayCnt = LastDemo THEN 0 ELSE delayCnt + 1
        /\ values' = [p \in Places |-> delayCnt']
        /\ loop' = "test"
        /\ upset' = TRUE
        /\ UNCHANGED <<mainVars, line, got, timeout, loaded, passed, everSet, events>>

StoreTimeout == /\ loop \in {"store", "late"} /\ loaded > 0
                /\ timeout' = loaded
                /\ loaded' = 0
                /\ loop' = "test"
                /\ UNCHANGED <<mainVars, line, got, values, delayCnt, passed, history>>

Sender == ClearSign \/ OpenPorts \/ TestSign \/ FillFrame \/ WriteFrames
LedLoop == TestTimeout \/ Demo \/ StoreTimeout
Next == setSignNr \/ Sender \/ Power \/ Arrive \/ ArriveWithout \/ LedLoop

\* The threads of the main board, the line and the LED board go on.
Spec == /\ Init /\ [][Next]_vars
        /\ WF_vars(Sender) /\ WF_vars(Arrive) /\ WF_vars(LedLoop)

----------------------------------------------------------------------------
(* Properties *)

\* The variables have their types: no access is outside signNum, and the board
\* counts no further than to the demo.
TypeOK == /\ on \in BOOLEAN
          /\ signNum \in [0..SIGN_COUNT - 1 -> Int]
          /\ signIdx \in 0..SIGN_COUNT
          /\ step = "fill" => signIdx \in Signs
          /\ Len(buffer) <= 4 /\ Len(line) <= 4
          /\ Len(got) <= 4
          /\ values \in [Places -> 0..255]
          /\ timeout \in 0..DemoAfter + 1
          /\ delayCnt \in 0..LastDemo

\* As long as no byte was lost and the demo has not run, every place of the board
\* shows a number that the script has set on that very sign, or nothing, or what
\* it shows at power on; after a restart of the script it may show a 0 that was
\* never set, when a digit was tested and the blanking number was sent.
ShownWasSet ==
    upset \/ \A p \in Places :
        values[p] \in everSet[p] \cup {Blank, IF p = 0 THEN MyRow - 1 ELSE p + 10}
                       \cup (IF 512 \in everSet[p] THEN {0} ELSE {})

\* Once the main board stays on, every place of the board comes to show the
\* number that stays in signNum for it, if it is less than 100, and nothing if
\* not, and stays with it: whatever the board showed before, the demo included,
\* and whichever bytes were lost on the way.  That number is the one that the
\* script has set last, unless ioLoop put its 255 over it afterwards: what is set
\* before ioLoop has come to that sign, at its start, is lost and not shown.
LastSetIsShown ==
    \A p \in Places, num \in Nums \cup {255} :
        <>[](on /\ signNum[MySign(p)] = num) => <>[](values[p] = IF num < 100 THEN num ELSE Blank)
=============================================================================

------------------------------ MODULE SignFrame ------------------------------
(***************************************************************************)
(* The frames of the sign bus, as ioLoop writes them, and the receive      *)
(* interrupt that both kinds of display boards have.                       *)
(***************************************************************************)
EXTENDS Integers, SequencesExt

CONSTANT Stride     \* the sign numbers of a board, used or not: 16 in the code

START_BYTE == 240
CMD_SET == 49       \* '1'
CMD_CLR == 50       \* '2'
Digit0 == 48        \* '0'

\* The five bytes for one sign: the board has the high digit of the sign number,
\* the place on the board is the low one.  The number is cut to a byte.
Frame(sign, num) == <<START_BYTE, sign \div Stride + Digit0, CMD_SET,
                      (sign % Stride) + Digit0, (num + Digit0) % 256>>

\* What the interrupt makes of bytes, one after the other.  Of a frame it has got
\* as many bytes as recvState says: behind the start byte come recvAddr, recvCmd
\* and recvData.  The fifth byte, whatever it is, completes the frame.  The second
\* component of the result is the frame that was completed last, if one was.
NoFrame == <<>>
Receive(got, bytes) ==
    LET after[n \in 0..Len(bytes)] ==
            IF n = 0 THEN <<got, NoFrame>>
            ELSE LET before == after[n - 1]
                     frame == Append(before[1], bytes[n])
                 IN CASE Len(frame) = 5 -> <<<<>>, frame>>
                      [] Len(frame) = 1 /\ bytes[n] # START_BYTE -> before
                      [] OTHER -> <<frame, before[2]>>
    IN after[Len(bytes)]

\* The same for the bytes of one frame, of which one may be missing, when got is
\* empty or the rest of another frame: the first byte of bytes completes that,
\* and no byte but a first one is a start byte.
ReceiveFrame(got, bytes) ==
    CASE got # <<>> -> <<<<>>, Append(got, bytes[1])>>
      [] got = <<>> /\ bytes[1] # START_BYTE -> <<<<>>, NoFrame>>
      [] got = <<>> /\ bytes[1] = START_BYTE ->
             IF Len(bytes) = 5 THEN <<<<>>, bytes>> ELSE <<bytes, NoFrame>>

\* A frame without its byte n, or the whole frame.
Without(frame, n) == IF n = 0 THEN frame ELSE RemoveAt(frame, n)

\* The address, the command, the data and the value of a frame.
Address(frame) == frame[2]
Command(frame) == frame[3]
Place(frame) == frame[4] - Digit0
Value(frame) == (frame[5] - Digit0) % 256
=============================================================================

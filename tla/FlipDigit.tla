------------------------------ MODULE FlipDigit ------------------------------
(***************************************************************************)
(* One digit of seven mechanical segments (ATTiny2313displayDriver/main.c) *)
(* at the end of the sign bus: the interrupt takes the number out of the   *)
(* frames, the main loop turns the segments by pulses, which one of them   *)
(* may miss, and pulses one segment after the other again and again.       *)
(***************************************************************************)
EXTENDS SignFrame

CONSTANTS
    Other,          \* another sign on the bus
    Nums,           \* the numbers that are sent to this sign and the other
    LastDemo,       \* the demo at power on counts to this, 9 in the code
    MaxEvents       \* bound: frames that are not the last one again, bytes lost,
                    \* pulses missed and power cuts

MY_ADDR == Digit0
MY_SUBADDR == 3
MySign == MY_SUBADDR
Segment == {"UP", "UL", "UR", "CE", "DL", "DR", "DN"}
Mask == <<{"UP"}, {"UL"}, {"UR"}, {"CE"}, {"DL"}, {"DR"}, {"DN"}, {}>>
Blank == 101

segmentDef(n) ==
    CASE n = 0 -> Segment \ {"CE"}
      [] n = 1 -> {"UR", "DR"}
      [] n = 2 -> Segment \ {"UL", "DR"}
      [] n = 3 -> Segment \ {"UL", "DL"}
      [] n = 4 -> {"UL", "UR", "CE", "DR"}
      [] n = 5 -> Segment \ {"UR", "DL"}
      [] n = 6 -> Segment \ {"UP", "UR"}
      [] n = 7 -> {"UP", "UR", "DR"}
      [] n = 8 -> Segment
      [] n = 9 -> Segment \ {"DL"}
      [] OTHER -> {}

ASSUME FlipAssumption == /\ Other \in Nat \ {MySign} /\ Other < 5 * Stride
                         /\ Nums \subseteq 0..99 /\ LastDemo \in 0..9

VARIABLES
    line,           \* what goes over the line again and again
    got,            \* recvState and what belongs to it
    nextOutput,
    currentOutput,
    updatePos,      \* the place in Mask of the bit that is set
    loop,           \* the next access: "demo", "test", "load", "full" or "part"
    delayCnt,       \* of the demo
    segments,       \* the segments that are turned to their bright side
    events          \* how often something has happened that MaxEvents bounds

program == <<nextOutput, currentOutput, updatePos, loop, delayCnt>>
vars == <<line, got, program, segments, events>>

Init == /\ line = Frame(MySign, 10)
        /\ got = <<>>
        /\ nextOutput = 101 /\ currentOutput = 102
        /\ updatePos = 1 /\ delayCnt = 0 /\ loop = "demo"
        /\ segments = {}
        /\ events = 0

Counted == events < MaxEvents /\ events' = events + 1

----------------------------------------------------------------------------
(* The bus *)

\* The number in the frames is another one from now on, or the other sign's.
Send == /\ Counted
        /\ \E sign \in {MySign, Other}, num \in Nums : line' = Frame(sign, num)
        /\ UNCHANGED <<got, program, segments>>

USART_RX(bytes) ==
    LET received == ReceiveFrame(got, bytes)
        frame == received[2]
        command == IF frame # NoFrame /\ Address(frame) = MY_ADDR
                   THEN Command(frame) ELSE 0
    IN /\ got' = received[1]
       /\ nextOutput' = CASE command = CMD_SET /\ Place(frame) = MY_SUBADDR -> Value(frame)
                          [] command = CMD_CLR -> Blank
                          [] OTHER -> nextOutput
       /\ UNCHANGED <<line, currentOutput, updatePos, loop, delayCnt, segments>>

Arrive == /\ USART_RX(line)
          /\ UNCHANGED events

ArriveWithout == /\ Counted
                 /\ \E n \in 1..5 : USART_RX(Without(line, n))

----------------------------------------------------------------------------
(* The main loop *)

\* The segments of mask are pulsed to show data; one of them may miss its pulse.
setOutputs(data, mask) ==
    \/ /\ segments' = (segments \ mask) \cup (data \cap mask)
       /\ UNCHANGED events
    \/ /\ Counted
       /\ \E s \in mask :
            segments' = (segments \ (mask \ {s})) \cup (data \cap (mask \ {s}))

\* The digits at power on, one after the other.
Demo == /\ loop = "demo"
        /\ setOutputs(segmentDef(delayCnt), Segment)
        /\ delayCnt' = delayCnt + 1
        /\ loop' = IF delayCnt = LastDemo THEN "test" ELSE "demo"
        /\ UNCHANGED <<line, got, nextOutput, currentOutput, updatePos>>

\* The number is compared, then read again.
Test == /\ loop = "test"
        /\ loop' = IF currentOutput # nextOutput THEN "load" ELSE "part"
        /\ UNCHANGED <<line, got, nextOutput, currentOutput, updatePos, delayCnt,
                       segments, events>>

Load == /\ loop = "load"
        /\ currentOutput' = nextOutput
        /\ loop' = "full"
        /\ UNCHANGED <<line, got, nextOutput, updatePos, delayCnt, segments, events>>

Full == /\ loop = "full"
        /\ setOutputs(segmentDef(currentOutput), Segment)
        /\ loop' = "test"
        /\ UNCHANGED <<line, got, nextOutput, currentOutput, updatePos, delayCnt>>

\* Mutant of Part: it is set again one place too far.
Part_SkipsFirst == /\ loop = "part"
                   /\ setOutputs(segmentDef(currentOutput), Mask[updatePos])
                   /\ updatePos' = IF updatePos = 8 THEN 2 ELSE updatePos + 1
                   /\ loop' = "test"
                   /\ UNCHANGED <<line, got, nextOutput, currentOutput, delayCnt>>

\* Nothing is new: one segment is pulsed again.  The wait that follows ends at
\* once when the number changes; it changes nothing.
Part == /\ loop = "part"
        /\ setOutputs(segmentDef(currentOutput), Mask[updatePos])
        /\ updatePos' = IF updatePos = 8 THEN 1 ELSE updatePos + 1
        /\ loop' = "test"
        /\ UNCHANGED <<line, got, nextOutput, currentOutput, delayCnt>>

MainLoop == Demo \/ Test \/ Load \/ Full \/ Part

\* A power cut: the segments stay as they are.
Power == /\ Counted
         /\ got' = <<>>
         /\ nextOutput' = 101 /\ currentOutput' = 102
         /\ updatePos' = 1 /\ delayCnt' = 0 /\ loop' = "demo"
         /\ UNCHANGED <<line, segments>>

Next == Send \/ Arrive \/ ArriveWithout \/ MainLoop \/ Power

\* Frames go on to arrive and the main loop goes on.
Spec == Init /\ [][Next]_vars /\ WF_vars(Arrive) /\ WF_vars(MainLoop)

----------------------------------------------------------------------------
(* Properties *)

\* When the frames for this sign hold one number for good, the segments come to
\* show it, or nothing for a number that is not a digit, and stay with it:
\* whichever bytes were lost, whichever segments missed a pulse, and whatever they
\* showed when the power came.
SegmentsShowNumber ==
    \A num \in Nums :
        <>[](line = Frame(MySign, num)) => <>[](segments = segmentDef(num))
=============================================================================

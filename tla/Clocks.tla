------------------------------- MODULE Clocks -------------------------------
(***************************************************************************)
(* The digits that the script computes for the clock signs.  Its numbers   *)
(* are the ints of C, whose division cuts off towards zero, also of a time *)
(* that is over.  A place that should show nothing gets the number 10.     *)
(***************************************************************************)
EXTENDS Integers

Blank == 10

Quotient(a, b) == IF a >= 0 THEN a \div b ELSE -((-a) \div b)
Remainder(a, b) == a - b * Quotient(a, b)

\* The tens are left dark when there are none.
Tens(n) == IF n > 9 THEN Quotient(n, 10) ELSE Blank

\* setClockTime and setLedClockTime, which differ in the signs they set, with
\* left ms between now and totalTime.
setClockTime(left) ==
    LET seconds == Quotient(left, 1000) + 1
        minutes == Quotient(seconds, 60)
        rest == seconds - minutes * 60
    IN [s0 |-> Remainder(rest, 10), s1 |-> Quotient(rest, 10),
        s2 |-> Remainder(minutes, 10), s3 |-> Tens(minutes)]

\* The 60 seconds of the speed game.
setClock60Speed(timeLeft) ==
    IF timeLeft < 0 THEN [s0 |-> Blank, s1 |-> Blank]
    ELSE [s0 |-> Remainder(timeLeft, 10), s1 |-> Quotient(timeLeft, 10)]

\* The time of a flight, to hundredths of a second.
setLedClockTimeSpeed(speedTime) ==
    LET seconds == Quotient(speedTime, 1000)
        hundredths == Remainder(Quotient(speedTime, 10), 100)
    IN [s0 |-> Remainder(hundredths, 10), s1 |-> Quotient(hundredths, 10),
        s2 |-> Remainder(seconds, 10), s3 |-> Tens(seconds)]

----------------------------------------------------------------------------
(* What a reader of the signs sees *)

Digit == 0..9
Number(ones, tens) == ones + 10 * (IF tens = Blank THEN 0 ELSE tens)

IsTime(d) == d.s0 \in Digit /\ d.s1 \in 0..5 /\ d.s2 \in Digit /\ d.s3 \in (1..9) \cup {Blank}
Seconds(d) == Number(d.s0, d.s1) + 60 * Number(d.s2, d.s3)
=============================================================================

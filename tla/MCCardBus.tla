------------------------------- MODULE MCCardBus -------------------------------
(***************************************************************************)
(* Two cards, and words whose frames the sum does not protect: 7 and 9 on   *)
(* alone make two data bytes that look like a header and a length, and the *)
(* frame with 2 to 6 of card 1 can be broken into without a wrong sum.     *)
(***************************************************************************)
EXTENDS CardBus, TLC

MCWords == (0 :> {{7, 9}, {}}) @@ (1 :> {{2, 3, 4, 5, 6}})
================================================================================

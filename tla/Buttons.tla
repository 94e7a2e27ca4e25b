-------------------------------- MODULE Buttons --------------------------------
(***************************************************************************)
(* resolveButton of MainBoard/script.lua: which player's which button a    *)
(* button number is.  Players count from 1; the start and reset buttons,   *)
(* and the numbers nothing is wired to, come out as player 1's.            *)
(***************************************************************************)
EXTENDS Integers

StationA == 0
StationB == 1
Relaunch == 2
GlobalReset == 3
StartButton == 4
NoButton == -1

PlayerIds == 1 .. 6

\* Station A: even numbers 4..14, player 6 first; the relaunch buttons next to
\* them are odd.  Station B: odd numbers 23..31, player 5 first.
resolveButton(button) ==
  CASE button \in 4 .. 15 /\ button % 2 = 0 ->
         [p |-> (14 - button) \div 2 + 1, t |-> StationA]
    [] button \in 4 .. 15 /\ button % 2 = 1 ->
         [p |-> (15 - button) \div 2 + 1, t |-> Relaunch]
    [] button \in 23 .. 31 /\ button % 2 = 1 ->
         [p |-> (31 - button) \div 2 + 1, t |-> StationB]
    [] button = 2 -> [p |-> 1, t |-> StartButton]
    [] button = 3 -> [p |-> 1, t |-> GlobalReset]
    [] OTHER -> [p |-> 1, t |-> NoButton]
================================================================================

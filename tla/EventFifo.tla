------------------------------- MODULE EventFifo -------------------------------
(***************************************************************************)
(* What the button event list of MainBoard/main.c promises to the script   *)
(* while it does not overflow: a first-in first-out queue of whole events. *)
(* An event the script is given is the oldest one not yet given or thrown  *)
(* away, and "no event" is answered only when there is none.               *)
(***************************************************************************)
EXTENDS Sequences

CONSTANTS
  Event,   \* the set of events that can be queued
  NoEvent  \* what the script sees when there is nothing to get (Lua nil)

VARIABLES
  queue,   \* the events pushed and neither delivered nor thrown away
  got      \* the answer to the script's latest getButtonEvent()

Init ==
  /\ queue = <<>>
  /\ got = NoEvent

Push ==
  /\ queue' # <<>>
  /\ queue'[Len(queue')] \in Event
  /\ queue' = Append(queue, queue'[Len(queue')])
  /\ UNCHANGED got

Take ==
  /\ queue # <<>>
  /\ got' = Head(queue)
  /\ queue' = Tail(queue)

TakeNothing ==
  /\ queue = <<>>
  /\ got' = NoEvent
  /\ UNCHANGED queue

Clear == queue' = <<>> /\ UNCHANGED got

Next == Push \/ Take \/ TakeNothing \/ Clear

Spec == Init /\ [][Next]_<<queue, got>>
================================================================================

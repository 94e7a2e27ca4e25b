--------------------------- MODULE ScriptInputProofs ---------------------------
(***************************************************************************)
(* What every step of the world outside the script, and every call of the  *)
(* script, keeps of the types in ScriptInput.  The proofs about the games  *)
(* rest on these lemmas.                                                   *)
(***************************************************************************)
EXTENDS ScriptInput, TLAPS

(* The event at the head of the list is an event. *)
LEMMA HeadEvent ==
  ASSUME InputTypeOK, HasEvent
  PROVE  Head(events) \in ButtonEvent
BY DEF InputTypeOK, HasEvent

(* Ageing keeps an event an event. *)
LEMMA AgedEvent ==
  ASSUME NEW ev \in ButtonEvent
  PROVE  Aged(ev) \in ButtonEvent
BY NoneAssumption DEF Aged, ButtonEvent

(* Ageing keeps the list and the events in flight what they are. *)
LEMMA AgeAllTypes ==
  ASSUME InputTypeOK, AgeAll
  PROVE  /\ events' \in Seq(ButtonEvent)
         /\ stamped' \in [Producers -> ButtonEvent \cup {None}]
<1>1. Len(events) \in Nat /\ DOMAIN events = 1 .. Len(events)
  BY DEF InputTypeOK
<1>2. \A i \in 1 .. Len(events) : events[i] \in ButtonEvent
  BY DEF InputTypeOK
<1>3. events' = [i \in 1 .. Len(events) |-> Aged(events[i])]
  BY <1>1 DEF AgeAll
<1>4. \A i \in 1 .. Len(events) : Aged(events[i]) \in ButtonEvent
  BY <1>2, AgedEvent
<1>5. events' \in Seq(ButtonEvent)
  BY <1>1, <1>3, <1>4
<1>6. stamped' \in [Producers -> ButtonEvent \cup {None}]
  <2>1. \A p \in Producers : Aged(stamped[p]) \in ButtonEvent \cup {None}
    BY AgedEvent DEF InputTypeOK, Aged
  <2> QED
    BY <2>1 DEF AgeAll
<1> QED
  BY <1>5, <1>6

(* A press stamps an event with the ticks of that moment. *)
LEMMA PressTypes ==
  ASSUME InputTypeOK, AnyPress
  PROVE  InputTypeOK'
<1>0. PICK p \in Producers, b \in Presses : Press(p, b)
  BY DEF AnyPress
<1>1. b \in 0 .. 31 /\ getTicks \in Stamps
  BY InputAssumption DEF InputTypeOK, getTicks, Stamps
<1>2. [button |-> b, time |-> getTicks, old |-> FALSE] \in ButtonEvent
  BY <1>1 DEF ButtonEvent
<1> QED
  BY <1>0, <1>2 DEF Press, InputTypeOK

(* Nothing that happens outside the script breaks the types. *)
LEMMA OutsideTypes ==
  ASSUME InputTypeOK, Outside
  PROVE  InputTypeOK'
<1>1. CASE Tick
  BY <1>1 DEF Tick, InputTypeOK
<1>2. ASSUME NEW p \in Producers, Deliver(p) PROVE InputTypeOK'
  <2>1. stamped[p] \in ButtonEvent
    BY <1>2 DEF Deliver, Held, InputTypeOK
  <2>2. events' \in Seq(ButtonEvent)
    BY <1>2, <2>1 DEF Deliver, InputTypeOK
  <2> QED
    BY <1>2, <2>2 DEF Deliver, InputTypeOK
<1>3. ASSUME NEW a \in WebActions, WebRequest(a) PROVE InputTypeOK'
  BY <1>3 DEF WebRequest, InputTypeOK
<1> QED
  BY <1>1, <1>2, <1>3 DEF Outside

(* Nor does any call of the script. *)
LEMMA CallTypes ==
  ASSUME InputTypeOK,
         \/ HasEvent /\ PopEvent
         \/ FindNone
         \/ clearButtonEvents
         \/ getWebAction
         \/ TicksOff
         \/ Rebase
         \/ UNCHANGED inputVars
  PROVE  InputTypeOK'
<1>1. CASE HasEvent /\ PopEvent
  <2>1. Tail(events) \in Seq(ButtonEvent)
    BY <1>1 DEF HasEvent, InputTypeOK
  <2> QED
    BY <1>1, <2>1 DEF PopEvent, InputTypeOK
<1>2. CASE FindNone \/ UNCHANGED inputVars
  BY <1>2 DEF FindNone, inputVars, InputTypeOK
<1>3. CASE clearButtonEvents
  BY <1>3 DEF clearButtonEvents, InputTypeOK
<1>4. CASE getWebAction
  BY <1>4 DEF getWebAction, InputTypeOK
<1>5. CASE TicksOff
  <2>1. CASE based
    BY <1>5, <2>1, AgeAllTypes DEF TicksOff, InputTypeOK
  <2>2. CASE ~based
    BY <1>5, <2>2 DEF TicksOff, InputTypeOK
  <2> QED
    BY <2>1, <2>2
<1>6. CASE Rebase
  BY <1>6, AgeAllTypes DEF Rebase, InputTypeOK
<1> QED
  BY <1>1, <1>2, <1>3, <1>4, <1>5, <1>6

(* The program starts with no events, no action and the ticks off. *)
LEMMA InitTypes == InputInit => InputTypeOK
<1> SUFFICES ASSUME InputInit PROVE InputTypeOK
  OBVIOUS
<1>1. events \in Seq(ButtonEvent)
  <2>1. <<>> \in Seq(ButtonEvent)
    OBVIOUS
  <2> QED
    BY <2>1, Zenon DEF InputInit
<1>2. /\ ticks \in Nat /\ based \in BOOLEAN
      /\ stamped \in [Producers -> ButtonEvent \cup {None}]
      /\ webAction \in WebActions \cup {None}
  BY DEF InputInit
<1> QED
  BY <1>1, <1>2 DEF InputTypeOK
--------------------------------------------------------------------------------
(***************************************************************************)
(* While the ticks run, no event that was stamped with them, since they    *)
(* were last set back, is ahead of them: the ticks only go up, and setting *)
(* them back makes every stamp old.                                        *)
(***************************************************************************)
Due(ev) == ev # None /\ ~ev.old => ev.time <= ticks
Fresh ==
  based => /\ \A p \in Producers : Due(stamped[p])
           /\ \A i \in DOMAIN events : Due(events[i])

(* An aged event is never ahead. *)
LEMMA AgedIsOld ==
  ASSUME NoteOrigin, NEW ev \in ButtonEvent \cup {None}
  PROVE  Aged(ev) # None => Aged(ev).old
BY NoneAssumption DEF Aged, ButtonEvent

(* Outside the script. *)
LEMMA OutsideFresh ==
  ASSUME InputTypeOK, Fresh, Outside
  PROVE  Fresh'
<1>1. CASE Tick
  <2>1. /\ ticks \in Nat /\ ticks' = ticks + 1
        /\ based' = based /\ events' = events /\ stamped' = stamped
    BY <1>1 DEF Tick, InputTypeOK
  <2>2. \A ev \in ButtonEvent : ev.time \in Int
    BY InputAssumption DEF ButtonEvent, Stamps
  <2>3. \A ev \in ButtonEvent \cup {None} : Due(ev) => Due(ev)'
    BY <2>1, <2>2 DEF Due
  <2>4. /\ \A p \in Producers : stamped[p] \in ButtonEvent \cup {None}
        /\ \A i \in DOMAIN events : events[i] \in ButtonEvent
    BY DEF InputTypeOK
  <2>5. ASSUME based PROVE /\ \A p \in Producers : Due(stamped[p])'
                           /\ \A i \in DOMAIN events : Due(events[i])'
    BY <2>1, <2>3, <2>4, <2>5 DEF Fresh, Due
  <2> QED
    BY <2>1, <2>5 DEF Fresh, Due
<1>2. ASSUME NEW p \in Producers, Deliver(p) PROVE Fresh'
  <2>1. /\ events' = Append(events, stamped[p])
        /\ stamped' = [stamped EXCEPT ![p] = None]
        /\ UNCHANGED <<ticks, based>>
        /\ events \in Seq(ButtonEvent) /\ stamped[p] \in ButtonEvent
    BY <1>2 DEF Deliver, Held, InputTypeOK
  <2>2. \A i \in DOMAIN events' :
           \/ events'[i] = stamped[p]
           \/ i \in DOMAIN events /\ events'[i] = events[i]
    BY <2>1
  <2>3. \A q \in Producers : stamped'[q] = stamped[q] \/ stamped'[q] = None
    BY <2>1 DEF InputTypeOK
  <2> QED
    BY <2>1, <2>2, <2>3 DEF Fresh, Due
<1>3. ASSUME NEW a \in WebActions, WebRequest(a) PROVE Fresh'
  BY <1>3 DEF WebRequest, Fresh, Due
<1> QED
  BY <1>1, <1>2, <1>3 DEF Outside

(* A press. *)
LEMMA PressFresh ==
  ASSUME InputTypeOK, Fresh, AnyPress
  PROVE  Fresh'
<1>0. PICK p \in Producers, b \in Presses : Press(p, b)
  BY DEF AnyPress
<1>1. UNCHANGED <<ticks, based, events>> /\ ticks <= ticks
  BY <1>0 DEF Press, InputTypeOK
<1>2. ASSUME based, NEW q \in Producers
      PROVE  stamped'[q] = stamped[q] \/ stamped'[q].time = ticks
  BY <1>0, <1>2 DEF Press, getTicks, InputTypeOK
<1> QED
  BY <1>1, <1>2 DEF Fresh, Due

(* The calls of the script. *)
LEMMA CallFresh ==
  ASSUME NoteOrigin, InputTypeOK, Fresh,
         \/ HasEvent /\ PopEvent
         \/ FindNone
         \/ clearButtonEvents
         \/ getWebAction
         \/ TicksOff
         \/ Rebase
         \/ UNCHANGED inputVars
  PROVE  Fresh'
<1>1. CASE HasEvent /\ PopEvent
  <2>1. \A i \in DOMAIN events' : i + 1 \in DOMAIN events /\ events'[i] = events[i + 1]
    BY <1>1 DEF HasEvent, PopEvent, InputTypeOK
  <2> QED
    BY <1>1, <2>1 DEF PopEvent, Fresh, Due
<1>2. CASE FindNone \/ getWebAction \/ UNCHANGED inputVars
  BY <1>2 DEF FindNone, getWebAction, inputVars, Fresh, Due
<1>3. CASE clearButtonEvents
  BY <1>3 DEF clearButtonEvents, Fresh, Due
<1>4. CASE TicksOff
  BY <1>4 DEF TicksOff, Fresh
<1>5. CASE Rebase
  <2>1. /\ stamped' = [p \in Producers |-> Aged(stamped[p])]
        /\ events' = [i \in DOMAIN events |-> Aged(events[i])]
    BY <1>5 DEF Rebase, AgeAll
  <2>2. \A p \in Producers : stamped'[p] # None => stamped'[p].old
    BY <2>1, AgedIsOld DEF InputTypeOK
  <2>3. \A i \in DOMAIN events' : events'[i] # None => events'[i].old
    <3>1. \A i \in DOMAIN events : events[i] \in ButtonEvent
      BY DEF InputTypeOK
    <3> QED
      BY <2>1, <3>1, AgedIsOld
  <2> QED
    BY <2>2, <2>3 DEF Fresh, Due
<1> QED
  BY <1>1, <1>2, <1>3, <1>4, <1>5

(* The ticks are off when the program starts. *)
LEMMA InitFresh == InputInit => Fresh
BY DEF InputInit, Fresh
================================================================================

------------------------------ MODULE ScriptInput ------------------------------
(***************************************************************************)
(* What script.lua sees of the rest of the program: the ticks, the button  *)
(* events and the web action.  The event list is the FIFO that ButtonQueue *)
(* shows it to be.  Each of the threads that feed it, the I/O thread and   *)
(* the HTTP server, may be held between the stamp of an event and its      *)
(* entry into the list, so events can come in another order than their     *)
(* stamps.                                                                 *)
(*                                                                         *)
(* getTicks() counts from tickZero.  While tickZero is 0 it is the wall    *)
(* clock, far above any time of a game, written Wall here.                 *)
(***************************************************************************)
EXTENDS Integers, FiniteSets, Sequences

CONSTANTS
  Producers,   \* the threads that call pushButtonEvent
  Presses,     \* the buttons pressed
  WebActions,  \* the actions requested with GET /action
  None,        \* no event, no action
  Wall,        \* the ticks while tickZero is 0
  NoteOrigin,  \* events remember that the origin was moved: history that only
               \* the properties of Speed ask for
  MaxTicks,    \* bound: the ticks of a game stop here
  MaxEvents    \* bound: a button is pressed only below this many events that
               \* are held by a thread or in the list

ASSUME InputAssumption ==
  /\ IsFiniteSet(Producers)
  /\ Presses \subseteq 0 .. 31
  /\ None \notin WebActions
  /\ NoteOrigin \in BOOLEAN
  /\ Wall \in Int /\ MaxTicks \in Nat /\ MaxEvents \in Nat

VARIABLES
  ticks,      \* the ms since tickZero was set
  based,      \* tickZero is not 0
  events,     \* the button event list
  stamped,    \* stamped[p]: the event that p holds in pushButtonEvent, or None
  webAction   \* webActionBuffer

inputVars == <<ticks, based, events, stamped, webAction>>

getTicks == IF based THEN ticks ELSE Wall

\* old is history: the tick origin was moved after the event was stamped.
Stamps == Nat \cup {Wall}
ButtonEvent == [button : 0 .. 31, time : Stamps, old : BOOLEAN]

ASSUME NoneAssumption == None \notin ButtonEvent

InputInit ==
  /\ ticks = 0
  /\ based = FALSE
  /\ events = <<>>
  /\ stamped = [p \in Producers |-> None]
  /\ webAction = None

Tick ==
  /\ based
  /\ ticks < MaxTicks
  /\ ticks' = ticks + 1
  /\ UNCHANGED <<based, events, stamped, webAction>>

Held == {p \in Producers : stamped[p] # None}

Press(p, b) ==
  /\ p \notin Held
  /\ Cardinality(Held) + Len(events) < MaxEvents
  /\ stamped' = [stamped EXCEPT ![p] = [button |-> b, time |-> getTicks, old |-> FALSE]]
  /\ UNCHANGED <<ticks, based, events, webAction>>

Deliver(p) ==
  /\ p \in Held
  /\ events' = Append(events, stamped[p])
  /\ stamped' = [stamped EXCEPT ![p] = None]
  /\ UNCHANGED <<ticks, based, webAction>>

\* A new action replaces the one the script has not fetched yet.
WebRequest(a) ==
  /\ webAction' = a
  /\ UNCHANGED <<ticks, based, events, stamped>>

AnyPress == \E p \in Producers, b \in Presses : Press(p, b)

Outside ==
  \/ Tick
  \/ \E p \in Producers : Deliver(p)
  \/ \E a \in WebActions : WebRequest(a)

--------------------------------------------------------------------------------
(* The calls of the script, to be conjoined with what it does with them.   *)

\* getButtonEvent() pops an event, or finds none.
HasEvent == events # <<>>
PopEvent == events' = Tail(events) /\ UNCHANGED <<ticks, based, stamped, webAction>>
FindNone == events = <<>> /\ UNCHANGED inputVars

clearButtonEvents == events' = <<>> /\ UNCHANGED <<ticks, based, stamped, webAction>>

getWebAction == webAction' = None /\ UNCHANGED <<ticks, based, events, stamped>>

Aged(ev) == IF NoteOrigin /\ ev # None THEN [ev EXCEPT !.old = TRUE] ELSE ev
AgeAll ==
  /\ events' = [i \in DOMAIN events |-> Aged(events[i])]
  /\ stamped' = [p \in Producers |-> Aged(stamped[p])]

\* getTime(0), and the two stores of getTime(1).
TicksOff ==
  /\ based' = FALSE
  /\ ticks' = 0
  /\ IF based THEN AgeAll ELSE UNCHANGED <<events, stamped>>
  /\ UNCHANGED webAction

Rebase == based' = TRUE /\ ticks' = 0 /\ AgeAll /\ UNCHANGED webAction

InputTypeOK ==
  /\ ticks \in Nat
  /\ based \in BOOLEAN
  /\ events \in Seq(ButtonEvent)
  /\ stamped \in [Producers -> ButtonEvent \cup {None}]
  /\ webAction \in WebActions \cup {None}
================================================================================

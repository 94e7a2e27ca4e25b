------------------------------ MODULE ButtonQueue ------------------------------
(***************************************************************************)
(* The button event list of MainBoard/main.c and the tick counter its      *)
(* events are stamped with.                                                *)
(*                                                                         *)
(* Two threads produce: ioLoop (a rising input, through handleButton) and  *)
(* serverLoop (GET /button).  Each stamps the event with getTicks() before *)
(* it takes buttonEventMutex.  The script thread consumes: it looks at the *)
(* two indices outside the mutex and takes it only to pop.  The script     *)
(* also moves the origin of the ticks, tickZero, which no mutex protects.  *)
(*                                                                         *)
(* The script is modelled by the calls it can make, in any order.          *)
(***************************************************************************)
EXTENDS Integers, FiniteSets, Sequences

CONSTANTS
  Producers,   \* the threads that call pushButtonEvent
  Lua,         \* the thread that runs the script
  NoThread,    \* the owner of a free mutex
  NoEvent,     \* getButtonEvent() returned nothing
  Buttons,     \* the button numbers that are pressed
  MAX_BUTTON,  \* slots of the ring
  FirstClock,  \* bound: the wall clock, in ms, when the program starts
  LastClock,   \* bound: the wall clock stops here
  MaxUnread    \* bound: pushes are begun only below this many unread events

ASSUME QueueAssumption ==
  /\ MAX_BUTTON \in Nat \ {0, 1}
  /\ MaxUnread \in Nat
  /\ FirstClock \in Nat /\ LastClock \in Nat
  /\ Buttons \subseteq Nat
  /\ IsFiniteSet(Producers)
  /\ Lua \notin Producers /\ NoThread \notin Producers \cup {Lua}

VARIABLES
  clock,             \* gettimeofday(), in ms
  tickZero,          \* the clock value that getTicks() counts from
  buttonEventList,
  buttonEventStart,
  buttonEventEnd,
  buttonEventMutex,
  push,              \* push[p]: the pushButtonEvent call of producer p
  luaPc,             \* where the script thread is
  luaRead,           \* the fields the script has read from the oldest slot
  luaEvent,          \* what the latest getButtonEvent() returned
  unread,            \* history: events pushed minus events popped since clear
  settled            \* history: the list was cleared after the last move of
                     \* tickZero

vars == <<clock, tickZero, buttonEventList, buttonEventStart, buttonEventEnd,
          buttonEventMutex, push, luaPc, luaRead, luaEvent, unread, settled>>

ringVars == <<buttonEventList, buttonEventStart, buttonEventEnd>>
luaVars  == <<luaPc, luaRead, luaEvent>>
--------------------------------------------------------------------------------
(***************************************************************************)
(* An event carries two history fields beside its button and time: the     *)
(* producer it is by, and the base, the tickZero its time was counted from.*)
(***************************************************************************)
Slots == 0 .. MAX_BUTTON - 1
Field == [button : Nat, time : Int, by : Producers \cup {NoThread}, base : Int]
Event == [button : Nat, time : Int, by : Producers, base : Int]
Zeroed == [button |-> 0, time |-> 0, by |-> NoThread, base |-> 0]

PushPc == {"idle", "stamp", "lock", "button", "time", "advance"}
LuaPc  == {"idle", "lock", "button", "time", "advance", "rebase"}

Init ==
  /\ clock = FirstClock
  /\ tickZero = 0
  /\ buttonEventList = [i \in Slots |-> Zeroed]
  /\ buttonEventStart = 0
  /\ buttonEventEnd = 0
  /\ buttonEventMutex = NoThread
  /\ push = [p \in Producers |-> [pc |-> "idle", ev |-> Zeroed]]
  /\ luaPc = "idle"
  /\ luaRead = Zeroed
  /\ luaEvent = NoEvent
  /\ unread = 0
  /\ settled = TRUE

Tick ==
  /\ clock < LastClock
  /\ clock' = clock + 1
  /\ UNCHANGED <<tickZero, ringVars, buttonEventMutex, push, luaVars, unread, settled>>
--------------------------------------------------------------------------------
(***************************************************************************)
(* pushButtonEvent: getTicks() reads the wall clock and then tickZero, the *)
(* mutex is taken, the slot at buttonEventEnd is filled field by field and *)
(* the index moves on.                                                     *)
(***************************************************************************)
CallPush(p, b) ==
  /\ push[p].pc = "idle"
  /\ unread + Cardinality({q \in Producers : push[q].pc # "idle"}) < MaxUnread
  /\ push' = [push EXCEPT ![p] =
       [pc |-> "stamp",
        ev |-> [button |-> b, time |-> clock, by |-> p, base |-> 0]]]
  /\ UNCHANGED <<clock, tickZero, ringVars, buttonEventMutex, luaVars, unread, settled>>

Stamp(p) ==
  /\ push[p].pc = "stamp"
  /\ LET ev == push[p].ev
     IN push' = [push EXCEPT ![p] =
          [pc |-> "lock",
           ev |-> [ev EXCEPT !.time = @ - tickZero, !.base = tickZero]]]
  /\ UNCHANGED <<clock, tickZero, ringVars, buttonEventMutex, luaVars, unread, settled>>

\* Mutant of PushLock: the mutex is not waited for.
PushLock_Barging(p) ==
  /\ push[p].pc = "lock"
  /\ buttonEventMutex' = p
  /\ push' = [push EXCEPT ![p].pc = "button"]
  /\ UNCHANGED <<clock, tickZero, ringVars, luaVars, unread, settled>>

PushLock(p) ==
  /\ push[p].pc = "lock"
  /\ buttonEventMutex = NoThread
  /\ buttonEventMutex' = p
  /\ push' = [push EXCEPT ![p].pc = "button"]
  /\ UNCHANGED <<clock, tickZero, ringVars, luaVars, unread, settled>>

PushButton(p) ==
  /\ push[p].pc = "button"
  /\ buttonEventList' = [buttonEventList EXCEPT
       ![buttonEventEnd].button = push[p].ev.button,
       ![buttonEventEnd].by     = push[p].ev.by]
  /\ push' = [push EXCEPT ![p].pc = "time"]
  /\ UNCHANGED <<clock, tickZero, buttonEventStart, buttonEventEnd,
                 buttonEventMutex, luaVars, unread, settled>>

PushTime(p) ==
  /\ push[p].pc = "time"
  /\ buttonEventList' = [buttonEventList EXCEPT
       ![buttonEventEnd].time = push[p].ev.time,
       ![buttonEventEnd].base = push[p].ev.base]
  /\ push' = [push EXCEPT ![p].pc = "advance"]
  /\ UNCHANGED <<clock, tickZero, buttonEventStart, buttonEventEnd,
                 buttonEventMutex, luaVars, unread, settled>>

\* Mutant of PushAdvance: the index does not wrap.
PushAdvance_NoWrap(p) ==
  /\ push[p].pc = "advance"
  /\ buttonEventEnd' = buttonEventEnd + 1
  /\ buttonEventMutex' = NoThread
  /\ unread' = unread + 1
  /\ push' = [push EXCEPT ![p] = [pc |-> "idle", ev |-> Zeroed]]
  /\ UNCHANGED <<clock, tickZero, buttonEventList, buttonEventStart, luaVars, settled>>

\* The index moves on and the mutex is released: nothing is shared in between.
PushAdvance(p) ==
  /\ push[p].pc = "advance"
  /\ buttonEventEnd' = (buttonEventEnd + 1) % MAX_BUTTON
  /\ buttonEventMutex' = NoThread
  /\ unread' = unread + 1
  /\ push' = [push EXCEPT ![p] = [pc |-> "idle", ev |-> Zeroed]]
  /\ UNCHANGED <<clock, tickZero, buttonEventList, buttonEventStart, luaVars, settled>>

pushButtonEvent(p) ==
  \/ \E b \in Buttons : CallPush(p, b)
  \/ Stamp(p)
  \/ PushLock(p)
  \/ PushButton(p)
  \/ PushTime(p)
  \/ PushAdvance(p)
--------------------------------------------------------------------------------
(***************************************************************************)
(* luaGetButtonEvent: the emptiness test is made before the mutex is taken.*)
(***************************************************************************)
GetNothing ==
  /\ luaPc = "idle"
  /\ buttonEventStart = buttonEventEnd
  /\ luaEvent' = NoEvent
  /\ UNCHANGED <<clock, tickZero, ringVars, buttonEventMutex, push, luaPc,
                 luaRead, unread, settled>>

\* Mutant of GetSomething: the emptiness test is forgotten.
GetSomething_Untested ==
  /\ luaPc = "idle"
  /\ luaPc' = "lock"
  /\ UNCHANGED <<clock, tickZero, ringVars, buttonEventMutex, push, luaRead,
                 luaEvent, unread, settled>>

GetSomething ==
  /\ luaPc = "idle"
  /\ buttonEventStart # buttonEventEnd
  /\ luaPc' = "lock"
  /\ UNCHANGED <<clock, tickZero, ringVars, buttonEventMutex, push, luaRead,
                 luaEvent, unread, settled>>

GetLock ==
  /\ luaPc = "lock"
  /\ buttonEventMutex = NoThread
  /\ buttonEventMutex' = Lua
  /\ luaPc' = "button"
  /\ UNCHANGED <<clock, tickZero, ringVars, push, luaRead, luaEvent, unread, settled>>

GetButton ==
  /\ luaPc = "button"
  /\ luaRead' = [luaRead EXCEPT !.button = buttonEventList[buttonEventStart].button,
                                !.by     = buttonEventList[buttonEventStart].by]
  /\ luaPc' = "time"
  /\ UNCHANGED <<clock, tickZero, ringVars, buttonEventMutex, push, luaEvent,
                 unread, settled>>

GetTime ==
  /\ luaPc = "time"
  /\ luaRead' = [luaRead EXCEPT !.time = buttonEventList[buttonEventStart].time,
                                !.base = buttonEventList[buttonEventStart].base]
  /\ luaPc' = "advance"
  /\ UNCHANGED <<clock, tickZero, ringVars, buttonEventMutex, push, luaEvent,
                 unread, settled>>

\* Mutant of GetAdvance: the index stays.
GetAdvance_Stays ==
  /\ luaPc = "advance"
  /\ buttonEventMutex' = NoThread
  /\ luaEvent' = luaRead
  /\ luaRead' = Zeroed
  /\ luaPc' = "idle"
  /\ UNCHANGED <<clock, tickZero, ringVars, push, unread, settled>>

GetAdvance ==
  /\ luaPc = "advance"
  /\ buttonEventStart' = (buttonEventStart + 1) % MAX_BUTTON
  /\ buttonEventMutex' = NoThread
  /\ unread' = unread - 1
  /\ luaEvent' = luaRead
  /\ luaRead' = Zeroed
  /\ luaPc' = "idle"
  /\ UNCHANGED <<clock, tickZero, buttonEventList, buttonEventEnd, push, settled>>

luaGetButtonEvent ==
  GetNothing \/ GetSomething \/ GetLock \/ GetButton \/ GetTime \/ GetAdvance
--------------------------------------------------------------------------------
\* Mutants of luaClearButtonEvents: one index is not reset; nothing is thrown
\* away; the mutex is kept.
Clear_OnlyEnd ==
  /\ luaPc = "idle"
  /\ buttonEventMutex = NoThread
  /\ buttonEventEnd' = 0
  /\ unread' = 0
  /\ settled' = TRUE
  /\ UNCHANGED <<clock, tickZero, buttonEventList, buttonEventStart,
                 buttonEventMutex, push, luaVars>>

Clear_Nothing ==
  /\ luaPc = "idle"
  /\ buttonEventMutex = NoThread
  /\ settled' = TRUE
  /\ UNCHANGED <<clock, tickZero, ringVars, buttonEventMutex, push, luaVars, unread>>

Clear_KeepsMutex ==
  /\ luaPc = "idle"
  /\ buttonEventMutex = NoThread
  /\ buttonEventMutex' = Lua
  /\ buttonEventStart' = 0
  /\ buttonEventEnd' = 0
  /\ unread' = 0
  /\ settled' = TRUE
  /\ UNCHANGED <<clock, tickZero, buttonEventList, push, luaVars>>

(***************************************************************************)
(* luaClearButtonEvents resets both indices in one critical section, and   *)
(* only the script thread looks at them outside one: it is a single step.  *)
(***************************************************************************)
luaClearButtonEvents ==
  /\ luaPc = "idle"
  /\ buttonEventMutex = NoThread
  /\ buttonEventStart' = 0
  /\ buttonEventEnd' = 0
  /\ unread' = 0
  /\ settled' = TRUE
  /\ UNCHANGED <<clock, tickZero, buttonEventList, buttonEventMutex, push, luaVars>>

(***************************************************************************)
(* setNowIsTickZero, called for getTime(1), stores tickZero twice: 0, so   *)
(* that getTicks() gives the wall clock, and then that wall clock.  For    *)
(* getTime(0) luaGetTime only stores the 0.                                *)
(***************************************************************************)
RebaseZero ==
  /\ luaPc = "idle"
  /\ tickZero' = 0
  /\ settled' = FALSE
  /\ luaPc' = "rebase"
  /\ UNCHANGED <<clock, ringVars, buttonEventMutex, push, luaRead, luaEvent, unread>>

RebaseNow ==
  /\ luaPc = "rebase"
  /\ tickZero' = clock
  /\ luaPc' = "idle"
  /\ UNCHANGED <<clock, ringVars, buttonEventMutex, push, luaRead, luaEvent,
                 unread, settled>>

TicksOff ==
  /\ luaPc = "idle"
  /\ tickZero' = 0
  /\ settled' = FALSE
  /\ UNCHANGED <<clock, ringVars, buttonEventMutex, push, luaVars, unread>>

luaGetTime == RebaseZero \/ RebaseNow \/ TicksOff
--------------------------------------------------------------------------------
LuaStep == luaGetButtonEvent \/ luaClearButtonEvents \/ luaGetTime

Next ==
  \/ Tick
  \/ \E p \in Producers : pushButtonEvent(p)
  \/ LuaStep

Spec == Init /\ [][Next]_vars

(***************************************************************************)
(* Every thread keeps running.  The mutex is taken under strong fairness:  *)
(* the threads that compete for it sleep or block in select between two    *)
(* critical sections.  The script's loops call getButtonEvent in every     *)
(* turn, whatever else they call.                                          *)
(***************************************************************************)
Fairness ==
  /\ \A p \in Producers :
       /\ SF_vars(PushLock(p))
       /\ WF_vars(Stamp(p) \/ PushButton(p) \/ PushTime(p) \/ PushAdvance(p))
  /\ SF_vars(GetLock) /\ SF_vars(GetSomething)
  /\ WF_vars(GetButton \/ GetTime \/ GetAdvance \/ RebaseNow)

FairSpec == Spec /\ Fairness
--------------------------------------------------------------------------------
(* Every variable keeps its type; the indices stay inside the ring. *)
TypeOK ==
  /\ clock \in Nat
  /\ tickZero \in Nat
  /\ buttonEventList \in [Slots -> Field]
  /\ buttonEventStart \in Slots
  /\ buttonEventEnd \in Slots
  /\ buttonEventMutex \in Producers \cup {Lua, NoThread}
  /\ push \in [Producers -> [pc : PushPc, ev : Field]]
  /\ luaPc \in LuaPc
  /\ luaRead \in Field
  /\ luaEvent \in Field \cup {NoEvent}
  /\ unread \in Int
  /\ settled \in BOOLEAN

Pushing(p) == push[p].pc \in {"button", "time", "advance"}
Popping == luaPc \in {"button", "time", "advance"}

(* No two threads are inside the sections that buttonEventMutex guards, so
   no event is read while it is half written. *)
MutualExclusion ==
  /\ \A p, q \in Producers : Pushing(p) /\ Pushing(q) => p = q
  /\ \A p \in Producers : ~(Pushing(p) /\ Popping)

\* The events the indices show, oldest first.
Count == IF buttonEventEnd >= buttonEventStart
         THEN buttonEventEnd - buttonEventStart
         ELSE buttonEventEnd - buttonEventStart + MAX_BUTTON
SlotOf(i) == IF buttonEventStart + i - 1 < MAX_BUTTON
             THEN buttonEventStart + i - 1
             ELSE buttonEventStart + i - 1 - MAX_BUTTON
Unread == [i \in 1 .. Count |-> buttonEventList[SlotOf(i)]]

(* The script never pops an event that was not pushed: between its
   unprotected emptiness test and its pop no other thread can empty the list,
   even when the producers overrun the ring in between. *)
NeverInvents ==
  /\ unread >= 0
  /\ luaPc \in {"lock", "button", "time", "advance"} => unread >= 1

(* What the indices show is the number of unread events modulo the ring: an
   overrun makes the list look empty and hides events by whole rings. *)
LossIsWholeRings == unread % MAX_BUTTON = Count

(* Short of an overrun the list is a FIFO of whole events, and the script is
   told that there is none only when there is none. *)
Fifo == INSTANCE EventFifo WITH queue <- Unread, got <- luaEvent
FifoSpec == Fifo!Spec

Stale(ev) == ev.base # tickZero
Stamped(p) == push[p].pc \in {"lock", "button", "time", "advance"}

(* After the tick origin was moved and the list then cleared (the order of
   script.lua at the end of a speed flight), the events stamped on an older
   origin that the script can still be given number at most one per producer:
   those that were between their stamp and the mutex. *)
StaleBounded ==
  settled =>
    Cardinality({i \in 1 .. Count : Stale(Unread[i])})
      + Cardinality({p \in Producers : Stamped(p) /\ Stale(push[p].ev)})
    <= Cardinality(Producers)

(* A thread that starts to push an event gets it into the list: the mutex is
   always given back. *)
PushCompletes ==
  \A p \in Producers : push[p].pc # "idle" ~> push[p].pc = "idle"

(* While the list is not empty its oldest event does not stay there for ever:
   it is popped, cleared away or (on an overrun) hidden. *)
HeadServed ==
  \A s \in Slots :
    (buttonEventStart = s /\ buttonEventEnd # s)
      ~> (buttonEventStart # s \/ buttonEventEnd = s)
================================================================================

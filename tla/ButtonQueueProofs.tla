--------------------------- MODULE ButtonQueueProofs ---------------------------
(***************************************************************************)
(* Theorems about ButtonQueue, for any number of producers and any ring    *)
(* size above one.                                                         *)
(***************************************************************************)
EXTENDS ButtonQueue, FiniteSetTheorems, SequenceTheorems, TLAPS

(***************************************************************************)
(* The arithmetic of an index that goes round a ring of N slots: what      *)
(* adding or taking one does to a remainder.  The prover knows a % N only  *)
(* by its definition, a = N * (a \div N) + a % N.                          *)
(***************************************************************************)

(* Division with remainder. *)
LEMMA DivMod ==
  ASSUME NEW N \in Nat \ {0}, NEW a \in Int
  PROVE  /\ (a \div N) \in Int
         /\ a = N * (a \div N) + (a % N)
         /\ a % N \in 0 .. N - 1
OBVIOUS

(* Two multiples of N are N apart at least. *)
LEMMA ProductGap ==
  ASSUME NEW N \in Nat \ {0}, NEW d \in Int, d >= 1
  PROVE  N * d >= N
OBVIOUS

(* The remainder is determined by the number. *)
LEMMA ModUnique ==
  ASSUME NEW N \in Nat \ {0}, NEW q \in Int, NEW p \in Int,
         NEW r \in 0 .. N - 1, NEW s \in 0 .. N - 1,
         N * q + r = N * p + s
  PROVE  r = s
<1>1. N * (q - p) = s - r
  OBVIOUS
<1>2. N * (p - q) = r - s
  OBVIOUS
<1>3. CASE q - p >= 1
  BY <1>1, <1>3, ProductGap
<1>4. CASE p - q >= 1
  BY <1>2, <1>4, ProductGap
<1>5. CASE p = q
  BY <1>5
<1> QED
  BY <1>3, <1>4, <1>5

(* A number that is a multiple of N and r more has the remainder r. *)
LEMMA ModIs ==
  ASSUME NEW N \in Nat \ {0}, NEW q \in Int, NEW r \in 0 .. N - 1
  PROVE  (N * q + r) % N = r
<1> DEFINE a == N * q + r
<1>1. a \in Int
  OBVIOUS
<1>2. /\ (a \div N) \in Int
      /\ a = N * (a \div N) + (a % N)
      /\ a % N \in 0 .. N - 1
  BY <1>1, DivMod
<1> HIDE DEF a
<1>3. N * (a \div N) + (a % N) = N * q + r
  BY <1>2 DEF a
<1>4. a % N = r
  BY <1>2, <1>3, ModUnique
<1> QED
  BY <1>4 DEF a

(* Counting up: the remainder goes up by one, or back to 0 after N - 1. *)
LEMMA ModInc ==
  ASSUME NEW N \in Nat \ {0}, NEW a \in Int
  PROVE  (a + 1) % N = IF a % N = N - 1 THEN 0 ELSE (a % N) + 1
<1> DEFINE q == a \div N
           r == a % N
<1>1. q \in Int /\ a = N * q + r /\ r \in 0 .. N - 1
  BY DivMod
<1> HIDE DEF q, r
<1>2. CASE r = N - 1
  <2>1. a + 1 = N * (q + 1) + 0
    BY <1>1, <1>2
  <2>2. (N * (q + 1) + 0) % N = 0
    <3>1. q + 1 \in Int /\ 0 \in 0 .. N - 1
      BY <1>1
    <3> QED
      BY <3>1, ModIs
  <2> QED
    BY <2>1, <2>2, <1>2 DEF r
<1>3. CASE r # N - 1
  <2>1. a + 1 = N * q + (r + 1)
    BY <1>1
  <2>2. r + 1 \in 0 .. N - 1
    BY <1>1, <1>3
  <2>3. (N * q + (r + 1)) % N = r + 1
    BY <1>1, <2>2, ModIs
  <2> QED
    BY <2>1, <2>3, <1>3 DEF r
<1> QED
  BY <1>2, <1>3

(* Counting down: the remainder goes down by one, or from 0 to N - 1. *)
LEMMA ModDec ==
  ASSUME NEW N \in Nat \ {0}, NEW a \in Int
  PROVE  (a - 1) % N = IF a % N = 0 THEN N - 1 ELSE (a % N) - 1
<1> DEFINE q == a \div N
           r == a % N
<1>1. q \in Int /\ a = N * q + r /\ r \in 0 .. N - 1
  BY DivMod
<1> HIDE DEF q, r
<1>2. CASE r = 0
  <2>1. a - 1 = N * (q - 1) + (N - 1)
    BY <1>1, <1>2
  <2>2. (N * (q - 1) + (N - 1)) % N = N - 1
    <3>1. q - 1 \in Int /\ N - 1 \in 0 .. N - 1
      BY <1>1
    <3> QED
      BY <3>1, ModIs
  <2> QED
    BY <2>1, <2>2, <1>2 DEF r
<1>3. CASE r # 0
  <2>1. a - 1 = N * q + (r - 1)
    BY <1>1
  <2>2. r - 1 \in 0 .. N - 1
    BY <1>1, <1>3
  <2>3. (N * q + (r - 1)) % N = r - 1
    BY <1>1, <2>2, ModIs
  <2> QED
    BY <2>1, <2>3, <1>3 DEF r
<1> QED
  BY <1>2, <1>3

(* A number below N is its own remainder. *)
LEMMA ModSmall ==
  ASSUME NEW N \in Nat \ {0}, NEW a \in 0 .. N - 1
  PROVE  a % N = a
OBVIOUS

(* An index of the ring moved on by one. *)
LEMMA IndexInc ==
  ASSUME NEW N \in Nat \ {0}, NEW i \in 0 .. N - 1
  PROVE  (i + 1) % N = IF i = N - 1 THEN 0 ELSE i + 1
<1>1. i % N = i
  BY ModSmall
<1>2. i \in Int
  OBVIOUS
<1> QED
  BY <1>1, <1>2, ModInc
--------------------------------------------------------------------------------
(* The facts about the constants, in the form the steps use. *)
LEMMA ConstantFacts ==
  /\ MAX_BUTTON \in Nat \ {0}
  /\ MAX_BUTTON > 1
  /\ 0 \in Slots
  /\ Zeroed \in Field
  /\ \A i \in Slots : (i + 1) % MAX_BUTTON \in Slots
<1>1. MAX_BUTTON \in Nat \ {0} /\ MAX_BUTTON > 1
  BY QueueAssumption
<1>2. ASSUME NEW i \in Slots PROVE (i + 1) % MAX_BUTTON \in Slots
  BY <1>1, IndexInc DEF Slots
<1> QED
  BY <1>1, <1>2 DEF Slots, Zeroed, Field

(* An event stays an event when it is stamped. *)
LEMMA Restamp ==
  ASSUME NEW ev \in Field, NEW t \in Int, NEW b \in Int
  PROVE  [ev EXCEPT !.time = t, !.base = b] \in Field
BY DEF Field
--------------------------------------------------------------------------------
(* Every step of the threads and of the clock keeps every variable's type. *)
LEMMA TypeStep == TypeOK /\ [Next]_vars => TypeOK'
<1> SUFFICES ASSUME TypeOK, [Next]_vars PROVE TypeOK'
  OBVIOUS
<1> USE ConstantFacts DEF TypeOK
<1>1. CASE Tick
  BY <1>1, QueueAssumption DEF Tick, ringVars, luaVars
<1>2. ASSUME NEW p \in Producers, pushButtonEvent(p) PROVE TypeOK'
  <2>1. ASSUME NEW b \in Buttons, CallPush(p, b) PROVE TypeOK'
    <3>1. [pc |-> "stamp", ev |-> [button |-> b, time |-> clock, by |-> p, base |-> 0]]
            \in [pc : PushPc, ev : Field]
      BY QueueAssumption DEF PushPc, Field
    <3> QED
      BY <2>1, <3>1 DEF CallPush, ringVars, luaVars
  <2>2. CASE Stamp(p)
    <3> DEFINE ev == push[p].ev
               new == [ev EXCEPT !.time = @ - tickZero, !.base = tickZero]
    <3>1. ev \in Field /\ ev.time - tickZero \in Int /\ tickZero \in Int
      BY DEF Field
    <3>2. new \in Field
      BY <3>1, Restamp
    <3>3. push' = [push EXCEPT ![p] = [pc |-> "lock", ev |-> new]]
      BY <2>2 DEF Stamp
    <3>4. [pc |-> "lock", ev |-> new] \in [pc : PushPc, ev : Field]
      BY <3>2 DEF PushPc
    <3> QED
      BY <2>2, <3>3, <3>4 DEF Stamp, ringVars, luaVars
  <2>3. CASE PushLock(p)
    BY <2>3 DEF PushLock, PushPc, ringVars, luaVars
  <2>4. CASE PushButton(p)
    BY <2>4 DEF PushButton, PushPc, Field, luaVars
  <2>5. CASE PushTime(p)
    BY <2>5 DEF PushTime, PushPc, Field, luaVars
  <2>6. CASE PushAdvance(p)
    BY <2>6 DEF PushAdvance, PushPc, luaVars
  <2> QED
    BY <1>2, <2>1, <2>2, <2>3, <2>4, <2>5, <2>6 DEF pushButtonEvent
<1>3. CASE GetNothing
  BY <1>3 DEF GetNothing, ringVars
<1>4. CASE GetSomething
  BY <1>4 DEF GetSomething, LuaPc, ringVars
<1>5. CASE GetLock
  BY <1>5 DEF GetLock, LuaPc, ringVars
<1>6. CASE GetButton
  BY <1>6 DEF GetButton, LuaPc, Field, ringVars
<1>7. CASE GetTime
  BY <1>7 DEF GetTime, LuaPc, Field, ringVars
<1>8. CASE GetAdvance
  BY <1>8 DEF GetAdvance, LuaPc
<1>9. CASE luaClearButtonEvents
  BY <1>9 DEF luaClearButtonEvents, luaVars
<1>10. CASE RebaseZero
  BY <1>10 DEF RebaseZero, LuaPc, ringVars
<1>11. CASE RebaseNow
  BY <1>11 DEF RebaseNow, LuaPc, ringVars
<1>12. CASE TicksOff
  BY <1>12 DEF TicksOff, ringVars, luaVars
<1>13. CASE UNCHANGED vars
  BY <1>13 DEF vars
<1> QED
  BY <1>1, <1>2, <1>3, <1>4, <1>5, <1>6, <1>7, <1>8, <1>9, <1>10, <1>11, <1>12, <1>13
     DEF Next, LuaStep, luaGetButtonEvent, luaGetTime

(* The variables of the event list always have their types; in particular
   the two indices never leave the ring. *)
THEOREM TypeCorrect == Spec => []TypeOK
<1>1. Init => TypeOK
  BY ConstantFacts, QueueAssumption DEF Init, TypeOK, PushPc, LuaPc
<1> QED
  BY <1>1, TypeStep, PTL DEF Spec
--------------------------------------------------------------------------------
(***************************************************************************)
(* Mutual exclusion is not inductive: it has to be known that the mutex    *)
(* names the thread inside, and nobody else.                               *)
(***************************************************************************)
Ownership ==
  /\ \A p \in Producers : Pushing(p) <=> buttonEventMutex = p
  /\ Popping <=> buttonEventMutex = Lua

(* The owner of the mutex is the thread in its critical section, before and
   after every step. *)
LEMMA OwnershipStep == TypeOK /\ Ownership /\ [Next]_vars => Ownership'
<1> SUFFICES ASSUME TypeOK, Ownership, [Next]_vars PROVE Ownership'
  OBVIOUS
<1>0. /\ push \in [Producers -> [pc : PushPc, ev : Field]]
      /\ Lua \notin Producers /\ NoThread \notin Producers /\ NoThread # Lua
  BY QueueAssumption DEF TypeOK
<1> USE <1>0 DEF Ownership, Pushing, Popping
<1>1. CASE Tick
  BY <1>1 DEF Tick, luaVars
<1>2. ASSUME NEW p \in Producers, pushButtonEvent(p) PROVE Ownership'
  <2>1. ASSUME NEW b \in Buttons, CallPush(p, b) PROVE Ownership'
    BY <2>1 DEF CallPush, luaVars
  <2>2. CASE Stamp(p)
    BY <2>2 DEF Stamp, luaVars
  <2>3. CASE PushLock(p)
    BY <2>3 DEF PushLock, luaVars
  <2>4. CASE PushButton(p)
    BY <2>4 DEF PushButton, luaVars
  <2>5. CASE PushTime(p)
    BY <2>5 DEF PushTime, luaVars
  <2>6. CASE PushAdvance(p)
    BY <2>6 DEF PushAdvance, luaVars
  <2> QED
    BY <1>2, <2>1, <2>2, <2>3, <2>4, <2>5, <2>6 DEF pushButtonEvent
<1>3. CASE GetNothing
  BY <1>3 DEF GetNothing
<1>4. CASE GetSomething
  BY <1>4 DEF GetSomething
<1>5. CASE GetLock
  BY <1>5 DEF GetLock
<1>6. CASE GetButton
  BY <1>6 DEF GetButton
<1>7. CASE GetTime
  BY <1>7 DEF GetTime
<1>8. CASE GetAdvance
  BY <1>8 DEF GetAdvance
<1>9. CASE luaClearButtonEvents
  BY <1>9 DEF luaClearButtonEvents, luaVars
<1>10. CASE RebaseZero
  BY <1>10 DEF RebaseZero
<1>11. CASE RebaseNow
  BY <1>11 DEF RebaseNow
<1>12. CASE TicksOff
  BY <1>12 DEF TicksOff, luaVars
<1>13. CASE UNCHANGED vars
  BY <1>13 DEF vars
<1> QED
  BY <1>1, <1>2, <1>3, <1>4, <1>5, <1>6, <1>7, <1>8, <1>9, <1>10, <1>11, <1>12, <1>13
     DEF Next, LuaStep, luaGetButtonEvent, luaGetTime

(* The sections guarded by buttonEventMutex exclude each other, whatever the
   number of threads that push. *)
THEOREM Exclusion == Spec => []MutualExclusion
<1>1. Init => Ownership
  BY QueueAssumption DEF Init, Ownership, Pushing, Popping
<1>2. Ownership => MutualExclusion
  BY QueueAssumption DEF Ownership, MutualExclusion
<1> QED
  BY <1>1, <1>2, TypeCorrect, OwnershipStep, PTL DEF Spec
--------------------------------------------------------------------------------
(***************************************************************************)
(* NeverInvents is not inductive either: that the list is not empty once   *)
(* the unprotected test has passed follows from what the indices say about *)
(* the number of unread events, which is LossIsWholeRings.                 *)
(***************************************************************************)
Accounting == NeverInvents /\ LossIsWholeRings

(* One more event and the end index moved on: the count goes up, round the
   ring. *)
LEMMA CountUp ==
  ASSUME TypeOK, LossIsWholeRings,
         buttonEventEnd' = (buttonEventEnd + 1) % MAX_BUTTON,
         unread' = unread + 1, UNCHANGED buttonEventStart
  PROVE  LossIsWholeRings'
<1> USE ConstantFacts
<1>1. unread \in Int /\ buttonEventStart \in Slots /\ buttonEventEnd \in Slots
  BY DEF TypeOK
<1>2. buttonEventEnd' = IF buttonEventEnd = MAX_BUTTON - 1 THEN 0 ELSE buttonEventEnd + 1
  BY <1>1, IndexInc DEF Slots
<1>3. unread' % MAX_BUTTON = IF Count = MAX_BUTTON - 1 THEN 0 ELSE Count + 1
  BY <1>1, ModInc DEF LossIsWholeRings
<1>4. Count' = IF Count = MAX_BUTTON - 1 THEN 0 ELSE Count + 1
  <2>1. CASE buttonEventEnd = MAX_BUTTON - 1
    BY <1>1, <1>2, <2>1 DEF Count, Slots
  <2>2. CASE buttonEventEnd # MAX_BUTTON - 1
    <3>1. buttonEventEnd' = buttonEventEnd + 1 /\ buttonEventStart' = buttonEventStart
      BY <1>2, <2>2
    <3>2. CASE buttonEventEnd >= buttonEventStart
      BY <1>1, <2>2, <3>1, <3>2 DEF Count, Slots
    <3>3. CASE buttonEventEnd < buttonEventStart
      BY <1>1, <2>2, <3>1, <3>3 DEF Count, Slots
    <3> QED
      BY <1>1, <3>2, <3>3 DEF Slots
  <2> QED
    BY <2>1, <2>2
<1> QED
  BY <1>3, <1>4 DEF LossIsWholeRings

(* One event less and the start index moved on: the count goes down. *)
LEMMA CountDown ==
  ASSUME TypeOK, LossIsWholeRings,
         buttonEventStart' = (buttonEventStart + 1) % MAX_BUTTON,
         unread' = unread - 1, UNCHANGED buttonEventEnd
  PROVE  LossIsWholeRings'
<1> USE ConstantFacts
<1>1. unread \in Int /\ buttonEventStart \in Slots /\ buttonEventEnd \in Slots
  BY DEF TypeOK
<1>2. buttonEventStart' = IF buttonEventStart = MAX_BUTTON - 1
                          THEN 0 ELSE buttonEventStart + 1
  BY <1>1, IndexInc DEF Slots
<1>3. unread' % MAX_BUTTON = IF Count = 0 THEN MAX_BUTTON - 1 ELSE Count - 1
  BY <1>1, ModDec DEF LossIsWholeRings
<1>4. Count' = IF Count = 0 THEN MAX_BUTTON - 1 ELSE Count - 1
  BY <1>1, <1>2 DEF Count, Slots
<1> QED
  BY <1>3, <1>4 DEF LossIsWholeRings

(* A list that does not look empty has an unread event. *)
LEMMA NotEmpty ==
  ASSUME TypeOK, Accounting, buttonEventStart # buttonEventEnd
  PROVE  unread >= 1
<1> USE ConstantFacts
<1>1. Count # 0 /\ unread \in Int /\ unread >= 0
  BY DEF TypeOK, Count, Slots, Accounting, NeverInvents
<1>2. unread # 0
  BY <1>1, ModSmall DEF Accounting, LossIsWholeRings
<1> QED
  BY <1>1, <1>2

(* The count of unread events and the two indices agree after every step. *)
LEMMA AccountingStep == TypeOK /\ Accounting /\ [Next]_vars => Accounting'
<1> SUFFICES ASSUME TypeOK, Accounting, [Next]_vars PROVE Accounting'
  OBVIOUS
<1>a. unread \in Int
  BY DEF TypeOK
<1>b. ASSUME UNCHANGED <<ringVars, unread>> PROVE LossIsWholeRings'
  BY <1>b DEF Accounting, LossIsWholeRings, Count, ringVars
<1>c. ASSUME UNCHANGED <<unread, luaPc>> PROVE NeverInvents'
  BY <1>c DEF Accounting, NeverInvents
<1>1. CASE Tick
  BY <1>1, <1>b, <1>c DEF Tick, luaVars, Accounting
<1>2. ASSUME NEW p \in Producers, pushButtonEvent(p) PROVE Accounting'
  <2>1. ASSUME NEW b \in Buttons, CallPush(p, b) PROVE Accounting'
    BY <2>1, <1>b, <1>c DEF CallPush, luaVars, Accounting
  <2>2. CASE Stamp(p)
    BY <2>2, <1>b, <1>c DEF Stamp, luaVars, Accounting
  <2>3. CASE PushLock(p)
    BY <2>3, <1>b, <1>c DEF PushLock, luaVars, Accounting
  <2>4. CASE PushButton(p)
    BY <2>4, <1>c DEF PushButton, luaVars, Accounting, LossIsWholeRings, Count
  <2>5. CASE PushTime(p)
    BY <2>5, <1>c DEF PushTime, luaVars, Accounting, LossIsWholeRings, Count
  <2>6. CASE PushAdvance(p)
    <3>1. LossIsWholeRings'
      BY <2>6, CountUp DEF PushAdvance, Accounting
    <3>2. NeverInvents'
      BY <2>6, <1>a DEF PushAdvance, Accounting, NeverInvents, luaVars
    <3> QED
      BY <3>1, <3>2 DEF Accounting
  <2> QED
    BY <1>2, <2>1, <2>2, <2>3, <2>4, <2>5, <2>6 DEF pushButtonEvent
<1>3. CASE GetNothing
  BY <1>3, <1>b, <1>c DEF GetNothing, Accounting
<1>4. CASE GetSomething
  <2>1. unread >= 1
    BY <1>4, NotEmpty DEF GetSomething
  <2> QED
    BY <1>4, <1>a, <1>b, <2>1 DEF GetSomething, Accounting, NeverInvents
<1>5. CASE GetLock
  BY <1>5, <1>b DEF GetLock, Accounting, NeverInvents
<1>6. CASE GetButton
  BY <1>6, <1>b DEF GetButton, Accounting, NeverInvents
<1>7. CASE GetTime
  BY <1>7, <1>b DEF GetTime, Accounting, NeverInvents
<1>8. CASE GetAdvance
  <2>1. LossIsWholeRings'
    BY <1>8, CountDown DEF GetAdvance, Accounting
  <2>2. NeverInvents'
    BY <1>8, <1>a DEF GetAdvance, Accounting, NeverInvents
  <2> QED
    BY <2>1, <2>2 DEF Accounting
<1>9. CASE luaClearButtonEvents
  <2>1. 0 % MAX_BUTTON = 0
    BY ConstantFacts
  <2> QED
    BY <1>9, <2>1 DEF luaClearButtonEvents, luaVars, Accounting, NeverInvents,
                      LossIsWholeRings, Count
<1>10. CASE RebaseZero
  BY <1>10, <1>b DEF RebaseZero, Accounting, NeverInvents
<1>11. CASE RebaseNow
  BY <1>11, <1>b DEF RebaseNow, Accounting, NeverInvents
<1>12. CASE TicksOff
  BY <1>12, <1>b, <1>c DEF TicksOff, luaVars, Accounting
<1>13. CASE UNCHANGED vars
  BY <1>13, <1>b, <1>c DEF vars, ringVars, Accounting
<1> QED
  BY <1>1, <1>2, <1>3, <1>4, <1>5, <1>6, <1>7, <1>8, <1>9, <1>10, <1>11, <1>12, <1>13
     DEF Next, LuaStep, luaGetButtonEvent, luaGetTime

(* The list starts empty, with nothing unread. *)
LEMMA AccountingInit == Init => Accounting
<1>1. 0 % MAX_BUTTON = 0
  BY ConstantFacts
<1> QED
  BY <1>1 DEF Init, Accounting, NeverInvents, LossIsWholeRings, Count

(* getButtonEvent never pops what was not pushed, although its emptiness
   test is not protected by the mutex; overruns of the ring included. *)
THEOREM PopsArePushed == Spec => []NeverInvents
<1>1. Accounting => NeverInvents
  BY DEF Accounting
<1> QED
  BY <1>1, AccountingInit, TypeCorrect, AccountingStep, PTL DEF Spec

(* An overrun of the ring hides the unread events by whole rings. *)
THEOREM WholeRings == Spec => []LossIsWholeRings
<1>1. Accounting => LossIsWholeRings
  BY DEF Accounting
<1> QED
  BY <1>1, AccountingInit, TypeCorrect, AccountingStep, PTL DEF Spec
--------------------------------------------------------------------------------
(***************************************************************************)
(* What is being copied.  A pushing thread has in the slot at              *)
(* buttonEventEnd the fields it has written so far; the popping thread has *)
(* in luaRead the fields it has read so far.                               *)
(***************************************************************************)
Written ==
  \A p \in Producers :
    /\ push[p].pc # "idle" => push[p].ev.by = p
    /\ push[p].pc \in {"time", "advance"} =>
         /\ buttonEventList[buttonEventEnd].button = push[p].ev.button
         /\ buttonEventList[buttonEventEnd].by = push[p].ev.by
    /\ push[p].pc = "advance" =>
         /\ buttonEventList[buttonEventEnd].time = push[p].ev.time
         /\ buttonEventList[buttonEventEnd].base = push[p].ev.base

Fetched ==
  /\ luaPc \in {"time", "advance"} =>
       /\ luaRead.button = buttonEventList[buttonEventStart].button
       /\ luaRead.by = buttonEventList[buttonEventStart].by
  /\ luaPc = "advance" =>
       /\ luaRead.time = buttonEventList[buttonEventStart].time
       /\ luaRead.base = buttonEventList[buttonEventStart].base

Copying == Written /\ Fetched

(* Two events with the same fields are the same event. *)
LEMMA SameFields ==
  ASSUME NEW a \in Field, NEW b \in Field,
         a.button = b.button, a.time = b.time, a.by = b.by, a.base = b.base
  PROVE  a = b
BY DEF Field

(* The list holds what the thread inside the critical section has written,
   and the script has read what is in the list, after every step. *)
LEMMA CopyingStep == TypeOK /\ Ownership /\ Copying /\ [Next]_vars => Copying'
<1> SUFFICES ASSUME TypeOK, Ownership, Copying, [Next]_vars PROVE Copying'
  OBVIOUS
<1>0. /\ push \in [Producers -> [pc : PushPc, ev : Field]]
      /\ buttonEventList \in [Slots -> Field]
      /\ buttonEventStart \in Slots /\ buttonEventEnd \in Slots
      /\ luaRead \in Field
      /\ Lua \notin Producers /\ NoThread \notin Producers /\ NoThread # Lua
      /\ \A p \in Producers : Pushing(p) <=> buttonEventMutex = p
      /\ Popping <=> buttonEventMutex = Lua
  BY QueueAssumption DEF TypeOK, Ownership
<1>a. ASSUME UNCHANGED <<ringVars, push>> PROVE Written'
  BY <1>a DEF Copying, Written, ringVars
<1>b. ASSUME UNCHANGED <<ringVars, luaPc, luaRead>> PROVE Fetched'
  BY <1>b DEF Copying, Fetched, ringVars
<1>1. CASE Tick
  BY <1>1, <1>a, <1>b DEF Tick, luaVars, Copying
<1>2. ASSUME NEW p \in Producers, pushButtonEvent(p) PROVE Copying'
  <2>1. ASSUME NEW b \in Buttons, CallPush(p, b) PROVE Copying'
    <3>1. Written'
      BY <1>0, <2>1 DEF CallPush, ringVars, Copying, Written
    <3> QED
      BY <2>1, <3>1, <1>b DEF CallPush, luaVars, Copying
  <2>2. CASE Stamp(p)
    <3>1. push'[p].ev.by = push[p].ev.by /\ push'[p].pc = "lock"
      BY <1>0, <2>2 DEF Stamp, Field
    <3>2. Written'
      BY <1>0, <2>2, <3>1 DEF Stamp, ringVars, Copying, Written
    <3> QED
      BY <2>2, <3>2, <1>b DEF Stamp, luaVars, Copying
  <2>3. CASE PushLock(p)
    <3>1. Written'
      BY <1>0, <2>3 DEF PushLock, ringVars, Copying, Written
    <3> QED
      BY <2>3, <3>1, <1>b DEF PushLock, luaVars, Copying
  <2>4. CASE PushButton(p)
    <3>1. Pushing(p) /\ ~Popping /\ \A q \in Producers \ {p} : ~Pushing(q)
      BY <1>0, <2>4 DEF PushButton, Pushing
    <3>2. Written'
      BY <1>0, <2>4, <3>1 DEF PushButton, Copying, Written, Pushing, Field
    <3>3. Fetched'
      BY <2>4, <3>1 DEF PushButton, luaVars, Fetched, Popping
    <3> QED
      BY <3>2, <3>3 DEF Copying
  <2>5. CASE PushTime(p)
    <3>1. Pushing(p) /\ ~Popping /\ \A q \in Producers \ {p} : ~Pushing(q)
      BY <1>0, <2>5 DEF PushTime, Pushing
    <3>2. Written'
      BY <1>0, <2>5, <3>1 DEF PushTime, Copying, Written, Pushing, Field
    <3>3. Fetched'
      BY <2>5, <3>1 DEF PushTime, luaVars, Fetched, Popping
    <3> QED
      BY <3>2, <3>3 DEF Copying
  <2>6. CASE PushAdvance(p)
    <3>1. Pushing(p) /\ ~Popping /\ \A q \in Producers \ {p} : ~Pushing(q)
      BY <1>0, <2>6 DEF PushAdvance, Pushing
    <3>2. Written'
      BY <1>0, <2>6, <3>1 DEF PushAdvance, Copying, Written, Pushing
    <3>3. Fetched'
      BY <2>6, <3>1 DEF PushAdvance, luaVars, Fetched, Popping
    <3> QED
      BY <3>2, <3>3 DEF Copying
  <2> QED
    BY <1>2, <2>1, <2>2, <2>3, <2>4, <2>5, <2>6 DEF pushButtonEvent
<1>3. CASE GetNothing
  BY <1>3, <1>a, <1>b DEF GetNothing, Copying
<1>4. CASE GetSomething
  BY <1>4, <1>a DEF GetSomething, Copying, Fetched
<1>5. CASE GetLock
  BY <1>5, <1>a DEF GetLock, Copying, Fetched
<1>6. CASE GetButton
  BY <1>0, <1>6, <1>a DEF GetButton, Copying, Fetched, ringVars, Field
<1>7. CASE GetTime
  BY <1>0, <1>7, <1>a DEF GetTime, Copying, Fetched, ringVars, Field
<1>8. CASE GetAdvance
  BY <1>8 DEF GetAdvance, Copying, Fetched, Written
<1>9. CASE luaClearButtonEvents
  <2>1. \A p \in Producers : ~Pushing(p)
    BY <1>0, <1>9 DEF luaClearButtonEvents
  <2> QED
    BY <1>9, <2>1 DEF luaClearButtonEvents, luaVars, Copying, Fetched, Written, Pushing
<1>10. CASE RebaseZero
  BY <1>10, <1>a DEF RebaseZero, Copying, Fetched
<1>11. CASE RebaseNow
  BY <1>11, <1>a DEF RebaseNow, Copying, Fetched
<1>12. CASE TicksOff
  BY <1>12, <1>a, <1>b DEF TicksOff, luaVars, Copying
<1>13. CASE UNCHANGED vars
  BY <1>13, <1>a, <1>b DEF vars, ringVars, Copying
<1> QED
  BY <1>1, <1>2, <1>3, <1>4, <1>5, <1>6, <1>7, <1>8, <1>9, <1>10, <1>11, <1>12, <1>13
     DEF Next, LuaStep, luaGetButtonEvent, luaGetTime

(* Nobody is copying anything when the program starts. *)
LEMMA CopyingInit == Init => Copying
BY DEF Init, Copying, Written, Fetched
--------------------------------------------------------------------------------
(***************************************************************************)
(* StaleBounded counts events, and a count is not inductive: what keeps    *)
(* the count small is that the stale events come from different threads.   *)
(* The slots to watch are those written since the list was cleared, the    *)
(* visible ones and those an overrun has hidden: a pop in the hidden range *)
(* shows them again.                                                       *)
(***************************************************************************)
\* How many pushes ago slot s was filled.
Age(s) == IF buttonEventEnd > s THEN buttonEventEnd - s
          ELSE buttonEventEnd - s + MAX_BUTTON
Live(s) == s # buttonEventEnd /\ Age(s) <= unread
Leftover(s) == Live(s) /\ Stale(buttonEventList[s])
Late(p) == Stamped(p) /\ Stale(push[p].ev)

OneEach ==
  \A s \in Slots : Leftover(s) =>
    /\ buttonEventList[s].by \in Producers
    /\ \A p \in Producers : Late(p) => buttonEventList[s].by # p
    /\ \A t \in Slots : Leftover(t) /\ buttonEventList[t].by = buttonEventList[s].by
                          => s = t

Origins ==
  /\ luaPc = "rebase" => ~settled
  /\ settled => OneEach

(* One more event: the slots written since the clear are the old ones and the
   one at the end index. *)
LEMMA LiveUp ==
  ASSUME TypeOK, NEW s \in Slots, Live(s)',
         buttonEventEnd' = (buttonEventEnd + 1) % MAX_BUTTON,
         unread' = unread + 1
  PROVE  s = buttonEventEnd \/ Live(s)
<1> USE ConstantFacts
<1>1. unread \in Int /\ buttonEventEnd \in Slots
  BY DEF TypeOK
<1>2. buttonEventEnd' = IF buttonEventEnd = MAX_BUTTON - 1 THEN 0 ELSE buttonEventEnd + 1
  BY <1>1, IndexInc DEF Slots
<1>3. s # buttonEventEnd' /\ Age(s)' <= unread + 1
  BY DEF Live
<1>4. CASE buttonEventEnd = MAX_BUTTON - 1
  BY <1>1, <1>2, <1>3, <1>4 DEF Live, Age, Slots
<1>5. CASE buttonEventEnd # MAX_BUTTON - 1
  <2>1. buttonEventEnd' = buttonEventEnd + 1
    BY <1>2, <1>5
  <2> QED
    BY <1>1, <1>3, <2>1 DEF Live, Age, Slots
<1> QED
  BY <1>4, <1>5

(* Nothing that OneEach speaks of has grown: it still holds. *)
LEMMA OneEachKept ==
  ASSUME OneEach, UNCHANGED <<tickZero, buttonEventList, buttonEventEnd>>,
         unread' <= unread, TypeOK, TypeOK',
         \A p \in Producers : Late(p)' => Late(p)
  PROVE  OneEach'
<1>1. ASSUME NEW s \in Slots, Leftover(s)' PROVE Leftover(s)
  BY <1>1, ConstantFacts DEF Leftover, Live, Age, Stale, TypeOK, Slots
<1> QED
  BY <1>1 DEF OneEach

(* A field of the slot at the end index does not matter yet. *)
LEMMA OneEachFilling ==
  ASSUME OneEach, UNCHANGED <<tickZero, buttonEventEnd, unread>>,
         \A s \in Slots \ {buttonEventEnd} : buttonEventList'[s] = buttonEventList[s],
         \A p \in Producers : Late(p)' => Late(p)
  PROVE  OneEach'
<1>1. ASSUME NEW s \in Slots, Leftover(s)'
      PROVE Leftover(s) /\ buttonEventList'[s] = buttonEventList[s]
  BY <1>1 DEF Leftover, Live, Age, Stale
<1> QED
  BY <1>1 DEF OneEach

(* A push moves its event from the thread into the list. *)
LEMMA OneEachPushed ==
  ASSUME TypeOK, Written, OneEach, NEW p \in Producers, PushAdvance(p)
  PROVE  OneEach'
<1>1. /\ push \in [Producers -> [pc : PushPc, ev : Field]]
      /\ buttonEventEnd \in Slots
  BY DEF TypeOK
<1>2. /\ buttonEventEnd' = (buttonEventEnd + 1) % MAX_BUTTON
      /\ unread' = unread + 1
      /\ UNCHANGED <<tickZero, buttonEventList>>
      /\ push' = [push EXCEPT ![p] = [pc |-> "idle", ev |-> Zeroed]]
      /\ push[p].pc = "advance"
  BY DEF PushAdvance
<1>3. buttonEventList[buttonEventEnd].by = p
      /\ buttonEventList[buttonEventEnd].base = push[p].ev.base
  BY <1>2 DEF Written
<1>4. ASSUME NEW s \in Slots, Leftover(s)'
      PROVE s = buttonEventEnd \/ Leftover(s)
  BY <1>2, <1>4, LiveUp DEF Leftover, Stale
<1>5. ASSUME NEW s \in Slots, s = buttonEventEnd, Leftover(s)' PROVE Late(p)
  BY <1>2, <1>3, <1>5 DEF Leftover, Stale, Late, Stamped
<1>6. ASSUME NEW q \in Producers, Late(q)' PROVE q # p /\ Late(q)
  BY <1>1, <1>2, <1>6 DEF Late, Stamped, Stale
<1>7. ASSUME NEW s \in Slots, Leftover(s)'
      PROVE /\ buttonEventList'[s].by \in Producers
            /\ \A q \in Producers : Late(q)' => buttonEventList'[s].by # q
            /\ \A t \in Slots : Leftover(t)' /\ buttonEventList'[t].by = buttonEventList'[s].by
                                  => s = t
  <2>1. CASE s = buttonEventEnd
    <3>1. buttonEventList'[s].by = p
      BY <1>2, <1>3, <2>1
    <3>2. ASSUME NEW t \in Slots, Leftover(t)', buttonEventList'[t].by = p PROVE s = t
      <4>1. Late(p)
        BY <1>5, <1>7, <2>1
      <4>2. t = buttonEventEnd \/ Leftover(t)
        BY <1>4, <3>2
      <4>3. ~Leftover(t)
        BY <1>2, <3>2, <4>1 DEF OneEach
      <4> QED
        BY <2>1, <4>2, <4>3
    <3> QED
      BY <1>6, <3>1, <3>2
  <2>2. CASE s # buttonEventEnd
    <3>1. Leftover(s)
      BY <1>4, <1>7, <2>2
    <3>2. /\ buttonEventList[s].by \in Producers
          /\ \A q \in Producers : Late(q) => buttonEventList[s].by # q
      BY <3>1 DEF OneEach
    <3>3. ASSUME NEW t \in Slots, Leftover(t)',
                 buttonEventList'[t].by = buttonEventList'[s].by
          PROVE s = t
      <4>1. CASE t = buttonEventEnd
        <5>1. Late(p) /\ buttonEventList[s].by = p
          BY <1>2, <1>3, <1>5, <3>3, <4>1
        <5> QED
          BY <3>2, <5>1
      <4>2. CASE t # buttonEventEnd
        <5>1. Leftover(t)
          BY <1>4, <3>3, <4>2
        <5> QED
          BY <1>2, <3>1, <3>3, <5>1 DEF OneEach
      <4> QED
        BY <4>1, <4>2
    <3> QED
      BY <1>2, <1>6, <3>2, <3>3
  <2> QED
    BY <2>1, <2>2
<1> QED
  BY <1>7 DEF OneEach

(* After every step each producer has at most one stale event in the list or
   on its way to it, as long as the list was cleared after the last move of
   tickZero. *)
LEMMA OriginsStep ==
  TypeOK /\ TypeOK' /\ Ownership /\ Copying /\ Accounting /\ Origins /\ [Next]_vars
    => Origins'
<1> SUFFICES ASSUME TypeOK, TypeOK', Ownership, Copying, Accounting, Origins, [Next]_vars
             PROVE Origins'
  OBVIOUS
<1>0. /\ push \in [Producers -> [pc : PushPc, ev : Field]]
      /\ buttonEventList \in [Slots -> Field]
      /\ buttonEventStart \in Slots /\ buttonEventEnd \in Slots
      /\ unread \in Int /\ unread >= 0
  BY DEF TypeOK, Accounting, NeverInvents
<1>k. ASSUME UNCHANGED <<tickZero, buttonEventList, buttonEventEnd, settled, luaPc>>,
             unread' <= unread,
             \A p \in Producers : Late(p)' => Late(p)
      PROVE  Origins'
  BY <1>k, OneEachKept DEF Origins
<1>s. ASSUME UNCHANGED push, UNCHANGED tickZero
      PROVE  \A p \in Producers : Late(p)' => Late(p)
  BY <1>s DEF Late, Stamped, Stale
<1>1. CASE Tick
  BY <1>0, <1>1, <1>k, <1>s DEF Tick, ringVars, luaVars
<1>2. ASSUME NEW p \in Producers, pushButtonEvent(p) PROVE Origins'
  <2>1. ASSUME NEW b \in Buttons, CallPush(p, b) PROVE Origins'
    <3>1. \A q \in Producers : Late(q)' => Late(q)
      BY <1>0, <2>1 DEF CallPush, Late, Stamped, Stale
    <3> QED
      BY <1>0, <2>1, <3>1, <1>k DEF CallPush, ringVars, luaVars
  <2>2. CASE Stamp(p)
    <3>1. \A q \in Producers : Late(q)' => Late(q)
      <4>1. push'[p].ev.base = tickZero
        BY <1>0, <2>2 DEF Stamp, Field
      <4> QED
        BY <1>0, <2>2, <4>1 DEF Stamp, Late, Stamped, Stale
    <3> QED
      BY <1>0, <2>2, <3>1, <1>k DEF Stamp, ringVars, luaVars
  <2>3. CASE PushLock(p)
    <3>1. \A q \in Producers : Late(q)' => Late(q)
      BY <1>0, <2>3 DEF PushLock, Late, Stamped, Stale
    <3> QED
      BY <1>0, <2>3, <3>1, <1>k DEF PushLock, ringVars, luaVars
  <2>4. CASE PushButton(p)
    <3>1. \A q \in Producers : Late(q)' => Late(q)
      BY <1>0, <2>4 DEF PushButton, Late, Stamped, Stale
    <3>2. \A s \in Slots \ {buttonEventEnd} : buttonEventList'[s] = buttonEventList[s]
      BY <1>0, <2>4 DEF PushButton
    <3> QED
      BY <2>4, <3>1, <3>2, OneEachFilling DEF PushButton, luaVars, Origins
  <2>5. CASE PushTime(p)
    <3>1. \A q \in Producers : Late(q)' => Late(q)
      BY <1>0, <2>5 DEF PushTime, Late, Stamped, Stale
    <3>2. \A s \in Slots \ {buttonEventEnd} : buttonEventList'[s] = buttonEventList[s]
      BY <1>0, <2>5 DEF PushTime
    <3> QED
      BY <2>5, <3>1, <3>2, OneEachFilling DEF PushTime, luaVars, Origins
  <2>6. CASE PushAdvance(p)
    BY <2>6, OneEachPushed DEF PushAdvance, luaVars, Origins, Copying
  <2> QED
    BY <1>2, <2>1, <2>2, <2>3, <2>4, <2>5, <2>6 DEF pushButtonEvent
<1>3. CASE GetNothing
  BY <1>0, <1>3, <1>k, <1>s DEF GetNothing, ringVars
<1>g. ASSUME UNCHANGED <<tickZero, buttonEventList, buttonEventEnd, settled, push>>,
             unread' <= unread, luaPc' # "rebase"
      PROVE  Origins'
  BY <1>g, <1>s, OneEachKept DEF Origins
<1>4. CASE GetSomething
  BY <1>0, <1>4, <1>g DEF GetSomething, ringVars
<1>5. CASE GetLock
  BY <1>0, <1>5, <1>g DEF GetLock, ringVars
<1>6. CASE GetButton
  BY <1>0, <1>6, <1>g DEF GetButton, ringVars
<1>7. CASE GetTime
  BY <1>0, <1>7, <1>g DEF GetTime, ringVars
<1>8. CASE GetAdvance
  BY <1>0, <1>8, <1>g DEF GetAdvance
<1>9. CASE luaClearButtonEvents
  <2>1. ASSUME NEW s \in Slots PROVE ~Live(s)'
    BY <1>9, ConstantFacts DEF luaClearButtonEvents, Live, Age, Slots
  <2>2. OneEach'
    BY <2>1 DEF OneEach, Leftover
  <2> QED
    BY <1>9, <2>2 DEF luaClearButtonEvents, luaVars, Origins
<1>10. CASE RebaseZero
  BY <1>10 DEF RebaseZero, Origins
<1>11. CASE RebaseNow
  BY <1>11 DEF RebaseNow, Origins
<1>12. CASE TicksOff
  BY <1>12 DEF TicksOff, luaVars, Origins
<1>13. CASE UNCHANGED vars
  BY <1>0, <1>13, <1>k, <1>s DEF vars, ringVars
<1> QED
  BY <1>1, <1>2, <1>3, <1>4, <1>5, <1>6, <1>7, <1>8, <1>9, <1>10, <1>11, <1>12, <1>13
     DEF Next, LuaStep, luaGetButtonEvent, luaGetTime

(* What the indices show was written since the clear, in as many different
   slots. *)
LEMMA Visible ==
  ASSUME TypeOK, Accounting, NEW i \in 1 .. Count
  PROVE  /\ SlotOf(i) \in Slots
         /\ Live(SlotOf(i))
         /\ \A j \in 1 .. Count : SlotOf(i) = SlotOf(j) => i = j
<1> USE ConstantFacts
<1>1. /\ unread \in Int /\ unread >= 0
      /\ buttonEventStart \in Slots /\ buttonEventEnd \in Slots
      /\ unread % MAX_BUTTON = Count
  BY DEF TypeOK, Accounting, NeverInvents, LossIsWholeRings
<1>2. Count \in 0 .. MAX_BUTTON - 1
  BY <1>1 DEF Count, Slots
<1>3. Count <= unread
  <2>1. CASE unread < MAX_BUTTON
    BY <1>1, <2>1, ModSmall
  <2>2. CASE unread >= MAX_BUTTON
    BY <1>1, <1>2, <2>2
  <2> QED
    BY <1>1, <2>1, <2>2
<1>4. SlotOf(i) \in Slots /\ SlotOf(i) # buttonEventEnd
  BY <1>1, <1>2 DEF SlotOf, Slots, Count
<1>5. Age(SlotOf(i)) = Count - i + 1
  BY <1>1, <1>2 DEF Age, SlotOf, Slots, Count
<1>6. Live(SlotOf(i))
  BY <1>1, <1>2, <1>3, <1>4, <1>5 DEF Live
<1>7. ASSUME NEW j \in 1 .. Count, SlotOf(i) = SlotOf(j) PROVE i = j
  BY <1>1, <1>2, <1>7 DEF SlotOf, Slots, Count
<1> QED
  BY <1>4, <1>6, <1>7

(* After the tick origin was moved and the list cleared, at most one stale
   event per producer can still reach the script, whatever the number of
   producers and the size of the ring, overruns included. *)
THEOREM StaleFew == Spec => []StaleBounded
<1>1. Init => Origins
  BY ConstantFacts, QueueAssumption
     DEF Init, Origins, OneEach, Leftover, Live, Age, Slots
<1>2. TypeOK /\ Accounting /\ Origins => StaleBounded
  <2> SUFFICES ASSUME TypeOK, Accounting, Origins, settled
               PROVE Cardinality({i \in 1 .. Count : Stale(Unread[i])})
                       + Cardinality({p \in Producers : Late(p)})
                     <= Cardinality(Producers)
    BY DEF StaleBounded, Late
  <2> DEFINE S == {i \in 1 .. Count : Stale(Unread[i])}
             L == {p \in Producers : Late(p)}
             T == Producers \ L
             f == [i \in S |-> Unread[i].by]
  <2>1. Count \in Int
    BY ConstantFacts DEF Count, TypeOK, Slots
  <2>2. IsFiniteSet(S) /\ Cardinality(S) \in Nat
    <3>1. IsFiniteSet(1 .. Count)
      BY <2>1, FS_Interval
    <3>2. S \in SUBSET (1 .. Count)
      OBVIOUS
    <3>3. IsFiniteSet(S)
      BY <3>1, <3>2, FS_Subset
    <3> QED
      BY <3>3, FS_CardinalityType
  <2>3. /\ IsFiniteSet(T) /\ Cardinality(T) \in Nat
        /\ Cardinality(L) \in Nat /\ Cardinality(Producers) \in Nat
        /\ Cardinality(T) = Cardinality(Producers) - Cardinality(L)
    <3>1. IsFiniteSet(Producers)
      BY QueueAssumption
    <3>2. L \in SUBSET Producers /\ Producers \cap L = L
      OBVIOUS
    <3>3. IsFiniteSet(L)
      BY <3>1, <3>2, FS_Subset
    <3>4. IsFiniteSet(T) /\ Cardinality(T) = Cardinality(Producers) - Cardinality(L)
      BY <3>1, <3>2, FS_Difference
    <3> QED
      BY <3>1, <3>3, <3>4, FS_CardinalityType
  <2>4. ASSUME NEW i \in S
        PROVE  /\ SlotOf(i) \in Slots
               /\ Unread[i] = buttonEventList[SlotOf(i)]
               /\ Leftover(SlotOf(i))
               /\ \A j \in 1 .. Count : SlotOf(i) = SlotOf(j) => i = j
    <3>1. Unread[i] = buttonEventList[SlotOf(i)] /\ Stale(Unread[i])
      BY DEF Unread
    <3> QED
      BY <3>1, Visible DEF Leftover
  <2>5. OneEach
    BY DEF Origins
  <2>6. f \in [S -> T]
    <3>1. ASSUME NEW i \in S PROVE Unread[i].by \in T
      BY <2>4, <2>5 DEF OneEach
    <3> QED
      BY <3>1
  <2>7. ASSUME NEW i \in S, NEW j \in S, f[i] = f[j] PROVE i = j
    <3>1. buttonEventList[SlotOf(i)].by = buttonEventList[SlotOf(j)].by
      BY <2>4, <2>7
    <3>2. SlotOf(i) = SlotOf(j)
      BY <2>4, <2>5, <3>1 DEF OneEach
    <3> QED
      BY <2>4, <3>2
  <2> HIDE DEF S, T, L, f
  <2>8. ~(Cardinality(T) < Cardinality(S))
    BY <2>2, <2>3, <2>6, <2>7, FS_PigeonHole
  <2>9. Cardinality(S) + Cardinality(L) <= Cardinality(Producers)
    BY <2>2, <2>3, <2>8
  <2> QED
    BY <2>9 DEF S, L
<1>3. Init => Ownership
  BY QueueAssumption DEF Init, Ownership, Pushing, Popping
<1> QED
  BY <1>1, <1>2, <1>3, CopyingInit, AccountingInit, TypeCorrect, OwnershipStep,
     CopyingStep, AccountingStep, OriginsStep, PTL DEF Spec
--------------------------------------------------------------------------------
(***************************************************************************)
(* The list implements the queue of EventFifo while it cannot be overrun,  *)
(* that is, while fewer events than the ring has slots are unread or on    *)
(* their way.  CallPush keeps that bound, Room; under it the indices show  *)
(* exactly the unread events.                                              *)
(***************************************************************************)
Busy == {q \in Producers : push[q].pc # "idle"}
Room == unread + Cardinality(Busy) <= MaxUnread

LEMMA BusyFinite == IsFiniteSet(Busy) /\ Cardinality(Busy) \in Nat
<1>1. IsFiniteSet(Producers) /\ Busy \in SUBSET Producers
  BY QueueAssumption DEF Busy
<1>2. IsFiniteSet(Busy)
  BY <1>1, FS_Subset
<1> QED
  BY <1>2, FS_CardinalityType

(* No step makes room for more events than MaxUnread. *)
LEMMA RoomStep == TypeOK /\ Accounting /\ Room /\ [Next]_vars => Room'
<1> SUFFICES ASSUME TypeOK, Accounting, Room, [Next]_vars PROVE Room'
  OBVIOUS
<1>0. /\ push \in [Producers -> [pc : PushPc, ev : Field]]
      /\ unread \in Int /\ unread >= 0 /\ MaxUnread \in Nat
      /\ unread + Cardinality(Busy) <= MaxUnread
  BY QueueAssumption DEF TypeOK, Accounting, NeverInvents, Room
<1>k. ASSUME Busy' = Busy, unread' \in Int, unread' <= unread PROVE Room'
  BY <1>0, <1>k, BusyFinite DEF Room
<1>s. ASSUME UNCHANGED push PROVE Busy' = Busy
  BY <1>s DEF Busy
<1>1. CASE Tick
  BY <1>0, <1>1, <1>k, <1>s DEF Tick
<1>2. ASSUME NEW p \in Producers, pushButtonEvent(p) PROVE Room'
  <2>1. ASSUME NEW b \in Buttons, CallPush(p, b) PROVE Room'
    <3>1. Busy' = Busy \cup {p} /\ p \notin Busy
      BY <1>0, <2>1 DEF CallPush, Busy
    <3>2. Cardinality(Busy') = Cardinality(Busy) + 1
      BY <3>1, BusyFinite, FS_AddElement
    <3>3. unread' = unread /\ unread + Cardinality(Busy) < MaxUnread
      BY <2>1 DEF CallPush, Busy
    <3> QED
      BY <1>0, <3>2, <3>3, BusyFinite DEF Room
  <2>2. CASE Stamp(p)
    <3>1. Busy' = Busy
      BY <1>0, <2>2 DEF Stamp, Busy
    <3> QED
      BY <1>0, <2>2, <3>1, <1>k DEF Stamp
  <2>3. CASE PushLock(p)
    <3>1. Busy' = Busy
      BY <1>0, <2>3 DEF PushLock, Busy
    <3> QED
      BY <1>0, <2>3, <3>1, <1>k DEF PushLock
  <2>4. CASE PushButton(p)
    <3>1. Busy' = Busy
      BY <1>0, <2>4 DEF PushButton, Busy
    <3> QED
      BY <1>0, <2>4, <3>1, <1>k DEF PushButton
  <2>5. CASE PushTime(p)
    <3>1. Busy' = Busy
      BY <1>0, <2>5 DEF PushTime, Busy
    <3> QED
      BY <1>0, <2>5, <3>1, <1>k DEF PushTime
  <2>6. CASE PushAdvance(p)
    <3>1. Busy' = Busy \ {p} /\ p \in Busy
      BY <1>0, <2>6 DEF PushAdvance, Busy
    <3>2. Cardinality(Busy') = Cardinality(Busy) - 1
      BY <3>1, BusyFinite, FS_RemoveElement
    <3> QED
      BY <1>0, <2>6, <3>2, BusyFinite DEF Room, PushAdvance
  <2> QED
    BY <1>2, <2>1, <2>2, <2>3, <2>4, <2>5, <2>6 DEF pushButtonEvent
<1>3. CASE GetNothing
  BY <1>0, <1>3, <1>k, <1>s DEF GetNothing
<1>4. CASE GetSomething
  BY <1>0, <1>4, <1>k, <1>s DEF GetSomething
<1>5. CASE GetLock
  BY <1>0, <1>5, <1>k, <1>s DEF GetLock
<1>6. CASE GetButton
  BY <1>0, <1>6, <1>k, <1>s DEF GetButton
<1>7. CASE GetTime
  BY <1>0, <1>7, <1>k, <1>s DEF GetTime
<1>8. CASE GetAdvance
  BY <1>0, <1>8, <1>k, <1>s DEF GetAdvance
<1>9. CASE luaClearButtonEvents
  BY <1>0, <1>9, <1>k, <1>s DEF luaClearButtonEvents
<1>10. CASE RebaseZero
  BY <1>0, <1>10, <1>k, <1>s DEF RebaseZero
<1>11. CASE RebaseNow
  BY <1>0, <1>11, <1>k, <1>s DEF RebaseNow
<1>12. CASE TicksOff
  BY <1>0, <1>12, <1>k, <1>s DEF TicksOff
<1>13. CASE UNCHANGED vars
  BY <1>0, <1>13, <1>k, <1>s DEF vars
<1> QED
  BY <1>1, <1>2, <1>3, <1>4, <1>5, <1>6, <1>7, <1>8, <1>9, <1>10, <1>11, <1>12, <1>13
     DEF Next, LuaStep, luaGetButtonEvent, luaGetTime

(* Without an overrun as many events are shown as are unread, and a thread
   about to push finds a free slot. *)
LEMMA AllShown ==
  ASSUME TypeOK, Accounting, Room, MaxUnread < MAX_BUTTON
  PROVE  /\ Count = unread
         /\ Count \in 0 .. MAX_BUTTON - 1
         /\ \A p \in Producers : push[p].pc # "idle" => Count < MAX_BUTTON - 1
<1> USE ConstantFacts
<1>1. unread \in Int /\ unread >= 0 /\ MaxUnread \in Nat
  BY QueueAssumption DEF TypeOK, Accounting, NeverInvents
<1>2. unread \in 0 .. MAX_BUTTON - 1
  BY <1>1, BusyFinite DEF Room
<1>3. Count = unread
  BY <1>2, ModSmall DEF Accounting, LossIsWholeRings
<1>4. ASSUME NEW p \in Producers, push[p].pc # "idle" PROVE Count < MAX_BUTTON - 1
  <2>1. p \in Busy
    BY <1>4 DEF Busy
  <2>2. Cardinality(Busy) # 0
    BY <2>1, BusyFinite, FS_EmptySet
  <2> QED
    BY <1>1, <1>3, <2>2, BusyFinite DEF Room
<1> QED
  BY <1>2, <1>3, <1>4

(* What the indices show is a sequence of events. *)
LEMMA UnreadSeq ==
  ASSUME TypeOK
  PROVE  /\ Count \in 0 .. MAX_BUTTON - 1
         /\ \A i \in 1 .. Count : SlotOf(i) \in Slots /\ SlotOf(i) # buttonEventEnd
         /\ Unread \in Seq(Field)
         /\ Len(Unread) = Count
         /\ \A i \in 1 .. Count : Unread[i] = buttonEventList[SlotOf(i)]
<1> USE ConstantFacts
<1>1. /\ buttonEventStart \in Slots /\ buttonEventEnd \in Slots
      /\ buttonEventList \in [Slots -> Field]
  BY DEF TypeOK
<1>2. Count \in 0 .. MAX_BUTTON - 1
  BY <1>1 DEF Count, Slots
<1>3. ASSUME NEW i \in 1 .. Count PROVE SlotOf(i) \in Slots /\ SlotOf(i) # buttonEventEnd
  BY <1>1, <1>2 DEF SlotOf, Slots, Count
<1>4. Unread \in [1 .. Count -> Field]
  BY <1>1, <1>3 DEF Unread
<1>5. Unread \in Seq(Field) /\ Len(Unread) = Count
  BY <1>2, <1>4
<1> QED
  BY <1>2, <1>3, <1>5 DEF Unread

(* The end index moving on appends the slot it has left. *)
LEMMA ShownPush ==
  ASSUME TypeOK, TypeOK', Count < MAX_BUTTON - 1,
         buttonEventEnd' = (buttonEventEnd + 1) % MAX_BUTTON,
         UNCHANGED <<buttonEventStart, buttonEventList>>
  PROVE  Unread' = Append(Unread, buttonEventList[buttonEventEnd])
<1> USE ConstantFacts
<1>1. buttonEventStart \in Slots /\ buttonEventEnd \in Slots
  BY DEF TypeOK
<1>2. buttonEventEnd' = IF buttonEventEnd = MAX_BUTTON - 1 THEN 0 ELSE buttonEventEnd + 1
  BY <1>1, IndexInc DEF Slots
<1>3. Count' = Count + 1
  <2>1. CASE buttonEventEnd = MAX_BUTTON - 1
    BY <1>1, <1>2, <2>1 DEF Count, Slots
  <2>2. CASE buttonEventEnd # MAX_BUTTON - 1
    <3>1. buttonEventEnd' = buttonEventEnd + 1
      BY <1>2, <2>2
    <3> QED
      BY <1>1, <3>1 DEF Count, Slots
  <2> QED
    BY <2>1, <2>2
<1>4. SlotOf(Count + 1) = buttonEventEnd
  BY <1>1 DEF SlotOf, Count, Slots
<1>5. ASSUME NEW i \in Int PROVE SlotOf(i)' = SlotOf(i)
  BY DEF SlotOf
<1>6. /\ Count \in Nat /\ Unread \in Seq(Field) /\ Len(Unread) = Count
      /\ \A i \in 1 .. Count : Unread[i] = buttonEventList[SlotOf(i)]
      /\ buttonEventList[buttonEventEnd] \in Field
  <2>1. buttonEventList[buttonEventEnd] \in Field
    BY DEF TypeOK
  <2> QED
    BY <2>1, UnreadSeq
<1>7. Unread' = [i \in 1 .. Count + 1 |-> buttonEventList[SlotOf(i)]]
  BY <1>3, <1>5, <1>6 DEF Unread
<1>8. ASSUME NEW i \in 1 .. Count + 1
      PROVE buttonEventList[SlotOf(i)] = Append(Unread, buttonEventList[buttonEventEnd])[i]
  BY <1>4, <1>6, AppendProperties
<1> QED
  BY <1>6, <1>7, <1>8, AppendProperties

(* The start index moving on takes the head away. *)
LEMMA ShownPop ==
  ASSUME TypeOK, TypeOK', Count >= 1,
         buttonEventStart' = (buttonEventStart + 1) % MAX_BUTTON,
         UNCHANGED <<buttonEventEnd, buttonEventList>>
  PROVE  /\ Unread # <<>>
         /\ Head(Unread) = buttonEventList[buttonEventStart]
         /\ Unread' = Tail(Unread)
<1> USE ConstantFacts
<1>1. buttonEventStart \in Slots /\ buttonEventEnd \in Slots
  BY DEF TypeOK
<1>2. buttonEventStart' = IF buttonEventStart = MAX_BUTTON - 1
                          THEN 0 ELSE buttonEventStart + 1
  BY <1>1, IndexInc DEF Slots
<1>3. Count' = Count - 1
  BY <1>1, <1>2 DEF Count, Slots
<1>4. SlotOf(1) = buttonEventStart
  BY <1>1 DEF SlotOf, Slots
<1>5. /\ Count \in Nat /\ Unread \in Seq(Field) /\ Len(Unread) = Count
      /\ Count \in 0 .. MAX_BUTTON - 1
      /\ \A i \in 1 .. Count : Unread[i] = buttonEventList[SlotOf(i)]
  BY UnreadSeq
<1>6. ASSUME NEW i \in 1 .. Count - 1 PROVE SlotOf(i)' = SlotOf(i + 1)
  <2>1. i \in Int
    OBVIOUS
  <2>2. CASE buttonEventStart = MAX_BUTTON - 1
    BY <1>1, <1>2, <1>5, <2>1, <2>2 DEF SlotOf, Slots
  <2>3. CASE buttonEventStart # MAX_BUTTON - 1
    <3>1. buttonEventStart' = buttonEventStart + 1
      BY <1>2, <2>3
    <3> QED
      BY <1>1, <1>5, <2>1, <3>1 DEF SlotOf, Slots
  <2> QED
    BY <2>2, <2>3
<1>7. Unread # <<>> /\ Head(Unread) = Unread[1]
  BY <1>5, HeadTailProperties, EmptySeq
<1>8. /\ Tail(Unread) \in Seq(Field) /\ Len(Tail(Unread)) = Count - 1
      /\ \A i \in 1 .. Count - 1 : Tail(Unread)[i] = Unread[i + 1]
  BY <1>5, <1>7, HeadTailProperties
<1>9. Unread' = [i \in 1 .. Count - 1 |-> buttonEventList[SlotOf(i + 1)]]
  BY <1>3, <1>6 DEF Unread
<1>10. ASSUME NEW i \in 1 .. Count - 1
       PROVE buttonEventList[SlotOf(i + 1)] = Tail(Unread)[i]
  BY <1>5, <1>8
<1>11. Unread' = Tail(Unread)
  <2>1. Tail(Unread) = [i \in 1 .. Count - 1 |-> Tail(Unread)[i]]
    BY <1>8, LenProperties
  <2> QED
    BY <1>9, <1>10, <2>1
<1> QED
  BY <1>4, <1>5, <1>7, <1>11

(* A step that moves no index and writes no shown slot leaves the queue as
   it is. *)
LEMMA ShownSame ==
  ASSUME TypeOK, UNCHANGED <<buttonEventStart, buttonEventEnd>>,
         \A s \in Slots \ {buttonEventEnd} : buttonEventList'[s] = buttonEventList[s]
  PROVE  Unread' = Unread
<1>1. Count' = Count /\ \A i \in 1 .. Count : SlotOf(i)' = SlotOf(i)
  BY DEF Count, SlotOf
<1>2. \A i \in 1 .. Count : SlotOf(i) \in Slots \ {buttonEventEnd}
  BY UnreadSeq
<1>3. \A i \in 1 .. Count : buttonEventList'[SlotOf(i)] = buttonEventList[SlotOf(i)]
  BY <1>2
<1>4. Unread' = [i \in 1 .. Count |-> buttonEventList'[SlotOf(i)]]
  BY <1>1 DEF Unread
<1> QED
  BY <1>3, <1>4 DEF Unread

(* Every step of the threads is a step of the queue, or none of it. *)
LEMMA FifoStep ==
  ASSUME MaxUnread < MAX_BUTTON, TypeOK, TypeOK', Ownership, Accounting, Copying, Room,
         [Next]_vars
  PROVE  [Fifo!Next]_<<Unread, luaEvent>>
<1>0. /\ push \in [Producers -> [pc : PushPc, ev : Field]]
      /\ buttonEventList \in [Slots -> Field]
      /\ buttonEventStart \in Slots /\ buttonEventEnd \in Slots
      /\ luaRead \in Field
  BY DEF TypeOK
<1>s. ASSUME UNCHANGED <<ringVars, luaEvent>> PROVE UNCHANGED <<Unread, luaEvent>>
  BY <1>s, ShownSame DEF ringVars
<1>1. CASE Tick
  BY <1>1, <1>s DEF Tick, luaVars
<1>2. ASSUME NEW p \in Producers, pushButtonEvent(p)
      PROVE  [Fifo!Next]_<<Unread, luaEvent>>
  <2>1. ASSUME NEW b \in Buttons, CallPush(p, b) PROVE UNCHANGED <<Unread, luaEvent>>
    BY <2>1, <1>s DEF CallPush, luaVars
  <2>2. CASE Stamp(p)
    BY <2>2, <1>s DEF Stamp, luaVars
  <2>3. CASE PushLock(p)
    BY <2>3, <1>s DEF PushLock, luaVars
  <2>4. CASE PushButton(p)
    <3>1. \A s \in Slots \ {buttonEventEnd} : buttonEventList'[s] = buttonEventList[s]
      BY <1>0, <2>4 DEF PushButton
    <3> QED
      BY <2>4, <3>1, ShownSame DEF PushButton, luaVars
  <2>5. CASE PushTime(p)
    <3>1. \A s \in Slots \ {buttonEventEnd} : buttonEventList'[s] = buttonEventList[s]
      BY <1>0, <2>5 DEF PushTime
    <3> QED
      BY <2>5, <3>1, ShownSame DEF PushTime, luaVars
  <2>6. CASE PushAdvance(p)
    <3> DEFINE e == buttonEventList[buttonEventEnd]
    <3>1. push[p].pc = "advance" /\ push[p].ev \in Field
      BY <1>0, <2>6 DEF PushAdvance
    <3>2. e = push[p].ev /\ push[p].ev.by = p
      <4>1. e \in Field
        BY <1>0
      <4>2. /\ e.button = push[p].ev.button /\ e.time = push[p].ev.time
            /\ e.by = push[p].ev.by /\ e.base = push[p].ev.base
            /\ push[p].ev.by = p
        BY <3>1 DEF Copying, Written
      <4> HIDE DEF e
      <4> QED
        BY <3>1, <4>1, <4>2, SameFields
    <3>3. e \in Event
      BY <3>1, <3>2 DEF Field, Event
    <3>4. Count < MAX_BUTTON - 1
      BY <3>1, AllShown
    <3>5. Unread' = Append(Unread, e) /\ luaEvent' = luaEvent
      BY <2>6, <3>4, ShownPush DEF PushAdvance, luaVars
    <3> HIDE DEF e
    <3>6. /\ Unread' # <<>>
          /\ Unread'[Len(Unread')] = e
      <4>1. Unread \in Seq(Field) /\ Event \subseteq Field
        BY UnreadSeq DEF Event, Field
      <4> QED
        BY <3>3, <3>5, <4>1, AppendProperties
    <3>7. Fifo!Push
      BY <3>3, <3>5, <3>6 DEF Fifo!Push
    <3> QED
      BY <3>7 DEF Fifo!Next
  <2> QED
    BY <1>2, <2>1, <2>2, <2>3, <2>4, <2>5, <2>6 DEF pushButtonEvent
<1>3. CASE GetNothing
  <2>1. Unread' = Unread
    BY <1>3, ShownSame DEF GetNothing, ringVars
  <2>2. Unread = <<>>
    <3>1. Count = 0
      BY <1>0, <1>3, ConstantFacts DEF GetNothing, Count, Slots
    <3> QED
      BY <3>1, UnreadSeq, EmptySeq
  <2>3. Fifo!TakeNothing
    BY <1>3, <2>1, <2>2 DEF GetNothing, Fifo!TakeNothing
  <2> QED
    BY <2>3 DEF Fifo!Next
<1>4. CASE GetSomething
  BY <1>4, <1>s DEF GetSomething
<1>5. CASE GetLock
  BY <1>5, <1>s DEF GetLock
<1>6. CASE GetButton
  BY <1>6, <1>s DEF GetButton
<1>7. CASE GetTime
  BY <1>7, <1>s DEF GetTime
<1>8. CASE GetAdvance
  <2>1. luaRead = buttonEventList[buttonEventStart]
    <3>1. buttonEventList[buttonEventStart] \in Field
      BY <1>0
    <3>2. /\ luaRead.button = buttonEventList[buttonEventStart].button
          /\ luaRead.time = buttonEventList[buttonEventStart].time
          /\ luaRead.by = buttonEventList[buttonEventStart].by
          /\ luaRead.base = buttonEventList[buttonEventStart].base
      BY <1>8 DEF GetAdvance, Copying, Fetched
    <3> QED
      BY <1>0, <3>1, <3>2, SameFields
  <2>2. Count >= 1
    BY <1>8, AllShown DEF GetAdvance, Accounting, NeverInvents
  <2>3. /\ Unread # <<>>
        /\ Head(Unread) = buttonEventList[buttonEventStart]
        /\ Unread' = Tail(Unread)
    BY <1>8, <2>2, ShownPop DEF GetAdvance
  <2>4. Fifo!Take
    BY <1>8, <2>1, <2>3 DEF GetAdvance, Fifo!Take
  <2> QED
    BY <2>4 DEF Fifo!Next
<1>9. CASE luaClearButtonEvents
  <2>1. Count' = 0
    BY <1>9, ConstantFacts DEF luaClearButtonEvents, Count
  <2>2. Unread' = <<>>
    BY <2>1 DEF Unread
  <2>3. Fifo!Clear
    BY <1>9, <2>2 DEF luaClearButtonEvents, luaVars, Fifo!Clear
  <2> QED
    BY <2>3 DEF Fifo!Next
<1>10. CASE RebaseZero
  BY <1>10, <1>s DEF RebaseZero
<1>11. CASE RebaseNow
  BY <1>11, <1>s DEF RebaseNow
<1>12. CASE TicksOff
  BY <1>12, <1>s DEF TicksOff, luaVars
<1>13. CASE UNCHANGED vars
  BY <1>13, <1>s DEF vars, ringVars, luaVars
<1> QED
  BY <1>1, <1>2, <1>3, <1>4, <1>5, <1>6, <1>7, <1>8, <1>9, <1>10, <1>11, <1>12, <1>13
     DEF Next, LuaStep, luaGetButtonEvent, luaGetTime

(* The event list is a first-in first-out queue of whole events as long as it
   cannot be overrun: the script is given the events in the order in which
   they were pushed, each once and none half written, and is told that there
   is none only when there is none. *)
THEOREM ListIsFifo ==
  ASSUME MaxUnread < MAX_BUTTON
  PROVE  Spec => FifoSpec
<1>1. Init => Ownership
  BY QueueAssumption DEF Init, Ownership, Pushing, Popping
<1>2. Init => Room
  <2> SUFFICES ASSUME Init PROVE Room
    OBVIOUS
  <2>1. Busy = {}
    BY DEF Init, Busy
  <2>2. unread = 0 /\ Cardinality(Busy) = 0
    BY <2>1, FS_EmptySet DEF Init
  <2> QED
    BY <2>2, QueueAssumption DEF Room
<1>3. Init => Fifo!Init
  <2> SUFFICES ASSUME Init PROVE Fifo!Init
    OBVIOUS
  <2>1. Count = 0 /\ luaEvent = NoEvent
    BY ConstantFacts DEF Init, Count
  <2>2. Unread = <<>>
    BY <2>1 DEF Unread
  <2> QED
    BY <2>1, <2>2 DEF Fifo!Init
<1>4. TypeOK /\ TypeOK' /\ Ownership /\ Accounting /\ Copying /\ Room /\ [Next]_vars
        => [Fifo!Next]_<<Unread, luaEvent>>
  BY FifoStep
<1> QED
  BY <1>1, <1>2, <1>3, <1>4, CopyingInit, AccountingInit, TypeCorrect, OwnershipStep,
     CopyingStep, AccountingStep, RoomStep, PTL DEF Spec, FifoSpec, Fifo!Spec
================================================================================

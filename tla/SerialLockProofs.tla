-------------------------- MODULE SerialLockProofs --------------------------
(***************************************************************************)
(* Theorems about the lock files of the serial ports, for any number of    *)
(* processes, tries and descriptors, and any crashes.                      *)
(***************************************************************************)
EXTENDS SerialLock, TLAPS

\* The processes that rely on the lock file: it is theirs to have or to remove.
Owns(p) == pc[p] \in {"dev", "unlock"} \/ fds[p] > 0

\* A call of openSerialPort has room for one more descriptor.
Room == \A p \in Procs : pc[p] \in Opening => fds[p] < MaxFds

\* A second descriptor is noted when the call begins.
Noted == \A p \in Procs : /\ pc[p] # "idle" /\ fds[p] > 0 => p \in twice
                          /\ fds[p] > 1 => p \in twice

\* A process that has died has nothing open and is in no call.
DeadClosed == \A p \in Procs \ alive : fds[p] = 0 /\ pc[p] = "idle"

\* The lock file of a process that relies on it is there, but for the histories.
LockKept == \A p \in alive : Owns(p) => lock = p \/ p \in robbed \cup twice

\* A live process that has the lock file relies on it.
LockKnown == \A p \in alive : lock = p => Owns(p)

\* The temporary file of a live process is that of its call.
TmpKnown == \A p \in alive : p \in tmp => pc[p] \in Opening

IInv == /\ TypeOK /\ Room
        /\ Noted /\ DeadClosed /\ LockKept
        /\ LockKnown /\ TmpKnown

LEMMA InvInit == Init => IInv
<1> SUFFICES ASSUME Init PROVE IInv
  OBVIOUS
<1>1. TypeOK /\ Room
  BY TriesAssumption, FdsAssumption DEF Init, TypeOK, Room, Files, Steps, Opening
<1>2. Noted /\ DeadClosed /\ TmpKnown
  BY DEF Init, Noted, DeadClosed, TmpKnown, Opening
<1>3. LockKept /\ LockKnown
  BY PidAssumption, FileAssumption DEF Init, LockKept, LockKnown, Owns
<1> QED
  BY <1>1, <1>2, <1>3 DEF IInv

(* The types and the room for one more descriptor. *)
LEMMA TypeStep == TypeOK /\ Room /\ [Next]_vars => TypeOK' /\ Room'
<1> SUFFICES ASSUME TypeOK, Room, [Next]_vars PROVE TypeOK' /\ Room'
  OBVIOUS
<1> USE TriesAssumption, FdsAssumption
<1> USE DEF TypeOK, Room, Files, Steps, Opening, At, Goto
<1>1. ASSUME NEW p \in Procs, Open(p) PROVE TypeOK' /\ Room'
  BY <1>1 DEF Open
<1>2. ASSUME NEW p \in Procs, Close(p) PROVE TypeOK' /\ Room'
  BY <1>2 DEF Close
<1>3. ASSUME NEW p \in Procs, Link(p) PROVE TypeOK' /\ Room'
  BY <1>3 DEF Link, Return, Forget
<1>4. ASSUME NEW p \in Procs, ReadLock(p) PROVE TypeOK' /\ Room'
  BY <1>4 DEF ReadLock, Return, Forget
<1>5. ASSUME NEW p \in Procs, Probe(p) PROVE TypeOK' /\ Room'
  BY <1>5 DEF Probe, Retry, Return, Forget
<1>6. ASSUME NEW p \in Procs, Steal(p) PROVE TypeOK' /\ Room'
  <2>1. CASE Unlink(p) /\ Retry(p)
    BY <1>6, <2>1 DEF Steal, Retry, Return, Forget, Unlink
  <2>2. CASE Return(p) /\ UNCHANGED <<lock, robbed>>
    BY <1>6, <2>2 DEF Steal, Return, Forget
  <2>3. CASE Retry(p) /\ UNCHANGED <<lock, robbed>>
    BY <1>6, <2>3 DEF Steal, Retry, Return, Forget
  <2> QED
    BY <1>6, <2>1, <2>2, <2>3 DEF Steal
<1>7. ASSUME NEW p \in Procs, OpenDevice(p) PROVE TypeOK' /\ Room'
  BY <1>7 DEF OpenDevice, Return, Forget, Unlink
<1>8. ASSUME NEW p \in Procs, Unlock(p) PROVE TypeOK' /\ Room'
  BY <1>8 DEF Unlock, Unlink
<1>9. ASSUME NEW p \in Procs, Crash(p) PROVE TypeOK' /\ Room'
  BY <1>9 DEF Crash, Forget
<1>10. CASE UNCHANGED vars
  BY <1>10 DEF vars
<1> QED
  BY <1>1, <1>2, <1>3, <1>4, <1>5, <1>6, <1>7, <1>8, <1>9, <1>10 DEF Next, Step

(* The descriptors, the calls and the temporary files. *)
LEMMA CallStep == IInv /\ [Next]_vars => Noted' /\ DeadClosed' /\ TmpKnown'
<1> SUFFICES ASSUME IInv, [Next]_vars PROVE Noted' /\ DeadClosed' /\ TmpKnown'
  OBVIOUS
<1> USE FdsAssumption DEF IInv, TypeOK, Steps, Opening, At, Goto, Noted, DeadClosed,
                          TmpKnown
<1>1. ASSUME NEW p \in Procs, Open(p) PROVE Noted' /\ DeadClosed' /\ TmpKnown'
  BY <1>1 DEF Open
<1>2. ASSUME NEW p \in Procs, Close(p) PROVE Noted' /\ DeadClosed' /\ TmpKnown'
  BY <1>2 DEF Close
<1>3. ASSUME NEW p \in Procs, Link(p) PROVE Noted' /\ DeadClosed' /\ TmpKnown'
  BY <1>3 DEF Link, Return, Forget
<1>4. ASSUME NEW p \in Procs, ReadLock(p) PROVE Noted' /\ DeadClosed' /\ TmpKnown'
  BY <1>4 DEF ReadLock, Return, Forget
<1>5. ASSUME NEW p \in Procs, Probe(p) PROVE Noted' /\ DeadClosed' /\ TmpKnown'
  BY <1>5 DEF Probe, Retry, Return, Forget
<1>6. ASSUME NEW p \in Procs, Steal(p) PROVE Noted' /\ DeadClosed' /\ TmpKnown'
  BY <1>6 DEF Steal, Retry, Return, Forget
<1>7. ASSUME NEW p \in Procs, OpenDevice(p) PROVE Noted' /\ DeadClosed' /\ TmpKnown'
  BY <1>7 DEF OpenDevice, Return, Forget
<1>8. ASSUME NEW p \in Procs, Unlock(p) PROVE Noted' /\ DeadClosed' /\ TmpKnown'
  BY <1>8 DEF Unlock
<1>9. ASSUME NEW p \in Procs, Crash(p) PROVE Noted' /\ DeadClosed' /\ TmpKnown'
  BY <1>9 DEF Crash, Forget
<1>10. CASE UNCHANGED vars
  BY <1>10 DEF vars
<1> QED
  BY <1>1, <1>2, <1>3, <1>4, <1>5, <1>6, <1>7, <1>8, <1>9, <1>10 DEF Next, Step

(* Who unlinks the lock file of another process robs it. *)
LEMMA UnlinkRobs ==
  ASSUME IInv, NEW p \in Procs, Unlink(p), NEW q \in alive \ {p}, Owns(q)
  PROVE  q \in robbed' \cup twice
BY DEF IInv, LockKept, Unlink

(* The lock file and those who rely on it. *)
LEMMA LockStep == IInv /\ [Next]_vars => LockKept' /\ LockKnown'
<1> SUFFICES ASSUME IInv, [Next]_vars PROVE LockKept' /\ LockKnown'
  OBVIOUS
<1>0. lock \in Files \cup {NoFile} /\ NoFile \notin Procs
  BY FileAssumption DEF IInv, TypeOK
<1> USE <1>0, FdsAssumption
<1> USE DEF IInv, TypeOK, Steps, Opening, At, Goto, Noted, DeadClosed, LockKept,
            LockKnown, Owns
<1>1. ASSUME NEW p \in Procs, Open(p) PROVE LockKept' /\ LockKnown'
  BY <1>1 DEF Open
<1>2. ASSUME NEW p \in Procs, Close(p) PROVE LockKept' /\ LockKnown'
  BY <1>2 DEF Close
<1>3. ASSUME NEW p \in Procs, Link(p) PROVE LockKept' /\ LockKnown'
  BY <1>3 DEF Link, Return, Forget
<1>4. ASSUME NEW p \in Procs, ReadLock(p) PROVE LockKept' /\ LockKnown'
  BY <1>4 DEF ReadLock, Return, Forget
<1>5. ASSUME NEW p \in Procs, Probe(p) PROVE LockKept' /\ LockKnown'
  BY <1>5 DEF Probe, Retry, Return, Forget
<1>6. ASSUME NEW p \in Procs, Steal(p) PROVE LockKept' /\ LockKnown'
  <2>1. CASE Unlink(p) /\ Retry(p)
    BY <1>6, <2>1, UnlinkRobs DEF Steal, Retry, Return, Forget, Unlink
  <2>2. CASE Return(p) /\ UNCHANGED <<lock, robbed>>
    BY <1>6, <2>2 DEF Steal, Return, Forget
  <2>3. CASE Retry(p) /\ UNCHANGED <<lock, robbed>>
    BY <1>6, <2>3 DEF Steal, Retry, Return, Forget
  <2> QED
    BY <1>6, <2>1, <2>2, <2>3 DEF Steal
<1>7. ASSUME NEW p \in Procs, OpenDevice(p) PROVE LockKept' /\ LockKnown'
  <2>1. CASE Unlink(p)
    BY <1>7, <2>1, UnlinkRobs DEF OpenDevice, Return, Forget, Unlink
  <2>2. CASE fds' = [fds EXCEPT ![p] = @ + 1] /\ UNCHANGED <<lock, robbed>>
    <3>1. fds'[p] > 0 /\ \A q \in Procs \ {p} : fds'[q] = fds[q]
      BY <2>2
    <3>2. pc'[p] = "idle" /\ \A q \in Procs \ {p} : pc'[q] = pc[q]
      BY <1>7 DEF OpenDevice, Return, Forget
    <3>3. p \in alive /\ Owns(p) /\ UNCHANGED <<alive, twice>>
      BY <1>7 DEF OpenDevice
    <3> QED
      BY <2>2, <3>1, <3>2, <3>3
  <2> QED
    BY <1>7, <2>1, <2>2 DEF OpenDevice
<1>8. ASSUME NEW p \in Procs, Unlock(p) PROVE LockKept' /\ LockKnown'
  BY <1>8, UnlinkRobs DEF Unlock, Unlink
<1>9. ASSUME NEW p \in Procs, Crash(p) PROVE LockKept' /\ LockKnown'
  BY <1>9 DEF Crash, Forget
<1>10. CASE UNCHANGED vars
  BY <1>10 DEF vars
<1> QED
  BY <1>1, <1>2, <1>3, <1>4, <1>5, <1>6, <1>7, <1>8, <1>9, <1>10 DEF Next, Step

LEMMA Inductive == Spec => []IInv
<1>1. IInv /\ [Next]_vars => IInv'
  BY TypeStep, CallStep, LockStep DEF IInv
<1> QED
  BY InvInit, <1>1, PTL DEF Spec

(* The processes' calls, descriptors and histories, and the lock file, keep
   their types. *)
THEOREM TypeCorrect == Spec => []TypeOK
<1>1. IInv => TypeOK
  BY DEF IInv
<1> QED
  BY Inductive, <1>1, PTL

(* Two processes have the port open only after one of them was robbed of its
   lock file by another process or had the port open twice: the lock file is
   with whoever relies on it, and it cannot be with both. *)
THEOREM OneProcess == Spec => []ExclusiveUnlessRobbed
<1>1. IInv => ExclusiveUnlessRobbed
  BY DEF IInv, TypeOK, ExclusiveUnlessRobbed, LockKept, Owns, DeadClosed
<1> QED
  BY Inductive, <1>1, PTL

(* A live process without a descriptor and outside every call leaves neither
   the lock file nor a temporary file, whichever step of a call failed. *)
THEOREM NothingIsLeft == Spec => []NothingLeft
<1>1. IInv => NothingLeft
  BY DEF IInv, TypeOK, NothingLeft, LockKnown, TmpKnown, Owns, Opening
<1> QED
  BY Inductive, <1>1, PTL
=============================================================================

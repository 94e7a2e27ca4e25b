----------------------------- MODULE SerialLock -----------------------------
(***************************************************************************)
(* openSerialPort and closeSerialPort of serialport.c for one port, called *)
(* by several processes that may die.  The only thing that the processes   *)
(* share is the lock file /var/lock/LCK..<port>, which holds the pid of    *)
(* its maker: it is taken by link()ing a finished temporary file to its    *)
(* name, and taken away by unlink()ing the name, whoever's file it is.     *)
(*                                                                         *)
(* Every system call another process can see is a step of its own.  Calls  *)
(* on the private temporary file are joined to the step next to them.      *)
(* A process makes one call at a time, as the program does; pids are not   *)
(* reused.                                                                 *)
(***************************************************************************)
EXTENDS Naturals, FiniteSets

CONSTANTS
    Procs,      \* the pids of the processes that use the port
    OldPid,     \* the pid in a lock file of an earlier boot
    NoPid,      \* what a lock file without a number in it holds
    NoFile,     \* there is no lock file
    MaxTries,   \* maxtries, 10 in the code
    Reopeners,  \* the processes that open the port while they have it open
    MaxFds,     \* bound: descriptors of the port in one of these
    MaxCrashes  \* bound: processes that die

ASSUME TriesAssumption == MaxTries \in Nat
ASSUME FdsAssumption == MaxFds \in Nat \ {0}
ASSUME ReopenAssumption == Reopeners \subseteq Procs
ASSUME PidAssumption == OldPid \notin Procs
ASSUME FileAssumption == /\ NoPid \notin Procs \cup {OldPid}
                         /\ NoFile \notin Procs \cup {OldPid, NoPid}

VARIABLES
    lock,       \* what the lock file holds
    tmp,        \* the processes whose temporary file exists
    alive,      \* the processes that run
    pc,         \* where the call of each process is
    found,      \* the pid each process read last: lockedpid
    tries,      \* maxtries of each process
    fds,        \* the entries of each process in serlist
    robbed,     \* history: processes whose lock another one took away
    twice       \* history: processes that opened a port they had open

vars == <<lock, tmp, alive, pc, found, tries, fds, robbed, twice>>

Files == Procs \cup {OldPid, NoPid}
Opening == {"link", "read", "probe", "steal", "dev"}
Steps == Opening \cup {"idle", "unlock"}

Init == /\ lock \in {NoFile, OldPid, NoPid}
        /\ tmp = {}
        /\ alive = Procs
        /\ pc = [p \in Procs |-> "idle"]
        /\ found = [p \in Procs |-> NoFile]
        /\ tries = [p \in Procs |-> MaxTries]
        /\ fds = [p \in Procs |-> 0]
        /\ robbed = {}
        /\ twice = {}

At(p, step) == p \in alive /\ pc[p] = step
Goto(p, step) == pc' = [pc EXCEPT ![p] = step]

\* The process p unlinks the name of the lock file, whatever it stands for.
Unlink(p) == /\ lock' = NoFile
             /\ robbed' = robbed \cup ({lock} \cap (alive \ {p}))

\* The locals of a call are gone when it returns or its process dies.
Forget(p) == /\ Goto(p, "idle")
             /\ found' = [found EXCEPT ![p] = NoFile]
             /\ tries' = [tries EXCEPT ![p] = MaxTries]

\* The call returns; the temporary file is removed on every such path.
Return(p) == Forget(p) /\ tmp' = tmp \ {p}

----------------------------------------------------------------------------
(* openSerialPort *)

\* The call, with mkstemp and write: the temporary file is whole, or else the
\* call returns at once and nothing has changed.
Open(p) == /\ At(p, "idle")
           /\ fds[p] < IF p \in Reopeners THEN MaxFds ELSE 1
           /\ Goto(p, "link")
           /\ tmp' = tmp \cup {p}
           /\ twice' = IF fds[p] > 0 THEN twice \cup {p} ELSE twice
           /\ UNCHANGED <<lock, alive, found, tries, fds, robbed>>

\* link makes the lock file or finds one; any other error ends the call.
Link(p) == /\ At(p, "link")
           /\ \/ /\ lock = NoFile
                 /\ lock' = p
                 /\ Goto(p, "dev")
                 /\ UNCHANGED <<tmp, found, tries>>
              \/ /\ lock # NoFile
                 /\ Goto(p, "read")
                 /\ UNCHANGED <<lock, tmp, found, tries>>
              \/ Return(p) /\ UNCHANGED lock
           /\ UNCHANGED <<alive, fds, robbed, twice>>

\* A lock file that has vanished, that cannot be opened or read, or that has no
\* pid in it ends the call; our own pid counts as a lock that we have.
ReadLock(p) == /\ At(p, "read")
               /\ \/ Return(p)
                  \/ /\ lock \notin {NoFile, NoPid}
                     /\ found' = [found EXCEPT ![p] = lock]
                     /\ Goto(p, IF lock = p THEN "dev" ELSE "probe")
                     /\ UNCHANGED <<tmp, tries>>
               /\ UNCHANGED <<lock, alive, fds, robbed, twice>>

\* Mutant of Retry: the tries are not counted.
Retry_Forever(p) == /\ found' = [found EXCEPT ![p] = NoFile]
                    /\ Goto(p, "link")
                    /\ UNCHANGED <<tmp, tries>>

\* The end of the loop's body: another try after 100 ms, or none left.
Retry(p) == IF tries[p] = 0
            THEN Return(p)
            ELSE /\ tries' = [tries EXCEPT ![p] = @ - 1]
                 /\ found' = [found EXCEPT ![p] = NoFile]
                 /\ Goto(p, "link")
                 /\ UNCHANGED tmp

\* kill(lockedpid, 0): is there such a process?
Probe(p) == /\ At(p, "probe")
            /\ IF found[p] \in alive
               THEN Retry(p)
               ELSE Goto(p, "steal") /\ UNCHANGED <<tmp, found, tries>>
            /\ UNCHANGED <<lock, alive, fds, robbed, twice>>

\* Mutant of Steal: a stale lock that was removed counts as taken.
Steal_IsTaken(p) == /\ At(p, "steal")
                    /\ Unlink(p)
                    /\ Goto(p, "dev")
                    /\ UNCHANGED <<tmp, alive, found, tries, fds, twice>>

\* The stale lock file is unlinked by its name; it may be another file now.  An
\* interrupted unlink that has removed nothing counts as a try all the same.
Steal(p) == /\ At(p, "steal")
            /\ \/ Unlink(p) /\ Retry(p)
               \/ Retry(p) /\ UNCHANGED <<lock, robbed>>
               \/ Return(p) /\ UNCHANGED <<lock, robbed>>
            /\ UNCHANGED <<alive, fds, twice>>

\* Mutant of OpenDevice: a device that cannot be opened keeps its lock file.
OpenDevice_KeepsLock(p) == /\ At(p, "dev")
                           /\ Return(p)
                           /\ \/ fds' = [fds EXCEPT ![p] = @ + 1]
                              \/ UNCHANGED fds
                           /\ UNCHANGED <<lock, alive, robbed, twice>>

\* The temporary file goes and the device is opened and entered in serlist; if
\* that fails the lock file is removed, also when an earlier descriptor of the
\* process still needs it.
OpenDevice(p) == /\ At(p, "dev")
                 /\ Return(p)
                 /\ \/ /\ fds' = [fds EXCEPT ![p] = @ + 1]
                       /\ UNCHANGED <<lock, robbed>>
                    \/ Unlink(p) /\ UNCHANGED fds
                 /\ UNCHANGED <<alive, twice>>

----------------------------------------------------------------------------
(* closeSerialPort: first the descriptor, then the lock file *)

\* Mutant of Close: a process without a descriptor closes one.
Close_Any(p) == /\ At(p, "idle")
                /\ fds' = [fds EXCEPT ![p] = @ - 1]
                /\ Goto(p, "unlock")
                /\ UNCHANGED <<lock, tmp, alive, found, tries, robbed, twice>>

Close(p) == /\ At(p, "idle")
            /\ fds[p] > 0
            /\ fds' = [fds EXCEPT ![p] = @ - 1]
            /\ Goto(p, "unlock")
            /\ UNCHANGED <<lock, tmp, alive, found, tries, robbed, twice>>

Unlock(p) == /\ At(p, "unlock")
             /\ Unlink(p)
             /\ Goto(p, "idle")
             /\ UNCHANGED <<tmp, alive, found, tries, fds, twice>>

\* A process dies: its descriptors are closed, its files stay.
Crash(p) == /\ p \in alive
            /\ Cardinality(Procs \ alive) < MaxCrashes
            /\ alive' = alive \ {p}
            /\ fds' = [fds EXCEPT ![p] = 0]
            /\ Forget(p)
            /\ UNCHANGED <<lock, tmp, robbed, twice>>

Step(p) == \/ Link(p) \/ ReadLock(p) \/ Probe(p) \/ Steal(p)
           \/ OpenDevice(p) \/ Unlock(p)

Next == \E p \in Procs : Open(p) \/ Close(p) \/ Step(p) \/ Crash(p)

\* A call that has begun goes on for as long as its process lives.
Spec == Init /\ [][Next]_vars /\ \A p \in Procs : WF_vars(Step(p))

----------------------------------------------------------------------------
(* Properties *)

\* The variables have their types.
TypeOK == /\ lock \in Files \cup {NoFile}
          /\ tmp \subseteq Procs
          /\ alive \subseteq Procs
          /\ pc \in [Procs -> Steps]
          /\ found \in [Procs -> Files \cup {NoFile}]
          /\ tries \in [Procs -> 0..MaxTries]
          /\ fds \in [Procs -> 0..MaxFds]
          /\ robbed \subseteq Procs
          /\ twice \subseteq Procs

\* Two processes have the port open only if the lock of one of them was
\* unlinked by another process, or one had the port open twice and removed its
\* own lock with one of the two descriptors: in every other history, crashes
\* and stale files included, the lock file keeps the port to one process.
ExclusiveUnlessRobbed ==
    \A p, q \in Procs : p # q /\ fds[p] > 0 /\ fds[q] > 0
                            => {p, q} \cap (robbed \cup twice) # {}

\* What a call leaves behind: a live process that has no descriptor and is in
\* no call has neither the lock file nor a temporary file, so a port that was
\* closed, or whose opening failed at any step, can be opened by the next one.
NothingLeft == \A p \in alive : pc[p] = "idle" => /\ p \notin tmp
                                                  /\ fds[p] = 0 => lock # p

\* Every call of openSerialPort returns, with a descriptor or without, also
\* when the lock is never given back and when other processes come and go.
OpenReturns == \A p \in Procs : pc[p] \in Opening ~> pc[p] = "idle"

\* What the comment of openSerialPort says: "The serial port is only opened if
\* it was not locked", so that no two processes have it open.
OpenedOnlyIfNotLocked == \A p, q \in Procs : fds[p] > 0 /\ fds[q] > 0 => p = q
=============================================================================

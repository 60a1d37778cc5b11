-------------------------- MODULE PrivateStateLock --------------------------
(***************************************************************************)
(* The file lock around the private state of a Host                        *)
(* (src/private-state-lock.mjs): a lock file created exclusively and       *)
(* naming its owner, and a second file that serialises the recovery of a   *)
(* lock whose owner has died.                                              *)
(*                                                                         *)
(* A process runs withPrivateStateLock up to MaxCalls times.  Every system *)
(* call on the two files is a step of its own, because the calls of other  *)
(* processes come between any two of them.  Processes die at any step and  *)
(* leave their files behind.  Age is abstracted: an incomplete file of a   *)
(* live process is always less than a second old, one of a dead process    *)
(* may be either side of it.                                               *)
(***************************************************************************)
EXTENDS Naturals, FiniteSets

CONSTANTS
  Procs,      \* processes that share the private state
  NoProc,     \* the creator of a file that does not exist
  MaxCalls,   \* bound: calls of withPrivateStateLock per process
  MaxCrashes  \* bound: processes that die

ASSUME LockAssumption ==
  /\ NoProc \notin Procs
  /\ MaxCalls \in Nat
  /\ MaxCrashes \in Nat

VARIABLES
  lock,      \* the file lockPath
  recovery,  \* the file recoveryPath
  pc,        \* where each process is in withPrivateStateLock
  got,       \* what it last read of one of the files
  alive,     \* the processes that run (pidIsRunning)
  calls      \* calls each process has made

vars == <<lock, recovery, pc, got, alive, calls>>

-----------------------------------------------------------------------------
(* Files *)

\* A file is known by the process that created it; its owner is readable once it is full.
Absent == [by |-> NoProc, full |-> FALSE]

File == {Absent} \cup [by: Procs, full: BOOLEAN]

Created(p) == [by |-> p, full |-> FALSE]

\* Mutant: the owner is written through the path, whatever file is there.
FilledByPath(f, p) == [f EXCEPT !.full = TRUE]

\* Writing through a handle changes the path only while the path still leads to that file.
Filled(f, p) == IF f = Created(p) THEN [f EXCEPT !.full = TRUE] ELSE f

\* Is the file at the path, if any, less than a second old?
Recent(f) == IF f = Absent THEN {FALSE} ELSE IF f.by \in alive THEN {TRUE} ELSE BOOLEAN

\* What an inspection concludes from the content it read and the file now at the path.
\* A missing file has no owner, and so no running one.
Inspection(read, now) ==
  IF read = Absent THEN {"stale"}
  ELSE IF read.full THEN {IF read.by \in alive THEN "held" ELSE "stale"}
  ELSE {IF recent THEN "held" ELSE "stale" : recent \in Recent(now)}

Places ==
  {"idle", "top", "judgeRecovery", "dropRecovery", "open", "write", "chmod", "operation",
   "release", "removeOwn", "inspect", "judge", "recover", "writeRecovery", "confirm",
   "judgeConfirmed", "remove", "closeRecovery", "dead"}

At(p, here, there) ==
  /\ pc[p] = here
  /\ pc' = [pc EXCEPT ![p] = there]

-----------------------------------------------------------------------------
(* One pass of the loop *)

\* withPrivateStateLock is called.
Begin(p) ==
  /\ calls[p] < MaxCalls
  /\ At(p, "idle", "top")
  /\ calls' = [calls EXCEPT ![p] = @ + 1]
  /\ UNCHANGED <<lock, recovery, got, alive>>

\* The deadline has passed: the call fails with its timeout code.
TimeOut(p) ==
  /\ At(p, "top", "idle")
  /\ UNCHANGED <<lock, recovery, got, alive, calls>>

ReadRecovery(p) ==
  /\ At(p, "top", IF recovery = Absent THEN "open" ELSE "judgeRecovery")
  /\ got' = [got EXCEPT ![p] = recovery]
  /\ UNCHANGED <<lock, recovery, alive, calls>>

\* Mutant: a recovery file is waited for whoever wrote it.
JudgeRecoveryWaits(p) ==
  /\ At(p, "judgeRecovery", "top")
  /\ got' = [got EXCEPT ![p] = Absent]
  /\ UNCHANGED <<lock, recovery, alive, calls>>

JudgeRecovery(p) ==
  /\ \E verdict \in Inspection(got[p], recovery) :
       At(p, "judgeRecovery", IF verdict = "stale" THEN "dropRecovery" ELSE "top")
  /\ got' = [got EXCEPT ![p] = Absent]
  /\ UNCHANGED <<lock, recovery, alive, calls>>

DropRecovery(p) ==
  /\ At(p, "dropRecovery", "top")
  /\ recovery' = Absent
  /\ UNCHANGED <<lock, got, alive, calls>>

\* open(lockPath, "wx").
OpenLock(p) ==
  /\ At(p, "open", IF lock = Absent THEN "write" ELSE "inspect")
  /\ lock' = IF lock = Absent THEN Created(p) ELSE lock
  /\ UNCHANGED <<recovery, got, alive, calls>>

WriteLock(p) ==
  /\ At(p, "write", "chmod")
  /\ lock' = Filled(lock, p)
  /\ UNCHANGED <<recovery, got, alive, calls>>

\* chmod goes through the path: without a file there, the call fails.
ChmodLock(p) ==
  /\ At(p, "chmod", IF lock = Absent THEN "idle" ELSE "operation")
  /\ UNCHANGED <<lock, recovery, got, alive, calls>>

\* The operation returns or throws; the finally block releases either way.
Operation(p) ==
  /\ At(p, "operation", "release")
  /\ UNCHANGED <<lock, recovery, got, alive, calls>>

\* releaseOwnedLock reads the owner ...
ReadOwn(p) ==
  /\ At(p, "release",
        IF lock = [by |-> p, full |-> TRUE] THEN "removeOwn" ELSE "idle")
  /\ UNCHANGED <<lock, recovery, got, alive, calls>>

\* ... and then removes the file at the path.
RemoveOwn(p) ==
  /\ At(p, "removeOwn", "idle")
  /\ lock' = Absent
  /\ UNCHANGED <<recovery, got, alive, calls>>

-----------------------------------------------------------------------------
(* Contention and recovery *)

InspectLock(p) ==
  /\ At(p, "inspect", "judge")
  /\ got' = [got EXCEPT ![p] = lock]
  /\ UNCHANGED <<lock, recovery, alive, calls>>

\* A running owner, or a file still being written, is waited for.
JudgeLock(p) ==
  /\ \E verdict \in Inspection(got[p], lock) :
       At(p, "judge", IF verdict = "stale" THEN "recover" ELSE "top")
  /\ got' = [got EXCEPT ![p] = Absent]
  /\ UNCHANGED <<lock, recovery, alive, calls>>

\* open(recoveryPath, "wx").
OpenRecovery(p) ==
  /\ At(p, "recover", IF recovery = Absent THEN "writeRecovery" ELSE "top")
  /\ recovery' = IF recovery = Absent THEN Created(p) ELSE recovery
  /\ UNCHANGED <<lock, got, alive, calls>>

WriteRecovery(p) ==
  /\ At(p, "writeRecovery", "confirm")
  /\ recovery' = Filled(recovery, p)
  /\ UNCHANGED <<lock, got, alive, calls>>

ConfirmLock(p) ==
  /\ At(p, "confirm", "judgeConfirmed")
  /\ got' = [got EXCEPT ![p] = lock]
  /\ UNCHANGED <<lock, recovery, alive, calls>>

\* Mutant: a lock found held after all is left without closing the recovery.
JudgeConfirmedReturns(p) ==
  /\ \E verdict \in Inspection(got[p], lock) :
       At(p, "judgeConfirmed", IF verdict = "stale" THEN "remove" ELSE "top")
  /\ got' = [got EXCEPT ![p] = Absent]
  /\ UNCHANGED <<lock, recovery, alive, calls>>

JudgeConfirmed(p) ==
  /\ \E verdict \in Inspection(got[p], lock) :
       At(p, "judgeConfirmed", IF verdict = "stale" THEN "remove" ELSE "closeRecovery")
  /\ got' = [got EXCEPT ![p] = Absent]
  /\ UNCHANGED <<lock, recovery, alive, calls>>

\* Whatever file is at the path now.
RemoveLock(p) ==
  /\ At(p, "remove", "closeRecovery")
  /\ lock' = Absent
  /\ UNCHANGED <<recovery, got, alive, calls>>

CloseRecovery(p) ==
  /\ At(p, "closeRecovery", "top")
  /\ recovery' = Absent
  /\ UNCHANGED <<lock, got, alive, calls>>

\* The process dies; the files it made stay.
Crash(p) ==
  /\ p \in alive
  /\ Cardinality(Procs \ alive) < MaxCrashes
  /\ alive' = alive \ {p}
  /\ pc' = [pc EXCEPT ![p] = "dead"]
  /\ got' = [got EXCEPT ![p] = Absent]
  /\ UNCHANGED <<lock, recovery, calls>>

-----------------------------------------------------------------------------

Init ==
  /\ lock = Absent
  /\ recovery = Absent
  /\ pc = [p \in Procs |-> "idle"]
  /\ got = [p \in Procs |-> Absent]
  /\ alive = Procs
  /\ calls = [p \in Procs |-> 0]

\* A step of a call that is under way.
Step(p) ==
  \/ ReadRecovery(p) \/ JudgeRecovery(p) \/ DropRecovery(p)
  \/ OpenLock(p) \/ WriteLock(p) \/ ChmodLock(p)
  \/ Operation(p) \/ ReadOwn(p) \/ RemoveOwn(p)
  \/ InspectLock(p) \/ JudgeLock(p)
  \/ OpenRecovery(p) \/ WriteRecovery(p) \/ ConfirmLock(p) \/ JudgeConfirmed(p)
  \/ RemoveLock(p) \/ CloseRecovery(p)

Next == \E p \in Procs : Begin(p) \/ TimeOut(p) \/ Step(p) \/ Crash(p)

Spec == Init /\ [][Next]_vars

\* A process that is scheduled runs, and an incomplete file of a dead process grows old.
FairSpec ==
  /\ Spec
  /\ \A p \in Procs : WF_vars(Step(p))
  /\ \A p \in Procs : SF_vars(JudgeRecovery(p) /\ pc'[p] = "dropRecovery")
  /\ \A p \in Procs : SF_vars(JudgeLock(p) /\ pc'[p] = "recover")
  /\ \A p \in Procs : SF_vars(JudgeConfirmed(p) /\ pc'[p] = "remove")

-----------------------------------------------------------------------------
(* Properties *)

\* Shape of the state.
TypeOK ==
  /\ lock \in File
  /\ recovery \in File
  /\ pc \in [Procs -> Places]
  /\ got \in [Procs -> File]
  /\ alive \subseteq Procs
  /\ calls \in [Procs -> Nat]

Holding(p) == pc[p] \in {"operation", "release"}

\* Two processes are never inside the operation at once: the lock serialises the private
\* state across processes (withPrivateStateLock).
MutualExclusion ==
  \A p, q \in Procs : Holding(p) /\ Holding(q) => p = q

\* A process that is no longer in a call has left neither file behind: its pid is running,
\* so nobody would ever recover them (releaseOwnedLock and the finally blocks).
NothingLeftBehind ==
  \A p \in alive : pc[p] = "idle" => lock.by # p /\ recovery.by # p

\* Once the other processes are dead or out of their calls, a process that keeps trying
\* gets the lock, whatever files they left and wherever they died.
Quiet(p) == p \in alive /\ \A q \in Procs \ {p} : pc[q] \in {"idle", "dead"}

SurvivorAcquires ==
  \A p \in Procs : <>[]Quiet(p) => []<>(pc[p] \in {"idle", "operation"})

=============================================================================

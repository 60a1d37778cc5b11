----------------------- MODULE PrivateStateLockSafety -----------------------
(***************************************************************************)
(* NothingLeftBehind for any number of processes, calls and crashes.       *)
(*                                                                         *)
(* The file locks do not exclude (see MutualExclusion), so nothing can be  *)
(* built on "the file at the path is mine".  What does hold is the other   *)
(* direction: a file of p is at a path only while p is between its         *)
(* creation and its removal, or dead.  OwnFiles says so for each file, and *)
(* needs that the lock is complete once p is past its write: the release   *)
(* recognises only a complete file as its own.                             *)
(***************************************************************************)
EXTENDS PrivateStateLock, TLAPS

Dying == \A p \in Procs : p \in alive <=> pc[p] # "dead"

OwnLock ==
  \A p \in Procs : lock.by = p =>
    \/ pc[p] \in {"write", "dead"}
    \/ pc[p] \in {"chmod", "operation", "release", "removeOwn"} /\ lock.full

OwnRecovery ==
  \A p \in Procs : recovery.by = p =>
    pc[p] \in {"writeRecovery", "confirm", "judgeConfirmed", "remove", "closeRecovery", "dead"}

LockInv == TypeOK /\ Dying /\ OwnLock /\ OwnRecovery

\* What creating and completing a file do to its owner.
LEMMA FileShape ==
  ASSUME NEW p \in Procs
  PROVE  /\ Absent \in File /\ Created(p) \in File
         /\ Absent.by \notin Procs
         /\ Created(p).by = p
         /\ \A f \in File :
              /\ Filled(f, p) \in File
              /\ Filled(f, p).by = f.by
              /\ f.full => Filled(f, p).full
              /\ f.by = p => Filled(f, p).full
<1>1. Absent \in File /\ Created(p) \in File /\ Absent.by \notin Procs /\ Created(p).by = p
  BY LockAssumption DEF Absent, Created, File
<1>2. ASSUME NEW f \in File
      PROVE  /\ Filled(f, p) \in File
             /\ Filled(f, p).by = f.by
             /\ f.full => Filled(f, p).full
             /\ f.by = p => Filled(f, p).full
  <2>1. CASE f = Absent
    BY <2>1, <1>1 DEF Filled, Absent, Created
  <2>2. CASE f \in [by: Procs, full: BOOLEAN]
    <3>1. CASE f = Created(p)
      <4>1. Filled(f, p) = [by |-> p, full |-> TRUE]
        BY <3>1 DEF Filled, Created
      <4> QED
        BY <4>1, <3>1 DEF File, Created
    <3>2. CASE f # Created(p)
      <4>1. f = [by |-> f.by, full |-> f.full]
        BY <2>2
      <4>2. f.by = p => f.full
        BY <4>1, <3>2, <2>2 DEF Created
      <4> QED
        BY <4>2, <3>2 DEF Filled
    <3> QED
      BY <3>1, <3>2
  <2> QED
    BY <2>1, <2>2 DEF File
<1> QED
  BY <1>1, <1>2

\* The state starts in the invariant (no file, nobody in a call).
LEMMA LockInit == Init => LockInv
<1> SUFFICES ASSUME Init PROVE LockInv
  OBVIOUS
<1>1. TypeOK
  BY DEF Init, TypeOK, Places, File
<1>2. lock.by \notin Procs /\ recovery.by \notin Procs
  BY LockAssumption DEF Init, Absent
<1> QED
  BY <1>1, <1>2 DEF Init, LockInv, Dying, OwnLock, OwnRecovery

\* Steps that touch neither file: they must not walk p past a promise about its own file.
LEMMA QuietSteps ==
  ASSUME LockInv, NEW p \in Procs, lock' = lock, recovery' = recovery,
         \/ Begin(p) \/ TimeOut(p) \/ ReadRecovery(p) \/ JudgeRecovery(p)
         \/ ChmodLock(p) \/ Operation(p) \/ ReadOwn(p)
         \/ InspectLock(p) \/ JudgeLock(p) \/ ConfirmLock(p) \/ JudgeConfirmed(p)
  PROVE  LockInv'
<1> USE DEF LockInv
<1>1. Absent \in File
  BY DEF File
<1>2. TypeOK'
  BY <1>1 DEF TypeOK, Places, At, Begin, TimeOut, ReadRecovery, JudgeRecovery, ChmodLock,
     Operation, ReadOwn, InspectLock, JudgeLock, ConfirmLock, JudgeConfirmed
<1>3. Dying'
  BY DEF TypeOK, Dying, At, Begin, TimeOut, ReadRecovery, JudgeRecovery, ChmodLock,
     Operation, ReadOwn, InspectLock, JudgeLock, ConfirmLock, JudgeConfirmed
<1>4. OwnLock'
  <2>1. CASE ChmodLock(p)
    BY <2>1, LockAssumption DEF OwnLock, TypeOK, At, ChmodLock, Absent
  <2>2. CASE ReadOwn(p)
    <3>1. lock.by = p => lock = [by |-> p, full |-> TRUE]
      BY <2>2, LockAssumption DEF OwnLock, TypeOK, At, ReadOwn, File, Absent
    <3> QED
      BY <3>1, <2>2 DEF OwnLock, TypeOK, At, ReadOwn
  <2>3. CASE ~ChmodLock(p) /\ ~ReadOwn(p)
    BY <2>3 DEF OwnLock, TypeOK, At, Begin, TimeOut, ReadRecovery, JudgeRecovery,
       Operation, InspectLock, JudgeLock, ConfirmLock, JudgeConfirmed
  <2> QED
    BY <2>1, <2>2, <2>3
<1>5. OwnRecovery'
  BY DEF OwnRecovery, TypeOK, At, Begin, TimeOut, ReadRecovery, JudgeRecovery, ChmodLock,
     Operation, ReadOwn, InspectLock, JudgeLock, ConfirmLock, JudgeConfirmed
<1> QED
  BY <1>2, <1>3, <1>4, <1>5

\* Steps on the lock file, by its creator, its holder or somebody who recovers it.
LEMMA LockSteps ==
  ASSUME LockInv, NEW p \in Procs,
         OpenLock(p) \/ WriteLock(p) \/ RemoveOwn(p) \/ RemoveLock(p)
  PROVE  LockInv'
<1> USE DEF LockInv, TypeOK, At
<1>1. CASE OpenLock(p)
  BY <1>1, FileShape DEF OpenLock, Dying, OwnLock, OwnRecovery, Places
<1>2. CASE WriteLock(p)
  <2>1. lock' = Filled(lock, p) /\ lock' \in File /\ lock'.by = lock.by
        /\ (lock.full => lock'.full) /\ (lock.by = p => lock'.full)
    BY <1>2, FileShape DEF WriteLock
  <2> QED
    BY <1>2, <2>1 DEF WriteLock, Dying, OwnLock, OwnRecovery, Places
<1>3. CASE RemoveOwn(p)
  BY <1>3, FileShape DEF RemoveOwn, Dying, OwnLock, OwnRecovery, Places
<1>4. CASE RemoveLock(p)
  BY <1>4, FileShape DEF RemoveLock, Dying, OwnLock, OwnRecovery, Places
<1> QED
  BY <1>1, <1>2, <1>3, <1>4

\* Steps on the recovery file.
LEMMA RecoverySteps ==
  ASSUME LockInv, NEW p \in Procs,
         DropRecovery(p) \/ OpenRecovery(p) \/ WriteRecovery(p) \/ CloseRecovery(p)
  PROVE  LockInv'
<1> USE DEF LockInv, TypeOK, At
<1>1. CASE DropRecovery(p)
  BY <1>1, FileShape DEF DropRecovery, Dying, OwnLock, OwnRecovery, Places
<1>2. CASE OpenRecovery(p)
  BY <1>2, FileShape DEF OpenRecovery, Dying, OwnLock, OwnRecovery, Places
<1>3. CASE WriteRecovery(p)
  <2>1. recovery' \in File /\ recovery'.by = recovery.by
    BY <1>3, FileShape DEF WriteRecovery
  <2> QED
    BY <1>3, <2>1 DEF WriteRecovery, Dying, OwnLock, OwnRecovery, Places
<1>4. CASE CloseRecovery(p)
  BY <1>4, FileShape DEF CloseRecovery, Dying, OwnLock, OwnRecovery, Places
<1> QED
  BY <1>1, <1>2, <1>3, <1>4

\* A death leaves files to a process that is no longer alive.
LEMMA CrashStep ==
  ASSUME LockInv, NEW p \in Procs, Crash(p)
  PROVE  LockInv'
BY FileShape DEF LockInv, TypeOK, Crash, Dying, OwnLock, OwnRecovery, Places

\* No step of any process disturbs the invariant.
LEMMA LockSteady == LockInv /\ [Next]_vars => LockInv'
<1> SUFFICES ASSUME LockInv, [Next]_vars PROVE LockInv'
  OBVIOUS
<1>1. ASSUME NEW p \in Procs, Begin(p) \/ TimeOut(p) \/ Step(p) \/ Crash(p)
      PROVE  LockInv'
  <2>1. CASE \/ Begin(p) \/ TimeOut(p) \/ ReadRecovery(p) \/ JudgeRecovery(p)
             \/ ChmodLock(p) \/ Operation(p) \/ ReadOwn(p)
             \/ InspectLock(p) \/ JudgeLock(p) \/ ConfirmLock(p) \/ JudgeConfirmed(p)
    <3>1. lock' = lock /\ recovery' = recovery
      BY <2>1 DEF Begin, TimeOut, ReadRecovery, JudgeRecovery, ChmodLock, Operation, ReadOwn,
         InspectLock, JudgeLock, ConfirmLock, JudgeConfirmed
    <3> QED
      BY <2>1, <3>1, QuietSteps
  <2>2. CASE OpenLock(p) \/ WriteLock(p) \/ RemoveOwn(p) \/ RemoveLock(p)
    BY <2>2, LockSteps
  <2>3. CASE DropRecovery(p) \/ OpenRecovery(p) \/ WriteRecovery(p) \/ CloseRecovery(p)
    BY <2>3, RecoverySteps
  <2>4. CASE Crash(p)
    BY <2>4, CrashStep
  <2> QED
    BY <1>1, <2>1, <2>2, <2>3, <2>4 DEF Step
<1>2. CASE UNCHANGED vars
  BY <1>2 DEF vars, LockInv, TypeOK, Dying, OwnLock, OwnRecovery
<1> QED
  BY <1>1, <1>2 DEF Next

\* A process that has left its call has left no file that nobody could ever recover,
\* for any number of contending, recovering and dying processes (withPrivateStateLock).
THEOREM FilesAreGivenUp == Spec => []NothingLeftBehind
<1>1. LockInv => NothingLeftBehind
  BY DEF LockInv, OwnLock, OwnRecovery, NothingLeftBehind, TypeOK
<1> QED
  BY LockInit, LockSteady, <1>1, PTL DEF Spec

\* The files, the places and the calls keep their shape over every step, for any number of
\* processes and deaths.
THEOREM LockIsTyped == Spec => []TypeOK
<1>1. LockInv => TypeOK
  BY DEF LockInv
<1> QED
  BY LockInit, LockSteady, <1>1, PTL DEF Spec

=============================================================================

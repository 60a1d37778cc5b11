-------------------------- MODULE HarnessRunsSafety --------------------------
(***************************************************************************)
(* Type correctness of HarnessRuns and the safety of its run records, for  *)
(* every value of its constants.                                           *)
(*                                                                         *)
(* First the types: the operators that build records, then one lemma per   *)
(* group of actions, then the theorem.  The field sets (Stages, Outcomes,  *)
(* ...) stay closed in the steps on records: a step says which of their    *)
(* members it writes, and the record is typed without looking into them.   *)
(* Then the records: RunSteps reduces the fifty actions to the few ways a  *)
(* run record ever changes; Sound is preserved by each of them; the        *)
(* properties follow.  The second half is about supervision.               *)
(***************************************************************************)
EXTENDS HarnessRuns, FiniteSetTheorems, TLAPS

\* Appending an event keeps a run record well formed (appendEvent).
LEMMA RecordedType ==
  ASSUME NEW rr \in RunRecord, NEW event \in Events
  PROVE  Recorded(rr, event) \in RunRecord
<1>1. Append(rr.events, event) \in Seq(Events) /\ rr.rev + 1 \in Nat
  BY DEF RunRecord
<1> QED
  BY <1>1, Zenon DEF Recorded, RunRecord

\* The outcome of an interrupted run is a well-formed record.
LEMMA FinalizedType ==
  ASSUME NEW rr \in RunRecord, NEW prev
  PROVE  Finalized(rr, prev) \in RunRecord
<1>1. Recorded(rr, "terminal") \in RunRecord
  BY RecordedType DEF Events
<1>2. /\ "none" \in Inspections /\ "none" \in Interrupted /\ "guard" \in Vouchers
      /\ {"failed", "cancelled"} \subseteq Statuses
      /\ {"interrupted", "cancelled_reconciled"} \subseteq Outcomes
  BY DEF Inspections, Interrupted, Vouchers, Statuses, Outcomes
<1> QED
  BY <1>1, <1>2, Zenon DEF Finalized, RunRecord

\* So is the record of an active run that is left for recovery.
LEMMA ToRecoveryType ==
  ASSUME NEW rr \in RunRecord, rr.status \in Active, NEW insp \in Inspections
  PROVE  ToRecovery(rr, insp) \in RunRecord
<1>1. Recorded(rr, "recovery") \in RunRecord
  BY RecordedType DEF Events
<1>2. "recovery_required" \in Statuses /\ rr.status \in Interrupted
  BY DEF Statuses, Interrupted
<1> QED
  BY <1>1, <1>2, Zenon DEF ToRecovery, RunRecord

\* Reconciliation maps records to records, whatever the inspection said.
LEMMA ReconciledType ==
  ASSUME NEW rr \in RunRecord, NEW insp \in Inspections
  PROVE  Reconciled(rr, insp) \in RunRecord
BY FinalizedType, ToRecoveryType, Zenon DEF Reconciled

\* A terminal outcome leaves a well-formed record.
LEMMA EndedType ==
  ASSUME NEW rr \in RunRecord, NEW code \in Outcomes, NEW complete \in BOOLEAN
  PROVE  Ended(rr, code, complete) \in RunRecord
<1>1. Recorded(rr, "terminal") \in RunRecord
  BY RecordedType DEF Events
<1>2. OutcomeStatus(code) \in Statuses
  BY DEF OutcomeStatus, Statuses
<1> QED
  BY <1>1, <1>2, Zenon DEF Ended, RunRecord

\* Publishing any number of progress records does.
LEMMA WithProgressType ==
  ASSUME NEW rr \in RunRecord, NEW n \in Nat
  PROVE  WithProgress(rr, n) \in RunRecord
<1> DEFINE records == [i \in 1..n |-> "progress"]
<1>1. records \in Seq(Events)
  BY DEF Events
<1>2. rr.rev + n \in Nat
  BY DEF RunRecord
<1>3. rr.events \o records \in Seq(Events)
  BY <1>1 DEF RunRecord
<1> HIDE DEF records
<1>4. [rr EXCEPT !.rev = @ + n, !.events = @ \o records] \in RunRecord
  BY <1>2, <1>3, Zenon DEF RunRecord
<1> QED
  BY <1>4, Zenon DEF WithProgress, records

\* Retaining a signal does.
LEMMA SignalFieldType ==
  ASSUME NEW rr \in RunRecord, NEW field
  PROVE  SignalField(rr, field) \in RunRecord
<1>1. rr.rev + 1 \in Nat
  BY DEF RunRecord
<1> QED
  BY <1>1, Zenon DEF SignalField, RunRecord

\* Retaining the confirmation of a termination does.
LEMMA ConfirmedByTreeType ==
  ASSUME NEW rr \in RunRecord
  PROVE  ConfirmedByTree(rr) \in RunRecord
<1>1. rr.rev + 1 \in Nat /\ "tree" \in Vouchers
  BY DEF RunRecord, Vouchers
<1> QED
  BY <1>1, Zenon DEF ConfirmedByTree, RunRecord

\* Publishing readiness does.
LEMMA ReadyType ==
  ASSUME NEW rr \in RunRecord
  PROVE  Ready(rr) \in RunRecord
<1>1. Recorded(rr, "ready") \in RunRecord /\ "running" \in Statuses
  BY RecordedType DEF Events, Statuses, Active
<1> QED
  BY <1>1, Zenon DEF Ready, RunRecord

\* The effect of a recovery on the run.
LEMMA EffectType ==
  ASSUME NEW rr \in RunRecord, NEW action, NEW insp \in Inspections
  PROVE  Effect(rr, action, insp) \in RunRecord
<1>1. [rr EXCEPT !.obs = insp, !.rev = @ + 1] \in RunRecord
  <2>1. rr.rev + 1 \in Nat
    BY DEF RunRecord
  <2> QED
    BY <2>1, Zenon DEF RunRecord
<1> QED
  BY <1>1, FinalizedType, Zenon DEF Effect

\* The retained response names the run of its intent.
LEMMA AnsweredType ==
  ASSUME NEW m \in RecoverMutation, NEW rr
  PROVE  Answered(m, rr) \in RecoverMutation /\ Answered(m, rr).run = m.run
<1>1. "result" \in Progressions /\ (rr.obs = "confirmed" \/ rr.outcome # "none") \in BOOLEAN
  BY DEF Progressions
<1> QED
  BY <1>1, Zenon DEF Answered, RecoverMutation
  

\* A run that was never launched is a record.
LEMMA NoRunType == NoRun \in RunRecord
<1>1. <<>> \in Seq(Events)
  OBVIOUS
<1>2. /\ "absent" \in Statuses /\ "none" \in Interrupted /\ "no" \in Vouchers
      /\ "none" \in Inspections /\ "none" \in Outcomes /\ 0 \in Nat
  BY DEF Statuses, Interrupted, Vouchers, Inspections, Outcomes
<1> QED
  BY <1>1, <1>2, Zenon DEF NoRun, RunRecord

\* So is one that was just launched.
LEMMA CreatedType ==
  [NoRun EXCEPT !.status = "starting", !.rev = 1, !.events = <<"created">>] \in RunRecord
<1>1. <<"created">> \in Seq(Events) /\ 1 \in Nat /\ "starting" \in Statuses
  BY DEF Events, Statuses, Active
<1> QED
  BY <1>1, NoRunType, Zenon DEF RunRecord

\* Moving the supervision of a run on, and its consumers and cancellation with it.
LEMMA SupFields ==
  ASSUME NEW s \in SupRecord
  PROVE  /\ \A x \in Stages : [s EXCEPT !.stage = x] \in SupRecord
         /\ \A x \in Consumers : [s EXCEPT !.cons = x] \in SupRecord
         /\ \A x \in Cancellations : [s EXCEPT !.co = x] \in SupRecord
         /\ \A x \in Escalations : [s EXCEPT !.esc = x] \in SupRecord
         /\ \A x \in Stages, y \in Exits : [s EXCEPT !.stage = x, !.exit = y] \in SupRecord
         /\ \A x \in Stages, y \in Results : [s EXCEPT !.captured = y, !.stage = x] \in SupRecord
         /\ \A x \in Stages : [s EXCEPT !.stage = x, !.pend = 0] \in SupRecord
         /\ \A x \in Consumers : [s EXCEPT !.cons = x, !.pend = 0] \in SupRecord
         /\ \A x \in Consumers : [s EXCEPT !.ready = TRUE, !.cons = x] \in SupRecord
         /\ \A x \in Consumers : [s EXCEPT !.invalid = TRUE, !.cons = x] \in SupRecord
         /\ \A x \in Cancellations, y \in Escalations : [s EXCEPT !.co = x, !.esc = y] \in SupRecord
         /\ \A x \in Stages, y \in Exits, z \in Consumers :
              [s EXCEPT !.stage = x, !.exit = y, !.cons = z] \in SupRecord
<1>1. ASSUME NEW x \in Stages
      PROVE  [s EXCEPT !.stage = x] \in SupRecord
  BY Zenon DEF SupRecord
<1>2. ASSUME NEW x \in Consumers
      PROVE  [s EXCEPT !.cons = x] \in SupRecord
  BY Zenon DEF SupRecord
<1>3. ASSUME NEW x \in Cancellations
      PROVE  [s EXCEPT !.co = x] \in SupRecord
  BY Zenon DEF SupRecord
<1>4. ASSUME NEW x \in Escalations
      PROVE  [s EXCEPT !.esc = x] \in SupRecord
  BY Zenon DEF SupRecord
<1>5. ASSUME NEW x \in Stages, NEW y \in Exits
      PROVE  [s EXCEPT !.stage = x, !.exit = y] \in SupRecord
  BY Zenon DEF SupRecord
<1>6. ASSUME NEW x \in Stages, NEW y \in Results
      PROVE  [s EXCEPT !.captured = y, !.stage = x] \in SupRecord
  BY Zenon DEF SupRecord
<1>7. ASSUME NEW x \in Stages
      PROVE  [s EXCEPT !.stage = x, !.pend = 0] \in SupRecord
  BY Zenon DEF SupRecord
<1>8. ASSUME NEW x \in Consumers
      PROVE  [s EXCEPT !.cons = x, !.pend = 0] \in SupRecord
  BY Zenon DEF SupRecord
<1>9. ASSUME NEW x \in Consumers
      PROVE  [s EXCEPT !.ready = TRUE, !.cons = x] \in SupRecord
  BY Zenon DEF SupRecord
<1>10. ASSUME NEW x \in Consumers
      PROVE  [s EXCEPT !.invalid = TRUE, !.cons = x] \in SupRecord
  BY Zenon DEF SupRecord
<1>11. ASSUME NEW x \in Cancellations, NEW y \in Escalations
      PROVE  [s EXCEPT !.co = x, !.esc = y] \in SupRecord
  BY Zenon DEF SupRecord
<1>12. ASSUME NEW x \in Stages, NEW y \in Exits, NEW z \in Consumers
      PROVE  [s EXCEPT !.stage = x, !.exit = y, !.cons = z] \in SupRecord
  BY Zenon DEF SupRecord
<1> QED
  BY <1>1, <1>2, <1>3, <1>4, <1>5, <1>6, <1>7, <1>8, <1>9, <1>10, <1>11, <1>12

\* Requesting a cancellation keeps the supervision record well formed.
LEMMA RequestedType ==
  ASSUME NEW s \in SupRecord
  PROVE  Requested(s) \in SupRecord
<1>1. "signal" \in Cancellations /\ "armed" \in Escalations
  BY DEF Cancellations, Escalations
<1> QED
  BY <1>1, Zenon DEF Requested, SupRecord

\* Receiving a terminal envelope does.
LEMMA WithTerminalType ==
  ASSUME NEW s \in SupRecord, NEW envelope \in Envelopes
  PROVE  WithTerminal(s, envelope) \in SupRecord
<1>1. envelope \in Terminals /\ "many" \in Terminals
  BY DEF Terminals
<1> QED
  BY <1>1, Zenon DEF WithTerminal, SupRecord

\* Returning from superviseHarnessAdapter does, when no cancellation is under way.
LEMMA CapturedType ==
  ASSUME NEW s \in SupRecord, s.co \in {"idle", "yes", "no"}
  PROVE  Captured(s) \in SupRecord
<1>1. "drain" \in Stages /\ "none" \in Results /\ (s.co = "idle" \/ s.co \in Results)
  BY DEF Stages, Results
<1> QED
  BY <1>1, Zenon DEF Captured, SupRecord

\* Every audit the durable state calls for is one of the audit identities.
LEMMA AuditsType == RequiredAudits \subseteq AuditIds
<1>1. Responded \subseteq RecoverKeys
  BY DEF Responded
<1> QED
  BY <1>1 DEF RequiredAudits, AuditIds

\* Taking and releasing the lock.
LEMMA HeldType ==
  ASSUME NEW op \in LockOps, NEW k \in Keys
  PROVE  Held(op, k) \in Lock /\ NoLock \in Lock
<1>1. "none" \in Inspections /\ "free" \in LockOps /\ None \in Keys
  BY DEF Inspections, LockOps, Keys
<1> QED
  BY <1>1 DEF Held, Lock, NoLock

\* The free lock is a lock.
LEMMA FreeType == NoLock \in Lock
BY DEF NoLock, Lock, LockOps, Keys, Inspections

\* What the retained outcomes and the lock say of each other: an operation that holds
\* the lock between two persists finds the run and the intent it left there.
KeyInv ==
  /\ \A k \in LaunchKeys : launched[k].state = "accepted" => launched[k].run \in Runs
  /\ \A k \in LaunchKeys : lock = Held("launch", k) => launched[k].state = "accepted"
  /\ \A k \in CancelKeys : lock = Held("arm", k) => cancels[k].run \in Runs
  /\ \A k \in RecoverKeys : recovers[k].state # "none" => recovers[k].run \in Runs
  /\ lock.op \in {"recover", "acted"} =>
       lock.key \in RecoverKeys /\ recovers[lock.key].state = "pending"

\* TypeOK alone is not inductive: a key that reaches a run must name one.
TypeInv == TypeOK /\ KeyInv

\* KeyInv only reads the retained outcomes and the lock.
LEMMA KeyFrame ==
  ASSUME KeyInv, UNCHANGED <<launched, cancels, recovers>>, lock' \in {lock, NoLock}
  PROVE  KeyInv'
<1>1. CASE lock' = lock
  BY <1>1, Zenon DEF KeyInv
<1>2. CASE lock' = NoLock
  BY <1>2, Zenon DEF KeyInv, NoLock, Held
<1> QED
  BY <1>1, <1>2

\* Launch requests.
LEMMA LaunchTypes ==
  ASSUME TypeInv, LaunchNext
  PROVE  TypeInv'
<1>1. ASSUME NEW k \in LaunchKeys, NEW p \in Params, LaunchExisting(k, p)
      PROVE  TypeInv'
  BY <1>1, AuditsType, Zenon DEF TypeInv, TypeOK, KeyInv, LaunchExisting, ReadState, durable
<1>2. ASSUME NEW k \in LaunchKeys, NEW p \in Params, LaunchReject(k, p)
      PROVE  TypeInv'
  <2>1. [state |-> "rejected", fp |-> p, run |-> None] \in LaunchOutcome
    BY DEF LaunchOutcome, Verdicts
  <2>2. lock # Held("launch", k)
    BY <1>2 DEF LaunchReject, Unlocked, Held
  <2> QED
    BY <1>2, <2>1, <2>2, AuditsType, Zenon
    DEF TypeInv, TypeOK, KeyInv, LaunchReject, ReadState
<1>3. ASSUME NEW k \in LaunchKeys, NEW p \in Params, NEW r \in Runs, LaunchCommit(k, p, r)
      PROVE  TypeInv'
  <2>1. [state |-> "accepted", fp |-> p, run |-> r] \in LaunchOutcome
    BY DEF LaunchOutcome, Verdicts
  <2>2. [NoRun EXCEPT !.status = "starting", !.rev = 1, !.events = <<"created">>] \in RunRecord
    BY CreatedType
  <2>3. Held("launch", k) \in Lock
    BY HeldType DEF LockOps, Keys
  <2>4. \A j \in LaunchKeys : Held("launch", k) = Held("launch", j) => j = k
    BY DEF Held
  <2>5. TypeOK'
    BY <1>3, <2>1, <2>2, <2>3, AuditsType, Zenon DEF TypeInv, TypeOK, LaunchCommit, ReadState
  <2>6. KeyInv'
    BY <1>3, <2>4, Zenon DEF TypeInv, TypeOK, KeyInv, LaunchCommit, Held
  <2> QED
    BY <2>5, <2>6 DEF TypeInv
<1>4. ASSUME NEW k \in LaunchKeys, LaunchPublish(k)
      PROVE  TypeInv'
  <2>1. launched[k].run \in Runs
    BY <1>4 DEF TypeInv, KeyInv, LaunchPublish
  <2>2. [sup[launched[k].run] EXCEPT !.stage = "scheduled"] \in SupRecord
    BY <2>1, SupFields DEF TypeInv, TypeOK, Stages
  <2>3. NoLock \in Lock 
    BY HeldType DEF LockOps, Keys
  <2>4. TypeOK'
    BY <1>4, <2>1, <2>2, <2>3, AuditsType, Zenon
    DEF TypeInv, TypeOK, LaunchPublish, ReadState, durable
  <2>5. KeyInv'
    BY <1>4, Zenon DEF TypeInv, KeyInv, LaunchPublish, NoLock, Held, durable
  <2> QED
    BY <2>4, <2>5 DEF TypeInv
<1> QED
  BY <1>1, <1>2, <1>3, <1>4 DEF LaunchNext

\* Cancellation requests.
LEMMA CancelTypes ==
  ASSUME TypeInv, CancelNext
  PROVE  TypeInv'
<1>1. ASSUME NEW k \in CancelKeys, NEW r \in Runs, CancelExisting(k, r)
      PROVE  TypeInv'
  <2>1. Requested(sup[r]) \in SupRecord
    BY RequestedType DEF TypeInv, TypeOK
  <2>2. TypeOK'
    BY <1>1, <2>1, AuditsType, Zenon
    DEF TypeInv, TypeOK, CancelExisting, RequestIfActive, ReadState, durable
  <2>3. KeyInv'
    BY <1>1, Zenon DEF TypeInv, KeyInv, CancelExisting, durable
  <2> QED
    BY <2>2, <2>3 DEF TypeInv
<1>2. ASSUME NEW k \in CancelKeys, NEW r \in Runs, CancelReject(k, r)
      PROVE  TypeInv'
  <2>1. [state |-> "rejected", run |-> r] \in CancelOutcome
    BY DEF CancelOutcome, Verdicts
  <2> QED
    BY <1>2, <2>1, AuditsType, Zenon DEF TypeInv, TypeOK, KeyInv, CancelReject, ReadState
<1>3. ASSUME NEW k \in CancelKeys, NEW r \in Runs, CancelCommit(k, r)
      PROVE  TypeInv'
  <2>1. [state |-> "accepted", run |-> r] \in CancelOutcome
    BY DEF CancelOutcome, Verdicts
  <2>2. Recorded(run[r], "cancel") \in RunRecord /\ "cancelling" \in Statuses
    BY RecordedType DEF TypeInv, TypeOK, Events, Statuses, Active
  <2>3. Held("arm", k) \in Lock
    BY HeldType DEF LockOps, Keys
  <2>4. TypeOK'
    BY <1>3, <2>1, <2>2, <2>3, AuditsType, Zenon
    DEF TypeInv, TypeOK, RunRecord, CancelCommit, ReadState
  <2>5. \A j \in CancelKeys : Held("arm", k) = Held("arm", j) => j = k
    BY DEF Held
  <2>6. KeyInv'
    BY <1>3, <2>5, Zenon DEF TypeInv, TypeOK, KeyInv, CancelCommit, Held
  <2> QED
    BY <2>4, <2>6 DEF TypeInv
<1>4. ASSUME NEW k \in CancelKeys, CancelArm(k)
      PROVE  TypeInv'
  <2>1. cancels[k].run \in Runs
    BY <1>4 DEF TypeInv, KeyInv, CancelArm
  <2>2. Requested(sup[cancels[k].run]) \in SupRecord
    BY <2>1, RequestedType DEF TypeInv, TypeOK
  <2>3. Held("cancel", k) \in Lock
    BY HeldType DEF LockOps, Keys
  <2>4. TypeOK'
    BY <1>4, <2>1, <2>2, <2>3, Zenon DEF TypeInv, TypeOK, CancelArm, RequestIfActive, durable
  <2>5. KeyInv'
    BY <1>4, Zenon DEF TypeInv, KeyInv, CancelArm, Held, durable
  <2> QED
    BY <2>4, <2>5 DEF TypeInv
<1>5. ASSUME NEW k \in CancelKeys, CancelPublish(k)
      PROVE  TypeInv'
  <2>1. NoLock \in Lock
    BY HeldType DEF LockOps, Keys
  <2>2. TypeOK'
    BY <1>5, <2>1, AuditsType, Zenon DEF TypeInv, TypeOK, CancelPublish, ReadState, durable
  <2>3. KeyInv'
    BY <1>5, Zenon DEF TypeInv, KeyInv, CancelPublish, NoLock, Held, durable
  <2> QED
    BY <2>2, <2>3 DEF TypeInv
<1> QED
  BY <1>1, <1>2, <1>3, <1>4, <1>5 DEF CancelNext

\* The external action of a recovery: its inspection is one the schema knows.
LEMMA RecoverActTypes ==
  ASSUME TypeInv, NEW k \in RecoverKeys, RecoverAct(k)
      PROVE  TypeInv'
  <2>1. recovers[k].state = "pending" /\ recovers[k].run \in Runs
    BY DEF TypeInv, KeyInv, RecoverAct, Held
  <2>2. PICK insp \in Inspections : lock' = [lock EXCEPT !.op = "acted", !.insp = insp]
    <3>1. Inspect(recovers[k].run) \cup {"none", "confirmed", "unconfirmed"} \subseteq Inspections
      BY DEF Inspect, Inspections
    <3> QED
      BY <3>1, Zenon DEF RecoverAct
  <2>3. lock' = [op |-> "acted", key |-> k, insp |-> insp]
    BY <2>2 DEF RecoverAct, Held
  <2>4. lock' \in Lock /\ "gone" \in Trees
    BY <2>3 DEF Lock, LockOps, Keys, Trees
  <2>5. proc' \in [Runs -> ProcRecord]
    <3>1. proc' = proc \/ proc' = [proc EXCEPT ![recovers[k].run].tree = "gone"]
      BY DEF RecoverAct
    <3>2. [proc EXCEPT ![recovers[k].run].tree = "gone"] \in [Runs -> ProcRecord]
      BY <2>1, <2>4, Zenon DEF TypeInv, TypeOK, ProcRecord
    <3> QED
      BY <3>1, <3>2, Zenon DEF TypeInv, TypeOK
  <2>6. TypeOK'
    BY <2>4, <2>5, Zenon DEF TypeInv, TypeOK, RecoverAct, durable
  <2>7. KeyInv'
    BY <2>1, <2>3, Zenon DEF TypeInv, KeyInv, RecoverAct, Held, durable
  <2> QED
    BY <2>6, <2>7 DEF TypeInv

\* The commit of a recovery.
LEMMA RecoverCommitTypes ==
  ASSUME TypeInv, NEW k \in RecoverKeys, RecoverCommit(k)
      PROVE  TypeInv'
  <2> DEFINE r == recovers[k].run
             after == Effect(run[r], recovers[k].action, lock.insp)
  <2>1. r \in Runs /\ lock.insp \in Inspections
    BY DEF TypeInv, TypeOK, KeyInv, RecoverCommit, Lock
  <2>2. after \in RunRecord
    BY <2>1, EffectType DEF TypeInv, TypeOK
  <2>4. /\ Answered(recovers[k], after) \in RecoverMutation
        /\ Answered(recovers[k], after).run = r
    BY AnsweredType DEF TypeInv, TypeOK
  <2>5. Held("recovered", k) \in Lock /\ "failure" \in Progressions
    BY HeldType DEF LockOps, Keys, Progressions
  <2>6. run' \in [Runs -> RunRecord]
    BY <2>2, Zenon DEF TypeInv, TypeOK, RecoverCommit
  <2>7. PICK m \in RecoverMutation : m.run = r /\ recovers' = [recovers EXCEPT ![k] = m]
    <3>1. [recovers[k] EXCEPT !.state = "failure"] \in RecoverMutation
      BY <2>5, Zenon DEF TypeInv, TypeOK, RecoverMutation
    <3> QED
      BY <2>4, <3>1, Zenon DEF TypeInv, TypeOK, RecoverCommit, RecoverMutation
  <2>8. TypeOK'
    BY <2>5, <2>6, <2>7, Zenon DEF TypeInv, TypeOK, RecoverCommit
  <2>10. recovers'[k].run = r /\ \A j \in RecoverKeys : j # k => recovers'[j] = recovers[j]
    BY <2>7, Zenon DEF TypeInv, TypeOK
  <2>9. KeyInv'
    BY <2>1, <2>10, Zenon DEF TypeInv, KeyInv, RecoverCommit, Held
  <2> QED
    BY <2>8, <2>9 DEF TypeInv

\* Recovery requests.
LEMMA RecoverTypes ==
  ASSUME TypeInv, RecoverNext
  PROVE  TypeInv'
<1>1. ASSUME NEW k \in RecoverKeys, NEW r \in Runs, NEW a \in RecoveryActions,
             RecoverExisting(k, r, a)
      PROVE  TypeInv'
  <2>1. Held("recover", k) \in Lock
    BY HeldType DEF LockOps, Keys
  <2>2. TypeOK'
    BY <1>1, <2>1, AuditsType, Zenon DEF TypeInv, TypeOK, RecoverExisting, ReadState, durable
  <2>3. KeyInv'
    BY <1>1, Zenon DEF TypeInv, KeyInv, RecoverExisting, Held, durable
  <2> QED
    BY <2>2, <2>3 DEF TypeInv
<1>2. ASSUME NEW k \in RecoverKeys, NEW r \in Runs, NEW a \in RecoveryActions,
             RecoverReject(k, r, a)
      PROVE  TypeInv'
  <2>1. [state |-> "failure", run |-> r, action |-> a, settled |-> FALSE] \in RecoverMutation
    BY DEF RecoverMutation, Progressions
  <2>2. Held("recovered", k) \in Lock
    BY HeldType DEF LockOps, Keys
  <2>3. TypeOK'
    BY <1>2, <2>1, <2>2, AuditsType, Zenon DEF TypeInv, TypeOK, RecoverReject, ReadState
  <2>4. KeyInv'
    BY <1>2, Zenon DEF TypeInv, TypeOK, KeyInv, RecoverReject, Held
  <2> QED
    BY <2>3, <2>4 DEF TypeInv
<1>3. ASSUME NEW k \in RecoverKeys, NEW r \in Runs, NEW a \in RecoveryActions,
             RecoverIntent(k, r, a)
      PROVE  TypeInv'
  <2>1. [state |-> "pending", run |-> r, action |-> a, settled |-> FALSE] \in RecoverMutation
    BY DEF RecoverMutation, Progressions
  <2>2. Held("recover", k) \in Lock
    BY HeldType DEF LockOps, Keys
  <2>3. TypeOK'
    BY <1>3, <2>1, <2>2, AuditsType, Zenon DEF TypeInv, TypeOK, RecoverIntent, ReadState
  <2>4. KeyInv'
    BY <1>3, Zenon DEF TypeInv, TypeOK, KeyInv, RecoverIntent, Held
  <2> QED
    BY <2>3, <2>4 DEF TypeInv
<1>4. ASSUME NEW k \in RecoverKeys, RecoverAct(k)
      PROVE  TypeInv'
  BY <1>4, RecoverActTypes
<1>5. ASSUME NEW k \in RecoverKeys, RecoverCommit(k)
      PROVE  TypeInv'
  BY <1>5, RecoverCommitTypes
<1>6. ASSUME NEW k \in RecoverKeys, RecoverPublish(k)
      PROVE  TypeInv'
  <2>1. NoLock \in Lock
    BY HeldType DEF LockOps, Keys
  <2>2. TypeOK'
    BY <1>6, <2>1, AuditsType, Zenon DEF TypeInv, TypeOK, RecoverPublish, ReadState, durable
  <2>3. KeyInv'
    BY <1>6, Zenon DEF TypeInv, KeyInv, RecoverPublish, NoLock, Held, durable
  <2> QED
    BY <2>2, <2>3 DEF TypeInv
<1> QED
  BY <1>1, <1>2, <1>3, <1>4, <1>5, <1>6 DEF RecoverNext

\* Starting the adapter.
LEMMA StartTypes ==
  ASSUME TypeInv, NEW r \in Runs, StartNext(r)
  PROVE  TypeInv'
<1>1. /\ {"live", "flush"} \subseteq Stages /\ {"stillborn", "unsupervised"} \subseteq Exits
      /\ "gone" \in Trees /\ sup[r] \in SupRecord
  BY DEF TypeInv, TypeOK, Stages, Exits, Trees
<1>2. Spawned \in ProcRecord
  BY DEF Spawned, NoProc, ProcRecord, Trees, Guards
<1>3. KeyInv'
  BY KeyFrame, Zenon DEF TypeInv, StartNext, SupStartOk, SupStartStillborn, SupStartFail,
                         SupStartFailSpawned, durable
<1>4. CASE SupStartOk(r)
  <2>1. [sup[r] EXCEPT !.stage = "live"] \in SupRecord
    BY <1>1, SupFields
  <2>2. Requested([sup[r] EXCEPT !.stage = "live"]) \in SupRecord
    BY <2>1, RequestedType
  <2> QED
    BY <1>2, <1>3, <1>4, <2>1, <2>2, Zenon DEF TypeInv, TypeOK, SupStartOk, durable
<1>5. CASE SupStartStillborn(r)
  <2>1. [sup[r] EXCEPT !.stage = "live", !.exit = "stillborn"] \in SupRecord
    BY <1>1, SupFields
  <2>2. Requested([sup[r] EXCEPT !.stage = "live", !.exit = "stillborn"]) \in SupRecord
    BY <2>1, RequestedType
  <2>3. [Spawned EXCEPT !.tree = "gone"] \in ProcRecord
    BY <1>1, <1>2, Zenon DEF ProcRecord
  <2> QED
    BY <1>3, <1>5, <2>1, <2>2, <2>3, Zenon DEF TypeInv, TypeOK, SupStartStillborn, durable
<1>6. CASE SupStartFail(r)
  <2>1. [sup[r] EXCEPT !.stage = "flush", !.exit = "unsupervised"] \in SupRecord
    BY <1>1, SupFields
  <2> QED
    BY <1>3, <1>6, <2>1, Zenon DEF TypeInv, TypeOK, SupStartFail, durable
<1>7. CASE SupStartFailSpawned(r)
  <2>1. [Spawned EXCEPT !.killed = TRUE] \in ProcRecord
    BY <1>2, Zenon DEF ProcRecord
  <2>2. [sup[r] EXCEPT !.stage = "flush", !.exit = "unsupervised"] \in SupRecord
    BY <1>1, SupFields
  <2> QED
    BY <1>3, <1>7, <2>1, <2>2, Zenon DEF TypeInv, TypeOK, SupStartFailSpawned, durable
<1> QED
  BY <1>4, <1>5, <1>6, <1>7 DEF StartNext

\* Frames from the adapter channel.
LEMMA FrameTypes ==
  ASSUME TypeInv, NEW r \in Runs, FrameNext(r)
  PROVE  TypeInv'
<1>1. {"ready", "progress", "closed"} \subseteq Consumers /\ sup[r] \in SupRecord
  BY DEF TypeInv, TypeOK, Consumers
<1>2. KeyInv'
  BY KeyFrame, Zenon DEF TypeInv, FrameNext, FrameReady, FrameProgress, FrameInvalid, ChannelClose,
                         FrameTerminal, durable
<1>3. CASE FrameReady(r)
  <2>1. [sup[r] EXCEPT !.ready = TRUE, !.cons = "ready"] \in SupRecord
    BY <1>1, SupFields
  <2> QED
    BY <1>2, <1>3, <2>1, Zenon DEF TypeInv, TypeOK, FrameReady, durable
<1>4. CASE FrameProgress(r)
  <2> DEFINE s == [sup[r] EXCEPT !.seen = @ + 1, !.pend = @ + 1]
  <2>1. sup[r].seen + 1 \in Nat /\ sup[r].pend + 1 \in Nat
    BY DEF TypeInv, TypeOK, SupRecord
  <2>2. s \in SupRecord
    BY <1>1, <2>1, Zenon DEF SupRecord
  <2>3. [s EXCEPT !.cons = "progress"] \in SupRecord
    BY <1>1, <2>2, SupFields
  <2> QED
    BY <1>2, <1>4, <2>2, <2>3, Zenon DEF TypeInv, TypeOK, FrameProgress, durable
<1>5. CASE FrameInvalid(r)
  <2>1. proc' \in [Runs -> ProcRecord]
    BY <1>5, Zenon DEF TypeInv, TypeOK, ProcRecord, FrameInvalid
  <2>2. [sup[r] EXCEPT !.invalid = TRUE, !.cons = "closed"] \in SupRecord
    BY <1>1, SupFields
  <2> QED
    BY <1>2, <1>5, <2>1, <2>2, Zenon DEF TypeInv, TypeOK, FrameInvalid, durable
<1>6. CASE ChannelClose(r)
  <2>1. [sup[r] EXCEPT !.cons = "closed"] \in SupRecord
    BY <1>1, SupFields
  <2> QED
    BY <1>2, <1>6, <2>1, Zenon DEF TypeInv, TypeOK, ChannelClose, durable
<1>7. ASSUME NEW envelope \in Envelopes, FrameTerminal(r, envelope)
      PROVE  TypeInv'
  <2>1. WithTerminal(sup[r], envelope) \in SupRecord
    BY WithTerminalType DEF TypeInv, TypeOK
  <2> QED
    BY <1>2, <1>7, <2>1, Zenon DEF TypeInv, TypeOK, FrameTerminal, durable
<1> QED
  BY <1>3, <1>4, <1>5, <1>6, <1>7 DEF FrameNext

\* Publication of frames, completion, the terminal commit and the release.
LEMMA SettleTypes ==
  ASSUME TypeInv, NEW r \in Runs, SettleNext(r)
  PROVE  TypeInv'
<1>1. KeyInv'
  BY KeyFrame, Zenon DEF TypeInv, SettleNext, PublishReady, PublishProgress, Complete, Drain,
                         Flush, Commit, AwaitCancel, OutcomeAudit, Release, durable
<1>2. run[r] \in RunRecord /\ sup[r] \in SupRecord /\ sup[r].pend \in Nat
  BY Zenon DEF TypeInv, TypeOK, SupRecord
<1>3. WithProgress(run[r], sup[r].pend) \in RunRecord
  BY <1>2, WithProgressType
<1>4. CASE PublishReady(r)
  <2>1. Ready(run[r]) \in RunRecord
    BY <1>2, ReadyType
  <2>2. [sup[r] EXCEPT !.cons = "idle"] \in SupRecord
    BY <1>2, SupFields DEF Consumers
  <2> QED
    BY <1>1, <1>4, <2>1, <2>2, AuditsType, Zenon
    DEF TypeInv, TypeOK, PublishReady, ReadState
<1>5. CASE PublishProgress(r)
  <2>1. [sup[r] EXCEPT !.cons = "idle", !.pend = 0] \in SupRecord
    BY <1>2, SupFields DEF Consumers
  <2> QED
    BY <1>1, <1>3, <1>5, <2>1, AuditsType, Zenon
    DEF TypeInv, TypeOK, PublishProgress, ReadState
<1>6. CASE Complete(r)
  <2>1. sup' \in [Runs -> SupRecord]
    <3>1. CASE sup[r].co \in {"idle", "yes", "no"} /\ sup' = [sup EXCEPT ![r] = Captured(@)]
      <4>1. Captured(sup[r]) \in SupRecord
        BY <1>2, <3>1, CapturedType
      <4> QED
        BY <3>1, <4>1, Zenon DEF TypeInv, TypeOK
    <3>2. CASE sup' = [sup EXCEPT ![r] = [@ EXCEPT !.stage = "flush", !.exit = "callbackFailed"]]
      <4>1. [sup[r] EXCEPT !.stage = "flush", !.exit = "callbackFailed"] \in SupRecord
        BY <1>2, SupFields DEF Stages, Exits
      <4> QED
        BY <3>2, <4>1, Zenon DEF TypeInv, TypeOK
    <3> QED
      BY <1>6, <3>1, <3>2, Zenon DEF Complete
  <2> QED
    BY <1>1, <1>6, <2>1, Zenon DEF TypeInv, TypeOK, Complete, durable
<1>7. CASE Drain(r)
  <2>1. [sup[r] EXCEPT !.stage = "flush"] \in SupRecord
    BY <1>2, SupFields DEF Stages
  <2> QED
    BY <1>1, <1>7, <2>1, Zenon DEF TypeInv, TypeOK, Drain, durable
<1>8. CASE Flush(r)
  <2>1. run' \in [Runs -> RunRecord] /\ audits' \subseteq AuditIds
    <3>1. CASE sup[r].pend = 0
      BY <1>8, <3>1, Zenon DEF TypeInv, TypeOK, Flush
    <3>2. CASE sup[r].pend # 0
      BY <1>3, <1>8, <3>2, AuditsType, Zenon DEF TypeInv, TypeOK, Flush, ReadState
    <3> QED
      BY <3>1, <3>2
  <2>2. [sup[r] EXCEPT !.stage = "commit", !.pend = 0] \in SupRecord
    BY <1>2, SupFields DEF Stages
  <2>3. sup' \in [Runs -> SupRecord]
    <3>1. sup' = [sup EXCEPT ![r] = [@ EXCEPT !.stage = "commit", !.pend = 0]]
      BY <1>8, Zenon DEF Flush
    <3> QED
      BY <2>2, <3>1, Zenon DEF TypeInv, TypeOK
  <2> QED
    BY <1>1, <1>8, <2>1, <2>3, Zenon DEF TypeInv, TypeOK, Flush
<1>9. CASE Commit(r)
  <2>1. /\ OutcomeCode(sup[r]) \in Outcomes /\ "cancelled" \in Outcomes
        /\ ValidTerminal(sup[r]) \in BOOLEAN
    BY DEF OutcomeCode, Outcomes, Envelopes, ValidTerminal, StartFailed
  <2>2. /\ [sup[r] EXCEPT !.stage = "audit"] \in SupRecord
        /\ [sup[r] EXCEPT !.stage = "release"] \in SupRecord
        /\ [sup[r] EXCEPT !.stage = "await"] \in SupRecord
        /\ [Requested(sup[r]) EXCEPT !.stage = "await"] \in SupRecord
    <3>1. {"audit", "await", "release"} \subseteq Stages
      BY DEF Stages
    <3>2. Requested(sup[r]) \in SupRecord
      BY <1>2, RequestedType
    <3> QED
      BY <1>2, <3>1, <3>2, SupFields
  <2>3. CASE CommitCancelled(r)
    <3> DEFINE s == sup[r]
               complete == ValidTerminal(s) /\ s.term = "cancelled" /\ ~run[r].forced
               how == IF run[r].confirmed # "no" THEN run[r].confirmed
                      ELSE IF s.captured = "yes" THEN "tree"
                      ELSE IF s.captured = "no" THEN "no"
                      ELSE "nostart"
    <3>1. how \in Vouchers
      BY <1>2 DEF RunRecord, Vouchers
    <3>2. Ended(run[r], "cancelled", complete) \in RunRecord
      BY <1>2, <2>1, EndedType
    <3>3. [Ended(run[r], "cancelled", complete) EXCEPT !.confirmed = how] \in RunRecord
      BY <3>1, <3>2, Zenon DEF RunRecord
    <3>4. run' \in [Runs -> RunRecord]
      BY <2>3, <3>3, Zenon DEF CommitCancelled, TypeInv, TypeOK
    <3>5. sup' \in [Runs -> SupRecord]
      BY <2>2, <2>3, Zenon DEF CommitCancelled, TypeInv, TypeOK
    <3> QED
      BY <1>1, <1>9, <3>4, <3>5, AuditsType, Zenon DEF Commit, TypeInv, TypeOK, ReadState
  <2>4. CASE CommitUncancelled(r)
    <3>1. Ended(run[r], OutcomeCode(sup[r]), ValidTerminal(sup[r])) \in RunRecord
      BY <1>2, <2>1, EndedType
    <3>2. run' \in [Runs -> RunRecord] /\ sup' \in [Runs -> SupRecord]
      BY <2>2, <2>4, <3>1, Zenon DEF CommitUncancelled, TypeInv, TypeOK
    <3> QED
      BY <1>1, <1>9, <3>2, AuditsType, Zenon DEF Commit, TypeInv, TypeOK, ReadState
  <2>5. CASE CommitAwaits(r)
    <3>1. sup' \in [Runs -> SupRecord]
      BY <2>2, <2>5, Zenon DEF CommitAwaits, TypeInv, TypeOK
    <3> QED
      BY <1>1, <1>9, <2>5, <3>1, AuditsType, Zenon
      DEF Commit, CommitAwaits, TypeInv, TypeOK, ReadState
  <2>6. CASE CommitGivesUp(r)
    <3>1. sup' \in [Runs -> SupRecord]
      BY <2>2, <2>6, Zenon DEF CommitGivesUp, TypeInv, TypeOK
    <3> QED
      BY <1>1, <1>9, <2>6, <3>1, AuditsType, Zenon
      DEF Commit, CommitGivesUp, TypeInv, TypeOK, ReadState
  <2> QED
    BY <1>9, <2>3, <2>4, <2>5, <2>6, Zenon DEF Commit
<1>10. CASE AwaitCancel(r)
  <2>1. sup' \in [Runs -> SupRecord]
    <3>1. {"commit", "release"} \subseteq Stages /\ {"yes", "no"} \subseteq Results
      BY DEF Stages, Results
    <3>2. CASE /\ sup[r].co \in {"yes", "no"}
               /\ sup' = [sup EXCEPT ![r] = [@ EXCEPT !.captured = sup[r].co, !.stage = "commit"]]
      <4>1. [sup[r] EXCEPT !.captured = sup[r].co, !.stage = "commit"] \in SupRecord
        BY <1>2, <3>1, <3>2, SupFields
      <4> QED
        BY <3>2, <4>1, Zenon DEF TypeInv, TypeOK
    <3>3. CASE sup' = [sup EXCEPT ![r].stage = "release"]
      <4>1. [sup[r] EXCEPT !.stage = "release"] \in SupRecord
        BY <1>2, <3>1, SupFields
      <4> QED
        BY <3>3, <4>1, Zenon DEF TypeInv, TypeOK
    <3> QED
      BY <1>10, <3>2, <3>3, Zenon DEF AwaitCancel
  <2> QED
    BY <1>1, <1>10, <2>1, Zenon DEF TypeInv, TypeOK, AwaitCancel, durable
<1>11. CASE OutcomeAudit(r)
  <2>1. <<"outcome", r>> \in AuditIds
    BY DEF AuditIds
  <2>2. [sup[r] EXCEPT !.stage = "release"] \in SupRecord
    BY <1>2, SupFields DEF Stages
  <2> QED
    BY <1>1, <1>11, <2>1, <2>2, Zenon DEF TypeInv, TypeOK, OutcomeAudit, durable
<1>12. CASE Release(r)
  <2>1. "gone" \in Guards /\ [sup[r] EXCEPT !.stage = "done"] \in SupRecord
    BY <1>2, SupFields DEF Guards, Stages
  <2>2. proc' \in [Runs -> ProcRecord]
    <3>1. proc' = proc \/ proc' = [proc EXCEPT ![r].guard = "gone"]
      BY <1>12, Zenon DEF Release
    <3>2. [proc EXCEPT ![r].guard = "gone"] \in [Runs -> ProcRecord]
      BY <2>1, Zenon DEF TypeInv, TypeOK, ProcRecord
    <3> QED
      BY <3>1, <3>2, Zenon DEF TypeInv, TypeOK
  <2>3. sup' \in [Runs -> SupRecord]
    <3>1. sup' = [sup EXCEPT ![r].stage = "done"]
      BY <1>12, Zenon DEF Release
    <3> QED
      BY <2>1, <3>1, Zenon DEF TypeInv, TypeOK
  <2> QED
    BY <1>1, <1>12, <2>2, <2>3, Zenon DEF TypeInv, TypeOK, Release, durable
<1> QED
  BY <1>4, <1>5, <1>6, <1>7, <1>8, <1>9, <1>10, <1>11, <1>12 DEF SettleNext

\* The cancellation operation and its escalation timer.
LEMMA SignalTypes ==
  ASSUME TypeInv, NEW r \in Runs, SignalNext(r)
  PROVE  TypeInv'
<1>1. KeyInv'
  BY KeyFrame, Zenon DEF TypeInv, SignalNext, CoopSignal, PublishCoop, Escalate, PublishForced,
                         Settle, PublishConfirmed, durable
<1>2. run[r] \in RunRecord /\ sup[r] \in SupRecord
  BY DEF TypeInv, TypeOK
<1>3. CASE CoopSignal(r)
  <2>1. /\ [sup[r] EXCEPT !.co = "publish"] \in SupRecord
        /\ [sup[r] EXCEPT !.co = "wait"] \in SupRecord
    BY <1>2, SupFields DEF Cancellations
  <2> QED
    <3>1. \/ sup' = [sup EXCEPT ![r].co = "publish"]
          \/ sup' = [sup EXCEPT ![r].co = "wait"]
      BY <1>3, Zenon DEF CoopSignal
    <3>2. /\ [sup EXCEPT ![r].co = "publish"] \in [Runs -> SupRecord]
          /\ [sup EXCEPT ![r].co = "wait"] \in [Runs -> SupRecord]
      BY <2>1, Zenon DEF TypeInv, TypeOK
    <3> QED
      BY <1>1, <1>3, <3>1, <3>2, Zenon DEF TypeInv, TypeOK, CoopSignal, durable
<1>4. CASE PublishCoop(r)
  <2>1. SignalField(run[r], "coop") \in RunRecord
    BY <1>2, SignalFieldType
  <2>2. [sup[r] EXCEPT !.co = "wait"] \in SupRecord
    BY <1>2, SupFields DEF Cancellations
  <2> QED
    BY <1>1, <1>4, <2>1, <2>2, AuditsType, Zenon
    DEF TypeInv, TypeOK, PublishCoop, ReadState
<1>5. CASE Escalate(r)
  <2>1. /\ [sup[r] EXCEPT !.esc = "publish"] \in SupRecord
        /\ [sup[r] EXCEPT !.esc = "done"] \in SupRecord
    BY <1>2, SupFields DEF Escalations
  <2>2. sup' \in [Runs -> SupRecord] /\ proc' \in [Runs -> ProcRecord]
    <3>1. /\ \/ sup' = [sup EXCEPT ![r].esc = "publish"]
             \/ sup' = [sup EXCEPT ![r].esc = "done"]
          /\ proc' = proc \/ proc' = [proc EXCEPT ![r].killed = TRUE]
      BY <1>5, Zenon DEF Escalate
    <3>2. /\ [sup EXCEPT ![r].esc = "publish"] \in [Runs -> SupRecord]
          /\ [sup EXCEPT ![r].esc = "done"] \in [Runs -> SupRecord]
      BY <2>1, Zenon DEF TypeInv, TypeOK
    <3>3. [proc EXCEPT ![r].killed = TRUE] \in [Runs -> ProcRecord]
      BY Zenon DEF TypeInv, TypeOK, ProcRecord
    <3> QED
      BY <3>1, <3>2, <3>3, Zenon DEF TypeInv, TypeOK
  <2> QED
    BY <1>1, <1>5, <2>2, Zenon DEF TypeInv, TypeOK, Escalate, durable
<1>6. CASE PublishForced(r)
  <2>1. SignalField(run[r], "forced") \in RunRecord
    BY <1>2, SignalFieldType
  <2>2. [sup[r] EXCEPT !.esc = "done"] \in SupRecord
    BY <1>2, SupFields DEF Escalations
  <2> QED
    BY <1>1, <1>6, <2>1, <2>2, AuditsType, Zenon
    DEF TypeInv, TypeOK, PublishForced, ReadState
<1>7. CASE Settle(r)
  <2>1. /\ [sup[r] EXCEPT !.co = "confirm", !.esc = "done"] \in SupRecord
        /\ [sup[r] EXCEPT !.co = "no"] \in SupRecord
        /\ [sup[r] EXCEPT !.co = "failed"] \in SupRecord
    BY <1>2, SupFields DEF Cancellations, Escalations
  <2>2. sup' \in [Runs -> SupRecord]
    <3>1. \/ sup' = [sup EXCEPT ![r] = [@ EXCEPT !.co = "confirm", !.esc = "done"]]
          \/ sup' = [sup EXCEPT ![r].co = "no"]
          \/ sup' = [sup EXCEPT ![r].co = "failed"]
      BY <1>7, Zenon DEF Settle
    <3>2. CASE sup' = [sup EXCEPT ![r] = [@ EXCEPT !.co = "confirm", !.esc = "done"]]
      BY <2>1, <3>2, Zenon DEF TypeInv, TypeOK
    <3>3. CASE sup' = [sup EXCEPT ![r].co = "no"]
      BY <2>1, <3>3, Zenon DEF TypeInv, TypeOK
    <3>4. CASE sup' = [sup EXCEPT ![r].co = "failed"]
      BY <2>1, <3>4, Zenon DEF TypeInv, TypeOK
    <3> QED
      BY <3>1, <3>2, <3>3, <3>4
  <2> QED
    BY <1>1, <1>7, <2>2, Zenon DEF TypeInv, TypeOK, Settle, durable
<1>8. CASE PublishConfirmed(r)
  <2>1. ConfirmedByTree(run[r]) \in RunRecord
    BY <1>2, ConfirmedByTreeType
  <2>2. [sup[r] EXCEPT !.co = "yes"] \in SupRecord
    BY <1>2, SupFields DEF Cancellations
  <2> QED
    BY <1>1, <1>8, <2>1, <2>2, AuditsType, Zenon
    DEF TypeInv, TypeOK, PublishConfirmed, ReadState
<1> QED
  BY <1>3, <1>4, <1>5, <1>6, <1>7, <1>8 DEF SignalNext

\* The process tree and its guardian.
LEMMA ProcessTypes ==
  ASSUME TypeInv, NEW r \in Runs, ProcessNext(r)
  PROVE  TypeInv'
<1>1. KeyInv'
  BY KeyFrame, Zenon DEF TypeInv, ProcessNext, RootExits, KidsExit, KillLands, GuardDrain, durable
<1>2. "kids" \in Trees /\ "gone" \in Trees /\ "gone" \in Guards
  BY DEF Trees, Guards
<1>3. proc' \in [Runs -> ProcRecord]
  <2>1. CASE RootExits(r)
    <3>1. PICK after \in {"kids", "gone"} : proc' = [proc EXCEPT ![r].tree = after]
      BY <2>1 DEF RootExits
    <3>2. after \in Trees
      BY <1>2
    <3> QED
      BY <3>1, <3>2, Zenon DEF TypeInv, TypeOK, ProcRecord
  <2>2. CASE KidsExit(r)
    BY <1>2, <2>2, Zenon DEF TypeInv, TypeOK, ProcRecord, KidsExit
  <2>3. CASE KillLands(r)
    BY <1>2, <2>3, Zenon DEF TypeInv, TypeOK, ProcRecord, KillLands
  <2>4. CASE GuardDrain(r)
    <3>1. PICK confirmed \in BOOLEAN :
            proc' = [proc EXCEPT ![r] = [@ EXCEPT !.tree = "gone", !.guard = "gone",
                                                  !.evidence = confirmed]]
      BY <2>4, Zenon DEF GuardDrain
    <3> QED
      BY <1>2, <3>1, Zenon DEF TypeInv, TypeOK, ProcRecord
  <2> QED
    BY <2>1, <2>2, <2>3, <2>4 DEF ProcessNext
<1>4. UNCHANGED <<durable, audits, host, lock, sup, accepted, told, crashes>>
  BY Zenon DEF ProcessNext, RootExits, KidsExit, KillLands, GuardDrain
<1> QED
  BY <1>1, <1>3, <1>4, Zenon DEF TypeInv, TypeOK, durable

\* Startup.
LEMMA BootTypes ==
  ASSUME TypeInv, BootNext
  PROVE  TypeInv'
<1>1. {"up", "reconciled", "intents"} \subseteq Hosts
  BY DEF Hosts
<1>2. CASE BootReconcile
  <2>1. PICK seen \in [Runs -> Inspections] :
          run' = [r \in Runs |-> Reconciled(run[r], seen[r])]
    BY <1>2 DEF BootReconcile
  <2>2. run' \in [Runs -> RunRecord]
    BY <2>1, ReconciledType, Zenon DEF TypeInv, TypeOK
  <2>3. KeyInv'
    BY <1>2, KeyFrame, Zenon DEF TypeInv, BootReconcile
  <2> QED
    BY <1>1, <1>2, <2>2, <2>3, AuditsType, Zenon DEF TypeInv, TypeOK, BootReconcile, ReadState
<1>3. CASE BootPublish
  <2>1. KeyInv'
    BY <1>3, KeyFrame, Zenon DEF TypeInv, BootPublish, durable
  <2> QED
    BY <1>1, <1>3, <2>1, AuditsType, Zenon DEF TypeInv, TypeOK, BootPublish, ReadState, durable
<1>4. CASE BootDone
  <2>1. KeyInv'
    BY <1>4, KeyFrame, Zenon DEF TypeInv, BootDone, durable
  <2> QED
    BY <1>1, <1>4, <2>1, Zenon DEF TypeInv, TypeOK, BootDone, durable
<1>5. ASSUME NEW k \in RecoverKeys, BootIntent(k)
      PROVE  TypeInv'
  <2>1. Held("recover", k) \in Lock
    BY HeldType DEF LockOps, Keys
  <2>2. TypeOK'
    BY <1>5, <2>1, Zenon DEF TypeInv, TypeOK, BootIntent, durable
  <2>3. KeyInv'
    BY <1>5, Zenon DEF TypeInv, KeyInv, BootIntent, Held, durable
  <2> QED
    BY <2>2, <2>3 DEF TypeInv
<1> QED
  BY <1>2, <1>3, <1>4, <1>5 DEF BootNext

\* Loss of the Host process.
LEMMA CrashTypes ==
  ASSUME TypeInv, Crash
  PROVE  TypeInv'
<1>1. KeyInv'
  BY KeyFrame, Zenon DEF TypeInv, Crash, durable
<1>2. NoSup \in SupRecord
  BY DEF NoSup, SupRecord, Stages, Consumers, Terminals, Cancellations, Escalations, Results, Exits
<1>3. sup' \in [Runs -> SupRecord]
  BY <1>2 DEF Crash
<1>4. proc' \in [Runs -> ProcRecord]
  BY DEF Crash, TypeInv, TypeOK, ProcRecord, Guards
<1>5. crashes' \in Nat /\ "down" \in Hosts
  BY DEF TypeInv, TypeOK, Crash, Hosts
<1> QED
  BY <1>1, <1>3, <1>4, <1>5, FreeType, Zenon DEF TypeInv, TypeOK, Crash, durable

\* Refused writes.
LEMMA FaultTypes ==
  ASSUME TypeInv, FaultNext
  PROVE  TypeInv'
<1>1. CASE OperationThrows
  <2>1. "up" \in Hosts /\ "down" \in Hosts
    BY DEF Hosts
  <2>2. KeyInv'
    BY <1>1, KeyFrame, Zenon DEF TypeInv, OperationThrows, durable
  <2> QED
    BY <1>1, <2>1, <2>2, FreeType, Zenon DEF TypeInv, TypeOK, OperationThrows, durable
<1>2. ASSUME NEW r \in Runs, CallbackThrows(r) \/ SettlementThrows(r) \/ PublicationThrows(r)
      PROVE  TypeInv'
  <2>1. /\ [sup[r] EXCEPT !.stage = "flush", !.exit = "callbackFailed", !.cons = "closed"]
             \in SupRecord
        /\ [sup[r] EXCEPT !.stage = "release"] \in SupRecord
        /\ [sup[r] EXCEPT !.co = "failed"] \in SupRecord
        /\ [sup[r] EXCEPT !.esc = "failed"] \in SupRecord
    <3>1. sup[r] \in SupRecord
      BY DEF TypeInv, TypeOK
    <3> QED
      BY <3>1, SupFields DEF Stages, Exits, Consumers, Cancellations, Escalations
  <2>2. KeyInv'
    BY <1>2, KeyFrame, Zenon
    DEF TypeInv, CallbackThrows, SettlementThrows, PublicationThrows, durable
  <2>3. CASE CallbackThrows(r)
    BY <2>1, <2>2, <2>3, Zenon DEF TypeInv, TypeOK, CallbackThrows, durable
  <2>4. CASE SettlementThrows(r)
    BY <2>1, <2>2, <2>4, Zenon DEF TypeInv, TypeOK, SettlementThrows, durable
  <2>5. CASE PublicationThrows(r)
    <3>1. /\ [sup EXCEPT ![r].co = "failed"] \in [Runs -> SupRecord]
          /\ [sup EXCEPT ![r].esc = "failed"] \in [Runs -> SupRecord]
      BY <2>1, Zenon DEF TypeInv, TypeOK
    <3>2. sup' \in [Runs -> SupRecord]
      BY <2>5, <3>1, Zenon DEF PublicationThrows
    <3> QED
      BY <2>2, <2>5, <3>2, Zenon DEF TypeInv, TypeOK, PublicationThrows, durable
  <2> QED
    BY <1>2, <2>3, <2>4, <2>5
<1> QED
  BY <1>1, <1>2 DEF FaultNext

\* The empty state satisfies the invariant ...
LEMMA TypeInvInit == Init => TypeInv
<1> SUFFICES ASSUME Init PROVE TypeInv
  OBVIOUS
<1>1. NoSup \in SupRecord
  BY DEF NoSup, SupRecord, Stages, Consumers, Terminals, Cancellations, Escalations, Results, Exits
<1>2. NoProc \in ProcRecord
  BY DEF NoProc, ProcRecord, Trees, Guards
<1>3. NoLaunch \in LaunchOutcome /\ NoCancel \in CancelOutcome
  BY DEF NoLaunch, LaunchOutcome, NoCancel, CancelOutcome, Verdicts
<1>4. NoRecover \in RecoverMutation
  BY DEF NoRecover, RecoverMutation, Progressions
<1>5. "down" \in Hosts /\ 0 \in Nat
  BY DEF Hosts
<1>6. TypeOK
  BY <1>1, <1>2, <1>3, <1>4, <1>5, NoRunType, FreeType, Zenon DEF Init, TypeOK
<1>7. KeyInv
  BY DEF Init, KeyInv, NoLaunch, NoRecover, NoLock, Held
<1> QED
  BY <1>6, <1>7 DEF TypeInv

\* ... and every step keeps it: one step per group of actions.
LEMMA TypeInvStep == TypeInv /\ [Next]_vars => TypeInv'
<1> SUFFICES ASSUME TypeInv, [Next]_vars PROVE TypeInv'
  OBVIOUS
<1>1. CASE LaunchNext
  BY <1>1, LaunchTypes
<1>2. CASE CancelNext
  BY <1>2, CancelTypes
<1>3. CASE RecoverNext
  BY <1>3, RecoverTypes
<1>4. CASE Observe
  <2>1. KeyInv'
    BY <1>4, KeyFrame, Zenon DEF TypeInv, Observe, durable
  <2> QED
    BY <1>4, <2>1, AuditsType, Zenon DEF TypeInv, TypeOK, Observe, ReadState, durable
<1>5. ASSUME NEW r \in Runs,
             StartNext(r) \/ FrameNext(r) \/ SettleNext(r) \/ SignalNext(r) \/ ProcessNext(r)
      PROVE  TypeInv'
  BY <1>5, StartTypes, FrameTypes, SettleTypes, SignalTypes, ProcessTypes
<1>6. CASE BootNext
  BY <1>6, BootTypes
<1>7. CASE Crash
  BY <1>7, CrashTypes
<1>8. CASE FaultNext
  BY <1>8, FaultTypes
<1>9. CASE UNCHANGED vars
  <2>1. KeyInv'
    BY <1>9, KeyFrame, Zenon DEF TypeInv, vars
  <2> QED
    BY <1>9, <2>1, Zenon DEF TypeInv, TypeOK, vars
<1> QED
  BY <1>1, <1>2, <1>3, <1>4, <1>5, <1>6, <1>7, <1>8, <1>9 DEF Next

\* Type correctness (TypeOK): whatever clients, adapters, crashes and refused writes do,
\* the durable documents stay within their schemas and the lock and the supervisions
\* within the states the manager knows, for any number of runs and keys.
THEOREM TypeCorrect == Spec => []TypeOK
<1>1. TypeInv => TypeOK
  BY DEF TypeInv
<1> QED
  BY <1>1, TypeInvInit, TypeInvStep, PTL DEF Spec

-----------------------------------------------------------------------------
(* Run records *)

\* The ways a step of the system changes one run record.
Created == [NoRun EXCEPT !.status = "starting", !.rev = 1, !.events = <<"created">>]

CancelAccepted(rr) ==
  [Recorded(rr, "cancel") EXCEPT !.status = "cancelling", !.cancel = TRUE]

Creates(r) == run[r].status = "absent" /\ run'[r] = Created

Accepts(r) == Cancellable(r) /\ run'[r] = CancelAccepted(run[r])

Publishes(r) ==
  /\ sup[r].stage = "live" \/ sup[r].pend # 0 \/ sup[r].co \in {"publish", "confirm"} \/ sup[r].esc = "publish"
  /\ \/ run'[r] = Ready(run[r])
     \/ \E n \in Nat : run'[r] = WithProgress(run[r], n)
     \/ run'[r] = ConfirmedByTree(run[r])
     \/ \E field \in {"coop", "forced"} : run'[r] = SignalField(run[r], field)

Ends(r) ==
  /\ sup[r].stage = "commit" /\ run[r].outcome = "none"
  /\ \/ /\ run[r].cancel
        /\ \E how \in Vouchers \ {"no"}, complete \in BOOLEAN :
             run'[r] = [Ended(run[r], "cancelled", complete) EXCEPT !.confirmed = how]
     \/ /\ ~run[r].cancel
        /\ \E code \in Outcomes \ {"none"}, complete \in BOOLEAN :
             run'[r] = Ended(run[r], code, complete)

Recovers(r) ==
  /\ Recoverable(r)
  /\ \E action \in RecoveryActions \cup {"none"}, insp \in Inspections :
       run'[r] = Effect(run[r], action, insp)

Reconciles(r) ==
  /\ host = "down"
  /\ \E insp \in Inspections \ {"none"} : run'[r] = Reconciled(run[r], insp)

\* Nothing else ever happens to a run.
RunStep(r) ==
  \/ run'[r] = run[r]
  \/ Creates(r) \/ Accepts(r) \/ Publishes(r) \/ Ends(r) \/ Recovers(r) \/ Reconciles(r)

\* Requests change a run only by creating it, accepting its cancellation or recovering it.
LEMMA CommandSteps ==
  ASSUME TypeInv, LaunchNext \/ CancelNext \/ RecoverNext, NEW r \in Runs
  PROVE  RunStep(r)
<1>1. ASSUME NEW k \in LaunchKeys, NEW p \in Params, NEW q \in Runs, LaunchCommit(k, p, q)
      PROVE  RunStep(r)
  BY <1>1, Zenon DEF TypeInv, TypeOK, LaunchCommit, RunStep, Creates, Created
<1>2. ASSUME NEW k \in CancelKeys, NEW q \in Runs, CancelCommit(k, q)
      PROVE  RunStep(r)
  BY <1>2, Zenon DEF TypeInv, TypeOK, CancelCommit, RunStep, Accepts, CancelAccepted
<1>3. ASSUME NEW k \in RecoverKeys, RecoverCommit(k)
      PROVE  RunStep(r)
  <2> DEFINE q == recovers[k].run
             a == recovers[k].action
  <2>1. q \in Runs /\ lock.insp \in Inspections /\ a \in RecoveryActions \cup {"none"}
    BY <1>3 DEF TypeInv, TypeOK, KeyInv, RecoverCommit, Lock, RecoverMutation
  <2>2. \/ run' = run
        \/ Recoverable(q) /\ run' = [run EXCEPT ![q] = Effect(run[q], a, lock.insp)]
    BY <1>3, Zenon DEF RecoverCommit
  <2>3. CASE run' = run
    BY <2>3, Zenon DEF RunStep
  <2>4. CASE Recoverable(q) /\ run' = [run EXCEPT ![q] = Effect(run[q], a, lock.insp)]
    <3>1. CASE r = q
      <4>1. run'[r] = Effect(run[r], a, lock.insp)
        BY <2>1, <2>4, <3>1, Zenon DEF TypeInv, TypeOK
      <4>2. Recovers(r)
        BY <2>1, <2>4, <3>1, <4>1 DEF Recovers
      <4> QED
        BY <4>2 DEF RunStep
    <3>2. CASE r # q
      BY <2>4, <3>2, Zenon DEF TypeInv, TypeOK, RunStep
    <3> QED
      BY <3>1, <3>2
  <2> QED
    BY <2>2, <2>3, <2>4
<1>4. CASE run' = run
  BY <1>4, Zenon DEF RunStep
<1>5. \/ run' = run
      \/ \E k \in LaunchKeys, p \in Params, q \in Runs : LaunchCommit(k, p, q)
      \/ \E k \in CancelKeys, q \in Runs : CancelCommit(k, q)
      \/ \E k \in RecoverKeys : RecoverCommit(k)
  BY Zenon DEF LaunchNext, LaunchPublish, LaunchExisting, LaunchReject,
         CancelNext, CancelArm, CancelPublish, CancelExisting, CancelReject,
         RecoverNext, RecoverAct, RecoverPublish, RecoverExisting, RecoverReject,
         RecoverIntent, durable
<1> QED
  BY <1>1, <1>2, <1>3, <1>4, <1>5

\* Supervision publishes, or ends.
LEMMA SupervisionSteps ==
  ASSUME TypeInv, NEW r \in Runs, NEW q \in Runs, SettleNext(q) \/ SignalNext(q)
  PROVE  RunStep(r)
<1>1. sup[q].pend \in Nat
  BY Zenon DEF TypeInv, TypeOK, SupRecord
<1>2. CASE \E next : run' = [run EXCEPT ![q] = next] /\ r # q
  BY <1>2, Zenon DEF TypeInv, TypeOK, RunStep
<1>3. CASE run' = run
  BY <1>3, Zenon DEF RunStep
<1>4. CASE PublishReady(q) /\ r = q
  BY <1>4, Zenon DEF TypeInv, TypeOK, PublishReady, RunStep, Publishes
<1>5. CASE PublishProgress(q) /\ r = q
  BY <1>1, <1>5, Zenon DEF TypeInv, TypeOK, PublishProgress, RunStep, Publishes
<1>6. CASE Flush(q) /\ r = q
  <2>1. CASE sup[q].pend = 0
    BY <1>6, <2>1, Zenon DEF Flush, RunStep
  <2>2. CASE sup[q].pend # 0
    BY <1>1, <1>6, <2>2, Zenon DEF TypeInv, TypeOK, Flush, RunStep, Publishes
  <2> QED
    BY <2>1, <2>2
<1>7. CASE PublishCoop(q) /\ r = q
  BY <1>7, Zenon DEF TypeInv, TypeOK, PublishCoop, RunStep, Publishes
<1>8. CASE PublishForced(q) /\ r = q
  BY <1>8, Zenon DEF TypeInv, TypeOK, PublishForced, RunStep, Publishes
<1>9. CASE PublishConfirmed(q) /\ r = q
  BY <1>9, Zenon DEF TypeInv, TypeOK, PublishConfirmed, RunStep, Publishes
<1>10. CASE Commit(q) /\ r = q
  <2> DEFINE s == sup[q]
  <2>1. sup[q].stage = "commit" /\ run[q].outcome = "none"
    BY <1>10 DEF Commit
  <2>2. CASE CommitCancelled(q)
    <3> DEFINE complete == ValidTerminal(s) /\ s.term = "cancelled" /\ ~run[q].forced
               how == IF run[q].confirmed # "no" THEN run[q].confirmed
                      ELSE IF s.captured = "yes" THEN "tree"
                      ELSE IF s.captured = "no" THEN "no"
                      ELSE "nostart"
    <3>1. how \in Vouchers \ {"no"} /\ complete \in BOOLEAN
      <4>1. how # "no"
        BY <2>2, Zenon DEF CommitCancelled
      <4> QED
        BY <4>1 DEF TypeInv, TypeOK, RunRecord, Vouchers
    <3>2. run'[q] = [Ended(run[q], "cancelled", complete) EXCEPT !.confirmed = how]
      BY <2>2, Zenon DEF CommitCancelled, TypeInv, TypeOK
    <3>3. run[q].cancel
      BY <2>2 DEF CommitCancelled
    <3> HIDE DEF how, complete, s
    <3> QED
      BY <1>10, <2>1, <3>1, <3>2, <3>3, Zenon DEF RunStep, Ends
  <2>3. CASE CommitUncancelled(q)
    <3>1. OutcomeCode(sup[q]) \in Outcomes \ {"none"} /\ ValidTerminal(sup[q]) \in BOOLEAN
      BY DEF OutcomeCode, Outcomes, Envelopes, ValidTerminal, StartFailed
    <3>2. run'[q] = Ended(run[q], OutcomeCode(sup[q]), ValidTerminal(sup[q]))
      BY <2>3, Zenon DEF CommitUncancelled, TypeInv, TypeOK
    <3> QED
      BY <1>10, <2>1, <2>3, <3>1, <3>2, Zenon DEF CommitUncancelled, RunStep, Ends
  <2>4. CASE CommitAwaits(q) \/ CommitGivesUp(q)
    BY <2>4, Zenon DEF CommitAwaits, CommitGivesUp, RunStep
  <2> QED
    BY <1>10, <2>2, <2>3, <2>4 DEF Commit
<1>11. \/ run' = run
       \/ \E next : run' = [run EXCEPT ![q] = next]
  BY Zenon DEF SettleNext, PublishReady, PublishProgress, Complete, Drain, Flush, Commit,
     CommitCancelled, CommitUncancelled, CommitAwaits, CommitGivesUp, AwaitCancel,
     OutcomeAudit, Release, SignalNext, CoopSignal, PublishCoop, Escalate, PublishForced,
     Settle, PublishConfirmed, durable
<1>12. \/ run' = run
       \/ PublishReady(q) \/ PublishProgress(q) \/ Flush(q) \/ Commit(q)
       \/ PublishCoop(q) \/ PublishForced(q) \/ PublishConfirmed(q)
  BY Zenon DEF SettleNext, Complete, Drain, AwaitCancel, OutcomeAudit, Release,
     SignalNext, CoopSignal, Escalate, Settle, durable
<1> QED
  BY <1>2, <1>3, <1>4, <1>5, <1>6, <1>7, <1>8, <1>9, <1>10, <1>11, <1>12

\* Startup reconciles.
LEMMA BootSteps ==
  ASSUME TypeInv, BootReconcile, NEW r \in Runs
  PROVE  RunStep(r)
<1>1. PICK seen \in [Runs -> Inspections] :
        /\ seen[r] \in Inspect(r)
        /\ run' = [q \in Runs |-> Reconciled(run[q], seen[q])]
  BY Zenon DEF BootReconcile
<1>2. seen[r] \in Inspections \ {"none"} /\ host = "down"
  BY <1>1 DEF Inspect, BootReconcile
<1>3. run'[r] = Reconciled(run[r], seen[r])
  BY <1>1
<1> QED
  BY <1>2, <1>3, Zenon DEF RunStep, Reconciles

\* What any step of the system does to one run.
LEMMA RunSteps ==
  ASSUME TypeInv, [Next]_vars, NEW r \in Runs
  PROVE  RunStep(r)
<1>1. CASE run' = run
  BY <1>1, Zenon DEF RunStep
<1>2. \/ run' = run
      \/ LaunchNext \/ CancelNext \/ RecoverNext \/ BootReconcile
      \/ \E q \in Runs : SettleNext(q) \/ SignalNext(q)
  BY Zenon DEF Next, vars, Observe, StartNext, SupStartOk, SupStartStillborn, SupStartFail,
     SupStartFailSpawned, FrameNext, FrameReady, FrameProgress, FrameInvalid, ChannelClose,
     FrameTerminal, ProcessNext, RootExits, KidsExit, KillLands, GuardDrain, BootNext,
     BootPublish, BootDone, BootIntent, Crash, FaultNext, OperationThrows, CallbackThrows,
     SettlementThrows, PublicationThrows, durable
<1> QED
  BY <1>1, <1>2, CommandSteps, SupervisionSteps, BootSteps

\* No terminal event in the history; the cancellation decided the outcome.
Open(rr) == \A i \in 1..Len(rr.events) : rr.events[i] # "terminal"

Won(rr) == rr.outcome \in {"cancelled", "cancelled_reconciled"} /\ rr.confirmed # "no"

\* The inductive strengthening, record by record: an outcome goes with a terminal status
\* and nothing else does, an active run is cancelling exactly when its cancellation is
\* accepted, and a run left for recovery remembers which of the two it was.  Without the
\* last part finalization could not tell an interrupted run from a cancelled one.
Sound(rr) ==
  /\ rr.outcome = "none" => rr.status \notin Envelopes /\ Open(rr)
  /\ rr.outcome # "none" => rr.status \in Envelopes
  /\ rr.status \in Active => (rr.status = "cancelling" <=> rr.cancel)
  /\ rr.status = "recovery_required" =>
       rr.prev \in Active /\ (rr.prev = "cancelling" <=> rr.cancel) /\ rr.obs # "none"
  /\ rr.cancel /\ rr.outcome # "none" => Won(rr)

\* Every run record is sound.
RecordInv == \A r \in Runs : Sound(run[r])

\* What appending an event leaves alone.
LEMMA RecordedFields ==
  ASSUME NEW rr \in RunRecord, NEW event \in Events
  PROVE  LET next == Recorded(rr, event) IN
         /\ next \in RunRecord
         /\ next.events = Append(rr.events, event)
         /\ next.status = rr.status /\ next.prev = rr.prev /\ next.cancel = rr.cancel
         /\ next.obs = rr.obs /\ next.outcome = rr.outcome /\ next.confirmed = rr.confirmed
<1>1. Recorded(rr, event) \in RunRecord
  BY RecordedType
<1> QED
  BY <1>1, Zenon DEF Recorded, RunRecord

\* Only a terminal event closes a history.
LEMMA OpenRecorded ==
  ASSUME NEW rr \in RunRecord, NEW event \in Events \ {"terminal"}, Open(rr)
  PROVE  Open(Recorded(rr, event))
<1>1. rr.events \in Seq(Events) /\ Recorded(rr, event).events = Append(rr.events, event)
  BY RecordedFields DEF RunRecord
<1>2. \A es \in Seq(Events) :
        (\A i \in 1..Len(es) : es[i] # "terminal")
          => \A i \in 1..Len(Append(es, event)) : Append(es, event)[i] # "terminal"
  OBVIOUS
<1> QED
  BY <1>1, <1>2 DEF Open

\* A new run is sound.
LEMMA SoundCreated == Sound(Created)
BY DEF Sound, Open, Created, NoRun, Active, Envelopes

\* An accepted cancellation makes an active run cancelling.
LEMMA SoundAccepted ==
  ASSUME NEW rr \in RunRecord, Sound(rr), rr.status \in {"starting", "running"}, rr.outcome = "none"
  PROVE  Sound(CancelAccepted(rr))
<1> DEFINE recorded == Recorded(rr, "cancel")
<1>1. /\ recorded \in RunRecord
      /\ recorded.outcome = "none"
      /\ Open(recorded)
  BY RecordedFields, OpenRecorded DEF Sound, Events
<1> HIDE DEF recorded
<1>2. LET next == [recorded EXCEPT !.status = "cancelling", !.cancel = TRUE] IN
      /\ next.outcome = "none" /\ next.status = "cancelling" /\ next.cancel = TRUE
      /\ next.events = recorded.events
  BY <1>1, Zenon DEF RunRecord
<1>3. Sound([recorded EXCEPT !.status = "cancelling", !.cancel = TRUE])
  BY <1>1, <1>2 DEF Sound, Open, Active, Envelopes
<1> QED
  BY <1>3 DEF CancelAccepted, recorded

\* Readiness makes a starting run running, and no cancelling one.
LEMMA SoundReady ==
  ASSUME NEW rr \in RunRecord, Sound(rr)
  PROVE  Sound(Ready(rr))
<1> DEFINE recorded == Recorded(rr, "ready")
           next == Ready(rr)
<1>1. /\ recorded \in RunRecord
      /\ recorded.status = rr.status /\ recorded.prev = rr.prev /\ recorded.cancel = rr.cancel
      /\ recorded.obs = rr.obs /\ recorded.outcome = rr.outcome
      /\ recorded.confirmed = rr.confirmed
      /\ rr.outcome = "none" => Open(recorded)
  BY RecordedFields, OpenRecorded DEF Sound, Events
<1>2. /\ next.status = IF rr.status = "starting" THEN "running" ELSE rr.status
      /\ next.prev = rr.prev /\ next.cancel = rr.cancel /\ next.obs = rr.obs
      /\ next.outcome = rr.outcome /\ next.confirmed = rr.confirmed
      /\ next.events = recorded.events
  BY <1>1, Zenon DEF Ready, RunRecord
<1> HIDE DEF next, recorded
<1>3. Sound(next)
  BY <1>1, <1>2 DEF Sound, Open, Won, Active, Envelopes
<1> QED
  BY <1>3 DEF next

\* Progress does not end a run.
LEMMA SoundProgress ==
  ASSUME NEW rr \in RunRecord, NEW n \in Nat, Sound(rr)
  PROVE  Sound(WithProgress(rr, n))
<1>1. CASE rr.cancel \/ rr.outcome # "none"
  BY <1>1, Zenon DEF WithProgress
<1>2. CASE ~(rr.cancel \/ rr.outcome # "none")
  <2> DEFINE next == WithProgress(rr, n)
             records == [i \in 1..n |-> "progress"]
  <2>1. /\ next.status = rr.status /\ next.prev = rr.prev /\ next.cancel = rr.cancel
        /\ next.obs = rr.obs /\ next.outcome = rr.outcome /\ next.confirmed = rr.confirmed
        /\ next.events = rr.events \o records
    BY <1>2, Zenon DEF WithProgress, RunRecord
  <2>2. \A es \in Seq(Events) :
          (\A i \in 1..Len(es) : es[i] # "terminal")
            => \A i \in 1..Len(es \o records) : (es \o records)[i] # "terminal"
    <3>1. records \in Seq(Events) /\ Len(records) = n
      BY DEF Events
    <3>2. \A i \in 1..n : records[i] = "progress"
      OBVIOUS
    <3> HIDE DEF records
    <3> QED
      BY <3>1, <3>2
  <2>3. Open(next)
    BY <1>2, <2>1, <2>2 DEF Sound, Open, RunRecord
  <2> HIDE DEF next, records
  <2>4. Sound(next)
    BY <1>2, <2>1, <2>3 DEF Sound
  <2> QED
    BY <2>4 DEF next
<1> QED
  BY <1>1, <1>2

\* Signals and confirmations only add evidence.
LEMMA SoundSignal ==
  ASSUME NEW rr \in RunRecord, NEW field, Sound(rr)
  PROVE  Sound(SignalField(rr, field)) /\ Sound(ConfirmedByTree(rr))
<1> DEFINE Kept(next) ==
             /\ next.status = rr.status /\ next.prev = rr.prev /\ next.cancel = rr.cancel
             /\ next.obs = rr.obs /\ next.outcome = rr.outcome /\ next.events = rr.events
             /\ next.confirmed # "no" \/ next.confirmed = rr.confirmed
<1>1. Kept(SignalField(rr, field))
  BY Zenon DEF SignalField, RunRecord
<1>2. Kept(ConfirmedByTree(rr))
  BY Zenon DEF ConfirmedByTree, RunRecord
<1>3. \A next : Kept(next) => Sound(next)
  BY DEF Sound, Open, Won
<1> QED
  BY <1>1, <1>2, <1>3

\* The terminal commit: a cancelled run ends as cancelled with a voucher, any other ends
\* with the code of its adapter.
LEMMA SoundEnded ==
  ASSUME NEW rr \in RunRecord, NEW complete \in BOOLEAN
  PROVE  /\ \A code \in Outcomes \ {"none"} : ~rr.cancel => Sound(Ended(rr, code, complete))
         /\ \A how \in Vouchers \ {"no"} :
              Sound([Ended(rr, "cancelled", complete) EXCEPT !.confirmed = how])
<1>1. /\ Recorded(rr, "terminal") \in RunRecord
      /\ Recorded(rr, "terminal").cancel = rr.cancel
  BY RecordedFields DEF Events
<1>2. ASSUME NEW code \in Outcomes \ {"none"}, ~rr.cancel
      PROVE  Sound(Ended(rr, code, complete))
  <2>1. LET next == Ended(rr, code, complete) IN
        next.status = OutcomeStatus(code) /\ next.outcome = code /\ next.cancel = rr.cancel
    BY <1>1, Zenon DEF Ended, RunRecord
  <2>2. OutcomeStatus(code) \in Envelopes
    BY DEF OutcomeStatus, Envelopes
  <2> QED
    BY <1>2, <2>1, <2>2 DEF Sound, Active, Envelopes
<1>3. ASSUME NEW how \in Vouchers \ {"no"}
      PROVE  Sound([Ended(rr, "cancelled", complete) EXCEPT !.confirmed = how])
  <2>1. LET next == [Ended(rr, "cancelled", complete) EXCEPT !.confirmed = how] IN
        /\ next.status = OutcomeStatus("cancelled") /\ next.outcome = "cancelled"
        /\ next.confirmed = how
    BY <1>1, Zenon DEF Ended, RunRecord
  <2>2. OutcomeStatus("cancelled") = "cancelled"
    BY DEF OutcomeStatus
  <2> QED
    BY <2>1, <2>2 DEF Sound, Won, Active, Envelopes
<1> QED
  BY <1>2, <1>3

\* The outcome of an interrupted run honours an accepted cancellation, provided the
\* remembered status says whether there was one.
LEMMA SoundFinalized ==
  ASSUME NEW rr \in RunRecord, NEW prev, prev = "cancelling" <=> rr.cancel
  PROVE  Sound(Finalized(rr, prev))
<1> DEFINE ended == [Recorded(rr, "terminal") EXCEPT !.obs = "none", !.prev = "none"]
<1>1. ended \in RunRecord /\ ended.cancel = rr.cancel
  <2>1. /\ Recorded(rr, "terminal") \in RunRecord
        /\ Recorded(rr, "terminal").cancel = rr.cancel
    BY RecordedFields DEF Events
  <2>2. "none" \in Inspections /\ "none" \in Interrupted
    BY DEF Inspections, Interrupted
  <2> QED
    BY <2>1, <2>2, Zenon DEF RunRecord
<1> HIDE DEF ended
<1>2. CASE rr.cancel
  <2> DEFINE next == [ended EXCEPT !.status = "cancelled", !.outcome = "cancelled_reconciled",
                         !.confirmed = IF @ = "no" THEN "guard" ELSE @]
  <2>1. /\ next.status = "cancelled" /\ next.outcome = "cancelled_reconciled"
        /\ next.confirmed # "no"
    BY <1>1, Zenon DEF RunRecord
  <2>2. Sound(next)
    BY <2>1 DEF Sound, Won, Active, Envelopes
  <2> QED
    BY <1>2, <2>2, Zenon DEF Finalized, ended
<1>3. CASE ~rr.cancel
  <2> DEFINE next == [ended EXCEPT !.status = "failed", !.outcome = "interrupted"]
  <2>1. next.status = "failed" /\ next.outcome = "interrupted" /\ next.cancel = rr.cancel
    BY <1>1, Zenon DEF RunRecord
  <2>2. Sound(next)
    BY <1>3, <2>1 DEF Sound, Active, Envelopes
  <2> QED
    BY <1>3, <2>2, Zenon DEF Finalized, ended
<1> QED
  BY <1>2, <1>3

\* Recovery.
LEMMA SoundEffect ==
  ASSUME NEW rr \in RunRecord, rr.status = "recovery_required", Sound(rr),
         NEW action, NEW insp \in Inspections
  PROVE  Sound(Effect(rr, action, insp))
<1>1. CASE insp # "none"
  <2>1. rr.rev + 1 \in Nat
    BY DEF RunRecord
  <2>2. LET next == [rr EXCEPT !.obs = insp, !.rev = @ + 1] IN
        /\ next.status = rr.status /\ next.prev = rr.prev /\ next.cancel = rr.cancel
        /\ next.obs = insp /\ next.outcome = rr.outcome /\ next.events = rr.events
        /\ next.confirmed = rr.confirmed
    BY <2>1, Zenon DEF RunRecord
  <2>3. Sound([rr EXCEPT !.obs = insp, !.rev = @ + 1])
    BY <1>1, <2>2 DEF Sound, Open, Won
  <2> QED
    BY <1>1, <2>3, Zenon DEF Effect
<1>2. CASE insp = "none"
  <2>1. Sound(Finalized(rr, rr.prev))
    BY SoundFinalized DEF Sound
  <2> QED
    BY <1>2, <2>1, Zenon DEF Effect
<1> QED
  BY <1>1, <1>2

\* Reconciliation.
LEMMA SoundReconciled ==
  ASSUME NEW rr \in RunRecord, Sound(rr), NEW insp \in Inspections \ {"none"}
  PROVE  Sound(Reconciled(rr, insp))
<1>1. CASE rr.status \notin Active
  BY <1>1, Zenon DEF Reconciled
<1>2. CASE rr.status \in Active
  <2>1. (rr.status = "cancelling" <=> rr.cancel) /\ rr.outcome = "none" /\ Open(rr)
    BY <1>2 DEF Sound, Active, Envelopes
  <2>2. Sound(Finalized(rr, rr.status))
    BY <2>1, SoundFinalized
  <2>3. Sound(ToRecovery(rr, insp))
    <3> DEFINE recorded == Recorded(rr, "recovery")
               next == ToRecovery(rr, insp)
    <3>1. /\ recorded \in RunRecord
          /\ recorded.cancel = rr.cancel /\ recorded.outcome = "none"
          /\ Open(recorded)
      BY <2>1, RecordedFields, OpenRecorded DEF Events
    <3>2. /\ next.status = "recovery_required" /\ next.prev = rr.status
          /\ next.obs = insp /\ next.cancel = rr.cancel /\ next.outcome = "none"
          /\ next.events = recorded.events
      BY <3>1, Zenon DEF ToRecovery, RunRecord
    <3> HIDE DEF next, recorded
    <3>3. Sound(next)
      BY <1>2, <2>1, <3>1, <3>2 DEF Sound, Open, Active, Envelopes
    <3> QED
      BY <3>3 DEF next
  <2> QED
    BY <2>2, <2>3, Zenon DEF Reconciled
<1> QED
  BY <1>1, <1>2

\* Every step keeps every record sound: one step per way a record changes.
LEMMA RecordInvStep ==
  TypeInv /\ RecordInv /\ [Next]_vars => RecordInv'
<1> SUFFICES ASSUME TypeInv, RecordInv, [Next]_vars, NEW r \in Runs
             PROVE  Sound(run[r])'
  BY DEF RecordInv
<1>1. run[r] \in RunRecord /\ Sound(run[r]) /\ RunStep(r)
  BY RunSteps DEF TypeInv, TypeOK, RecordInv
<1> SUFFICES Sound(run'[r])
  BY DEF Sound, Open, Won
<1>2. CASE run'[r] = run[r]
  BY <1>1, <1>2
<1>3. CASE Creates(r)
  BY <1>3, SoundCreated DEF Creates
<1>4. CASE Accepts(r)
  BY <1>1, <1>4, SoundAccepted DEF Accepts, Cancellable
<1>5. CASE Publishes(r)
  <2>1. /\ Sound(Ready(run[r])) /\ Sound(ConfirmedByTree(run[r]))
        /\ \A n \in Nat : Sound(WithProgress(run[r], n))
        /\ \A field \in {"coop", "forced"} : Sound(SignalField(run[r], field))
    BY <1>1, SoundReady, SoundProgress, SoundSignal
  <2> QED
    BY <1>5, <2>1, Zenon DEF Publishes
<1>6. CASE Ends(r)
  <2>1. ASSUME NEW complete \in BOOLEAN
        PROVE  /\ \A code \in Outcomes \ {"none"} :
                    ~run[r].cancel => Sound(Ended(run[r], code, complete))
               /\ \A how \in Vouchers \ {"no"} :
                    Sound([Ended(run[r], "cancelled", complete) EXCEPT !.confirmed = how])
    BY <1>1, <2>1, SoundEnded
  <2>2. CASE run[r].cancel
    <3>1. PICK how \in Vouchers \ {"no"}, complete \in BOOLEAN :
            run'[r] = [Ended(run[r], "cancelled", complete) EXCEPT !.confirmed = how]
      BY <1>6, <2>2 DEF Ends
    <3> QED
      BY <2>1, <3>1, Zenon
  <2>3. CASE ~run[r].cancel
    <3>1. PICK code \in Outcomes \ {"none"}, complete \in BOOLEAN :
            run'[r] = Ended(run[r], code, complete)
      BY <1>6, <2>3 DEF Ends
    <3> QED
      BY <2>1, <2>3, <3>1, Zenon
  <2> QED
    BY <2>2, <2>3
<1>7. CASE Recovers(r)
  BY <1>1, <1>7, SoundEffect, Zenon DEF Recovers, Recoverable
<1>8. CASE Reconciles(r)
  BY <1>1, <1>8, SoundReconciled, Zenon DEF Reconciles
<1> QED
  BY <1>1, <1>2, <1>3, <1>4, <1>5, <1>6, <1>7, <1>8 DEF RunStep

\* Records that do not exist yet are sound.
LEMMA RecordInvInit == Init => RecordInv
<1>1. Sound(NoRun)
  BY DEF Sound, Open, NoRun, Active, Envelopes
<1> QED
  BY <1>1, Zenon DEF Init, RecordInv

\* CancellationWins holds for any number of runs, keys, crashes and refused writes: a run
\* whose cancellation was accepted never ends with the result of its adapter, a start
\* failure or an interruption (commitTerminalOutcome, finalizeInterruptedRun).
THEOREM CancellationHolds == Spec => []CancellationWins
<1>1. RecordInv => CancellationWins
  BY DEF RecordInv, Sound, Won, CancellationWins
<1> QED
  BY <1>1, TypeInvInit, TypeInvStep, RecordInvInit, RecordInvStep, PTL DEF Spec

\* StartupNeverRefuses holds likewise: no state the manager writes is one that
\* reconcileInterruptedRuns or repairAcceptedTerminalOutcome throws on.
THEOREM StartupAlwaysPossible == Spec => []StartupNeverRefuses
<1>1. TypeInv /\ RecordInv => StartupNeverRefuses
  <2> SUFFICES ASSUME TypeInv, RecordInv, NEW r \in Runs, run[r].outcome = "none"
               PROVE  /\ run[r].status \in Active =>
                           (run[r].status = "cancelling") = run[r].cancel
                      /\ Position(r, "terminal") = {}
                      /\ Recoverable(r) => run[r].prev \in Active /\ run[r].obs # "none"
    BY DEF StartupNeverRefuses
  <2>1. Sound(run[r]) /\ run[r].cancel \in BOOLEAN
    BY DEF RecordInv, TypeInv, TypeOK, RunRecord
  <2>2. Position(r, "terminal") = {}
    BY <2>1 DEF Sound, Open, Position
  <2> QED
    BY <2>1, <2>2 DEF Sound, Recoverable
<1> QED
  BY <1>1, TypeInvInit, TypeInvStep, RecordInvInit, RecordInvStep, PTL DEF Spec

-----------------------------------------------------------------------------
(***************************************************************************)
(* Supervision: what a supervisor in memory, the record on disk and the    *)
(* process tree know of one another, through cancellations, crashes,       *)
(* restarts and refused writes.                                            *)
(***************************************************************************)

\* Nothing of a supervision is left that could still write its run.
Quiet(s) ==
  /\ s.stage \in {"none", "audit", "release", "done"}
  /\ s.pend = 0
  /\ s.co \in {"idle", "yes", "no"}
  /\ s.esc \in {"off", "done"}

\* Nothing has been asked of a supervision that has not started.
Resting(s) ==
  /\ s.pend = 0 /\ s.co = "idle" /\ s.esc = "off" /\ s.captured = "none" /\ s.exit = "ok"

\* The supervision of a run and its record.
Accounted(rr, s, armed) ==
  /\ rr.coop \/ rr.forced \/ s.co # "idle" \/ armed => rr.cancel
  /\ rr.outcome # "none" => Quiet(s)
  /\ s.stage = "audit" => rr.outcome # "none"
  /\ rr.outcome = "none" => rr.confirmed \in {"no", "tree"}
  /\ rr.status \in {"absent", "recovery_required"} => s.stage = "none"
  /\ rr.status = "absent" => ~armed /\ ~rr.cancel
  /\ s.stage = "scheduled" => rr.status \in Active /\ rr.confirmed = "no" /\ rr.obs = "none"
  /\ rr.confirmed # "no" /\ rr.outcome = "none" /\ s.stage # "none" => s.co = "yes"

\* The cancellation operation, its timer and the progress of supervise().
Ordered(s) ==
  /\ s.stage \in {"none", "scheduled"} => Resting(s)
  /\ s.stage \in {"commit", "await", "audit"} => s.pend = 0
  /\ s.stage \in {"live", "drain", "await"} => s.exit # "unsupervised"
  /\ s.exit = "unsupervised" => s.co = "idle"
  /\ s.co = "idle" => s.esc = "off"
  /\ s.co \in {"confirm", "yes", "no"} => s.esc = "done"
  /\ s.captured # "none" => s.captured \in {"yes", "no"} /\ s.co = s.captured

\* Is a process of the tree p left?  Has the adapter itself exited?
Living(p) == p.tree \in {"root", "kids"}
Exited(p) == p.tree \in {"kids", "gone"}

\* What the record and the supervision claim of the process tree.
Truthful(rr, s, p) ==
  /\ rr.status = "absent" \/ s.stage = "scheduled" => p.tree = "none"
  /\ p.tree = "none" => p.guard = "none"
  /\ p.evidence => p.tree = "gone"
  /\ s.stage \in {"drain", "flush", "commit", "await"} /\ s.exit = "ok" => Exited(p)
  /\ s.co \in {"confirm", "yes"} \/ rr.obs = "confirmed" => ~Living(p)
  /\ rr.confirmed \in {"tree", "guard"} \/ rr.outcome = "interrupted" => ~Living(p)
  /\ rr.outcome \in {"succeeded", "failed", "protocol_invalid", "incomplete"} => Exited(p)

\* Every run, as the record, the supervision and the tree know it.
Supervised(r) ==
  /\ Accounted(run[r], sup[r], r \in accepted)
  /\ Ordered(sup[r])
  /\ Truthful(run[r], sup[r], proc[r])

\* Supervisions live in the Host; the operation that holds the lock has its run in hand.
HostInv ==
  /\ host # "up" => accepted = {} /\ \A r \in Runs : sup[r].stage = "none"
  /\ \A k \in LaunchKeys : lock = Held("launch", k) =>
       /\ host = "up"
       /\ run[launched[k].run] = Created
       /\ sup[launched[k].run].stage = "none"
       /\ proc[launched[k].run].tree = "none"
  /\ \A k \in CancelKeys : lock = Held("arm", k) => host = "up" /\ run[cancels[k].run].cancel

\* An intent that waits, over restarts too, is about a run that is not active again, and
\* one to finalize about a tree that is gone; so is what a recovery confirmed.
IntentInv ==
  /\ \A k \in RecoverKeys : recovers[k].state = "pending" =>
       /\ run[recovers[k].run].status \in Envelopes \cup {"recovery_required"}
       /\ recovers[k].action = "finalize" => ~Living(proc[recovers[k].run])
  /\ lock.op = "acted" /\ lock.insp = "confirmed" => ~Living(proc[recovers[lock.key].run])

SupervisionInv == (\A r \in Runs : Supervised(r)) /\ HostInv /\ IntentInv

\* Nothing happens to any run but q.
Others(q) ==
  \A r \in Runs \ {q} :
    /\ run'[r] = run[r] /\ sup'[r] = sup[r] /\ proc'[r] = proc[r]
    /\ (r \in accepted') <=> (r \in accepted)

\* A step that leaves the other runs alone only has to be judged at its own.
LEMMA Frame ==
  ASSUME SupervisionInv, NEW q \in Runs, Others(q), Supervised(q)'
  PROVE  \A r \in Runs : Supervised(r)'
<1> SUFFICES ASSUME NEW r \in Runs \ {q} PROVE Supervised(r)'
  OBVIOUS
<1> QED
  BY DEF Others, SupervisionInv, Supervised, Accounted

\* The supervision, the frames, the signals and the tree of a run are its own.
LEMMA OwnSteps ==
  ASSUME TypeInv, NEW q \in Runs,
         \/ StartNext(q) \/ FrameNext(q) \/ SettleNext(q) \/ SignalNext(q) \/ ProcessNext(q)
         \/ CallbackThrows(q) \/ SettlementThrows(q) \/ PublicationThrows(q)
  PROVE  Others(q)
<1>1. CASE StartNext(q)
  BY <1>1, Zenon DEF TypeInv, TypeOK, Others, StartNext, SupStartOk, SupStartStillborn,
     SupStartFail, SupStartFailSpawned, durable
<1>2. CASE FrameNext(q)
  BY <1>2, Zenon DEF TypeInv, TypeOK, Others, FrameNext, FrameReady, FrameProgress,
     FrameInvalid, ChannelClose, FrameTerminal, durable
<1>3. CASE SettleNext(q)
  <2>1. CASE PublishReady(q) \/ PublishProgress(q) \/ Complete(q) \/ Drain(q) \/ Flush(q)
    BY <2>1, Zenon DEF TypeInv, TypeOK, Others, PublishReady, PublishProgress, Complete,
       Drain, Flush, durable
  <2>2. CASE Commit(q)
    BY <2>2, Zenon DEF TypeInv, TypeOK, Others, Commit, CommitCancelled, CommitUncancelled,
       CommitAwaits, CommitGivesUp, durable
  <2>3. CASE AwaitCancel(q) \/ OutcomeAudit(q) \/ Release(q)
    <3>1. \A r \in Runs \ {q} : r \in accepted \ {q} <=> r \in accepted
      OBVIOUS
    <3> QED
      BY <2>3, <3>1, Zenon DEF TypeInv, TypeOK, Others, AwaitCancel, OutcomeAudit, Release, durable
  <2> QED
    BY <1>3, <2>1, <2>2, <2>3 DEF SettleNext
<1>4. CASE SignalNext(q)
  BY <1>4, Zenon DEF TypeInv, TypeOK, Others, SignalNext, CoopSignal, PublishCoop, Escalate,
     PublishForced, Settle, PublishConfirmed, durable
<1>5. CASE ProcessNext(q)
  BY <1>5, Zenon DEF TypeInv, TypeOK, Others, ProcessNext, RootExits, KidsExit, KillLands,
     GuardDrain, durable
<1>6. CASE CallbackThrows(q) \/ SettlementThrows(q) \/ PublicationThrows(q)
  <2>1. \A r \in Runs \ {q} : r \in accepted \ {q} <=> r \in accepted
    OBVIOUS
  <2> QED
    BY <1>6, <2>1, Zenon DEF TypeInv, TypeOK, Others, CallbackThrows, SettlementThrows,
       PublicationThrows, durable
<1> QED
  BY <1>1, <1>2, <1>3, <1>4, <1>5, <1>6

\* Starting the adapter: the tree is born under a record that claims nothing of it.
LEMMA StartSupervised ==
  ASSUME TypeInv, RecordInv, SupervisionInv, NEW q \in Runs, StartNext(q)
  PROVE  Supervised(q)'
<1> DEFINE s == sup[q]
           t == sup'[q]
           p == proc'[q]
<1>1. /\ s.stage = "scheduled" /\ UNCHANGED <<run, accepted>>
      /\ \/ /\ \/ t = [s EXCEPT !.stage = "live"]
               \/ t = [s EXCEPT !.stage = "live", !.exit = "stillborn"]
               \/ t = Requested([s EXCEPT !.stage = "live"]) /\ q \in accepted
               \/ t = Requested([s EXCEPT !.stage = "live", !.exit = "stillborn"]) /\ q \in accepted
            /\ p = Spawned \/ p = [Spawned EXCEPT !.tree = "gone"]
         \/ /\ t = [s EXCEPT !.stage = "flush", !.exit = "unsupervised"]
            /\ p = proc[q] \/ p = [Spawned EXCEPT !.killed = TRUE]
  BY Zenon DEF TypeInv, TypeOK, StartNext, SupStartOk, SupStartStillborn, SupStartFail,
     SupStartFailSpawned, durable
<1>2. s \in SupRecord /\ proc[q] \in ProcRecord
  BY DEF TypeInv, TypeOK
<1>3. Supervised(q) /\ Sound(run[q])
  BY DEF SupervisionInv, RecordInv
<1>4. /\ run[q].status \in Active /\ run[q].outcome = "none" /\ Resting(s)
      /\ run[q].confirmed = "no" /\ run[q].obs = "none" /\ proc[q].tree = "none"
  BY <1>1, <1>3 DEF Supervised, Accounted, Ordered, Truthful, Sound, Active, Envelopes
<1>5. /\ t.stage \in {"live", "flush"} /\ t.pend = 0 /\ t.captured = "none"
      /\ (t.stage = "live") <=> (t.exit # "unsupervised")
      /\ t.stage = "flush" => t.co = "idle" /\ t.esc = "off"
      /\ \/ t.co = "idle" /\ t.esc = "off"
         \/ t.co = "signal" /\ t.esc = "armed" /\ q \in accepted
  BY <1>1, <1>2, <1>4 DEF Requested, SupRecord, Resting
<1>6. p = proc[q] \/ (p.evidence = FALSE /\ p.tree # "none")
  BY <1>1 DEF Spawned, NoProc
<1> HIDE DEF t, p
<1>7. Accounted(run[q], t, q \in accepted)
  BY <1>1, <1>3, <1>4, <1>5 DEF Supervised, Accounted, Active
<1>8. Ordered(t)
  BY <1>5 DEF Ordered
<1>9. Truthful(run[q], t, p)
  BY <1>1, <1>3, <1>4, <1>5, <1>6 DEF Supervised, Truthful, Active
<1> QED
  BY <1>1, <1>7, <1>8, <1>9 DEF Supervised, t, p

\* Frames move the consumer and what it has read, and may have the tree killed.
LEMMA FrameSupervised ==
  ASSUME TypeInv, SupervisionInv, NEW q \in Runs, FrameNext(q)
  PROVE  Supervised(q)'
<1> DEFINE s == sup[q]
           t == sup'[q]
<1>1. s.stage = "live" /\ UNCHANGED <<run, accepted>>
  BY Zenon DEF FrameNext, FrameReady, FrameProgress, FrameInvalid, ChannelClose, FrameTerminal,
     Consuming, durable
<1>2. s \in SupRecord /\ proc[q] \in ProcRecord
  BY DEF TypeInv, TypeOK
<1>3. Supervised(q)
  BY DEF SupervisionInv
<1>4. /\ t.stage = s.stage /\ t.co = s.co /\ t.esc = s.esc
      /\ t.captured = s.captured /\ t.exit = s.exit
  <2>1. CASE FrameReady(q)
    <3>1. t = [s EXCEPT !.ready = TRUE, !.cons = "ready"]
      BY <2>1, Zenon DEF TypeInv, TypeOK, FrameReady
    <3> QED
      BY <1>2, <3>1 DEF SupRecord
  <2>2. CASE FrameProgress(q)
    <3> DEFINE n == [s EXCEPT !.seen = @ + 1, !.pend = @ + 1]
    <3>1. t = n \/ t = [n EXCEPT !.cons = "progress"]
      BY <2>2, Zenon DEF TypeInv, TypeOK, FrameProgress
    <3> QED
      BY <1>2, <3>1 DEF SupRecord
  <2>3. CASE FrameInvalid(q)
    <3>1. t = [s EXCEPT !.invalid = TRUE, !.cons = "closed"]
      BY <2>3, Zenon DEF TypeInv, TypeOK, FrameInvalid
    <3> QED
      BY <1>2, <3>1 DEF SupRecord
  <2>4. CASE ChannelClose(q)
    <3>1. t = [s EXCEPT !.cons = "closed"]
      BY <2>4, Zenon DEF TypeInv, TypeOK, ChannelClose
    <3> QED
      BY <1>2, <3>1 DEF SupRecord
  <2>5. ASSUME NEW envelope \in Envelopes, FrameTerminal(q, envelope)
        PROVE  /\ t.stage = s.stage /\ t.co = s.co /\ t.esc = s.esc
               /\ t.captured = s.captured /\ t.exit = s.exit
    <3>1. t = WithTerminal(s, envelope)
      BY <2>5, Zenon DEF TypeInv, TypeOK, FrameTerminal
    <3> QED
      BY <1>2, <3>1 DEF SupRecord, WithTerminal
  <2> QED
    BY <2>1, <2>2, <2>3, <2>4, <2>5 DEF FrameNext
<1>5. /\ proc'[q].tree = proc[q].tree /\ proc'[q].evidence = proc[q].evidence
      /\ proc'[q].guard = proc[q].guard
  <2>1. proc' = proc \/ proc'[q] = [proc[q] EXCEPT !.killed = TRUE]
    BY Zenon DEF TypeInv, TypeOK, FrameNext, FrameReady, FrameProgress, FrameInvalid,
       ChannelClose, FrameTerminal, durable
  <2> QED
    BY <1>2, <2>1 DEF ProcRecord
<1> HIDE DEF t
<1>6. Accounted(run[q], t, q \in accepted)
  BY <1>1, <1>3, <1>4 DEF Supervised, Accounted, Quiet
<1>7. Ordered(t)
  BY <1>1, <1>3, <1>4 DEF Supervised, Ordered
<1>8. Truthful(run[q], t, proc'[q])
  BY <1>3, <1>4, <1>5 DEF Supervised, Truthful, Living, Exited
<1> QED
  BY <1>1, <1>6, <1>7, <1>8 DEF Supervised, t

\* A tree only ever ends: what was claimed of it stays true.
LEMMA TreeEnds ==
  ASSUME NEW rr, NEW s, NEW p, NEW after, Truthful(rr, s, p),
         after.tree \in {p.tree, "gone"} \/ (p.tree = "root" /\ after.tree = "kids"),
         after.evidence => p.evidence \/ after.tree = "gone",
         after.guard \in {p.guard, "gone", "lost"}, p.tree = "none" => after = p
  PROVE  Truthful(rr, s, after)
BY DEF Truthful, Living, Exited

\* The processes move on their own, and only towards their end.
LEMMA ProcessSupervised ==
  ASSUME TypeInv, SupervisionInv, NEW q \in Runs, ProcessNext(q)
  PROVE  Supervised(q)'
<1> DEFINE p == proc[q]
           after == proc'[q]
<1>1. UNCHANGED <<run, sup, accepted>>
  BY Zenon DEF ProcessNext, RootExits, KidsExit, KillLands, GuardDrain, durable
<1>2. p \in ProcRecord
  BY DEF TypeInv, TypeOK
<1>3. Supervised(q)
  BY DEF SupervisionInv
<1>4. \/ p.tree = "root" /\ \E x \in {"kids", "gone"} : after = [p EXCEPT !.tree = x]
      \/ p.tree = "kids" /\ after = [p EXCEPT !.tree = "gone"]
      \/ p.guard = "watch" /\ after = [p EXCEPT !.tree = "gone", !.guard = "gone"]
      \/ p.guard = "lost" /\ \E x \in BOOLEAN :
           after = [p EXCEPT !.tree = "gone", !.guard = "gone", !.evidence = x]
  BY Zenon DEF TypeInv, TypeOK, ProcessNext, RootExits, KidsExit, KillLands, GuardDrain
<1>5. /\ after.tree = "gone" \/ (p.tree = "root" /\ after.tree = "kids")
      /\ after.evidence => p.evidence \/ after.tree = "gone"
      /\ after.guard \in {p.guard, "gone"}
      /\ p.tree # "none"
  BY <1>2, <1>3, <1>4 DEF ProcRecord, Supervised, Truthful
<1> HIDE DEF after, p
<1>6. Truthful(run[q], sup[q], after)
  BY <1>3, <1>5, TreeEnds DEF Supervised, p
<1> QED
  BY <1>1, <1>3, <1>6 DEF Supervised, Accounted, after

\* What publishing a signal leaves alone.
LEMMA SignalFields ==
  ASSUME NEW rr \in RunRecord, NEW field
  PROVE  LET next == SignalField(rr, field) IN
         /\ next.status = rr.status /\ next.cancel = rr.cancel /\ next.obs = rr.obs
         /\ next.outcome = rr.outcome /\ next.confirmed = rr.confirmed
BY Zenon DEF SignalField, RunRecord

\* What publishing a confirmation leaves alone.
LEMMA ConfirmedFields ==
  ASSUME NEW rr \in RunRecord
  PROVE  LET next == ConfirmedByTree(rr) IN
         /\ next.status = rr.status /\ next.cancel = rr.cancel /\ next.obs = rr.obs
         /\ next.outcome = rr.outcome /\ next.coop = rr.coop /\ next.forced = rr.forced
         /\ next.confirmed = IF rr.confirmed = "no" THEN "tree" ELSE rr.confirmed
BY Zenon DEF ConfirmedByTree, RunRecord

\* The cancellation operation and its timer.
LEMMA SignalSupervised ==
  ASSUME TypeInv, RecordInv, SupervisionInv, NEW q \in Runs, SignalNext(q)
  PROVE  Supervised(q)'
<1> DEFINE s == sup[q]
           t == sup'[q]
           rr == run[q]
           next == run'[q]
<1>1. s \in SupRecord /\ rr \in RunRecord /\ proc[q] \in ProcRecord
  BY DEF TypeInv, TypeOK
<1>2. Supervised(q)
  BY DEF SupervisionInv
<1>3. /\ accepted' = accepted
      /\ proc'[q] = proc[q] \/ proc'[q] = [proc[q] EXCEPT !.killed = TRUE]
  BY Zenon DEF TypeInv, TypeOK, SignalNext, CoopSignal, PublishCoop, Escalate, PublishForced,
     Settle, PublishConfirmed, durable
<1>4. /\ proc'[q].tree = proc[q].tree /\ proc'[q].evidence = proc[q].evidence
      /\ proc'[q].guard = proc[q].guard
  BY <1>1, <1>3 DEF ProcRecord
<1>5. \/ /\ next = rr
         /\ \/ s.co = "signal" /\ t = [s EXCEPT !.co = "publish"]
            \/ s.co = "signal" /\ t = [s EXCEPT !.co = "wait"]
            \/ s.esc = "armed" /\ t = [s EXCEPT !.esc = "publish"]
            \/ s.esc = "armed" /\ t = [s EXCEPT !.esc = "done"]
            \/ s.co = "wait" /\ ~Alive(q) /\ t = [s EXCEPT !.co = "confirm", !.esc = "done"]
            \/ s.co = "wait" /\ s.esc = "done" /\ t = [s EXCEPT !.co = "no"]
            \/ s.co = "wait" /\ s.esc = "failed" /\ t = [s EXCEPT !.co = "failed"]
      \/ s.co = "publish" /\ next = SignalField(rr, "coop") /\ t = [s EXCEPT !.co = "wait"]
      \/ s.esc = "publish" /\ next = SignalField(rr, "forced") /\ t = [s EXCEPT !.esc = "done"]
      \/ s.co = "confirm" /\ next = ConfirmedByTree(rr) /\ t = [s EXCEPT !.co = "yes"]
  BY Zenon DEF TypeInv, TypeOK, SignalNext, CoopSignal, PublishCoop, Escalate, PublishForced,
     Settle, PublishConfirmed, durable
<1>6. /\ t.stage = s.stage /\ t.pend = s.pend /\ t.exit = s.exit /\ t.captured = s.captured
      /\ \/ /\ next = rr
            /\ \/ s.co = "signal" /\ t.co \in {"publish", "wait"} /\ t.esc = s.esc
               \/ s.esc = "armed" /\ t.esc \in {"publish", "done"} /\ t.co = s.co
               \/ s.co = "wait" /\ t.co = "confirm" /\ t.esc = "done" /\ ~Alive(q)
               \/ s.co = "wait" /\ t.co = "no" /\ t.esc = "done" /\ s.esc = "done"
               \/ s.co = "wait" /\ t.co = "failed" /\ t.esc = s.esc
         \/ s.co = "publish" /\ next = SignalField(rr, "coop") /\ t.co = "wait" /\ t.esc = s.esc
         \/ s.esc = "publish" /\ next = SignalField(rr, "forced") /\ t.esc = "done" /\ t.co = s.co
         \/ s.co = "confirm" /\ next = ConfirmedByTree(rr) /\ t.co = "yes" /\ t.esc = s.esc
  BY <1>1, <1>5 DEF SupRecord
<1>7. /\ next.status = rr.status /\ next.cancel = rr.cancel /\ next.obs = rr.obs
      /\ next.outcome = rr.outcome
      /\ \/ next.confirmed = rr.confirmed
         \/ rr.confirmed = "no" /\ next.confirmed = "tree" /\ s.co = "confirm" /\ t.co = "yes"
      /\ next.coop # rr.coop \/ next.forced # rr.forced => s.co # "idle"
  <2>1. s.esc = "publish" => s.co # "idle"
    BY <1>2 DEF Supervised, Ordered
  <2>2. ASSUME NEW field \in {"coop", "forced"}, next = SignalField(rr, field)
        PROVE  /\ next.status = rr.status /\ next.cancel = rr.cancel /\ next.obs = rr.obs
               /\ next.outcome = rr.outcome /\ next.confirmed = rr.confirmed
    BY <1>1, <2>2, SignalFields
  <2>3. ASSUME next = ConfirmedByTree(rr)
        PROVE  /\ next.status = rr.status /\ next.cancel = rr.cancel /\ next.obs = rr.obs
               /\ next.outcome = rr.outcome /\ next.coop = rr.coop /\ next.forced = rr.forced
               /\ next.confirmed = IF rr.confirmed = "no" THEN "tree" ELSE rr.confirmed
    BY <1>1, <2>3, ConfirmedFields
  <2> HIDE DEF next, t, s
  <2> QED
    BY <1>6, <2>1, <2>2, <2>3
<1> HIDE DEF t, next
<1>8. Accounted(next, t, q \in accepted)
  <2>1. next.coop \/ next.forced \/ t.co # "idle" \/ q \in accepted => next.cancel
    BY <1>2, <1>6, <1>7 DEF Supervised, Accounted, Ordered
  <2>2. next.outcome # "none" => Quiet(t)
    BY <1>2, <1>6, <1>7 DEF Supervised, Accounted, Quiet
  <2>3. next.confirmed # "no" /\ next.outcome = "none" /\ t.stage # "none" => t.co = "yes"
    BY <1>2, <1>6, <1>7 DEF Supervised, Accounted
  <2>4. /\ next.outcome = "none" => next.confirmed \in {"no", "tree"}
        /\ t.stage = "scheduled" => next.confirmed = "no"
    BY <1>2, <1>6, <1>7 DEF Supervised, Accounted, Ordered, Resting
  <2> QED
    BY <1>2, <1>6, <1>7, <2>1, <2>2, <2>3, <2>4 DEF Supervised, Accounted
<1>9. Ordered(t)
  BY <1>2, <1>6 DEF Supervised, Ordered, Resting
<1>10. Truthful(next, t, proc'[q])
  BY <1>2, <1>4, <1>6, <1>7 DEF Supervised, Truthful, Living, Exited, Alive
<1> QED
  BY <1>3, <1>8, <1>9, <1>10 DEF Supervised, t, next

\* What publishing frames leaves alone.
LEMMA FramesFields ==
  ASSUME NEW rr \in RunRecord, NEW n
  PROVE  /\ LET next == Ready(rr) IN
            /\ next.status = IF rr.status = "starting" THEN "running" ELSE rr.status
            /\ next.cancel = rr.cancel /\ next.obs = rr.obs
            /\ next.outcome = rr.outcome /\ next.confirmed = rr.confirmed
            /\ next.coop = rr.coop /\ next.forced = rr.forced
         /\ LET next == WithProgress(rr, n) IN
            /\ next.status = rr.status /\ next.cancel = rr.cancel /\ next.obs = rr.obs
            /\ next.outcome = rr.outcome /\ next.confirmed = rr.confirmed
            /\ next.coop = rr.coop /\ next.forced = rr.forced
BY Zenon DEF Ready, Recorded, WithProgress, RunRecord

\* Frames reach the record while the supervision is live, or when it flushes.
LEMMA PublishSupervised ==
  ASSUME TypeInv, SupervisionInv, NEW q \in Runs,
         PublishReady(q) \/ PublishProgress(q) \/ Flush(q)
  PROVE  Supervised(q)'
<1> DEFINE s == sup[q]
           t == sup'[q]
           rr == run[q]
           next == run'[q]
<1>1. s \in SupRecord /\ rr \in RunRecord
  BY DEF TypeInv, TypeOK
<1>2. Supervised(q)
  BY DEF SupervisionInv
<1>3. UNCHANGED <<accepted, proc>>
  BY Zenon DEF PublishReady, PublishProgress, Flush
<1>4. /\ next = rr \/ next = Ready(rr) \/ next = WithProgress(rr, s.pend)
      /\ \/ s.stage = "live" /\ t = [s EXCEPT !.cons = "idle"]
         \/ s.stage = "live" /\ t = [s EXCEPT !.cons = "idle", !.pend = 0]
         \/ s.stage = "flush" /\ t = [s EXCEPT !.stage = "commit", !.pend = 0]
  BY Zenon DEF TypeInv, TypeOK, PublishReady, PublishProgress, Flush
<1>5. /\ next.cancel = rr.cancel /\ next.obs = rr.obs
      /\ next.outcome = rr.outcome /\ next.confirmed = rr.confirmed
      /\ next.coop = rr.coop /\ next.forced = rr.forced
      /\ next.status = rr.status \/ (rr.status = "starting" /\ next.status = "running")
  <2>1. CASE next = Ready(rr)
    BY <1>1, <2>1, FramesFields
  <2>2. CASE next = WithProgress(rr, s.pend)
    BY <1>1, <2>2, FramesFields
  <2> QED
    BY <1>4, <2>1, <2>2
<1>6. /\ t.co = s.co /\ t.esc = s.esc /\ t.captured = s.captured /\ t.exit = s.exit
      /\ \/ s.stage = "live" /\ t.stage = "live"
         \/ s.stage = "flush" /\ t.stage = "commit" /\ t.pend = 0
  BY <1>1, <1>4 DEF SupRecord
<1> HIDE DEF t, next
<1>7. Accounted(next, t, q \in accepted)
  BY <1>2, <1>5, <1>6 DEF Supervised, Accounted, Quiet
<1>8. Ordered(t)
  BY <1>2, <1>6 DEF Supervised, Ordered
<1>9. Truthful(next, t, proc[q])
  BY <1>2, <1>5, <1>6 DEF Supervised, Truthful
<1> QED
  BY <1>3, <1>7, <1>8, <1>9 DEF Supervised, t, next

\* Completion, the wait for a late cancellation, the audit and the release change no record,
\* and neither do the writes that are refused.
LEMMA StagesSupervised ==
  ASSUME TypeInv, SupervisionInv, NEW q \in Runs,
         \/ Complete(q) \/ Drain(q) \/ AwaitCancel(q) \/ OutcomeAudit(q) \/ Release(q)
         \/ CallbackThrows(q) \/ SettlementThrows(q) \/ PublicationThrows(q)
  PROVE  Supervised(q)'
<1> DEFINE s == sup[q]
           t == sup'[q]
<1>1. s \in SupRecord /\ proc[q] \in ProcRecord
  BY DEF TypeInv, TypeOK
<1>2. Supervised(q)
  BY DEF SupervisionInv
<1>3. /\ run' = run
      /\ q \in accepted' => q \in accepted
      /\ proc'[q] = proc[q] \/ (RootExited(q) /\ proc'[q] = [proc[q] EXCEPT !.guard = "gone"])
  <2>1. accepted' = accepted \/ accepted' = accepted \ {q}
    BY Zenon DEF Complete, Drain, AwaitCancel, OutcomeAudit, Release, CallbackThrows,
       SettlementThrows, PublicationThrows
  <2>2. /\ run' = run
        /\ proc' = proc \/ (RootExited(q) /\ proc'[q] = [proc[q] EXCEPT !.guard = "gone"])
    BY Zenon DEF TypeInv, TypeOK, Complete, Drain, AwaitCancel, OutcomeAudit, Release,
       CallbackThrows, SettlementThrows, PublicationThrows, durable
  <2> QED
    BY <2>1, <2>2
<1>4. \/ s.stage = "live" /\ RootExited(q) /\ s.co \in {"idle", "yes", "no"} /\ t = Captured(s)
      \/ s.stage = "live" /\ t = [s EXCEPT !.stage = "flush", !.exit = "callbackFailed"]
      \/ s.stage = "drain" /\ t = [s EXCEPT !.stage = "flush"]
      \/ /\ s.stage = "await" /\ s.co \in {"yes", "no"}
         /\ t = [s EXCEPT !.captured = s.co, !.stage = "commit"]
      \/ s.stage \in {"await", "audit", "flush", "commit"} /\ t = [s EXCEPT !.stage = "release"]
      \/ s.stage = "release" /\ t = [s EXCEPT !.stage = "done"]
      \/ /\ s.stage = "live"
         /\ t = [s EXCEPT !.stage = "flush", !.exit = "callbackFailed", !.cons = "closed"]
      \/ s.co \in {"publish", "confirm"} /\ t = [s EXCEPT !.co = "failed"]
      \/ s.esc = "publish" /\ t = [s EXCEPT !.esc = "failed"]
  <2>1. CASE Complete(q) \/ Drain(q) \/ AwaitCancel(q) \/ OutcomeAudit(q) \/ Release(q)
    BY <2>1, Zenon DEF TypeInv, TypeOK, Complete, Drain, AwaitCancel, OutcomeAudit, Release
  <2>2. CASE CallbackThrows(q)
    BY <2>2, Zenon DEF TypeInv, TypeOK, CallbackThrows
  <2>3. CASE SettlementThrows(q)
    BY <2>3, Zenon DEF TypeInv, TypeOK, SettlementThrows
  <2>4. CASE PublicationThrows(q)
    BY <2>4, Zenon DEF TypeInv, TypeOK, PublicationThrows
  <2> QED
    BY <2>1, <2>2, <2>3, <2>4
<1>5. \/ /\ s.stage = "live" /\ t.stage = "drain" /\ RootExited(q) /\ s.co \in {"idle", "yes", "no"}
         /\ t.captured = IF s.co = "idle" THEN "none" ELSE s.co
         /\ t.co = s.co /\ t.esc = s.esc /\ t.exit = s.exit /\ t.pend = s.pend
      \/ /\ s.stage = "live" /\ t.stage = "flush" /\ t.exit = "callbackFailed"
         /\ t.co = s.co /\ t.esc = s.esc /\ t.captured = s.captured /\ t.pend = s.pend
      \/ /\ s.stage = "await" /\ t.stage = "commit" /\ s.co \in {"yes", "no"} /\ t.captured = s.co
         /\ t.co = s.co /\ t.esc = s.esc /\ t.exit = s.exit /\ t.pend = s.pend
      \/ /\ \/ s.stage = "drain" /\ t.stage = "flush"
            \/ s.stage \in {"await", "audit", "flush", "commit"} /\ t.stage = "release"
            \/ s.stage = "release" /\ t.stage = "done"
         /\ t.co = s.co /\ t.esc = s.esc /\ t.exit = s.exit /\ t.captured = s.captured
         /\ t.pend = s.pend
      \/ /\ s.co \in {"publish", "confirm"} /\ t.co = "failed" /\ t.esc = s.esc
         /\ t.stage = s.stage /\ t.exit = s.exit /\ t.captured = s.captured /\ t.pend = s.pend
      \/ /\ s.esc = "publish" /\ t.esc = "failed" /\ t.co = s.co
         /\ t.stage = s.stage /\ t.exit = s.exit /\ t.captured = s.captured /\ t.pend = s.pend
  BY <1>1, <1>4 DEF SupRecord, Captured
<1> HIDE DEF t
<1>6. Accounted(run[q], t, q \in accepted')
  BY <1>2, <1>3, <1>5 DEF Supervised, Accounted, Ordered, Quiet
<1>7. Ordered(t)
  BY <1>2, <1>5 DEF Supervised, Ordered, Resting
<1>8. Truthful(run[q], t, proc[q])
  BY <1>2, <1>5 DEF Supervised, Truthful, Exited, RootExited
<1>9. Truthful(run[q], t, proc'[q])
  <2>1. CASE proc'[q] = [proc[q] EXCEPT !.guard = "gone"] /\ RootExited(q)
    <3>1. /\ proc'[q].tree = proc[q].tree /\ proc'[q].evidence = proc[q].evidence
          /\ proc'[q].guard = "gone" /\ proc[q].tree # "none"
      BY <1>1, <2>1 DEF ProcRecord, RootExited
    <3> QED
      BY <1>8, <3>1, TreeEnds
  <2> QED
    BY <1>3, <1>8, <2>1
<1> QED
  BY <1>3, <1>6, <1>7, <1>9 DEF Supervised, t

\* The fields of a record that ends.
LEMMA EndedFields ==
  ASSUME NEW rr \in RunRecord, NEW code, NEW complete
  PROVE  LET next == Ended(rr, code, complete) IN
         /\ next.status = OutcomeStatus(code) /\ next.outcome = code
         /\ next.cancel = rr.cancel /\ next.obs = rr.obs /\ next.confirmed = rr.confirmed
         /\ next.coop = rr.coop /\ next.forced = rr.forced
BY Zenon DEF Ended, Recorded, RunRecord

\* The commit of a cancelled run: what vouches for the end of its tree is true.
LEMMA CancelledSupervised ==
  ASSUME TypeInv, SupervisionInv, NEW q \in Runs, Commit(q), CommitCancelled(q)
  PROVE  Supervised(q)'
<1> DEFINE s == sup[q]
           t == sup'[q]
           rr == run[q]
           next == run'[q]
           complete == ValidTerminal(s) /\ s.term = "cancelled" /\ ~rr.forced
           how == IF rr.confirmed # "no" THEN rr.confirmed
                  ELSE IF s.captured = "yes" THEN "tree"
                  ELSE IF s.captured = "no" THEN "no"
                  ELSE "nostart"
<1>1. s \in SupRecord /\ rr \in RunRecord
  BY DEF TypeInv, TypeOK
<1>2. Supervised(q)
  BY DEF SupervisionInv
<1>3. /\ s.stage = "commit" /\ rr.outcome = "none" /\ rr.cancel /\ how # "no"
      /\ s.captured # "none" \/ rr.confirmed # "no" \/ s.exit = "unsupervised"
      /\ next = [Ended(rr, "cancelled", complete) EXCEPT !.confirmed = how]
      /\ t = [s EXCEPT !.stage = "audit"]
      /\ UNCHANGED <<accepted, proc>>
  BY Zenon DEF TypeInv, TypeOK, Commit, CommitCancelled, CancelTerminationKnown
<1>4. /\ next.status = "cancelled" /\ next.outcome = "cancelled" /\ next.confirmed = how
      /\ next.cancel = rr.cancel /\ next.obs = rr.obs
  <2>1. next.status = OutcomeStatus("cancelled") /\ next.outcome = "cancelled"
        /\ next.confirmed = how /\ next.cancel = rr.cancel /\ next.obs = rr.obs
    BY <1>1, <1>3, Zenon DEF Ended, Recorded, RunRecord
  <2> QED
    BY <2>1 DEF OutcomeStatus
<1>5. /\ t.stage = "audit" /\ t.co = s.co /\ t.esc = s.esc /\ t.captured = s.captured
      /\ t.exit = s.exit /\ t.pend = s.pend
  BY <1>1, <1>3 DEF SupRecord
<1> HIDE DEF t, next
<1>6. s.co \in {"idle", "yes"} /\ (how \in {"tree", "guard"} => s.co = "yes")
  BY <1>2, <1>3 DEF Supervised, Accounted, Ordered
<1> HIDE DEF how
<1>7. Accounted(next, t, q \in accepted)
  BY <1>2, <1>3, <1>4, <1>5, <1>6 DEF Supervised, Accounted, Ordered, Quiet
<1>8. Ordered(t)
  BY <1>2, <1>3, <1>5 DEF Supervised, Ordered
<1>9. Truthful(next, t, proc[q])
  BY <1>2, <1>3, <1>4, <1>5, <1>6 DEF Supervised, Truthful
<1> QED
  BY <1>3, <1>7, <1>8, <1>9 DEF Supervised, t, next

\* The commit of the adapter's own result: nobody was signalled, and the adapter exited
\* unless its start is what failed.
LEMMA UncancelledSupervised ==
  ASSUME TypeInv, SupervisionInv, NEW q \in Runs, Commit(q), CommitUncancelled(q)
  PROVE  Supervised(q)'
<1> DEFINE s == sup[q]
           t == sup'[q]
           rr == run[q]
           next == run'[q]
           code == OutcomeCode(s)
<1>1. s \in SupRecord /\ rr \in RunRecord
  BY DEF TypeInv, TypeOK
<1>2. Supervised(q)
  BY DEF SupervisionInv
<1>3. /\ s.stage = "commit" /\ rr.outcome = "none" /\ ~rr.cancel
      /\ next = Ended(rr, code, ValidTerminal(s))
      /\ t = [s EXCEPT !.stage = "audit"]
      /\ UNCHANGED <<accepted, proc>>
  BY Zenon DEF TypeInv, TypeOK, Commit, CommitUncancelled
<1>4. /\ next.status = OutcomeStatus(code) /\ next.outcome = code
      /\ next.cancel = rr.cancel /\ next.obs = rr.obs /\ next.confirmed = rr.confirmed
      /\ next.coop = rr.coop /\ next.forced = rr.forced
  BY <1>1, <1>3, EndedFields
<1>5. OutcomeStatus(code) \in Envelopes
  BY DEF OutcomeStatus, Envelopes
<1>6. code = "start_failed" \/ (s.exit = "ok" /\ code \in Envelopes \cup {"protocol_invalid", "incomplete"})
  BY DEF OutcomeCode, StartFailed, ValidTerminal, Envelopes
<1>7. /\ t.stage = "audit" /\ t.co = s.co /\ t.esc = s.esc /\ t.captured = s.captured
      /\ t.exit = s.exit /\ t.pend = s.pend
  BY <1>1, <1>3 DEF SupRecord
<1> HIDE DEF t, next, code
<1>8. Accounted(next, t, q \in accepted)
  BY <1>2, <1>3, <1>4, <1>5, <1>6, <1>7 DEF Supervised, Accounted, Ordered, Quiet, Envelopes
<1>9. Ordered(t)
  BY <1>2, <1>3, <1>7 DEF Supervised, Ordered
<1>10. Truthful(next, t, proc[q])
  BY <1>2, <1>3, <1>4, <1>5, <1>6, <1>7 DEF Supervised, Truthful, Envelopes
<1> QED
  BY <1>3, <1>8, <1>9, <1>10 DEF Supervised, t, next

\* The terminal commit, or the wait for what it needs to know.
LEMMA CommitSupervised ==
  ASSUME TypeInv, SupervisionInv, NEW q \in Runs, Commit(q)
  PROVE  Supervised(q)'
<1>1. CASE CommitCancelled(q)
  BY <1>1, CancelledSupervised
<1>2. CASE CommitUncancelled(q)
  BY <1>2, UncancelledSupervised
<1>3. CASE CommitAwaits(q) \/ CommitGivesUp(q)
  <2> DEFINE s == sup[q]
             t == sup'[q]
  <2>1. s \in SupRecord
    BY DEF TypeInv, TypeOK
  <2>2. Supervised(q)
    BY DEF SupervisionInv
  <2>3. /\ s.stage = "commit" /\ run[q].cancel /\ UNCHANGED <<run, accepted, proc>>
        /\ \/ /\ s.captured = "none" /\ s.exit # "unsupervised" /\ run[q].confirmed = "no"
              /\ t = [Requested(s) EXCEPT !.stage = "await"]
           \/ t = [s EXCEPT !.stage = "release"]
    BY <1>3, Zenon DEF TypeInv, TypeOK, Commit, CommitAwaits, CommitGivesUp,
       CancelTerminationKnown
  <2>4. /\ t.pend = s.pend /\ t.captured = s.captured /\ t.exit = s.exit
        /\ \/ /\ t.stage = "await" /\ s.captured = "none" /\ s.exit # "unsupervised"
              /\ \/ t.co = s.co /\ t.esc = s.esc
                 \/ s.co = "idle" /\ t.co = "signal" /\ t.esc = "armed"
           \/ t.stage = "release" /\ t.co = s.co /\ t.esc = s.esc
    <3> DEFINE u == Requested(s)
    <3>1. u \in SupRecord
      BY <2>1, RequestedType
    <3>2. /\ u.stage = s.stage /\ u.pend = s.pend /\ u.captured = s.captured /\ u.exit = s.exit
          /\ \/ u.co = s.co /\ u.esc = s.esc
             \/ s.co = "idle" /\ u.co = "signal" /\ u.esc = "armed"
      BY <2>1 DEF SupRecord, Requested
    <3> HIDE DEF u
    <3>3. \/ /\ s.captured = "none" /\ s.exit # "unsupervised"
             /\ t = [u EXCEPT !.stage = "await"]
          \/ t = [s EXCEPT !.stage = "release"]
      BY <2>3 DEF u
    <3> QED
      BY <2>1, <3>1, <3>2, <3>3 DEF SupRecord
  <2>5. run[q].outcome = "none"
    BY DEF Commit
  <2> HIDE DEF t
  <2>6. Accounted(run[q], t, q \in accepted)
    BY <2>2, <2>3, <2>4, <2>5 DEF Supervised, Accounted, Quiet
  <2>7. Ordered(t)
    BY <2>2, <2>3, <2>4 DEF Supervised, Ordered
  <2>8. Truthful(run[q], t, proc[q])
    BY <2>2, <2>3, <2>4 DEF Supervised, Truthful
  <2> QED
    BY <2>3, <2>6, <2>7, <2>8 DEF Supervised, t
<1> QED
  BY <1>1, <1>2, <1>3 DEF Commit

\* What keeps the records, the supervisions and the trees keeps Supervised.
LEMMA Still ==
  ASSUME SupervisionInv, UNCHANGED <<run, sup, proc, accepted>>
  PROVE  \A r \in Runs : Supervised(r)'
BY DEF SupervisionInv, Supervised

\* Launch requests: a record is created where there was none, and its supervision begins
\* where there was none.
LEMMA LaunchSupervised ==
  ASSUME TypeInv, SupervisionInv, LaunchNext
  PROVE  \A r \in Runs : Supervised(r)'
<1>1. ASSUME NEW k \in LaunchKeys, NEW p \in Params, NEW q \in Runs, LaunchCommit(k, p, q)
      PROVE  \A r \in Runs : Supervised(r)'
  <2>1. /\ run[q].status = "absent" /\ run'[q] = Created
        /\ UNCHANGED <<sup, proc, accepted>>
        /\ Others(q)
    BY <1>1, Zenon DEF TypeInv, TypeOK, LaunchCommit, Created, Others
  <2>2. Supervised(q)
    BY DEF SupervisionInv
  <2>3. Accounted(Created, sup[q], q \in accepted)
    BY <2>1, <2>2 DEF Supervised, Accounted, Ordered, Resting, Created, NoRun
  <2>4. Truthful(Created, sup[q], proc[q])
    BY <2>1, <2>2 DEF Supervised, Accounted, Ordered, Truthful, Resting, Created, NoRun, Living
  <2>5. Supervised(q)'
    BY <2>1, <2>2, <2>3, <2>4 DEF Supervised
  <2> QED
    BY <2>1, <2>5, Frame
<1>2. ASSUME NEW k \in LaunchKeys, LaunchPublish(k)
      PROVE  \A r \in Runs : Supervised(r)'
  <2>0. PICK q \in Runs : q = launched[k].run
    BY <1>2 DEF TypeInv, KeyInv, LaunchPublish
  <2> DEFINE s == sup[q]
             t == sup'[q]
  <2>1. run[q] = Created /\ s.stage = "none" /\ proc[q].tree = "none"
    BY <1>2, <2>0 DEF SupervisionInv, HostInv, LaunchPublish
  <2>2. /\ t = [s EXCEPT !.stage = "scheduled"]
        /\ UNCHANGED <<run, proc, accepted>>
        /\ Others(q)
    BY <1>2, <2>0, Zenon DEF TypeInv, TypeOK, LaunchPublish, Others, durable
  <2>3. Supervised(q) /\ s \in SupRecord
    BY <2>1 DEF SupervisionInv, TypeInv, TypeOK
  <2>4. t.stage = "scheduled" /\ Resting(t) /\ Resting(s)
    BY <2>1, <2>2, <2>3 DEF SupRecord, Resting, Supervised, Ordered
  <2> HIDE DEF t
  <2>5. Accounted(run[q], t, q \in accepted)
    BY <2>1, <2>3, <2>4 DEF Supervised, Accounted, Resting, Created, NoRun, Active
  <2>6. Ordered(t)
    BY <2>4 DEF Ordered, Resting
  <2>7. Truthful(run[q], t, proc[q])
    BY <2>1, <2>3, <2>4 DEF Supervised, Truthful, Resting
  <2>8. Supervised(q)'
    BY <2>2, <2>5, <2>6, <2>7 DEF Supervised, t
  <2> QED
    BY <2>1, <2>2, <2>8, Frame
<1>3. \/ UNCHANGED <<run, sup, proc, accepted>>
      \/ \E k \in LaunchKeys, p \in Params, q \in Runs : LaunchCommit(k, p, q)
      \/ \E k \in LaunchKeys : LaunchPublish(k)
  BY Zenon DEF LaunchNext, LaunchExisting, LaunchReject, durable
<1> QED
  BY <1>1, <1>2, <1>3, Still

\* A request for cancellation reaches a supervision that is live.
LEMMA RequestSupervised ==
  ASSUME TypeInv, SupervisionInv, NEW q \in Runs, run[q].cancel, run[q].status # "absent",
         RequestIfActive(q), UNCHANGED <<run, proc>>,
         accepted' \subseteq accepted \cup {q}
  PROVE  Supervised(q)'
<1> DEFINE s == sup[q]
           t == sup'[q]
<1>1. t = IF s.stage \in {"live", "drain"} THEN Requested(s) ELSE s
  BY Zenon DEF TypeInv, TypeOK, RequestIfActive
<1>2. Supervised(q) /\ s \in SupRecord
  BY DEF SupervisionInv, TypeInv, TypeOK
<1>3. \/ t = s
      \/ /\ s.stage \in {"live", "drain"} /\ s.co = "idle" /\ t.co = "signal" /\ t.esc = "armed"
         /\ t.stage = s.stage /\ t.pend = s.pend /\ t.captured = s.captured /\ t.exit = s.exit
  BY <1>1, <1>2 DEF Requested, SupRecord
<1> HIDE DEF t
<1>4. Accounted(run[q], t, q \in accepted')
  BY <1>2, <1>3 DEF Supervised, Accounted, Ordered, Quiet
<1>5. Ordered(t)
  BY <1>2, <1>3 DEF Supervised, Ordered, Resting
<1>6. Truthful(run[q], t, proc[q])
  BY <1>2, <1>3 DEF Supervised, Truthful
<1> QED
  BY <1>4, <1>5, <1>6 DEF Supervised, t

\* The fields of a record whose cancellation is accepted.
LEMMA AcceptedFields ==
  ASSUME NEW rr \in RunRecord
  PROVE  LET next == CancelAccepted(rr) IN
         /\ next.status = "cancelling" /\ next.cancel = TRUE /\ next.obs = rr.obs
         /\ next.outcome = rr.outcome /\ next.confirmed = rr.confirmed
BY Zenon DEF CancelAccepted, Recorded, RunRecord

\* Cancellation requests.
LEMMA CancelSupervised ==
  ASSUME TypeInv, RecordInv, SupervisionInv, CancelNext
  PROVE  \A r \in Runs : Supervised(r)'
<1>1. ASSUME NEW k \in CancelKeys, NEW q \in Runs, CancelCommit(k, q)
      PROVE  \A r \in Runs : Supervised(r)'
  <2>1. /\ Cancellable(q) /\ run'[q] = CancelAccepted(run[q])
        /\ UNCHANGED <<sup, proc, accepted>>
        /\ Others(q)
    BY <1>1, Zenon DEF TypeInv, TypeOK, CancelCommit, CancelAccepted, Others
  <2>2. Supervised(q) /\ run[q] \in RunRecord
    BY DEF SupervisionInv, TypeInv, TypeOK
  <2>3. LET next == CancelAccepted(run[q]) IN
        /\ next.status = "cancelling" /\ next.cancel = TRUE /\ next.obs = run[q].obs
        /\ next.outcome = run[q].outcome /\ next.confirmed = run[q].confirmed
    BY <2>2, AcceptedFields
  <2>4. Accounted(CancelAccepted(run[q]), sup[q], q \in accepted)
    BY <2>1, <2>2, <2>3 DEF Supervised, Accounted, Cancellable, Active
  <2>5. Truthful(CancelAccepted(run[q]), sup[q], proc[q])
    BY <2>1, <2>2, <2>3 DEF Supervised, Truthful, Cancellable
  <2>6. Supervised(q)'
    BY <2>1, <2>2, <2>4, <2>5 DEF Supervised
  <2> QED
    BY <2>1, <2>6, Frame
<1>2. ASSUME NEW k \in CancelKeys, CancelArm(k)
      PROVE  \A r \in Runs : Supervised(r)'
  <2>0. PICK q \in Runs : q = cancels[k].run
    BY <1>2 DEF TypeInv, KeyInv, CancelArm
  <2>1. run[q].cancel
    BY <1>2, <2>0 DEF SupervisionInv, HostInv, CancelArm
  <2>2. run[q].status # "absent"
    BY <2>1 DEF SupervisionInv, Supervised, Accounted
  <2>3. /\ RequestIfActive(q) /\ UNCHANGED <<run, proc>>
        /\ accepted' = accepted \cup {q}
    BY <1>2, <2>0, Zenon DEF CancelArm, durable
  <2>4. Supervised(q)'
    BY <2>1, <2>2, <2>3, RequestSupervised
  <2>5. \A r \in Runs \ {q} : sup'[r] = sup[r]
    BY <2>1, <2>3, Zenon DEF TypeInv, TypeOK, RequestIfActive
  <2>6. Others(q)
    BY <2>3, <2>5 DEF Others
  <2> QED
    BY <2>1, <2>4, <2>6, Frame
<1>3. ASSUME NEW k \in CancelKeys, NEW q \in Runs, CancelExisting(k, q)
      PROVE  \A r \in Runs : Supervised(r)'
  <2>1. CASE UNCHANGED <<sup, accepted>>
    BY <1>3, <2>1, Still DEF CancelExisting, durable
  <2>2. CASE run[q].status = "cancelling" /\ accepted' = accepted \cup {q} /\ RequestIfActive(q)
    <3>1. run[q].cancel
      BY <2>2 DEF RecordInv, Sound, Active
    <3>2. UNCHANGED <<run, proc>>
      BY <1>3 DEF CancelExisting, durable
    <3>3. Supervised(q)'
      BY <2>2, <3>1, <3>2, RequestSupervised
    <3>4. \A r \in Runs \ {q} : sup'[r] = sup[r]
      BY <2>2, Zenon DEF TypeInv, TypeOK, RequestIfActive
    <3>5. Others(q)
      BY <2>2, <3>2, <3>4 DEF Others
    <3> QED
      BY <3>3, <3>5, Frame
  <2> QED
    BY <1>3, <2>1, <2>2 DEF CancelExisting
<1>4. \/ UNCHANGED <<run, sup, proc, accepted>>
      \/ \E k \in CancelKeys, q \in Runs : CancelCommit(k, q) \/ CancelExisting(k, q)
      \/ \E k \in CancelKeys : CancelArm(k)
  BY Zenon DEF CancelNext, CancelReject, CancelPublish, durable
<1> QED
  BY <1>1, <1>2, <1>3, <1>4, Still

\* The fields of the outcome of an interrupted run.
LEMMA FinalizedFields ==
  ASSUME NEW rr \in RunRecord, NEW prev
  PROVE  LET next == Finalized(rr, prev) IN
         /\ next.status \in {"cancelled", "failed"}
         /\ next.status = IF prev = "cancelling" /\ rr.cancel THEN "cancelled" ELSE "failed"
         /\ next.outcome \in {"cancelled_reconciled", "interrupted"}
         /\ next.confirmed \in {rr.confirmed, "guard"}
         /\ next.cancel = rr.cancel /\ next.coop = rr.coop /\ next.forced = rr.forced
         /\ next.obs = "none"
<1> DEFINE ended == [Recorded(rr, "terminal") EXCEPT !.obs = "none", !.prev = "none"]
<1>1. /\ ended \in RunRecord
      /\ ended.cancel = rr.cancel /\ ended.coop = rr.coop /\ ended.forced = rr.forced
      /\ ended.confirmed = rr.confirmed /\ ended.obs = "none"
  <2>1. Recorded(rr, "terminal") \in RunRecord /\ "none" \in Inspections /\ "none" \in Interrupted
    BY RecordedType DEF Events, Inspections, Interrupted
  <2> QED
    BY <2>1, Zenon DEF Recorded, RunRecord
<1> HIDE DEF ended
<1>2. LET next == [ended EXCEPT !.status = "cancelled", !.outcome = "cancelled_reconciled",
                                !.confirmed = IF @ = "no" THEN "guard" ELSE @] IN
      /\ next.status = "cancelled" /\ next.outcome = "cancelled_reconciled"
      /\ next.confirmed = "guard" \/ next.confirmed = ended.confirmed
      /\ next.cancel = ended.cancel /\ next.coop = ended.coop /\ next.forced = ended.forced
      /\ next.obs = ended.obs
  BY <1>1, Zenon DEF RunRecord
<1>3. LET next == [ended EXCEPT !.status = "failed", !.outcome = "interrupted"] IN
      /\ next.status = "failed" /\ next.outcome = "interrupted"
      /\ next.confirmed = ended.confirmed
      /\ next.cancel = ended.cancel /\ next.coop = ended.coop /\ next.forced = ended.forced
      /\ next.obs = ended.obs
  BY <1>1, Zenon DEF RunRecord
<1>4. Finalized(rr, prev) =
        IF prev = "cancelling" /\ rr.cancel
        THEN [ended EXCEPT !.status = "cancelled", !.outcome = "cancelled_reconciled",
                           !.confirmed = IF @ = "no" THEN "guard" ELSE @]
        ELSE [ended EXCEPT !.status = "failed", !.outcome = "interrupted"]
  BY Zenon DEF Finalized, ended
<1>5. CASE prev = "cancelling" /\ rr.cancel
  BY <1>1, <1>2, <1>4, <1>5
<1>6. CASE ~(prev = "cancelling" /\ rr.cancel)
  BY <1>1, <1>3, <1>4, <1>6
<1> QED
  BY <1>5, <1>6

\* An outcome that follows a Host loss agrees with a tree that is gone.
LEMMA FinalizedSupervised ==
  ASSUME NEW rr \in RunRecord, NEW s, NEW p, NEW armed, NEW prev,
         Accounted(rr, s, armed), Ordered(s), Truthful(rr, s, p),
         s.stage = "none", rr.status # "absent", ~Living(p)
  PROVE  /\ Accounted(Finalized(rr, prev), s, armed)
         /\ Truthful(Finalized(rr, prev), s, p)
<1> DEFINE next == Finalized(rr, prev)
<1>1. /\ next.status \in {"cancelled", "failed"}
      /\ next.outcome \in {"cancelled_reconciled", "interrupted"}
      /\ next.confirmed \in {rr.confirmed, "guard"}
      /\ next.cancel = rr.cancel /\ next.coop = rr.coop /\ next.forced = rr.forced
      /\ next.obs = "none"
  BY FinalizedFields
<1> HIDE DEF next
<1>2. Accounted(next, s, armed)
  BY <1>1 DEF Accounted, Ordered, Resting, Quiet
<1>3. Truthful(next, s, p)
  BY <1>1 DEF Truthful, Ordered, Resting
<1> QED
  BY <1>2, <1>3 DEF next

\* Recovery: its inspections and its finalization speak of a tree that is gone.
LEMMA RecoverSupervised ==
  ASSUME TypeInv, SupervisionInv, RecoverNext
  PROVE  \A r \in Runs : Supervised(r)'
<1>1. ASSUME NEW k \in RecoverKeys, RecoverAct(k)
      PROVE  \A r \in Runs : Supervised(r)'
  <2>1. PICK q \in Runs : q = recovers[k].run
    BY <1>1 DEF TypeInv, KeyInv, RecoverAct, Held
  <2>2. /\ UNCHANGED <<run, sup, accepted>>
        /\ proc' = proc \/ (Alive(q) /\ proc' = [proc EXCEPT ![q].tree = "gone"])
    BY <1>1, <2>1, Zenon DEF RecoverAct, durable
  <2>3. CASE proc' = proc
    BY <2>2, <2>3, Still
  <2>4. CASE Alive(q) /\ proc' = [proc EXCEPT ![q].tree = "gone"]
    <3>1. /\ proc'[q] = [proc[q] EXCEPT !.tree = "gone"]
          /\ Others(q)
      BY <2>2, <2>4, Zenon DEF TypeInv, TypeOK, Others
    <3>2. proc[q] \in ProcRecord /\ Supervised(q)
      BY DEF TypeInv, TypeOK, SupervisionInv
    <3>3. /\ proc'[q].tree = "gone" /\ proc'[q].guard = proc[q].guard
          /\ proc'[q].evidence = proc[q].evidence
          /\ proc[q].tree # "none"
      BY <2>4, <3>1, <3>2 DEF ProcRecord, Alive
    <3>4. Truthful(run[q], sup[q], proc'[q])
      BY <3>2, <3>3, TreeEnds DEF Supervised
    <3>5. Supervised(q)'
      BY <2>2, <3>2, <3>4 DEF Supervised, Accounted
    <3> QED
      BY <3>1, <3>5, Frame
  <2> QED
    BY <2>2, <2>3, <2>4
<1>2. ASSUME NEW k \in RecoverKeys, RecoverCommit(k)
      PROVE  \A r \in Runs : Supervised(r)'
  <2>1. PICK q \in Runs : q = recovers[k].run
    BY <1>2 DEF TypeInv, KeyInv, RecoverCommit
  <2> DEFINE rr == run[q]
             next == Effect(rr, recovers[k].action, lock.insp)
  <2>2. /\ recovers[k].state = "pending"
        /\ lock.insp = "confirmed" => ~Living(proc[q])
        /\ recovers[k].action = "finalize" => ~Living(proc[q])
    BY <1>2, <2>1 DEF TypeInv, KeyInv, SupervisionInv, IntentInv, RecoverCommit
  <2>3. /\ UNCHANGED <<sup, proc, accepted>>
        /\ run' = run \/ (Recoverable(q) /\ run' = [run EXCEPT ![q] = next])
    BY <1>2, <2>1, Zenon DEF RecoverCommit
  <2>4. CASE run' = run
    BY <2>3, <2>4, Still
  <2>5. CASE Recoverable(q) /\ run' = [run EXCEPT ![q] = next]
    <3>1. rr \in RunRecord /\ Supervised(q)
      BY DEF TypeInv, TypeOK, SupervisionInv
    <3>2. rr.status = "recovery_required" /\ sup[q].stage = "none"
      BY <2>5, <3>1 DEF Recoverable, Supervised, Accounted
    <3>3. Accounted(next, sup[q], q \in accepted) /\ Truthful(next, sup[q], proc[q])
      <4>1. CASE lock.insp # "none"
        <5>1. next = [rr EXCEPT !.obs = lock.insp, !.rev = @ + 1]
          BY <4>1 DEF Effect
        <5>2. /\ next.status = rr.status /\ next.cancel = rr.cancel /\ next.coop = rr.coop
              /\ next.forced = rr.forced /\ next.outcome = rr.outcome
              /\ next.confirmed = rr.confirmed /\ next.obs = lock.insp
          BY <3>1, <5>1, Zenon DEF RunRecord
        <5> HIDE DEF next
        <5> QED
          BY <2>2, <3>1, <3>2, <5>2 DEF Supervised, Accounted, Truthful
      <4>2. CASE lock.insp = "none" /\ recovers[k].action = "finalize"
        <5>1. next = Finalized(rr, rr.prev)
          BY <4>2 DEF Effect
        <5> QED
          BY <2>2, <3>1, <3>2, <4>2, <5>1, FinalizedSupervised DEF Supervised
      <4>3. CASE lock.insp = "none" /\ recovers[k].action # "finalize"
        <5>1. next = rr
          BY <4>3 DEF Effect
        <5> QED
          BY <3>1, <5>1 DEF Supervised
      <4> QED
        BY <4>1, <4>2, <4>3
    <3>4. run'[q] = next /\ Others(q)
      BY <2>3, <2>5, Zenon DEF TypeInv, TypeOK, Others
    <3> HIDE DEF next
    <3>5. Supervised(q)'
      BY <2>3, <3>1, <3>3, <3>4 DEF Supervised
    <3> QED
      BY <3>4, <3>5, Frame
  <2> QED
    BY <2>3, <2>4, <2>5
<1>3. \/ UNCHANGED <<run, sup, proc, accepted>>
      \/ \E k \in RecoverKeys : RecoverAct(k) \/ RecoverCommit(k)
  BY Zenon DEF RecoverNext, RecoverExisting, RecoverReject, RecoverIntent, RecoverPublish, durable
<1> QED
  BY <1>1, <1>2, <1>3, Still

\* A restart accounts for the runs of a Host that supervises nothing yet.
LEMMA BootSupervised ==
  ASSUME TypeInv, RecordInv, SupervisionInv, BootReconcile
  PROVE  \A r \in Runs : Supervised(r)'
<1> SUFFICES ASSUME NEW q \in Runs PROVE Supervised(q)'
  OBVIOUS
<1> DEFINE rr == run[q]
<1>1. PICK insp \in Inspect(q) : run'[q] = Reconciled(rr, insp)
  BY DEF BootReconcile
<1>2. /\ UNCHANGED <<sup, proc, accepted>>
      /\ host = "down"
  BY DEF BootReconcile
<1>3. rr \in RunRecord /\ Supervised(q) /\ Sound(rr)
  BY DEF TypeInv, TypeOK, SupervisionInv, RecordInv
<1>4. sup[q].stage = "none" /\ q \notin accepted
  BY <1>2 DEF SupervisionInv, HostInv
<1>5. insp \in Inspections /\ (insp = "confirmed" => ~Living(proc[q]))
  BY <1>1, <1>3 DEF Inspect, Inspections, Supervised, Truthful, Living
<1>6. CASE rr.status \notin Active
  <2>1. run'[q] = rr
    BY <1>1, <1>6 DEF Reconciled
  <2> QED
    BY <1>2, <1>3, <2>1 DEF Supervised
<1>7. CASE rr.status \in Active /\ (rr.confirmed # "no" \/ insp = "confirmed")
  <2>1. run'[q] = Finalized(rr, rr.status)
    BY <1>1, <1>7 DEF Reconciled
  <2>2. rr.outcome = "none" /\ rr.status # "absent"
    BY <1>3, <1>7 DEF Sound, Active, Envelopes
  <2>3. ~Living(proc[q])
    BY <1>3, <1>5, <1>7, <2>2 DEF Supervised, Accounted, Truthful
  <2>4. /\ Accounted(Finalized(rr, rr.status), sup[q], q \in accepted)
        /\ Truthful(Finalized(rr, rr.status), sup[q], proc[q])
    BY <1>3, <1>4, <2>2, <2>3, FinalizedSupervised DEF Supervised
  <2> QED
    BY <1>2, <1>3, <2>1, <2>4 DEF Supervised
<1>8. CASE rr.status \in Active /\ ~(rr.confirmed # "no" \/ insp = "confirmed")
  <2> DEFINE next == ToRecovery(rr, insp)
  <2>1. run'[q] = next
    BY <1>1, <1>8 DEF Reconciled
  <2>2. /\ next.status = "recovery_required" /\ next.obs = insp
        /\ next.cancel = rr.cancel /\ next.coop = rr.coop /\ next.forced = rr.forced
        /\ next.outcome = rr.outcome /\ next.confirmed = rr.confirmed
    BY <1>3, Zenon DEF ToRecovery, Recorded, RunRecord
  <2> HIDE DEF next
  <2>3. Accounted(next, sup[q], q \in accepted)
    BY <1>3, <1>4, <1>8, <2>2 DEF Supervised, Accounted
  <2>4. Truthful(next, sup[q], proc[q])
    BY <1>3, <1>4, <1>8, <2>2 DEF Supervised, Truthful
  <2> QED
    BY <1>2, <1>3, <2>1, <2>3, <2>4 DEF Supervised
<1> QED
  BY <1>6, <1>7, <1>8

\* The loss of the Host ends every supervision and sets the guardians free.
LEMMA CrashSupervised ==
  ASSUME TypeInv, SupervisionInv, Crash
  PROVE  \A r \in Runs : Supervised(r)'
<1> SUFFICES ASSUME NEW q \in Runs PROVE Supervised(q)'
  OBVIOUS
<1>1. /\ run' = run /\ sup'[q] = NoSup /\ q \notin accepted'
      /\ proc'[q] = [proc[q] EXCEPT !.guard = IF @ = "watch" THEN "lost" ELSE @]
  BY DEF Crash, durable
<1>2. Supervised(q) /\ proc[q] \in ProcRecord
  BY DEF SupervisionInv, TypeInv, TypeOK
<1>3. /\ proc'[q].tree = proc[q].tree /\ proc'[q].evidence = proc[q].evidence
      /\ proc'[q].guard = IF proc[q].guard = "watch" THEN "lost" ELSE proc[q].guard
  BY <1>1, <1>2 DEF ProcRecord
<1>4. /\ NoSup.stage = "none" /\ NoSup.co = "idle" /\ NoSup.esc = "off" /\ NoSup.pend = 0
      /\ NoSup.captured = "none" /\ NoSup.exit = "ok"
  BY DEF NoSup
<1>5. Accounted(run[q], NoSup, q \in accepted')
  BY <1>1, <1>2, <1>4 DEF Supervised, Accounted, Quiet
<1>6. Ordered(NoSup)
  BY <1>4 DEF Ordered, Resting
<1>7. Truthful(run[q], NoSup, proc'[q])
  BY <1>2, <1>3, <1>4 DEF Supervised, Truthful, Living, Exited
<1> QED
  BY <1>1, <1>5, <1>6, <1>7 DEF Supervised

\* The supervision of one run, as a step.
Supervises(q) ==
  \/ StartNext(q) \/ FrameNext(q) \/ SettleNext(q) \/ SignalNext(q) \/ ProcessNext(q)
  \/ CallbackThrows(q) \/ SettlementThrows(q) \/ PublicationThrows(q)

\* Every step keeps what the record, the supervision and the tree of a run know of one
\* another.
LEMMA SupervisedStep ==
  ASSUME TypeInv, RecordInv, SupervisionInv, [Next]_vars
  PROVE  \A r \in Runs : Supervised(r)'
<1>1. ASSUME NEW q \in Runs, Supervises(q)
      PROVE  \A r \in Runs : Supervised(r)'
  <2>1. Others(q)
    BY <1>1, OwnSteps DEF Supervises
  <2>2. Supervised(q)'
    BY <1>1, StartSupervised, FrameSupervised, PublishSupervised, CommitSupervised,
       StagesSupervised, SignalSupervised, ProcessSupervised
    DEF Supervises, SettleNext
  <2> QED
    BY <2>1, <2>2, Frame
<1>2. CASE LaunchNext \/ CancelNext \/ RecoverNext
  BY <1>2, LaunchSupervised, CancelSupervised, RecoverSupervised
<1>3. CASE BootReconcile
  BY <1>3, BootSupervised
<1>4. CASE Crash
  BY <1>4, CrashSupervised
<1>5. \/ UNCHANGED <<run, sup, proc, accepted>>
      \/ LaunchNext \/ CancelNext \/ RecoverNext \/ BootReconcile \/ Crash
      \/ \E q \in Runs : Supervises(q)
  BY Zenon DEF Next, vars, Observe, BootNext, BootPublish, BootDone, BootIntent, FaultNext,
     OperationThrows, Supervises, durable
<1> QED
  BY <1>1, <1>2, <1>3, <1>4, <1>5, Still

\* A supervision steps only where there is one, a process only where there is a tree.
LEMMA SupervisesRuns ==
  ASSUME TypeInv, SupervisionInv, NEW q \in Runs, Supervises(q)
  PROVE  /\ UNCHANGED <<launched, cancels, recovers, host, lock>>
         /\ \/ sup[q].stage # "none"
            \/ UNCHANGED <<run, sup, accepted>> /\ proc[q].tree # "none"
<1>1. UNCHANGED <<launched, cancels, recovers, host, lock>>
  <2>1. CASE StartNext(q) \/ FrameNext(q)
    BY <2>1, Zenon DEF StartNext, SupStartOk, SupStartStillborn, SupStartFail,
       SupStartFailSpawned, FrameNext, FrameReady, FrameProgress, FrameInvalid, ChannelClose,
       FrameTerminal, durable
  <2>2. CASE SettleNext(q)
    BY <2>2, Zenon DEF SettleNext, PublishReady, PublishProgress, Complete, Drain, Flush,
       Commit, AwaitCancel, OutcomeAudit, Release, durable
  <2>3. CASE SignalNext(q) \/ ProcessNext(q)
    BY <2>3, Zenon DEF SignalNext, CoopSignal, PublishCoop, Escalate, PublishForced, Settle,
       PublishConfirmed, ProcessNext, RootExits, KidsExit, KillLands, GuardDrain, durable
  <2>4. CASE CallbackThrows(q) \/ SettlementThrows(q) \/ PublicationThrows(q)
    BY <2>4, Zenon DEF CallbackThrows, SettlementThrows, PublicationThrows, durable
  <2> QED
    BY <2>1, <2>2, <2>3, <2>4 DEF Supervises
<1>2. Supervised(q)
  BY DEF SupervisionInv
<1>3. CASE ProcessNext(q)
  <2>1. UNCHANGED <<run, sup, accepted>>
    BY <1>3, Zenon DEF ProcessNext, RootExits, KidsExit, KillLands, GuardDrain, durable
  <2>2. proc[q].tree # "none"
    BY <1>2, <1>3 DEF ProcessNext, RootExits, KidsExit, KillLands, GuardDrain, Supervised, Truthful
  <2> QED
    BY <1>1, <2>1, <2>2
<1>4. CASE SignalNext(q) \/ PublicationThrows(q)
  <2>1. sup[q].co \in {"signal", "publish", "wait", "confirm"} \/ sup[q].esc \in {"armed", "publish"}
    BY <1>4 DEF SignalNext, CoopSignal, PublishCoop, Escalate, PublishForced, Settle,
       PublishConfirmed, PublicationThrows
  <2> QED
    BY <1>1, <1>2, <2>1 DEF Supervised, Ordered, Resting
<1>5. CASE \/ StartNext(q) \/ FrameNext(q) \/ SettleNext(q) \/ CallbackThrows(q)
           \/ SettlementThrows(q)
  <2>1. sup[q].stage # "none"
    BY <1>5 DEF StartNext, SupStartOk, SupStartStillborn, SupStartFail,
       SupStartFailSpawned, FrameNext, FrameReady, FrameProgress, FrameInvalid, ChannelClose,
       FrameTerminal, Consuming, SettleNext, PublishReady, PublishProgress, Complete, Drain,
       Flush, Commit, AwaitCancel, OutcomeAudit, Release, CallbackThrows, SettlementThrows
  <2> QED
    BY <1>1, <2>1
<1> QED
  BY <1>3, <1>4, <1>5 DEF Supervises

\* A run that ended is never touched again: nothing of its supervision can write, and
\* neither a restart nor a recovery takes it up.
LEMMA Frozen ==
  ASSUME TypeInv, RecordInv, SupervisionInv, [Next]_vars, NEW r \in Runs,
         run[r].outcome # "none"
  PROVE  run'[r] = run[r]
<1>1. Supervised(r) /\ Sound(run[r]) /\ RunStep(r)
  BY RunSteps DEF SupervisionInv, RecordInv
<1>2. run[r].status \in Envelopes /\ Quiet(sup[r])
  BY <1>1 DEF Sound, Supervised, Accounted
<1>3. ~Creates(r) /\ ~Accepts(r) /\ ~Publishes(r) /\ ~Ends(r) /\ ~Recovers(r)
  BY <1>2 DEF Creates, Accepts, Cancellable, Publishes, Ends, Recovers, Recoverable, Quiet,
     Envelopes
<1>4. CASE Reconciles(r)
  BY <1>2, <1>4 DEF Reconciles, Reconciled, Envelopes, Active
<1> QED
  BY <1>1, <1>3, <1>4 DEF RunStep

\* What a step may do to the status and the cancellation of a run.
LEMMA RunMoves ==
  ASSUME TypeInv, RecordInv, SupervisionInv, [Next]_vars, NEW r \in Runs
  PROVE  /\ run[r].cancel => run'[r].cancel
         /\ run[r].status # "absent" => run'[r].status # "absent"
         /\ run[r].status \in Envelopes \cup {"recovery_required"} =>
              run'[r].status \in Envelopes \cup {"recovery_required"}
<1> DEFINE rr == run[r]
           next == run'[r]
<1>1. rr \in RunRecord /\ Supervised(r) /\ Sound(rr) /\ RunStep(r)
  BY RunSteps DEF TypeInv, TypeOK, SupervisionInv, RecordInv
<1>2. CASE rr.outcome # "none"
  BY <1>2, Frozen
<1> SUFFICES ASSUME rr.outcome = "none"
             PROVE  /\ rr.cancel => next.cancel
                    /\ rr.status # "absent" => next.status # "absent"
                    /\ rr.status = "recovery_required" =>
                         next.status \in Envelopes \cup {"recovery_required"}
  BY <1>1, <1>2 DEF Sound
<1>3. rr.status = "absent" => ~rr.cancel
  BY <1>1 DEF Supervised, Accounted
<1>4. rr.status = "recovery_required" => ~Publishes(r) /\ ~Ends(r)
  BY <1>1 DEF Supervised, Accounted, Ordered, Resting, Publishes, Ends
<1>5. CASE Creates(r)
  BY <1>3, <1>5 DEF Creates
<1>6. CASE Accepts(r)
  <2>1. next.status = "cancelling" /\ next.cancel = TRUE
    BY <1>1, <1>6, AcceptedFields DEF Accepts
  <2> QED
    BY <1>6, <2>1 DEF Accepts, Cancellable
<1>7. CASE Publishes(r)
  <2>1. ASSUME NEW n, next = WithProgress(rr, n)
        PROVE  next.cancel = rr.cancel /\ next.status = rr.status
    BY <1>1, <2>1, FramesFields
  <2>2. ASSUME next = Ready(rr)
        PROVE  /\ next.cancel = rr.cancel
               /\ next.status = IF rr.status = "starting" THEN "running" ELSE rr.status
    BY <1>1, <2>2, FramesFields
  <2>3. ASSUME next = ConfirmedByTree(rr)
        PROVE  next.cancel = rr.cancel /\ next.status = rr.status
    BY <1>1, <2>3, ConfirmedFields
  <2>4. ASSUME NEW field, next = SignalField(rr, field)
        PROVE  next.cancel = rr.cancel /\ next.status = rr.status
    BY <1>1, <2>4, SignalFields
  <2> HIDE DEF next, rr
  <2>5. next.cancel = rr.cancel /\ (next.status = rr.status \/ next.status = "running")
    BY <1>7, <2>1, <2>2, <2>3, <2>4 DEF Publishes, next, rr
  <2> QED
    BY <1>4, <1>7, <2>5 DEF next, rr
<1>8. CASE Ends(r)
  <2>1. next.cancel = rr.cancel /\ next.status \in Envelopes
    <3>1. ASSUME NEW code, NEW complete, next = Ended(rr, code, complete)
          PROVE  next.cancel = rr.cancel /\ next.status \in Envelopes
      BY <1>1, <3>1, EndedFields DEF OutcomeStatus, Envelopes
    <3>2. ASSUME NEW how, NEW complete,
                 next = [Ended(rr, "cancelled", complete) EXCEPT !.confirmed = how]
          PROVE  next.cancel = rr.cancel /\ next.status \in Envelopes
      <4>1. next.cancel = rr.cancel /\ next.status = OutcomeStatus("cancelled")
        BY <1>1, <3>2, Zenon DEF Ended, Recorded, RunRecord
      <4> QED
        BY <4>1 DEF OutcomeStatus, Envelopes
    <3> QED
      BY <1>8, <3>1, <3>2, Zenon DEF Ends
  <2> QED
    BY <2>1 DEF Envelopes
<1>9. CASE Recovers(r)
  <2>1. PICK action, insp : next = Effect(rr, action, insp)
    BY <1>9 DEF Recovers
  <2>2. CASE next = [rr EXCEPT !.obs = insp, !.rev = @ + 1]
    <3>1. next.cancel = rr.cancel /\ next.status = rr.status
      BY <1>1, <2>2, Zenon DEF RunRecord
    <3> QED
      BY <3>1
  <2>3. CASE next = Finalized(rr, rr.prev)
    <3>1. next.cancel = rr.cancel /\ next.status \in {"cancelled", "failed"}
      BY <1>1, <2>3, FinalizedFields
    <3> QED
      BY <3>1 DEF Envelopes
  <2> QED
    BY <2>1, <2>2, <2>3 DEF Effect
<1>10. CASE Reconciles(r)
  <2>1. PICK insp : next = Reconciled(rr, insp)
    BY <1>10 DEF Reconciles
  <2>2. CASE next = ToRecovery(rr, insp)
    <3>1. next.cancel = rr.cancel /\ next.status = "recovery_required"
      BY <1>1, <2>2, Zenon DEF ToRecovery, Recorded, RunRecord
    <3> QED
      BY <3>1
  <2>3. CASE next = Finalized(rr, rr.status)
    <3>1. next.cancel = rr.cancel /\ next.status \in {"cancelled", "failed"}
      BY <1>1, <2>3, FinalizedFields
    <3> QED
      BY <3>1 DEF Envelopes
  <2> QED
    BY <2>1, <2>2, <2>3 DEF Reconciled
<1> QED
  BY <1>1, <1>5, <1>6, <1>7, <1>8, <1>9, <1>10 DEF RunStep

\* Every step keeps what a lock that is held knows.
LEMMA HostInvStep ==
  ASSUME TypeInv, RecordInv, SupervisionInv, [Next]_vars
  PROVE  HostInv'
<1> USE DEF SupervisionInv
<1>1. ASSUME NEW q \in Runs, Supervises(q)
      PROVE  HostInv'
  <2>1. /\ UNCHANGED <<launched, cancels, recovers, host, lock>>
        /\ Others(q)
        /\ \/ sup[q].stage # "none"
           \/ UNCHANGED <<run, sup, accepted>> /\ proc[q].tree # "none"
    BY <1>1, SupervisesRuns, OwnSteps DEF Supervises
  <2>2. host # "up" => UNCHANGED <<run, sup, accepted>>
    BY <2>1 DEF HostInv
  <2>3. ASSUME NEW k \in LaunchKeys, lock = Held("launch", k)
        PROVE  /\ run'[launched[k].run] = Created
               /\ sup'[launched[k].run].stage = "none"
               /\ proc'[launched[k].run].tree = "none"
    <3>1. launched[k].run \in Runs \ {q}
      BY <2>1, <2>3 DEF TypeInv, KeyInv, HostInv
    <3> QED
      BY <2>1, <2>3, <3>1 DEF HostInv, Others
  <2>4. ASSUME NEW k \in CancelKeys, lock = Held("arm", k)
        PROVE  run'[cancels[k].run].cancel
    <3>1. PICK r \in Runs : r = cancels[k].run
      BY <2>4 DEF TypeInv, KeyInv
    <3>2. run[r].cancel
      BY <2>4, <3>1 DEF HostInv
    <3> QED
      BY <3>1, <3>2, RunMoves
  <2> QED
    BY <2>1, <2>2, <2>3, <2>4 DEF HostInv
<1>2. ASSUME NEW k \in LaunchKeys, NEW p \in Params, NEW q \in Runs, LaunchCommit(k, p, q)
      PROVE  HostInv'
  <2>1. /\ host' = "up" /\ lock' = Held("launch", k) /\ launched'[k].run = q
        /\ run'[q] = Created /\ UNCHANGED <<sup, proc>>
    BY <1>2, Zenon DEF TypeInv, TypeOK, LaunchCommit, Created, Unlocked
  <2>2. sup[q].stage = "none" /\ proc[q].tree = "none"
    BY <1>2 DEF LaunchCommit, Supervised, Accounted, Truthful
  <2>3. /\ \A j \in LaunchKeys : Held("launch", j) = Held("launch", k) => j = k
        /\ \A j \in CancelKeys : Held("arm", j) # Held("launch", k)
    BY DEF Held
  <2> QED
    BY <2>1, <2>2, <2>3, Zenon DEF HostInv
<1>3. ASSUME NEW k \in CancelKeys, NEW q \in Runs, CancelCommit(k, q)
      PROVE  HostInv'
  <2>1. /\ host' = "up" /\ lock' = Held("arm", k) /\ cancels'[k].run = q
        /\ run'[q] = CancelAccepted(run[q])
    BY <1>3, Zenon DEF TypeInv, TypeOK, CancelCommit, CancelAccepted, Unlocked
  <2>2. run'[q].cancel = TRUE
    BY <2>1, AcceptedFields DEF TypeInv, TypeOK
  <2>3. /\ \A j \in CancelKeys : Held("arm", j) = Held("arm", k) => j = k
        /\ \A j \in LaunchKeys : Held("launch", j) # Held("arm", k)
    BY DEF Held
  <2> QED
    BY <2>1, <2>2, <2>3, Zenon DEF HostInv
<1>4. ASSUME lock'.op \notin {"launch", "arm"},
             host' = "up" \/ (host # "up" /\ UNCHANGED <<sup, accepted>>)
      PROVE  HostInv'
  BY <1>4 DEF HostInv, Held
<1>5. CASE host # "up" /\ UNCHANGED <<sup, accepted, lock, launched, cancels>>
  BY <1>5 DEF HostInv
<1>6. CASE UNCHANGED <<run, launched, cancels, sup, accepted, proc, lock, host>>
  BY <1>6 DEF HostInv
<1>7. CASE Crash
  BY <1>7 DEF Crash, HostInv, NoLock, Held, NoSup
<1>8. CASE LaunchNext
  <2>1. ASSUME NEW k \in LaunchKeys, NEW p \in Params, LaunchExisting(k, p) \/ LaunchReject(k, p)
        PROVE  HostInv'
    BY <1>4, <2>1 DEF LaunchExisting, LaunchReject, Unlocked
  <2>2. ASSUME NEW k \in LaunchKeys, LaunchPublish(k)
        PROVE  HostInv'
    BY <1>4, <2>2 DEF LaunchPublish, HostInv, NoLock
  <2> QED
    BY <1>2, <1>8, <2>1, <2>2 DEF LaunchNext
<1>9. CASE CancelNext
  <2>1. ASSUME NEW k \in CancelKeys, NEW q \in Runs, CancelExisting(k, q) \/ CancelReject(k, q)
        PROVE  HostInv'
    BY <1>4, <2>1 DEF CancelExisting, CancelReject, Unlocked
  <2>2. ASSUME NEW k \in CancelKeys, CancelArm(k)
        PROVE  HostInv'
    BY <1>4, <2>2 DEF CancelArm, HostInv, Held
  <2>3. ASSUME NEW k \in CancelKeys, CancelPublish(k)
        PROVE  HostInv'
    BY <1>4, <2>3 DEF CancelPublish, NoLock
  <2> QED
    BY <1>3, <1>9, <2>1, <2>2, <2>3 DEF CancelNext
<1>10. CASE RecoverNext
  <2>1. UNCHANGED <<host, sup, accepted>> /\ lock'.op \notin {"launch", "arm"}
    <3>1. ASSUME NEW k \in RecoverKeys, RecoverAct(k)
          PROVE  UNCHANGED <<host, sup, accepted>> /\ lock'.op \notin {"launch", "arm"}
      <4>1. /\ lock = Held("recover", k) /\ UNCHANGED <<host, sup, accepted>>
            /\ \E insp : lock' = [lock EXCEPT !.op = "acted", !.insp = insp]
        BY <3>1, Zenon DEF RecoverAct
      <4> QED
        BY <4>1 DEF Held
    <3>2. ASSUME NEW k \in RecoverKeys, RecoverCommit(k) \/ RecoverPublish(k)
          PROVE  UNCHANGED <<host, sup, accepted>> /\ lock'.op \notin {"launch", "arm"}
      <4>1. UNCHANGED <<host, sup, accepted>> /\ lock' \in {Held("recovered", k), NoLock}
        BY <3>2 DEF RecoverCommit, RecoverPublish
      <4> QED
        BY <4>1 DEF Held, NoLock
    <3>3. ASSUME NEW k \in RecoverKeys, NEW q \in Runs, NEW a \in RecoveryActions,
                 RecoverExisting(k, q, a) \/ RecoverReject(k, q, a) \/ RecoverIntent(k, q, a)
          PROVE  UNCHANGED <<host, sup, accepted>> /\ lock'.op \notin {"launch", "arm"}
      <4>1. /\ UNCHANGED <<host, sup, accepted>> /\ lock.op = "free"
            /\ lock' \in {Held("recover", k), Held("recovered", k), lock}
        BY <3>3 DEF RecoverExisting, RecoverReject, RecoverIntent, Unlocked
      <4> QED
        BY <4>1 DEF Held
    <3> QED
      BY <1>10, <3>1, <3>2, <3>3 DEF RecoverNext
  <2> QED
    BY <1>4, <2>1
<1>11. CASE BootNext
  <2>1. CASE BootReconcile \/ BootPublish
    BY <1>5, <2>1 DEF BootReconcile, BootPublish, durable
  <2>2. CASE BootDone \/ \E k \in RecoverKeys : BootIntent(k)
    BY <1>4, <2>2 DEF BootDone, BootIntent, NoLock, Held
  <2> QED
    BY <1>11, <2>1, <2>2 DEF BootNext
<1>12. CASE OperationThrows
  BY <1>4, <1>12 DEF OperationThrows, NoLock
<1>13. CASE Observe \/ UNCHANGED vars
  BY <1>6, <1>13 DEF Observe, vars, durable
<1> QED
  BY <1>1, <1>7, <1>8, <1>9, <1>10, <1>11, <1>12, <1>13 DEF Next, FaultNext, Supervises

\* A tree is born only of a scheduled supervision; any other step lets it be, or ends it.
LEMMA TreeSteps ==
  ASSUME TypeInv, [Next]_vars, NEW r \in Runs
  PROVE  \/ sup[r].stage = "scheduled"
         \/ proc'[r].tree \in {proc[r].tree, "gone"}
         \/ proc[r].tree = "root" /\ proc'[r].tree = "kids"
<1>1. proc[r] \in ProcRecord
  BY DEF TypeInv, TypeOK
<1>2. CASE proc'[r] = proc[r]
  BY <1>2
<1>3. CASE \E x : proc'[r] = [proc[r] EXCEPT !.killed = x]
  BY <1>1, <1>3 DEF ProcRecord
<1>4. CASE \E x : proc'[r] = [proc[r] EXCEPT !.guard = x]
  BY <1>1, <1>4 DEF ProcRecord
<1>5. ASSUME NEW q \in Runs, Supervises(q)
      PROVE  \/ sup[r].stage = "scheduled"
             \/ proc'[r].tree \in {proc[r].tree, "gone"}
             \/ proc[r].tree = "root" /\ proc'[r].tree = "kids"
  <2>1. CASE q # r
    BY <1>2, <1>5, <2>1, OwnSteps DEF Supervises, Others
  <2>2. CASE q = r /\ StartNext(q)
    BY <2>2 DEF StartNext, SupStartOk, SupStartStillborn, SupStartFail, SupStartFailSpawned
  <2>3. CASE q = r /\ (FrameNext(q) \/ SettleNext(q) \/ SignalNext(q))
    <3>1. \/ proc' = proc
          \/ proc'[r] = [proc[r] EXCEPT !.killed = TRUE]
          \/ proc'[r] = [proc[r] EXCEPT !.guard = "gone"]
      <4>1. CASE FrameNext(q)
        BY <2>3, <4>1, Zenon DEF TypeInv, TypeOK, FrameNext, FrameReady, FrameProgress,
           FrameInvalid, ChannelClose, FrameTerminal
      <4>2. CASE SettleNext(q)
        BY <2>3, <4>2, Zenon DEF TypeInv, TypeOK, SettleNext, PublishReady, PublishProgress,
           Complete, Drain, Flush, Commit, AwaitCancel, OutcomeAudit, Release
      <4>3. CASE SignalNext(q)
        BY <2>3, <4>3, Zenon DEF TypeInv, TypeOK, SignalNext, CoopSignal, PublishCoop,
           Escalate, PublishForced, Settle, PublishConfirmed
      <4> QED
        BY <2>3, <4>1, <4>2, <4>3
    <3> QED
      BY <1>2, <1>3, <1>4, <3>1
  <2>4. CASE q = r /\ ProcessNext(q)
    <3>1. \/ proc[r].tree = "root" /\ \E x \in {"kids", "gone"} : proc'[r] = [proc[r] EXCEPT !.tree = x]
          \/ proc'[r] = [proc[r] EXCEPT !.tree = "gone"]
          \/ proc'[r] = [proc[r] EXCEPT !.tree = "gone", !.guard = "gone"]
          \/ \E x : proc'[r] = [proc[r] EXCEPT !.tree = "gone", !.guard = "gone", !.evidence = x]
      BY <2>4, Zenon DEF TypeInv, TypeOK, ProcessNext, RootExits, KidsExit, KillLands, GuardDrain
    <3> QED
      BY <1>1, <3>1 DEF ProcRecord
  <2>5. CASE CallbackThrows(q) \/ SettlementThrows(q) \/ PublicationThrows(q)
    BY <1>2, <2>5 DEF CallbackThrows, SettlementThrows, PublicationThrows
  <2> QED
    BY <1>5, <2>1, <2>2, <2>3, <2>4, <2>5 DEF Supervises
<1>6. ASSUME NEW k \in RecoverKeys, RecoverAct(k)
      PROVE  proc'[r].tree \in {proc[r].tree, "gone"}
  <2>1. proc' = proc \/ proc' = [proc EXCEPT ![recovers[k].run].tree = "gone"]
    BY <1>6 DEF RecoverAct
  <2>2. proc'[r] = proc[r] \/ proc'[r] = [proc[r] EXCEPT !.tree = "gone"]
    BY <2>1, Zenon DEF TypeInv, TypeOK
  <2> QED
    BY <1>1, <2>2 DEF ProcRecord
<1>7. CASE Crash
  BY <1>4, <1>7 DEF Crash
<1>8. \/ proc' = proc \/ Crash
      \/ \E k \in RecoverKeys : RecoverAct(k)
      \/ \E q \in Runs : Supervises(q)
  BY Zenon DEF Next, vars, Observe, LaunchNext, LaunchPublish, LaunchExisting, LaunchReject,
     LaunchCommit, CancelNext, CancelArm, CancelPublish, CancelExisting, CancelReject,
     CancelCommit, RecoverNext, RecoverCommit, RecoverPublish, RecoverExisting, RecoverReject,
     RecoverIntent, BootNext, BootReconcile, BootPublish, BootDone, BootIntent, FaultNext,
     OperationThrows, Supervises
<1> QED
  BY <1>2, <1>5, <1>6, <1>7, <1>8

\* A tree that is not there does not come back to a run that is no longer active.
LEMMA DeadStays ==
  ASSUME TypeInv, SupervisionInv, [Next]_vars, NEW r \in Runs,
         run[r].status \in Envelopes \cup {"recovery_required"}, ~Living(proc[r])
  PROVE  ~Living(proc'[r])
<1>1. Supervised(r)
  BY DEF SupervisionInv
<1>2. sup[r].stage # "scheduled"
  BY <1>1 DEF Supervised, Accounted, Envelopes, Active
<1> QED
  BY <1>2, TreeSteps DEF Living

\* How intents change, and how an action comes to hold the lock.
LEMMA IntentSteps ==
  ASSUME TypeInv, SupervisionInv, [Next]_vars
  PROVE  /\ \A k \in RecoverKeys : recovers'[k].state = "pending" =>
              \/ recovers'[k] = recovers[k]
              \/ \E r \in Runs, a \in RecoveryActions : RecoverIntent(k, r, a)
         /\ lock'.op = "acted" =>
              \/ lock' = lock /\ recovers' = recovers
              \/ \E k \in RecoverKeys : RecoverAct(k)
<1> DEFINE Goal ==
      /\ \A k \in RecoverKeys : recovers'[k].state = "pending" =>
           \/ recovers'[k] = recovers[k]
           \/ \E r \in Runs, a \in RecoveryActions : RecoverIntent(k, r, a)
      /\ lock'.op = "acted" =>
           \/ lock' = lock /\ recovers' = recovers
           \/ \E k \in RecoverKeys : RecoverAct(k)
<1>1. CASE recovers' = recovers /\ (lock' = lock \/ lock'.op # "acted")
  BY <1>1
<1>2. ASSUME NEW k \in RecoverKeys, RecoverAct(k)
      PROVE  Goal
  BY <1>2 DEF RecoverAct, durable
<1>3. ASSUME NEW k \in RecoverKeys, NEW m \in RecoverMutation, m.state # "pending",
             recovers' = [recovers EXCEPT ![k] = m], lock' = Held("recovered", k)
      PROVE  Goal
  <2>1. lock'.op # "acted"
    BY <1>3 DEF Held
  <2>2. recovers'[k] = m /\ \A j \in RecoverKeys \ {k} : recovers'[j] = recovers[j]
    BY <1>3, Zenon DEF TypeInv, TypeOK
  <2> QED
    BY <1>3, <2>1, <2>2
<1>4. ASSUME NEW k \in RecoverKeys, NEW r \in Runs, NEW a \in RecoveryActions,
             RecoverIntent(k, r, a)
      PROVE  Goal
  <2>1. lock'.op # "acted"
    BY <1>4 DEF RecoverIntent, Held
  <2>2. \A j \in RecoverKeys \ {k} : recovers'[j] = recovers[j]
    BY <1>4, Zenon DEF TypeInv, TypeOK, RecoverIntent
  <2> QED
    BY <1>4, <2>1, <2>2
<1>5. ASSUME NEW k \in RecoverKeys, NEW r \in Runs, NEW a \in RecoveryActions,
             RecoverReject(k, r, a)
      PROVE  Goal
  <2> DEFINE m == [state |-> "failure", run |-> r, action |-> a, settled |-> FALSE]
  <2>1. m \in RecoverMutation /\ m.state # "pending"
    BY DEF RecoverMutation, Progressions
  <2>2. recovers' = [recovers EXCEPT ![k] = m] /\ lock' = Held("recovered", k)
    BY <1>5 DEF RecoverReject
  <2> HIDE DEF m
  <2> QED
    BY <1>3, <2>1, <2>2
<1>6. ASSUME NEW k \in RecoverKeys, RecoverCommit(k)
      PROVE  Goal
  <2> DEFINE after == Effect(run[recovers[k].run], recovers[k].action, lock.insp)
  <2>1. recovers[k] \in RecoverMutation
    BY DEF TypeInv, TypeOK
  <2>2. /\ Answered(recovers[k], after) \in RecoverMutation
        /\ Answered(recovers[k], after).state = "result"
    <3>1. Answered(recovers[k], after).state = "result"
      BY <2>1, Zenon DEF Answered, RecoverMutation
    <3> QED
      BY <2>1, <3>1, AnsweredType
  <2>3. /\ [recovers[k] EXCEPT !.state = "failure"] \in RecoverMutation
        /\ [recovers[k] EXCEPT !.state = "failure"].state = "failure"
    <3>1. "failure" \in Progressions
      BY DEF Progressions
    <3> QED
      BY <2>1, <3>1, Zenon DEF RecoverMutation
  <2>4. /\ lock' = Held("recovered", k)
        /\ \/ recovers' = [recovers EXCEPT ![k] = Answered(recovers[k], after)]
           \/ recovers' = [recovers EXCEPT ![k] = [recovers[k] EXCEPT !.state = "failure"]]
    BY <1>6, Zenon DEF RecoverCommit, TypeInv, TypeOK
  <2> HIDE DEF after
  <2> QED
    BY <1>3, <2>2, <2>3, <2>4
<1>7. \/ recovers' = recovers /\ (lock' = lock \/ lock'.op # "acted")
      \/ \E k \in RecoverKeys :
           \/ RecoverAct(k) \/ RecoverCommit(k)
           \/ \E r \in Runs, a \in RecoveryActions : RecoverIntent(k, r, a) \/ RecoverReject(k, r, a)
  <2>1. CASE LaunchNext \/ CancelNext \/ Observe
    <3>1. recovers' = recovers
      BY <2>1, Zenon DEF LaunchNext, LaunchPublish, LaunchExisting, LaunchReject, LaunchCommit,
         CancelNext, CancelArm, CancelPublish, CancelExisting, CancelReject, CancelCommit,
         Observe, durable
    <3>2. \/ lock' = lock \/ lock' = NoLock
          \/ \E k : lock' = Held("launch", k) \/ lock' = Held("arm", k) \/ lock' = Held("cancel", k)
      BY <2>1, Zenon DEF LaunchNext, LaunchPublish, LaunchExisting, LaunchReject, LaunchCommit,
         CancelNext, CancelArm, CancelPublish, CancelExisting, CancelReject, CancelCommit,
         Observe, durable
    <3>3. lock' = lock \/ lock'.op # "acted"
      BY <3>2 DEF Held, NoLock
    <3> QED
      BY <3>1, <3>3
  <2>2. CASE RecoverNext
    BY <2>2 DEF RecoverNext, RecoverPublish, RecoverExisting, Held, NoLock, durable
  <2>3. ASSUME NEW q \in Runs, Supervises(q)
        PROVE  recovers' = recovers /\ lock' = lock
    BY <2>3, SupervisesRuns
  <2>4. CASE BootNext \/ Crash \/ OperationThrows \/ UNCHANGED vars
    BY <2>4 DEF BootNext, BootReconcile, BootPublish, BootDone, BootIntent, Crash,
       OperationThrows, Held, NoLock, durable, vars
  <2> QED
    BY <2>1, <2>2, <2>3, <2>4 DEF Next, FaultNext, Supervises
<1> QED
  BY <1>1, <1>2, <1>4, <1>5, <1>6, <1>7

\* Every step keeps what an intent that waits knows of its run.
LEMMA IntentInvStep ==
  ASSUME TypeInv, RecordInv, SupervisionInv, [Next]_vars
  PROVE  IntentInv'
<1> USE DEF SupervisionInv
<1>1. ASSUME NEW k \in RecoverKeys, recovers'[k].state = "pending"
      PROVE  /\ run'[recovers'[k].run].status \in Envelopes \cup {"recovery_required"}
             /\ recovers'[k].action = "finalize" => ~Living(proc'[recovers'[k].run])
  <2>1. CASE recovers'[k] = recovers[k]
    <3>1. PICK r \in Runs : r = recovers[k].run
      BY <1>1, <2>1 DEF TypeInv, KeyInv
    <3>2. /\ run[r].status \in Envelopes \cup {"recovery_required"}
          /\ recovers[k].action = "finalize" => ~Living(proc[r])
      BY <1>1, <2>1, <3>1 DEF IntentInv
    <3> QED
      BY <2>1, <3>1, <3>2, RunMoves, DeadStays
  <2>2. ASSUME NEW r \in Runs, NEW a \in RecoveryActions, RecoverIntent(k, r, a)
        PROVE  /\ run'[recovers'[k].run].status \in Envelopes \cup {"recovery_required"}
               /\ recovers'[k].action = "finalize" => ~Living(proc'[recovers'[k].run])
    <3>1. /\ run[r].status = "recovery_required" /\ a \in AvailableActions(run[r].obs)
          /\ UNCHANGED <<run, proc>>
          /\ recovers'[k] = [state |-> "pending", run |-> r, action |-> a, settled |-> FALSE]
      BY <2>2, Zenon DEF TypeInv, TypeOK, RecoverIntent, Recoverable
    <3>2. a = "finalize" => run[r].obs = "confirmed"
      BY <3>1 DEF AvailableActions
    <3>3. a = "finalize" => ~Living(proc[r])
      BY <3>2 DEF Supervised, Truthful
    <3> QED
      BY <3>1, <3>3
  <2> QED
    BY <1>1, <2>1, <2>2, IntentSteps
<1>2. ASSUME lock'.op = "acted", lock'.insp = "confirmed"
      PROVE  ~Living(proc'[recovers'[lock'.key].run])
  <2>1. CASE lock' = lock /\ recovers' = recovers
    <3>1. lock.key \in RecoverKeys /\ recovers[lock.key].state = "pending"
      BY <1>2, <2>1 DEF TypeInv, KeyInv
    <3>2. PICK r \in Runs : r = recovers[lock.key].run
      BY <3>1 DEF TypeInv, KeyInv
    <3>3. run[r].status \in Envelopes \cup {"recovery_required"} /\ ~Living(proc[r])
      BY <1>2, <2>1, <3>1, <3>2 DEF IntentInv
    <3> QED
      BY <2>1, <3>2, <3>3, DeadStays
  <2>2. ASSUME NEW k \in RecoverKeys, RecoverAct(k)
        PROVE  ~Living(proc'[recovers'[lock'.key].run])
    <3>1. PICK r \in Runs : r = recovers[k].run
      BY <2>2 DEF TypeInv, KeyInv, RecoverAct, Held
    <3>2. /\ recovers' = recovers /\ lock'.key = k
          /\ \/ lock'.insp \in Inspect(r) \cup {"none"} /\ proc' = proc
             \/ proc' = IF Alive(r) THEN [proc EXCEPT ![r].tree = "gone"] ELSE proc
             \/ lock'.insp \in {"unconfirmed", "none"}
      <4>1. /\ recovers' = recovers /\ lock = Held("recover", k)
            /\ \E insp :
                 /\ lock' = [lock EXCEPT !.op = "acted", !.insp = insp]
                 /\ \/ insp \in Inspect(r) \cup {"none"} /\ proc' = proc
                    \/ proc' = IF Alive(r) THEN [proc EXCEPT ![r].tree = "gone"] ELSE proc
                    \/ insp \in {"unconfirmed", "none"}
        BY <2>2, <3>1 DEF RecoverAct, durable
      <4> QED
        BY <4>1 DEF Held
    <3>3. CASE lock'.insp \in Inspect(r) \cup {"none"} /\ proc' = proc
      <4>1. proc[r].evidence
        BY <1>2, <3>3 DEF Inspect
      <4>2. ~Living(proc[r])
        BY <4>1 DEF Supervised, Truthful, Living
      <4> QED
        BY <3>1, <3>2, <3>3, <4>2
    <3>4. CASE proc' = IF Alive(r) THEN [proc EXCEPT ![r].tree = "gone"] ELSE proc
      <4>1. CASE Alive(r)
        <5>1. proc'[r] = [proc[r] EXCEPT !.tree = "gone"] /\ proc[r] \in ProcRecord
          BY <3>4, <4>1, Zenon DEF TypeInv, TypeOK
        <5>2. proc'[r].tree = "gone"
          BY <5>1 DEF ProcRecord
        <5> QED
          BY <3>1, <3>2, <5>2 DEF Living
      <4>2. CASE ~Alive(r)
        BY <3>1, <3>2, <3>4, <4>2 DEF Alive, Living
      <4> QED
        BY <4>1, <4>2
    <3> QED
      BY <1>2, <3>2, <3>3, <3>4
  <2> QED
    BY <1>2, <2>1, <2>2, IntentSteps
<1> QED
  BY <1>1, <1>2 DEF IntentInv

\* The empty state satisfies the invariant ...
LEMMA SupervisionInvInit == Init => SupervisionInv
<1> SUFFICES ASSUME Init PROVE SupervisionInv
  OBVIOUS
<1>1. /\ host = "down" /\ lock = NoLock /\ accepted = {}
      /\ \A r \in Runs : run[r] = NoRun /\ sup[r] = NoSup /\ proc[r] = NoProc
      /\ \A k \in RecoverKeys : recovers[k] = NoRecover
  BY DEF Init
<1>2. ASSUME NEW r \in Runs PROVE Supervised(r)
  <2>1. /\ run[r].status = "absent" /\ run[r].outcome = "none" /\ run[r].confirmed = "no"
        /\ run[r].obs = "none" /\ ~run[r].coop /\ ~run[r].forced /\ ~run[r].cancel
    BY <1>1 DEF NoRun
  <2>2. /\ sup[r].stage = "none" /\ sup[r].pend = 0 /\ sup[r].co = "idle" /\ sup[r].esc = "off"
        /\ sup[r].captured = "none" /\ sup[r].exit = "ok"
    BY <1>1 DEF NoSup
  <2>3. proc[r].tree = "none" /\ proc[r].guard = "none" /\ ~proc[r].evidence
    BY <1>1 DEF NoProc
  <2>4. Accounted(run[r], sup[r], r \in accepted)
    BY <1>1, <2>1, <2>2 DEF Accounted
  <2>5. Ordered(sup[r])
    BY <2>2 DEF Ordered, Resting
  <2>6. Truthful(run[r], sup[r], proc[r])
    BY <2>1, <2>2, <2>3 DEF Truthful, Living
  <2> QED
    BY <2>4, <2>5, <2>6 DEF Supervised
<1>3. HostInv
  BY <1>1 DEF HostInv, NoLock, Held, NoSup
<1>4. IntentInv
  BY <1>1 DEF IntentInv, NoRecover, NoLock
<1> QED
  BY <1>2, <1>3, <1>4 DEF SupervisionInv

\* ... and every step keeps it.
LEMMA SupervisionInvStep ==
  TypeInv /\ RecordInv /\ SupervisionInv /\ [Next]_vars => SupervisionInv'
<1> SUFFICES ASSUME TypeInv, RecordInv, SupervisionInv, [Next]_vars PROVE SupervisionInv'
  OBVIOUS
<1>1. \A r \in Runs : Supervised(r)'
  BY SupervisedStep
<1>2. HostInv' /\ IntentInv'
  BY HostInvStep, IntentInvStep
<1> QED
  BY <1>1, <1>2 DEF SupervisionInv

\* A supervision begins only where the launch publication schedules it.
LEMMA StageSteps ==
  ASSUME TypeInv, SupervisionInv, [Next]_vars, NEW r \in Runs, sup[r].stage = "none"
  PROVE  \/ sup'[r].stage = "none"
         \/ \E k \in LaunchKeys : LaunchPublish(k) /\ launched[k].run = r
<1>1. sup[r] \in SupRecord
  BY DEF TypeInv, TypeOK
<1>2. ASSUME NEW q \in Runs, Supervises(q)
      PROVE  sup'[r] = sup[r]
  <2>1. CASE q = r
    BY <1>2, <2>1, SupervisesRuns
  <2>2. CASE q # r
    BY <1>2, <2>2, OwnSteps DEF Supervises, Others
  <2> QED
    BY <2>1, <2>2
<1>3. ASSUME NEW k \in LaunchKeys, LaunchPublish(k), launched[k].run # r
      PROVE  sup'[r] = sup[r]
  BY <1>3, Zenon DEF LaunchPublish, TypeInv, TypeOK
<1>4. ASSUME NEW q, RequestIfActive(q)
      PROVE  sup'[r] = sup[r]
  BY <1>1, <1>4, Zenon DEF RequestIfActive, TypeInv, TypeOK
<1>5. ASSUME CancelNext PROVE sup'[r] = sup[r]
  BY <1>4, <1>5, Zenon DEF CancelNext, CancelArm, CancelPublish, CancelExisting, CancelReject,
     CancelCommit
<1>6. CASE Crash
  BY <1>6 DEF Crash, NoSup
<1>7. \/ sup' = sup \/ CancelNext \/ Crash
      \/ \E k \in LaunchKeys : LaunchPublish(k)
      \/ \E q \in Runs : Supervises(q)
  BY Zenon DEF Next, vars, Observe, LaunchNext, LaunchExisting, LaunchReject,
     LaunchCommit, RecoverNext, RecoverAct, RecoverCommit, RecoverPublish, RecoverExisting,
     RecoverReject, RecoverIntent, BootNext, BootReconcile, BootPublish, BootDone, BootIntent,
     FaultNext, OperationThrows, Supervises
<1> QED
  BY <1>2, <1>3, <1>5, <1>6, <1>7

\* A started adapter is never started again.
LEMMA Relaunch ==
  ASSUME TypeInv, SupervisionInv, [Next]_vars, NEW r \in Runs,
         \/ sup[r].stage = "none" /\ sup'[r].stage # "none"
         \/ proc[r].tree # "root" /\ proc'[r].tree = "root"
  PROVE  run[r].status # "absent" /\ proc[r].tree = "none"
<1>1. Supervised(r)
  BY DEF SupervisionInv
<1>2. CASE sup[r].stage = "none" /\ sup'[r].stage # "none"
  <2>1. PICK k \in LaunchKeys : LaunchPublish(k) /\ launched[k].run = r
    BY <1>2, StageSteps
  <2>2. run[r] = Created /\ proc[r].tree = "none"
    BY <2>1 DEF LaunchPublish, SupervisionInv, HostInv
  <2> QED
    BY <2>2 DEF Created, NoRun
<1>3. CASE proc[r].tree # "root" /\ proc'[r].tree = "root"
  <2>1. sup[r].stage = "scheduled"
    BY <1>3, TreeSteps
  <2> QED
    BY <1>1, <2>1 DEF Supervised, Accounted, Truthful, Active
<1> QED
  BY <1>2, <1>3

\* TerminalFrozen: the record of a run that ended is the same after every step, whatever
\* is still queued for it, replayed or reconciled.
THEOREM EndedRunsAreFrozen == Spec => TerminalFrozen
<1>1. TypeInv /\ RecordInv /\ SupervisionInv /\ [Next]_vars =>
        [\A r \in Runs : run[r].outcome # "none" => run'[r] = run[r]]_vars
  BY Frozen
<1> QED
  BY <1>1, TypeInvInit, TypeInvStep, RecordInvInit, RecordInvStep, SupervisionInvInit,
     SupervisionInvStep, PTL DEF Spec, TerminalFrozen

\* NeverRelaunched: over any number of restarts, replays and recoveries, supervision
\* begins and an adapter is born only for a durable launch that had no process yet.
THEOREM AdaptersStartOnce == Spec => NeverRelaunched
<1>1. TypeInv /\ RecordInv /\ SupervisionInv /\ [Next]_vars =>
        [\A r \in Runs :
           (\/ sup[r].stage = "none" /\ sup'[r].stage # "none"
            \/ proc[r].tree # "root" /\ proc'[r].tree = "root")
             => run[r].status # "absent" /\ proc[r].tree = "none"]_vars
  BY Relaunch
<1> QED
  BY <1>1, TypeInvInit, TypeInvStep, RecordInvInit, RecordInvStep, SupervisionInvInit,
     SupervisionInvStep, PTL DEF Spec, NeverRelaunched

\* NoSignalBeforeAcceptance: a signal presupposes a durable cancellation.
THEOREM SignalsFollowAcceptance == Spec => []NoSignalBeforeAcceptance
<1>1. SupervisionInv => NoSignalBeforeAcceptance
  BY DEF SupervisionInv, Supervised, Accounted, NoSignalBeforeAcceptance
<1> QED
  BY <1>1, TypeInvInit, TypeInvStep, RecordInvInit, RecordInvStep, SupervisionInvInit,
     SupervisionInvStep, PTL DEF Spec

\* ConfirmedIsTrue: a confirmed termination, or an interruption, on disk means that no
\* process of the tree runs, whoever vouched for it.
THEOREM ConfirmationsAreTrue == Spec => []ConfirmedIsTrue
<1>1. SupervisionInv => ConfirmedIsTrue
  BY DEF SupervisionInv, Supervised, Truthful, ConfirmedIsTrue, Living, Alive
<1> QED
  BY <1>1, TypeInvInit, TypeInvStep, RecordInvInit, RecordInvStep, SupervisionInvInit,
     SupervisionInvStep, PTL DEF Spec

\* OutcomeMeansExited: a result, or the lack of one, is only committed of an adapter that
\* has exited.
THEOREM OutcomesAreOfExitedAdapters == Spec => []OutcomeMeansExited
<1>1. SupervisionInv => OutcomeMeansExited
  BY DEF SupervisionInv, Supervised, Truthful, OutcomeMeansExited, Exited, RootExited
<1> QED
  BY <1>1, TypeInvInit, TypeInvStep, RecordInvInit, RecordInvStep, SupervisionInvInit,
     SupervisionInvStep, PTL DEF Spec

\* The launch keys and the runs: a key that was accepted has a run of its own, no other
\* key has one, and no run exists that no key accounts for.
OwnedInv ==
  /\ \A k \in LaunchKeys : launched[k].state = "accepted" \/ launched[k].run = None
  /\ \A k \in LaunchKeys : launched[k].state = "accepted" => run[launched[k].run].status # "absent"
  /\ \A j, k \in LaunchKeys :
       launched[j].state = "accepted" /\ launched[k].state = "accepted"
         /\ launched[j].run = launched[k].run => j = k
  /\ \A k \in LaunchKeys :
       told[k] # {} => launched[k].state = "accepted" /\ told[k] = {launched[k].run}
  /\ \A r \in Runs : run[r].status # "absent" =>
       \E k \in LaunchKeys : launched[k].run = r /\ launched[k].state = "accepted"

\* Only a launch commit brings a run into being.
LEMMA Creation ==
  ASSUME TypeInv, SupervisionInv, [Next]_vars, NEW r \in Runs, run[r].status = "absent"
  PROVE  \/ run'[r] = run[r]
         \/ \E k \in LaunchKeys, p \in Params : LaunchCommit(k, p, r)
<1>1. ASSUME NEW q \in Runs, Supervises(q)
      PROVE  run'[r] = run[r]
  <2>1. CASE q = r
    <3>1. sup[r].stage = "none"
      BY DEF SupervisionInv, Supervised, Accounted
    <3> QED
      BY <1>1, <2>1, <3>1, SupervisesRuns
  <2>2. CASE q # r
    BY <1>1, <2>2, OwnSteps DEF Supervises, Others
  <2> QED
    BY <2>1, <2>2
<1>2. ASSUME NEW q, q # r, NEW next, run' = [run EXCEPT ![q] = next]
      PROVE  run'[r] = run[r]
  BY <1>2, Zenon DEF TypeInv, TypeOK
<1>3. ASSUME NEW k \in LaunchKeys, NEW p \in Params, NEW q \in Runs, LaunchCommit(k, p, q)
      PROVE  run'[r] = run[r] \/ LaunchCommit(k, p, r)
  BY <1>2, <1>3, Zenon DEF LaunchCommit
<1>4. ASSUME NEW k \in CancelKeys, NEW q \in Runs, CancelCommit(k, q)
      PROVE  run'[r] = run[r]
  <2>1. q # r
    BY <1>4 DEF CancelCommit, Cancellable
  <2> QED
    BY <1>2, <1>4, <2>1, Zenon DEF CancelCommit
<1>5. ASSUME NEW k \in RecoverKeys, RecoverCommit(k)
      PROVE  run'[r] = run[r]
  <2>1. Recoverable(recovers[k].run) => recovers[k].run # r
    BY DEF Recoverable
  <2>2. \/ run' = run
        \/ Recoverable(recovers[k].run) /\ \E next : run' = [run EXCEPT ![recovers[k].run] = next]
    BY <1>5, Zenon DEF RecoverCommit
  <2> QED
    BY <1>2, <2>1, <2>2, Zenon
<1>6. CASE BootReconcile
  <2>1. \E insp : run'[r] = Reconciled(run[r], insp)
    BY <1>6, Zenon DEF BootReconcile
  <2> QED
    BY <2>1 DEF Reconciled, Active
<1>7. \/ run' = run \/ BootReconcile
      \/ \E k \in LaunchKeys, p \in Params, q \in Runs : LaunchCommit(k, p, q)
      \/ \E k \in CancelKeys, q \in Runs : CancelCommit(k, q)
      \/ \E k \in RecoverKeys : RecoverCommit(k)
      \/ \E q \in Runs : Supervises(q)
  BY Zenon DEF Next, vars, Observe, LaunchNext, LaunchPublish, LaunchExisting, LaunchReject,
     CancelNext, CancelArm, CancelPublish, CancelExisting, CancelReject, RecoverNext,
     RecoverAct, RecoverPublish, RecoverExisting, RecoverReject, RecoverIntent, BootNext,
     BootPublish, BootDone, BootIntent, Crash, FaultNext, OperationThrows, Supervises, durable
<1> QED
  BY <1>1, <1>3, <1>4, <1>5, <1>6, <1>7

\* Only the launch operations touch the launch keys and what their clients hear.
LEMMA KeySteps ==
  ASSUME TypeInv, SupervisionInv, [Next]_vars
  PROVE  LaunchNext \/ UNCHANGED <<launched, told>>
<1>1. ASSUME NEW q \in Runs, Supervises(q)
      PROVE  told' = told
  <2>1. CASE StartNext(q) \/ FrameNext(q)
    BY <2>1, Zenon DEF StartNext, SupStartOk, SupStartStillborn, SupStartFail,
       SupStartFailSpawned, FrameNext, FrameReady, FrameProgress, FrameInvalid, ChannelClose,
       FrameTerminal
  <2>2. CASE SettleNext(q)
    BY <2>2, Zenon DEF SettleNext, PublishReady, PublishProgress, Complete, Drain, Flush,
       Commit, AwaitCancel, OutcomeAudit, Release
  <2>3. CASE SignalNext(q) \/ ProcessNext(q)
    BY <2>3, Zenon DEF SignalNext, CoopSignal, PublishCoop, Escalate, PublishForced, Settle,
       PublishConfirmed, ProcessNext, RootExits, KidsExit, KillLands, GuardDrain
  <2>4. CASE CallbackThrows(q) \/ SettlementThrows(q) \/ PublicationThrows(q)
    BY <2>4, Zenon DEF CallbackThrows, SettlementThrows, PublicationThrows
  <2> QED
    BY <1>1, <2>1, <2>2, <2>3, <2>4 DEF Supervises
<1>2. ASSUME NEW q \in Runs, Supervises(q)
      PROVE  UNCHANGED <<launched, told>>
  BY <1>1, <1>2, SupervisesRuns
<1>3. CancelNext => UNCHANGED <<launched, told>>
  BY Zenon DEF CancelNext, CancelArm, CancelPublish, CancelExisting, CancelReject,
     CancelCommit, durable
<1>4. RecoverNext => UNCHANGED <<launched, told>>
  BY Zenon DEF RecoverNext, RecoverAct, RecoverCommit, RecoverPublish, RecoverExisting,
     RecoverReject, RecoverIntent, durable
<1>5. BootNext \/ Crash \/ OperationThrows \/ Observe \/ UNCHANGED vars =>
        UNCHANGED <<launched, told>>
  BY Zenon DEF BootNext, BootReconcile, BootPublish, BootDone, BootIntent, Crash,
     OperationThrows, Observe, vars, durable
<1> QED
  BY <1>2, <1>3, <1>4, <1>5 DEF Next, FaultNext, Supervises

\* What the launch operations do to the keys.
LEMMA LaunchSteps ==
  ASSUME TypeInv, LaunchNext
  PROVE  \/ \E k \in LaunchKeys :
              /\ UNCHANGED <<run, launched>>
              /\ launched[k].state = "accepted"
              /\ told' = [told EXCEPT ![k] = @ \cup {launched[k].run}]
         \/ UNCHANGED <<run, launched, told>>
         \/ \E k \in LaunchKeys, m \in LaunchOutcome :
              /\ launched[k].state = "none" /\ m.state = "rejected" /\ m.run = None
              /\ launched' = [launched EXCEPT ![k] = m]
              /\ UNCHANGED <<run, told>>
         \/ \E k \in LaunchKeys, r \in Runs, m \in LaunchOutcome :
              /\ launched[k].state = "none" /\ m.state = "accepted" /\ m.run = r
              /\ launched' = [launched EXCEPT ![k] = m]
              /\ run[r].status = "absent" /\ run' = [run EXCEPT ![r] = Created]
              /\ UNCHANGED told
<1>1. ASSUME NEW k \in LaunchKeys, LaunchPublish(k)
      PROVE  /\ UNCHANGED <<run, launched>>
             /\ launched[k].state = "accepted"
             /\ told' = [told EXCEPT ![k] = @ \cup {launched[k].run}]
  BY <1>1, Zenon DEF LaunchPublish, TypeInv, KeyInv, durable
<1>2. ASSUME NEW k \in LaunchKeys, NEW p \in Params, LaunchExisting(k, p)
      PROVE  /\ UNCHANGED <<run, launched>>
             /\ \/ told' = told
                \/ /\ launched[k].state = "accepted"
                   /\ told' = [told EXCEPT ![k] = @ \cup {launched[k].run}]
  BY <1>2, Zenon DEF LaunchExisting, durable
<1>3. ASSUME NEW k \in LaunchKeys, NEW p \in Params, LaunchReject(k, p)
      PROVE  \E m \in LaunchOutcome :
               /\ launched[k].state = "none" /\ m.state = "rejected" /\ m.run = None
               /\ launched' = [launched EXCEPT ![k] = m]
               /\ UNCHANGED <<run, told>>
  <2> DEFINE m == [state |-> "rejected", fp |-> p, run |-> None]
  <2>1. m \in LaunchOutcome /\ m.state = "rejected" /\ m.run = None
    BY DEF LaunchOutcome, Verdicts
  <2>2. /\ launched[k].state = "none" /\ launched' = [launched EXCEPT ![k] = m]
        /\ UNCHANGED <<run, told>>
    BY <1>3, Zenon DEF LaunchReject
  <2> QED
    BY <2>1, <2>2, Zenon
<1>4. ASSUME NEW k \in LaunchKeys, NEW p \in Params, NEW r \in Runs, LaunchCommit(k, p, r)
      PROVE  \E m \in LaunchOutcome :
               /\ launched[k].state = "none" /\ m.state = "accepted" /\ m.run = r
               /\ launched' = [launched EXCEPT ![k] = m]
               /\ run[r].status = "absent" /\ run' = [run EXCEPT ![r] = Created]
               /\ UNCHANGED told
  <2> DEFINE m == [state |-> "accepted", fp |-> p, run |-> r]
  <2>1. m \in LaunchOutcome /\ m.state = "accepted" /\ m.run = r
    BY DEF LaunchOutcome, Verdicts
  <2>2. /\ launched[k].state = "none" /\ launched' = [launched EXCEPT ![k] = m]
        /\ run[r].status = "absent" /\ run' = [run EXCEPT ![r] = Created]
        /\ UNCHANGED told
    BY <1>4, Zenon DEF LaunchCommit, Created
  <2> QED
    BY <2>1, <2>2, Zenon
<1>5. PICK k \in LaunchKeys :
        \/ LaunchPublish(k)
        \/ \E p \in Params : LaunchExisting(k, p)
        \/ \E p \in Params : LaunchReject(k, p)
        \/ \E p \in Params : \E r \in Runs : LaunchCommit(k, p, r)
  BY Zenon DEF LaunchNext
<1>6. CASE LaunchPublish(k)
  BY <1>1, <1>6, Zenon
<1>7. ASSUME NEW p \in Params, LaunchExisting(k, p)
      PROVE  \/ UNCHANGED <<run, launched, told>>
             \/ /\ UNCHANGED <<run, launched>>
                /\ launched[k].state = "accepted"
                /\ told' = [told EXCEPT ![k] = @ \cup {launched[k].run}]
  BY <1>2, <1>7, Zenon
<1>8. CASE \E p \in Params : LaunchExisting(k, p)
  BY <1>7, <1>8, Zenon
<1>9. CASE \E p \in Params : LaunchReject(k, p)
  BY <1>3, <1>9, Zenon
<1>10. CASE \E p \in Params : \E r \in Runs : LaunchCommit(k, p, r)
  <2>1. PICK p \in Params, r \in Runs : LaunchCommit(k, p, r)
    BY <1>10
  <2>2. \E m \in LaunchOutcome :
          /\ launched[k].state = "none" /\ m.state = "accepted" /\ m.run = r
          /\ launched' = [launched EXCEPT ![k] = m]
          /\ run[r].status = "absent" /\ run' = [run EXCEPT ![r] = Created]
          /\ UNCHANGED told
    BY <1>4, <2>1, Zenon
  <2> QED
    BY <2>2, Zenon
<1> QED
  BY <1>5, <1>6, <1>8, <1>9, <1>10, Zenon

\* No key owns a run at first ...
LEMMA OwnedInvInit == Init => OwnedInv
<1> SUFFICES ASSUME Init PROVE OwnedInv
  OBVIOUS
<1>1. /\ \A k \in LaunchKeys : launched[k].state = "none" /\ launched[k].run = None /\ told[k] = {}
      /\ \A r \in Runs : run[r].status = "absent"
  BY DEF Init, NoLaunch, NoRun
<1> QED
  BY <1>1 DEF OwnedInv

\* ... and what a key owns stays its own.
LEMMA OwnedInvStep ==
  TypeInv /\ RecordInv /\ SupervisionInv /\ OwnedInv /\ [Next]_vars => OwnedInv'
<1> SUFFICES ASSUME TypeInv, RecordInv, SupervisionInv, OwnedInv, [Next]_vars PROVE OwnedInv'
  OBVIOUS
<1>0. \A k \in LaunchKeys : launched[k].state = "accepted" => launched[k].run \in Runs
  BY DEF TypeInv, KeyInv
<1>1. CASE UNCHANGED <<launched, told>> /\ ~LaunchNext
  <2>1. \A r \in Runs : (run'[r].status = "absent") <=> (run[r].status = "absent")
    <3>1. ASSUME NEW r \in Runs, run[r].status = "absent"
          PROVE  run'[r] = run[r]
      BY <1>1, <3>1, Creation DEF LaunchNext
    <3> QED
      BY <3>1, RunMoves
  <2> QED
    BY <1>0, <1>1, <2>1 DEF OwnedInv
<1>2. ASSUME NEW k \in LaunchKeys, UNCHANGED <<run, launched>>, launched[k].state = "accepted",
             told' = [told EXCEPT ![k] = @ \cup {launched[k].run}]
      PROVE  OwnedInv'
  <2>1. /\ told'[k] = {launched[k].run}
        /\ \A j \in LaunchKeys \ {k} : told'[j] = told[j]
    BY <1>2 DEF TypeInv, TypeOK, OwnedInv
  <2> QED
    BY <1>2, <2>1 DEF OwnedInv
<1>3. ASSUME NEW k \in LaunchKeys, NEW m \in LaunchOutcome,
             launched[k].state = "none", m.state = "rejected", m.run = None,
             launched' = [launched EXCEPT ![k] = m], UNCHANGED <<run, told>>
      PROVE  OwnedInv'
  <2>1. launched'[k] = m /\ \A j \in LaunchKeys \ {k} : launched'[j] = launched[j]
    BY <1>3, Zenon DEF TypeInv, TypeOK
  <2>2. told[k] = {}
    BY <1>3 DEF OwnedInv
  <2> QED
    BY <1>3, <2>1, <2>2 DEF OwnedInv
<1>4. ASSUME NEW k \in LaunchKeys, NEW r \in Runs, NEW m \in LaunchOutcome,
             launched[k].state = "none", m.state = "accepted", m.run = r,
             launched' = [launched EXCEPT ![k] = m],
             run[r].status = "absent", run' = [run EXCEPT ![r] = Created], UNCHANGED told
      PROVE  OwnedInv'
  <2>1. launched'[k] = m /\ \A j \in LaunchKeys \ {k} : launched'[j] = launched[j]
    BY <1>4, Zenon DEF TypeInv, TypeOK
  <2>2. /\ run'[r].status # "absent"
        /\ \A q \in Runs \ {r} : run'[q] = run[q]
    <3>1. run'[r] = Created
      BY <1>4, Zenon DEF TypeInv, TypeOK
    <3> QED
      BY <1>4, <3>1 DEF TypeInv, TypeOK, Created, NoRun
  <2>3. told[k] = {} /\ \A j \in LaunchKeys : launched[j].state = "accepted" => launched[j].run # r
    BY <1>4 DEF OwnedInv
  <2> QED
    BY <1>0, <1>4, <2>1, <2>2, <2>3 DEF OwnedInv
<1>5. CASE LaunchNext
  <2>1. CASE UNCHANGED <<run, launched, told>>
    BY <2>1 DEF OwnedInv
  <2> QED
    BY <1>2, <1>3, <1>4, <1>5, <2>1, LaunchSteps
<1> QED
  BY <1>1, <1>5, KeySteps

\* OneRunPerKey for any number of clients, keys, restarts and refused writes: repeating a
\* launch key never starts or reveals another run.
THEOREM KeysOwnTheirRuns == Spec => []OneRunPerKey
<1>1. OwnedInv => OneRunPerKey
  BY DEF OwnedInv, OneRunPerKey
<1> QED
  BY <1>1, TypeInvInit, TypeInvStep, RecordInvInit, RecordInvStep, SupervisionInvInit,
     SupervisionInvStep, OwnedInvInit, OwnedInvStep, PTL DEF Spec

\* The phase of a run is all the lifecycle sees of it.
LEMMA PhaseFrame ==
  ASSUME NEW rr, NEW next, next.status = rr.status, next.cancel = rr.cancel
  PROVE  PhaseOf(next) = PhaseOf(rr)
BY DEF PhaseOf

\* What a step that is not a launch does to the phase of one run: it stays, its cancellation
\* is accepted, or it ends as its phase allows.
LEMMA PhaseMoves ==
  ASSUME TypeInv, RecordInv, SupervisionInv, NEW q \in Runs,
         run'[q] = run[q] \/ Accepts(q) \/ Publishes(q) \/ Ends(q) \/ Recovers(q)
  PROVE  LET before == PhaseOf(run[q])
             after == PhaseOf(run'[q])
         IN  \/ after = before
             \/ before = "active" /\ after = "cancelling"
             \/ before = "active" /\ after \in Envelopes
             \/ before \in {"cancelling", "cancelSuspended"} /\ after = "cancelled"
             \/ before = "suspended" /\ after = "failed"
<1> DEFINE rr == run[q]
           next == run'[q]
<1>1. rr \in RunRecord /\ Supervised(q) /\ Sound(rr)
  BY DEF TypeInv, TypeOK, SupervisionInv, RecordInv
<1>2. CASE Accepts(q)
  <2>1. next.status = "cancelling" /\ rr.status \in {"starting", "running"}
    BY <1>1, <1>2, AcceptedFields DEF Accepts, Cancellable
  <2> QED
    BY <2>1 DEF PhaseOf
<1>3. CASE Publishes(q)
  <2>1. ASSUME NEW n, next = WithProgress(rr, n)
        PROVE  next.cancel = rr.cancel /\ next.status = rr.status
    BY <1>1, <2>1, FramesFields
  <2>2. ASSUME next = Ready(rr)
        PROVE  /\ next.cancel = rr.cancel
               /\ next.status = IF rr.status = "starting" THEN "running" ELSE rr.status
    BY <1>1, <2>2, FramesFields
  <2>3. ASSUME next = ConfirmedByTree(rr)
        PROVE  next.cancel = rr.cancel /\ next.status = rr.status
    BY <1>1, <2>3, ConfirmedFields
  <2>4. ASSUME NEW field, next = SignalField(rr, field)
        PROVE  next.cancel = rr.cancel /\ next.status = rr.status
    BY <1>1, <2>4, SignalFields
  <2> HIDE DEF next, rr
  <2>5. /\ next.cancel = rr.cancel
        /\ next.status = rr.status \/ (rr.status = "starting" /\ next.status = "running")
    BY <1>3, <2>1, <2>2, <2>3, <2>4 DEF Publishes, next, rr
  <2>6. PhaseOf(next) = PhaseOf(rr)
    BY <2>5 DEF PhaseOf
  <2> QED
    BY <2>6 DEF next, rr
<1>4. CASE Ends(q)
  <2>1. rr.status \in Active
    BY <1>1, <1>4 DEF Ends, Supervised, Accounted, Sound, RunRecord, Statuses, Envelopes
  <2>2. PhaseOf(rr) = IF rr.cancel THEN "cancelling" ELSE "active"
    BY <1>1, <2>1 DEF PhaseOf, Sound, Active
  <2>3. ASSUME NEW code, NEW complete, next = Ended(rr, code, complete)
        PROVE  PhaseOf(next) \in Envelopes
    <3>1. next.status = OutcomeStatus(code)
      BY <1>1, <2>3, EndedFields
    <3>2. next.status \in Envelopes /\ PhaseOf(next) = next.status
      BY <3>1 DEF OutcomeStatus, Envelopes, PhaseOf
    <3> QED
      BY <3>2
  <2>4. ASSUME NEW how, NEW complete,
               next = [Ended(rr, "cancelled", complete) EXCEPT !.confirmed = how]
        PROVE  PhaseOf(next) = "cancelled"
    <3>1. next.status = OutcomeStatus("cancelled")
      BY <1>1, <2>4, Zenon DEF Ended, Recorded, RunRecord
    <3> QED
      BY <3>1 DEF OutcomeStatus, PhaseOf
  <2>5. \/ rr.cancel /\ PhaseOf(next) = "cancelled"
        \/ ~rr.cancel /\ PhaseOf(next) \in Envelopes
    BY <1>4, <2>3, <2>4, Zenon DEF Ends
  <2> QED
    BY <2>2, <2>5
<1>5. CASE Recovers(q)
  <2>1. PICK action, insp : next = Effect(rr, action, insp)
    BY <1>5 DEF Recovers
  <2>2. PhaseOf(rr) = IF rr.cancel THEN "cancelSuspended" ELSE "suspended"
    BY <1>5 DEF Recovers, Recoverable, PhaseOf
  <2>3. CASE next = [rr EXCEPT !.obs = insp, !.rev = @ + 1]
    <3>1. next.cancel = rr.cancel /\ next.status = rr.status
      BY <1>1, <2>3, Zenon DEF RunRecord
    <3> QED
      BY <3>1, PhaseFrame
  <2>4. CASE next = Finalized(rr, rr.prev)
    <3>1. next.status = IF rr.cancel THEN "cancelled" ELSE "failed"
      BY <1>1, <1>5, <2>4, FinalizedFields DEF Sound, Recovers, Recoverable
    <3>2. PhaseOf(next) = next.status
      BY <3>1 DEF PhaseOf
    <3> QED
      BY <2>2, <3>1, <3>2
  <2> QED
    BY <2>1, <2>3, <2>4 DEF Effect
<1> QED
  BY <1>2, <1>3, <1>4, <1>5

\* A step that touches no launch key and one run at most is a step of the lifecycle.
LEMMA OneRunMoves ==
  ASSUME TypeInv, TypeInv', RecordInv, SupervisionInv, NEW q \in Runs,
         \A r \in Runs \ {q} : run'[r] = run[r],
         run'[q] = run[q] \/ Accepts(q) \/ Publishes(q) \/ Ends(q) \/ Recovers(q),
         UNCHANGED <<launched, told>>
  PROVE  [Lifecycle!Next]_Lifecycle!vars
<1> DEFINE phase == [r \in Runs |-> PhaseOf(run[r])]
           later == [r \in Runs |-> PhaseOf(run'[r])]
<1>1. \A p : PhaseOf(run'[q]) = p => later = [phase EXCEPT ![q] = p]
  OBVIOUS
<1>2. CASE PhaseOf(run'[q]) = PhaseOf(run[q])
  <2>1. later = phase
    BY <1>2
  <2> QED
    BY <2>1 DEF Lifecycle!vars
<1>3. CASE PhaseOf(run[q]) = "active" /\ PhaseOf(run'[q]) = "cancelling"
  <2>1. Lifecycle!Cancel(q)
    BY <1>1, <1>3 DEF Lifecycle!Cancel
  <2> QED
    BY <2>1 DEF Lifecycle!Next
<1>4. CASE PhaseOf(run'[q]) \in Lifecycle!EndsAs(PhaseOf(run[q])) \cup Lifecycle!RecoversAs(PhaseOf(run[q]))
  <2>1. Lifecycle!End(q)
    BY <1>1, <1>4 DEF Lifecycle!End
  <2> QED
    BY <2>1 DEF Lifecycle!Next
<1> QED
  BY <1>2, <1>3, <1>4, PhaseMoves DEF Lifecycle!EndsAs, Lifecycle!RecoversAs, Envelopes

\* The reconciliation of a restart takes every run that was active out of its phase.
LEMMA RestartMoves ==
  ASSUME TypeInv, RecordInv, BootReconcile, NEW r \in Runs
  PROVE  LET before == PhaseOf(run[r])
             after == PhaseOf(run'[r])
         IN  /\ after \in Lifecycle!Phases
             /\ IF Lifecycle!LostAs(before) = {} THEN after = before
                ELSE after \in Lifecycle!LostAs(before)
<1> DEFINE rr == run[r]
           next == run'[r]
<1>1. rr \in RunRecord /\ Sound(rr)
  BY DEF TypeInv, TypeOK, RecordInv
<1>2. PICK insp : next = Reconciled(rr, insp)
  BY Zenon DEF BootReconcile
<1>3. CASE rr.status \notin Active
  <2>1. next = rr
    BY <1>2, <1>3 DEF Reconciled
  <2>2. rr.status \in Statuses
    BY <1>1 DEF RunRecord
  <2>3. PhaseOf(rr) \in Lifecycle!Phases \ {"active", "cancelling"}
    BY <1>3, <2>2 DEF PhaseOf, Active, Statuses, Lifecycle!Phases
  <2> QED
    BY <2>1, <2>3 DEF Lifecycle!LostAs
<1>4. CASE rr.status \in Active
  <2>1. /\ PhaseOf(rr) = IF rr.cancel THEN "cancelling" ELSE "active"
        /\ (rr.status = "cancelling") <=> rr.cancel
    BY <1>1, <1>4 DEF PhaseOf, Sound, Active
  <2>2. CASE next = Finalized(rr, rr.status)
    <3>1. next.status = IF rr.cancel THEN "cancelled" ELSE "failed"
      BY <1>1, <2>1, <2>2, FinalizedFields
    <3>2. PhaseOf(next) = next.status
      BY <3>1 DEF PhaseOf
    <3> QED
      BY <2>1, <3>1, <3>2 DEF Lifecycle!LostAs, Lifecycle!Phases
  <2>3. CASE next = ToRecovery(rr, insp)
    <3>1. next.cancel = rr.cancel /\ next.status = "recovery_required"
      BY <1>1, <2>3, Zenon DEF ToRecovery, Recorded, RunRecord
    <3>2. PhaseOf(next) = IF rr.cancel THEN "cancelSuspended" ELSE "suspended"
      BY <3>1 DEF PhaseOf
    <3> QED
      BY <2>1, <3>2 DEF Lifecycle!LostAs, Lifecycle!Phases
  <2> QED
    BY <1>2, <1>4, <2>2, <2>3 DEF Reconciled
<1> QED
  BY <1>3, <1>4

\* Nothing but a launch operation, a restart or one run's own step changes what the
\* lifecycle sees.
LEMMA ServingMoves ==
  ASSUME TypeInv, TypeInv', RecordInv, SupervisionInv, [Next]_vars, ~LaunchNext
  PROVE  [Lifecycle!Next]_Lifecycle!vars
<1>1. UNCHANGED <<launched, told>>
  BY KeySteps
<1>2. CASE run' = run
  BY <1>1, <1>2 DEF Lifecycle!vars
<1>3. ASSUME NEW q \in Runs, Supervises(q), run' # run
      PROVE  [Lifecycle!Next]_Lifecycle!vars
  <2>1. sup[q].stage # "none" /\ \A r \in Runs \ {q} : run'[r] = run[r]
    BY <1>3, SupervisesRuns, OwnSteps DEF Supervises, Others
  <2>2. ~Creates(q) /\ ~Reconciles(q)
    BY <2>1 DEF SupervisionInv, Supervised, Accounted, HostInv, Creates, Reconciles
  <2>3. RunStep(q)
    BY RunSteps
  <2> QED
    BY <1>1, <2>1, <2>2, <2>3, OneRunMoves DEF RunStep
<1>4. ASSUME NEW k \in CancelKeys, NEW q \in Runs, CancelCommit(k, q)
      PROVE  [Lifecycle!Next]_Lifecycle!vars
  <2>1. Accepts(q) /\ \A r \in Runs \ {q} : run'[r] = run[r]
    BY <1>4, Zenon DEF CancelCommit, Accepts, CancelAccepted, TypeInv, TypeOK
  <2> QED
    BY <1>1, <2>1, OneRunMoves
<1>5. ASSUME NEW k \in RecoverKeys, RecoverCommit(k), run' # run
      PROVE  [Lifecycle!Next]_Lifecycle!vars
  <2>1. PICK q \in Runs : q = recovers[k].run
    BY <1>5 DEF RecoverCommit, TypeInv, KeyInv
  <2>2. /\ Recoverable(q)
        /\ run' = [run EXCEPT ![q] = Effect(run[q], recovers[k].action, lock.insp)]
    BY <1>5, <2>1, Zenon DEF RecoverCommit
  <2>3. /\ run'[q] = Effect(run[q], recovers[k].action, lock.insp)
        /\ \A r \in Runs \ {q} : run'[r] = run[r]
    BY <2>2, Zenon DEF TypeInv, TypeOK
  <2>4. recovers[k].action \in RecoveryActions \cup {"none"} /\ lock.insp \in Inspections
    BY <1>5 DEF TypeInv, TypeOK, RecoverMutation, Lock
  <2>5. Recovers(q)
    BY <2>2, <2>3, <2>4 DEF Recovers
  <2> QED
    BY <1>1, <2>3, <2>5, OneRunMoves
<1>6. CASE BootReconcile
  <2> DEFINE later == [r \in Runs |-> PhaseOf(run'[r])]
  <2>1. later \in [Runs -> Lifecycle!Phases]
    BY <1>6, RestartMoves
  <2>2. Lifecycle!Restart
    BY <1>1, <1>6, <2>1, RestartMoves DEF Lifecycle!Restart
  <2> QED
    BY <2>2 DEF Lifecycle!Next
<1>7. \/ run' = run \/ BootReconcile
      \/ \E k \in CancelKeys, q \in Runs : CancelCommit(k, q)
      \/ \E k \in RecoverKeys : RecoverCommit(k)
      \/ \E q \in Runs : Supervises(q)
  BY Zenon DEF Next, vars, Observe,
     CancelNext, CancelArm, CancelPublish, CancelExisting, CancelReject, RecoverNext,
     RecoverAct, RecoverPublish, RecoverExisting, RecoverReject, RecoverIntent, BootNext,
     BootPublish, BootDone, BootIntent, Crash, FaultNext, OperationThrows, Supervises, durable
<1> QED
  BY <1>2, <1>3, <1>4, <1>5, <1>6, <1>7

\* A launch operation accepts a launch, answers a client, or shows nothing.
LEMMA LaunchMoves ==
  ASSUME TypeInv, OwnedInv, LaunchNext
  PROVE  [Lifecycle!Next]_Lifecycle!vars
<1>1. CASE UNCHANGED <<run, launched, told>>
  BY <1>1 DEF Lifecycle!vars
<1>2. ASSUME NEW k \in LaunchKeys, UNCHANGED <<run, launched>>, launched[k].state = "accepted",
             told' = [told EXCEPT ![k] = @ \cup {launched[k].run}]
      PROVE  [Lifecycle!Next]_Lifecycle!vars
  <2>1. launched[k].run # None
    BY <1>2, RunsAssumption DEF TypeInv, KeyInv
  <2>2. Lifecycle!Answer(k)
    BY <1>2, <2>1 DEF Lifecycle!Answer
  <2> QED
    BY <2>2 DEF Lifecycle!Next
<1>3. ASSUME NEW k \in LaunchKeys, NEW m \in LaunchOutcome,
             launched[k].state = "none", m.state = "rejected", m.run = None,
             launched' = [launched EXCEPT ![k] = m], UNCHANGED <<run, told>>
      PROVE  [Lifecycle!Next]_Lifecycle!vars
  <2>1. launched[k].run = None
    BY <1>3 DEF OwnedInv
  <2>2. \A j \in LaunchKeys : launched'[j].run = launched[j].run
    BY <1>3, <2>1 DEF TypeInv, TypeOK
  <2> QED
    BY <1>3, <2>2 DEF Lifecycle!vars
<1>4. ASSUME NEW k \in LaunchKeys, NEW r \in Runs, NEW m \in LaunchOutcome,
             launched[k].state = "none", m.state = "accepted", m.run = r,
             launched' = [launched EXCEPT ![k] = m],
             run[r].status = "absent", run' = [run EXCEPT ![r] = Created], UNCHANGED told
      PROVE  [Lifecycle!Next]_Lifecycle!vars
  <2>1. launched[k].run = None /\ PhaseOf(run[r]) = "absent"
    BY <1>4 DEF OwnedInv, PhaseOf
  <2>2. [j \in LaunchKeys |-> launched'[j].run] =
          [[j \in LaunchKeys |-> launched[j].run] EXCEPT ![k] = r]
    BY <1>4 DEF TypeInv, TypeOK
  <2>3. PhaseOf(Created) = "active"
    BY DEF PhaseOf, Created, NoRun
  <2>4. [q \in Runs |-> PhaseOf(run'[q])] =
          [[q \in Runs |-> PhaseOf(run[q])] EXCEPT ![r] = "active"]
    <3>1. run'[r] = Created /\ \A q \in Runs \ {r} : run'[q] = run[q]
      BY <1>4, Zenon DEF TypeInv, TypeOK
    <3> QED
      BY <2>3, <3>1
  <2>5. Lifecycle!Accept(k, r)
    BY <1>4, <2>1, <2>2, <2>4 DEF Lifecycle!Accept
  <2> QED
    BY <2>5 DEF Lifecycle!Next
<1> QED
  BY <1>1, <1>2, <1>3, <1>4, LaunchSteps

\* ImplementsLifecycle: whatever the locks, crashes, replays and refused writes, a client sees
\* a RunLifecycle.  The initial states map to initial states, and every step to a step or
\* a stutter.
THEOREM ManagerIsALifecycle == Spec => ImplementsLifecycle
<1>1. Init => Lifecycle!Init
  <2> SUFFICES ASSUME Init PROVE Lifecycle!Init
    OBVIOUS
  <2>1. /\ \A r \in Runs : PhaseOf(run[r]) = "absent"
        /\ \A k \in LaunchKeys : launched[k].run = None
        /\ told = [k \in LaunchKeys |-> {}]
    BY DEF Init, NoRun, NoLaunch, PhaseOf
  <2> QED
    BY <2>1 DEF Lifecycle!Init
<1>2. /\ TypeInv /\ TypeInv' /\ RecordInv /\ SupervisionInv /\ OwnedInv
      /\ [Next]_vars
      => [Lifecycle!Next]_Lifecycle!vars
  BY ServingMoves, LaunchMoves
<1> QED
  BY <1>1, <1>2, TypeInvInit, TypeInvStep, RecordInvInit, RecordInvStep, SupervisionInvInit,
     SupervisionInvStep, OwnedInvInit, OwnedInvStep, PTL
     DEF Spec, ImplementsLifecycle, Lifecycle!Spec

\* The history of a run holds the event.
Has(rr, event) == \E i \in 1..Len(rr.events) : rr.events[i] = event

\* The history of a record, and the flags it accounts for.
Shaped(rr) ==
  LET events == rr.events IN
  /\ rr.status = "absent" => events = <<>>
  /\ rr.status # "absent" =>
       Len(events) >= 1 /\ \A i \in 1..Len(events) : events[i] = "created" <=> i = 1
  /\ \A i, j \in 1..Len(events) : events[i] = "ready" /\ events[j] = "ready" => i = j
  /\ \A i \in 1..Len(events) : events[i] = "progress" =>
       /\ \E j \in 1..Len(events) : j < i /\ events[j] = "ready"
       /\ \A j \in 1..Len(events) : events[j] = "cancel" => i < j
  /\ Has(rr, "cancel") => rr.cancel
  /\ rr.outcome # "none" =>
       /\ Len(events) >= 1
       /\ \A i \in 1..Len(events) : events[i] = "terminal" <=> i = Len(events)
  /\ rr.complete =>
       /\ rr.outcome # "none" /\ Has(rr, "ready") /\ ~rr.forced
       /\ rr.cancel => rr.outcome = "cancelled"
  /\ rr.status = "recovery_required" => Has(rr, "recovery")

\* What a supervision has read of the adapter, and what of it is in the history.
Reported(rr, s) ==
  /\ Has(rr, "ready") /\ s.stage # "none" => s.ready /\ s.cons # "ready"
  /\ s.pend # 0 => Has(rr, "ready")
  /\ s.stage = "live" /\ s.ready /\ s.cons \in {"idle", "progress"} => Has(rr, "ready")
  /\ s.term # "none" /\ ~s.invalid => Has(rr, "ready")
  /\ s.stage \in {"none", "scheduled"} => ~s.ready /\ s.term = "none"
  /\ s.cons = "ready" => s.ready

HistoryInv == \A r \in Runs : Shaped(run[r]) /\ Reported(run[r], sup[r])

\* A history grown by one event.
LEMMA Appends ==
  ASSUME NEW es \in Seq(Events), NEW event
  PROVE  LET later == Append(es, event) IN
         /\ Len(es) \in Nat /\ Len(later) = Len(es) + 1
         /\ later[Len(es) + 1] = event
         /\ \A i \in 1..Len(es) : later[i] = es[i]
OBVIOUS

\* A history grown by a batch of progress.
LEMMA Concatenates ==
  ASSUME NEW es \in Seq(Events), NEW batch \in Seq(Events),
         \A i \in 1..Len(batch) : batch[i] = "progress"
  PROVE  LET later == es \o batch IN
         /\ Len(es) \in Nat /\ Len(later) = Len(es) + Len(batch)
         /\ \A i \in 1..Len(es) : later[i] = es[i]
         /\ \A i \in (Len(es) + 1)..(Len(es) + Len(batch)) : later[i] = "progress"
<1>1. ASSUME NEW i \in (Len(es) + 1)..(Len(es) + Len(batch))
      PROVE  (es \o batch)[i] = "progress"
  <2>1. i - Len(es) \in 1..Len(batch) /\ (es \o batch)[i] = batch[i - Len(es)]
    OBVIOUS
  <2> QED
    BY <2>1
<1> QED
  BY <1>1

\* The first event of a run.
LEMMA ShapedCreated == Shaped(Created) /\ \A event : Has(Created, event) => event = "created"
<1>1. /\ Created.events = <<"created">> /\ Created.status = "starting"
      /\ Created.outcome = "none" /\ Created.complete = FALSE
  BY DEF Created, NoRun
<1>2. Len(<<"created">>) = 1 /\ <<"created">>[1] = "created"
  OBVIOUS
<1>3. \A i \in 1..1 : i = 1
  OBVIOUS
<1> QED
  BY <1>1, <1>2, <1>3 DEF Shaped, Has

\* Any event but progress keeps the shape of an open history, if it comes at most once where
\* it must and the record says what it says.
LEMMA ShapedAppend ==
  ASSUME NEW rr \in RunRecord, NEW next \in RunRecord, NEW event \in Events \ {"created", "progress"},
         Shaped(rr), Open(rr), rr.status # "absent", rr.outcome = "none",
         next.events = Append(rr.events, event),
         next.status # "absent",
         event = "ready" => ~Has(rr, "ready"),
         event = "cancel" \/ rr.cancel => next.cancel,
         (event = "terminal") <=> (next.outcome # "none"),
         next.complete =>
           /\ event = "terminal" /\ Has(rr, "ready") /\ ~next.forced
           /\ next.cancel => next.outcome = "cancelled",
         next.status = "recovery_required" => event = "recovery"
  PROVE  /\ Shaped(next)
         /\ \A e : Has(rr, e) => Has(next, e)
         /\ \A e : Has(next, e) => Has(rr, e) \/ e = event
<1> DEFINE es == rr.events
           later == next.events
           n == Len(es)
<1>1. /\ n \in Nat /\ Len(later) = n + 1 /\ later[n + 1] = event
      /\ \A i \in 1..n : later[i] = es[i]
  BY Appends DEF RunRecord
<1> HIDE DEF es, later, n
<1>2. \A i \in 1..(n + 1) : i \in 1..n \/ i = n + 1
  BY <1>1
<1>3. \A i \in 1..n : i \in 1..(n + 1) /\ i < n + 1 /\ i # n + 1
  BY <1>1
<1>4. n + 1 \in 1..(n + 1) /\ n >= 1
  BY <1>1 DEF Shaped, es, n
<1>5. \A e : Has(rr, e) <=> \E i \in 1..n : es[i] = e
  BY DEF Has, es, n
<1>6. \A e : Has(next, e) <=> \E i \in 1..(n + 1) : later[i] = e
  BY <1>1 DEF Has, later
<1>7. \A e : Has(next, e) <=> Has(rr, e) \/ e = event
  BY <1>1, <1>2, <1>3, <1>4, <1>5, <1>6
<1>8. \A i \in 1..(n + 1) : later[i] = "created" <=> i = 1
  <2>1. \A i \in 1..n : es[i] = "created" <=> i = 1
    BY DEF Shaped, es, n
  <2> QED
    BY <1>1, <1>2, <1>4, <2>1
<1>9. \A i, j \in 1..(n + 1) : later[i] = "ready" /\ later[j] = "ready" => i = j
  <2>1. \A i, j \in 1..n : es[i] = "ready" /\ es[j] = "ready" => i = j
    BY DEF Shaped, es, n
  <2> QED
    BY <1>1, <1>2, <1>5, <2>1
<1>10. \A i \in 1..(n + 1) : later[i] = "progress" =>
         /\ \E j \in 1..(n + 1) : j < i /\ later[j] = "ready"
         /\ \A j \in 1..(n + 1) : later[j] = "cancel" => i < j
  <2> SUFFICES ASSUME NEW i \in 1..(n + 1), later[i] = "progress"
               PROVE  /\ \E j \in 1..(n + 1) : j < i /\ later[j] = "ready"
                      /\ \A j \in 1..(n + 1) : later[j] = "cancel" => i < j
    OBVIOUS
  <2>1. i \in 1..n /\ es[i] = "progress"
    BY <1>1, <1>2
  <2>2. /\ \E j \in 1..n : j < i /\ es[j] = "ready"
        /\ \A j \in 1..n : es[j] = "cancel" => i < j
    BY <2>1 DEF Shaped, es, n
  <2>3. \E j \in 1..(n + 1) : j < i /\ later[j] = "ready"
    BY <1>1, <1>3, <2>2
  <2>4. \A j \in 1..(n + 1) : later[j] = "cancel" => i < j
    BY <1>1, <1>2, <1>3, <2>1, <2>2
  <2> QED
    BY <2>3, <2>4
<1>11. next.outcome # "none" => \A i \in 1..(n + 1) : later[i] = "terminal" <=> i = n + 1
  <2>1. \A i \in 1..n : es[i] # "terminal"
    BY DEF Open, es, n
  <2> QED
    BY <1>1, <1>2, <1>3, <2>1
<1>12. Has(next, "cancel") => next.cancel
  BY <1>7 DEF Shaped
<1>13. next.complete => next.outcome # "none" /\ Has(next, "ready")
  BY <1>7
<1>14. next.status = "recovery_required" => Has(next, "recovery")
  BY <1>7
<1>15. Len(later) >= 1
  BY <1>1
<1>16. Shaped(next)
  BY <1>1, <1>8, <1>9, <1>10, <1>11, <1>12, <1>13, <1>14, <1>15 DEF Shaped, later
<1> QED
  BY <1>7, <1>16

\* Progress keeps the shape of a history that is ready and not cancelled.
LEMMA ShapedProgress ==
  ASSUME NEW rr \in RunRecord, NEW n \in Nat, Shaped(rr), Sound(rr), rr.status # "absent",
         n # 0 => Has(rr, "ready")
  PROVE  /\ Shaped(WithProgress(rr, n))
         /\ \A e : Has(rr, e) => Has(WithProgress(rr, n), e)
         /\ \A e : Has(WithProgress(rr, n), e) => Has(rr, e) \/ e = "progress"
<1>1. CASE rr.cancel \/ rr.outcome # "none"
  BY <1>1, Zenon DEF WithProgress
<1>2. CASE ~(rr.cancel \/ rr.outcome # "none")
  <2> DEFINE next == WithProgress(rr, n)
             es == rr.events
             m == Len(es)
             records == [i \in 1..n |-> "progress"]
             later == next.events
  <2>1. /\ next.status = rr.status /\ next.cancel = rr.cancel /\ next.outcome = rr.outcome
        /\ next.complete = rr.complete /\ next.forced = rr.forced
        /\ next.events = es \o records
    BY <1>2, Zenon DEF WithProgress, RunRecord
  <2>2. /\ m \in Nat /\ Len(later) = m + n
        /\ \A i \in 1..m : later[i] = es[i]
        /\ \A i \in (m + 1)..(m + n) : later[i] = "progress"
    <3>1. es \in Seq(Events) /\ records \in Seq(Events) /\ Len(records) = n
      BY DEF Events, RunRecord
    <3>2. \A i \in 1..n : records[i] = "progress"
      OBVIOUS
    <3>3. later = es \o records /\ m = Len(es)
      BY <2>1
    <3> HIDE DEF records, es, next, later, m
    <3> QED
      BY <3>1, <3>2, <3>3, Concatenates
  <2> HIDE DEF next, es, m, records, later
  <2>3. \A i \in 1..(m + n) : i \in 1..m \/ i \in (m + 1)..(m + n)
    BY <2>2
  <2>4. \A i \in 1..m : i \in 1..(m + n)
    BY <2>2
  <2>5. \A i \in 1..m, j \in (m + 1)..(m + n) : i < j /\ n # 0
    BY <2>2
  <2>6. \A e : Has(rr, e) <=> \E i \in 1..m : es[i] = e
    BY DEF Has, es, m
  <2>7. \A e : Has(next, e) <=> \E i \in 1..(m + n) : later[i] = e
    BY <2>2 DEF Has, later
  <2>8. \A e : /\ Has(rr, e) => Has(next, e)
               /\ Has(next, e) => Has(rr, e) \/ e = "progress"
    BY <2>2, <2>3, <2>4, <2>6, <2>7
  <2>9. m >= 1 /\ \A i \in 1..(m + n) : later[i] = "created" <=> i = 1
    <3>1. m >= 1 /\ \A i \in 1..m : es[i] = "created" <=> i = 1
      BY DEF Shaped, es, m
    <3>2. \A j \in (m + 1)..(m + n) : j # 1
      BY <2>2, <3>1
    <3> QED
      BY <2>2, <2>3, <3>1, <3>2
  <2>10. \A i, j \in 1..(m + n) : later[i] = "ready" /\ later[j] = "ready" => i = j
    <3>1. \A i, j \in 1..m : es[i] = "ready" /\ es[j] = "ready" => i = j
      BY DEF Shaped, es, m
    <3> QED
      BY <2>2, <2>3, <3>1
  <2>11. \A j \in 1..(m + n) : later[j] # "cancel"
    <3>1. \A j \in 1..m : es[j] # "cancel"
      BY <1>2, <2>6 DEF Shaped
    <3> QED
      BY <2>2, <2>3, <3>1
  <2>12. \A i \in 1..(m + n) : later[i] = "progress" =>
            \E j \in 1..(m + n) : j < i /\ later[j] = "ready"
    <3>1. \A i \in 1..m : es[i] = "progress" => \E j \in 1..m : j < i /\ es[j] = "ready"
      BY DEF Shaped, es, m
    <3>2. ASSUME NEW i \in 1..m, later[i] = "progress"
          PROVE  \E j \in 1..(m + n) : j < i /\ later[j] = "ready"
      BY <2>2, <2>4, <3>1, <3>2
    <3>3. ASSUME NEW i \in (m + 1)..(m + n)
          PROVE  \E j \in 1..(m + n) : j < i /\ later[j] = "ready"
      BY <2>2, <2>4, <2>5, <2>6, <3>3
    <3> QED
      BY <2>3, <3>2, <3>3
  <2>13. next.status = "recovery_required" => Has(next, "recovery")
    BY <2>1, <2>8 DEF Shaped
  <2>14. ~next.complete /\ next.outcome = "none"
    BY <1>2, <2>1 DEF Shaped
  <2>15. next.status # "absent" /\ Len(later) = m + n /\ m + n >= 1 /\ ~Has(next, "cancel")
    BY <2>1, <2>2, <2>7, <2>9, <2>11
  <2>16. Shaped(next)
    BY <2>9, <2>10, <2>11, <2>12, <2>13, <2>14, <2>15 DEF Shaped, later
  <2> QED
    BY <2>8, <2>16 DEF next
<1> QED
  BY <1>1, <1>2

\* A step that appends nothing and ends nothing keeps the shape.
LEMMA ShapedKept ==
  ASSUME NEW rr, NEW next, Shaped(rr), next.events = rr.events,
         next.status = rr.status, next.cancel = rr.cancel, next.outcome = rr.outcome,
         next.complete = rr.complete, rr.outcome = "none"
  PROVE  Shaped(next) /\ \A e : Has(next, e) <=> Has(rr, e)
BY DEF Shaped, Has

\* The commit of a run, and how complete its result is taken to be.
Commits(r) ==
  /\ sup[r].stage = "commit" /\ run[r].outcome = "none"
  /\ \/ /\ run[r].cancel
        /\ \E how \in Vouchers \ {"no"} :
             run'[r] = [Ended(run[r], "cancelled",
                              ValidTerminal(sup[r]) /\ sup[r].term = "cancelled" /\ ~run[r].forced)
                          EXCEPT !.confirmed = how]
     \/ /\ ~run[r].cancel
        /\ run'[r] = Ended(run[r], OutcomeCode(sup[r]), ValidTerminal(sup[r]))

\* The ways a step changes the history of a run.
HistoryStep(r) ==
  \/ run'[r] = run[r]
  \/ Creates(r) \/ Accepts(r) \/ Recovers(r) \/ Reconciles(r) \/ Commits(r) \/ PublishReady(r)
  \/ /\ sup[r].stage # "none" /\ ~Quiet(sup[r])
     /\ \/ run'[r] = WithProgress(run[r], sup[r].pend)
        \/ run'[r] = ConfirmedByTree(run[r])
        \/ \E field \in {"coop", "forced"} : run'[r] = SignalField(run[r], field)

\* Every step is one of them.
LEMMA HistorySteps ==
  ASSUME TypeInv, RecordInv, SupervisionInv, [Next]_vars, NEW r \in Runs
  PROVE  HistoryStep(r)
<1>1. ASSUME NEW q \in Runs, Supervises(q)
      PROVE  HistoryStep(r)
  <2>1. CASE q # r
    BY <1>1, <2>1, OwnSteps, Zenon DEF Supervises, Others, HistoryStep
  <2>2. CASE run' = run
    BY <2>2, Zenon DEF HistoryStep
  <2>3. Ordered(sup[r])
    BY DEF SupervisionInv, Supervised
  <2>4. CASE PublishProgress(r)
    <3>1. sup[r].stage = "live" /\ run'[r] = WithProgress(run[r], sup[r].pend)
      BY <2>4, Zenon DEF PublishProgress, TypeInv, TypeOK
    <3> QED
      BY <3>1 DEF HistoryStep, Quiet
  <2>5. CASE Flush(r)
    <3>1. sup[r].stage = "flush"
      BY <2>5 DEF Flush
    <3>2. run' = run \/ run'[r] = WithProgress(run[r], sup[r].pend)
      BY <2>5, Zenon DEF Flush, TypeInv, TypeOK
    <3> QED
      BY <2>2, <3>1, <3>2 DEF HistoryStep, Quiet
  <2>6. CASE PublishCoop(r) \/ PublishForced(r) \/ PublishConfirmed(r)
    <3>1. sup[r].co \in {"publish", "confirm"} \/ sup[r].esc = "publish"
      BY <2>6 DEF PublishCoop, PublishForced, PublishConfirmed
    <3>2. sup[r].stage # "none" /\ ~Quiet(sup[r])
      BY <2>3, <3>1 DEF Ordered, Resting, Quiet
    <3>3. \/ run'[r] = ConfirmedByTree(run[r])
          \/ \E field \in {"coop", "forced"} : run'[r] = SignalField(run[r], field)
      BY <2>6, Zenon DEF PublishCoop, PublishForced, PublishConfirmed, TypeInv, TypeOK
    <3> QED
      BY <3>2, <3>3, Zenon DEF HistoryStep
  <2>7. CASE Commit(r)
    <3>1. sup[r].stage = "commit" /\ run[r].outcome = "none"
      BY <2>7 DEF Commit
    <3>2. CASE CommitCancelled(r)
      <4> DEFINE s == sup[r]
                 complete == ValidTerminal(s) /\ s.term = "cancelled" /\ ~run[r].forced
                 how == IF run[r].confirmed # "no" THEN run[r].confirmed
                        ELSE IF s.captured = "yes" THEN "tree"
                        ELSE IF s.captured = "no" THEN "no"
                        ELSE "nostart"
      <4>1. how \in Vouchers \ {"no"}
        <5>1. how # "no"
          BY <3>2, Zenon DEF CommitCancelled
        <5> QED
          BY <5>1 DEF TypeInv, TypeOK, RunRecord, Vouchers
      <4>2. run[r].cancel /\ run'[r] = [Ended(run[r], "cancelled", complete) EXCEPT !.confirmed = how]
        BY <3>2, Zenon DEF CommitCancelled, TypeInv, TypeOK
      <4> HIDE DEF how
      <4>3. Commits(r)
        BY <3>1, <4>1, <4>2, Zenon DEF Commits
      <4> QED
        BY <4>3 DEF HistoryStep
    <3>3. CASE CommitUncancelled(r)
      BY <3>1, <3>3, Zenon DEF CommitUncancelled, Commits, HistoryStep, TypeInv, TypeOK
    <3>4. CASE CommitAwaits(r) \/ CommitGivesUp(r)
      BY <2>2, <3>4 DEF CommitAwaits, CommitGivesUp
    <3> QED
      BY <2>7, <3>2, <3>3, <3>4 DEF Commit
  <2>8. CASE PublishReady(r)
    BY <2>8 DEF HistoryStep
  <2>9. ASSUME Supervises(r)
        PROVE  \/ run' = run
               \/ PublishReady(r) \/ PublishProgress(r) \/ Flush(r) \/ Commit(r)
               \/ PublishCoop(r) \/ PublishForced(r) \/ PublishConfirmed(r)
    BY <2>9, Zenon DEF Supervises, StartNext, SupStartOk, SupStartStillborn, SupStartFail,
       SupStartFailSpawned, FrameNext, FrameReady, FrameProgress, FrameInvalid, ChannelClose,
       FrameTerminal, SettleNext, Complete, Drain, AwaitCancel, OutcomeAudit, Release,
       SignalNext, CoopSignal, Escalate, Settle, ProcessNext, RootExits, KidsExit, KillLands,
       GuardDrain, CallbackThrows, SettlementThrows, PublicationThrows, durable
  <2> QED
    BY <1>1, <2>1, <2>2, <2>4, <2>5, <2>6, <2>7, <2>8, <2>9
<1>2. CASE ~\E q \in Runs : Supervises(q)
  <2>1. LaunchNext \/ CancelNext \/ RecoverNext \/ BootReconcile \/ run' = run
    BY <1>2, Zenon DEF Next, vars, Observe, BootNext, BootPublish, BootDone, BootIntent, Crash,
       FaultNext, OperationThrows, Supervises, durable
  <2>2. CASE LaunchNext
    <3>1. run' = run \/ \E k \in LaunchKeys, p \in Params, q \in Runs : LaunchCommit(k, p, q)
      BY <2>2, Zenon DEF LaunchNext, LaunchPublish, LaunchExisting, LaunchReject, durable
    <3>2. ASSUME NEW k \in LaunchKeys, NEW p \in Params, NEW q \in Runs, LaunchCommit(k, p, q)
          PROVE  run'[r] = run[r] \/ Creates(r)
      BY <3>2, Zenon DEF LaunchCommit, Creates, Created, TypeInv, TypeOK
    <3> QED
      BY <3>1, <3>2, Zenon DEF HistoryStep
  <2>3. CASE CancelNext
    <3>1. run' = run \/ \E k \in CancelKeys, q \in Runs : CancelCommit(k, q)
      BY <2>3, Zenon DEF CancelNext, CancelArm, CancelPublish, CancelExisting, CancelReject, durable
    <3>2. ASSUME NEW k \in CancelKeys, NEW q \in Runs, CancelCommit(k, q)
          PROVE  run'[r] = run[r] \/ Accepts(r)
      BY <3>2, Zenon DEF CancelCommit, Accepts, CancelAccepted, TypeInv, TypeOK
    <3> QED
      BY <3>1, <3>2, Zenon DEF HistoryStep
  <2>4. CASE RecoverNext
    <3>1. run' = run \/ \E k \in RecoverKeys : RecoverCommit(k)
      BY <2>4, Zenon DEF RecoverNext, RecoverAct, RecoverPublish, RecoverExisting, RecoverReject,
         RecoverIntent, durable
    <3>2. ASSUME NEW k \in RecoverKeys, RecoverCommit(k), run'[r] # run[r]
          PROVE  Recovers(r)
      <4>1. /\ r = recovers[k].run /\ Recoverable(r)
            /\ run'[r] = Effect(run[r], recovers[k].action, lock.insp)
        BY <3>2, Zenon DEF RecoverCommit, TypeInv, TypeOK
      <4>2. recovers[k].action \in RecoveryActions \cup {"none"} /\ lock.insp \in Inspections
        BY <3>2 DEF TypeInv, TypeOK, RecoverMutation, Lock
      <4> QED
        BY <4>1, <4>2 DEF Recovers
    <3> QED
      BY <3>1, <3>2, Zenon DEF HistoryStep
  <2>5. CASE BootReconcile
    <3>1. PICK seen \in [Runs -> Inspections] :
            /\ seen[r] \in Inspect(r)
            /\ run' = [q \in Runs |-> Reconciled(run[q], seen[q])]
      BY <2>5, Zenon DEF BootReconcile
    <3>2. seen[r] \in Inspections \ {"none"} /\ host = "down" /\ run'[r] = Reconciled(run[r], seen[r])
      BY <2>5, <3>1 DEF Inspect, BootReconcile
    <3> QED
      BY <3>2, Zenon DEF HistoryStep, Reconciles
  <2>6. CASE run' = run
    BY <2>6, Zenon DEF HistoryStep
  <2> QED
    BY <2>1, <2>2, <2>3, <2>4, <2>5, <2>6
<1> QED
  BY <1>1, <1>2

\* What finalization appends.
LEMMA FinalizedHistory ==
  ASSUME NEW rr \in RunRecord, NEW prev
  PROVE  LET next == Finalized(rr, prev) IN
         next.events = Append(rr.events, "terminal") /\ next.complete = rr.complete
<1> DEFINE ended == [Recorded(rr, "terminal") EXCEPT !.obs = "none", !.prev = "none"]
<1>1. /\ ended \in RunRecord
      /\ ended.events = Append(rr.events, "terminal") /\ ended.complete = rr.complete
  <2>1. Recorded(rr, "terminal") \in RunRecord /\ "none" \in Inspections /\ "none" \in Interrupted
    BY RecordedType DEF Events, Inspections, Interrupted
  <2> QED
    BY <2>1, Zenon DEF Recorded, RunRecord
<1> HIDE DEF ended
<1>2. LET next == [ended EXCEPT !.status = "cancelled", !.outcome = "cancelled_reconciled",
                                !.confirmed = IF @ = "no" THEN "guard" ELSE @] IN
      next.events = ended.events /\ next.complete = ended.complete
  BY <1>1, Zenon DEF RunRecord
<1>3. LET next == [ended EXCEPT !.status = "failed", !.outcome = "interrupted"] IN
      next.events = ended.events /\ next.complete = ended.complete
  BY <1>1, Zenon DEF RunRecord
<1>4. Finalized(rr, prev) =
        IF prev = "cancelling" /\ rr.cancel
        THEN [ended EXCEPT !.status = "cancelled", !.outcome = "cancelled_reconciled",
                           !.confirmed = IF @ = "no" THEN "guard" ELSE @]
        ELSE [ended EXCEPT !.status = "failed", !.outcome = "interrupted"]
  BY DEF Finalized, ended
<1> QED
  BY <1>1, <1>2, <1>3, <1>4

\* Every step keeps the shape of a history, and nothing ever leaves one.
LEMMA ShapedStep ==
  ASSUME TypeInv, TypeInv', RecordInv, SupervisionInv, HistoryInv, [Next]_vars, NEW r \in Runs
  PROVE  /\ Shaped(run'[r])
         /\ \A e : Has(run[r], e) => Has(run'[r], e)
         /\ Has(run'[r], "ready") => Has(run[r], "ready") \/ PublishReady(r)
         /\ Has(run'[r], "recovery") =>
              Has(run[r], "recovery") \/ run'[r].status = "recovery_required"
<1> DEFINE rr == run[r]
           next == run'[r]
           s == sup[r]
           Goal == /\ Shaped(next)
                   /\ \A e : Has(rr, e) => Has(next, e)
                   /\ Has(next, "ready") => Has(rr, "ready") \/ PublishReady(r)
                   /\ Has(next, "recovery") => Has(rr, "recovery") \/ next.status = "recovery_required"
<1>1. /\ rr \in RunRecord /\ next \in RunRecord /\ s \in SupRecord
      /\ Supervised(r) /\ Sound(rr) /\ Shaped(rr) /\ Reported(rr, s)
  BY DEF TypeInv, TypeOK, SupervisionInv, RecordInv, HistoryInv
<1>2. CASE next = rr
  BY <1>1, <1>2
<1>3. rr.outcome = "none" => Open(rr) /\ ~rr.complete
  BY <1>1 DEF Sound, Shaped
<1>4. CASE Creates(r)
  <2>1. rr.events = <<>> /\ next = Created
    BY <1>1, <1>4 DEF Creates, Shaped
  <2>2. Len(<<>>) = 0 /\ \A i \in 1..0 : FALSE
    OBVIOUS
  <2>3. \A e : ~Has(rr, e)
    BY <2>1, <2>2 DEF Has
  <2> QED
    BY <2>1, <2>3, ShapedCreated
<1>5. CASE Accepts(r)
  <2>1. /\ rr.status \in {"starting", "running"} /\ rr.outcome = "none"
        /\ next = CancelAccepted(rr)
    BY <1>5 DEF Accepts, Cancellable
  <2>2. /\ next.events = Append(rr.events, "cancel") /\ next.status = "cancelling"
        /\ next.cancel = TRUE /\ next.outcome = "none" /\ next.complete = rr.complete
    BY <1>1, <2>1, Zenon DEF CancelAccepted, Recorded, RunRecord
  <2> QED
    BY <1>1, <1>3, <2>1, <2>2, ShapedAppend DEF Events
<1>6. CASE Recovers(r)
  <2>1. PICK action, insp : next = Effect(rr, action, insp)
    BY <1>6 DEF Recovers
  <2>2. rr.status = "recovery_required" /\ rr.outcome = "none"
    BY <1>1, <1>6 DEF Recovers, Recoverable, Sound, Envelopes
  <2>3. CASE next = [rr EXCEPT !.obs = insp, !.rev = @ + 1]
    <3>1. /\ next.events = rr.events /\ next.status = rr.status /\ next.cancel = rr.cancel
          /\ next.outcome = rr.outcome /\ next.complete = rr.complete
      BY <1>1, <2>3, Zenon DEF RunRecord
    <3> QED
      BY <1>1, <2>2, <3>1, ShapedKept
  <2>4. CASE next = Finalized(rr, rr.prev)
    <3>1. /\ next.events = Append(rr.events, "terminal") /\ next.complete = rr.complete
      BY <1>1, <2>4, FinalizedHistory
    <3>2. next.status \in {"cancelled", "failed"} /\ next.outcome # "none" /\ next.cancel = rr.cancel
      BY <1>1, <2>4, FinalizedFields
    <3>3. /\ Shaped(next)
          /\ \A e : Has(rr, e) => Has(next, e)
          /\ \A e : Has(next, e) => Has(rr, e) \/ e = "terminal"
      BY <1>1, <1>3, <2>2, <3>1, <3>2, ShapedAppend DEF Events
    <3> QED
      BY <3>3
  <2> QED
    BY <1>2, <2>1, <2>3, <2>4 DEF Effect
<1>7. CASE Reconciles(r)
  <2>1. PICK insp : next = Reconciled(rr, insp)
    BY <1>7 DEF Reconciles
  <2>2. CASE rr.status \in Active /\ next = Finalized(rr, rr.status)
    <3>1. /\ next.events = Append(rr.events, "terminal") /\ next.complete = rr.complete
      BY <1>1, <2>2, FinalizedHistory
    <3>2. next.status \in {"cancelled", "failed"} /\ next.outcome # "none" /\ next.cancel = rr.cancel
      BY <1>1, <2>2, FinalizedFields
    <3>3. rr.outcome = "none" /\ rr.status # "absent"
      BY <1>1, <2>2 DEF Sound, Active, Envelopes
    <3> QED
      BY <1>1, <1>3, <3>1, <3>2, <3>3, ShapedAppend DEF Events
  <2>3. CASE rr.status \in Active /\ next = ToRecovery(rr, insp)
    <3>1. /\ next.events = Append(rr.events, "recovery") /\ next.complete = rr.complete
          /\ next.status = "recovery_required" /\ next.outcome = rr.outcome
          /\ next.cancel = rr.cancel
      BY <1>1, <2>3, Zenon DEF ToRecovery, Recorded, RunRecord
    <3>2. rr.outcome = "none" /\ rr.status # "absent"
      BY <1>1, <2>3 DEF Sound, Active, Envelopes
    <3> QED
      BY <1>1, <1>3, <3>1, <3>2, ShapedAppend DEF Events
  <2> QED
    BY <1>2, <2>1, <2>2, <2>3 DEF Reconciled
<1>8. CASE Commits(r)
  <2>1. rr.status \in Active /\ rr.outcome = "none" /\ s.stage = "commit"
    BY <1>1, <1>8 DEF Commits, Supervised, Accounted, Sound, RunRecord, Statuses, Envelopes
  <2>2. ASSUME ValidTerminal(s)
        PROVE  Has(rr, "ready")
    BY <1>1, <2>2 DEF ValidTerminal, Reported, Envelopes
  <2>3. \E code \in Envelopes \cup {"start_failed", "protocol_invalid", "incomplete"} :
          /\ next.events = Append(rr.events, "terminal")
          /\ next.status = OutcomeStatus(code) /\ next.outcome = code
          /\ next.cancel = rr.cancel /\ next.forced = rr.forced
          /\ next.complete => ValidTerminal(s) /\ (rr.cancel => code = "cancelled" /\ ~rr.forced)
    <3>1. CASE ~rr.cancel
      <4>1. next = Ended(rr, OutcomeCode(s), ValidTerminal(s))
        BY <1>8, <3>1 DEF Commits
      <4>2. OutcomeCode(s) \in Envelopes \cup {"start_failed", "protocol_invalid", "incomplete"}
        BY DEF OutcomeCode, ValidTerminal
      <4>3. /\ next.events = Append(rr.events, "terminal")
            /\ next.status = OutcomeStatus(OutcomeCode(s)) /\ next.outcome = OutcomeCode(s)
            /\ next.cancel = rr.cancel /\ next.forced = rr.forced
            /\ next.complete = ValidTerminal(s)
        BY <1>1, <4>1, Zenon DEF Ended, Recorded, RunRecord
      <4> QED
        BY <3>1, <4>2, <4>3, Zenon
    <3>2. CASE rr.cancel
      <4> DEFINE complete == ValidTerminal(s) /\ s.term = "cancelled" /\ ~rr.forced
      <4>1. PICK how : next = [Ended(rr, "cancelled", complete) EXCEPT !.confirmed = how]
        BY <1>8, <3>2 DEF Commits
      <4>2. "cancelled" \in Envelopes
        BY DEF Envelopes
      <4>3. /\ next.events = Append(rr.events, "terminal")
            /\ next.status = OutcomeStatus("cancelled") /\ next.outcome = "cancelled"
            /\ next.cancel = rr.cancel /\ next.forced = rr.forced
            /\ next.complete = complete
        BY <1>1, <4>1, Zenon DEF Ended, Recorded, RunRecord
      <4> QED
        BY <4>2, <4>3, Zenon
    <3> QED
      BY <3>1, <3>2
  <2>4. PICK code \in Envelopes \cup {"start_failed", "protocol_invalid", "incomplete"} :
          /\ next.events = Append(rr.events, "terminal")
          /\ next.status = OutcomeStatus(code) /\ next.outcome = code
          /\ next.cancel = rr.cancel /\ next.forced = rr.forced
          /\ next.complete => ValidTerminal(s) /\ (rr.cancel => code = "cancelled" /\ ~rr.forced)
    BY <2>3
  <2>5. next.status \in Envelopes /\ code # "none"
    BY <2>4 DEF OutcomeStatus, Envelopes
  <2>6. rr.forced => rr.cancel
    BY <1>1 DEF Supervised, Accounted
  <2>7. rr.status # "absent" /\ next.status # "absent" /\ next.status # "recovery_required"
    BY <2>1, <2>5 DEF Active, Envelopes
  <2>8. next.cancel \in BOOLEAN /\ next.complete \in BOOLEAN
    BY <1>1 DEF RunRecord
  <2> QED
    BY <1>1, <1>3, <2>1, <2>2, <2>4, <2>5, <2>6, <2>7, <2>8, ShapedAppend DEF Events
<1>9. CASE PublishReady(r)
  <2>1. s.stage = "live" /\ s.cons = "ready" /\ next = Ready(rr)
    BY <1>9, Zenon DEF PublishReady, TypeInv, TypeOK
  <2>2. rr.outcome = "none" /\ rr.status \notin {"absent", "recovery_required"} /\ ~Has(rr, "ready")
    BY <1>1, <2>1 DEF Supervised, Accounted, Quiet, Reported
  <2>3. /\ next.events = Append(rr.events, "ready") /\ next.complete = rr.complete
    BY <1>1, <2>1, Zenon DEF Ready, Recorded, RunRecord
  <2>4. /\ next.status = IF rr.status = "starting" THEN "running" ELSE rr.status
        /\ next.cancel = rr.cancel /\ next.outcome = rr.outcome
    BY <1>1, <2>1, FramesFields
  <2>5. next.status \notin {"absent", "recovery_required"}
    BY <2>2, <2>4
  <2> QED
    BY <1>1, <1>3, <1>9, <2>2, <2>3, <2>4, <2>5, ShapedAppend DEF Events
<1>10. ASSUME s.stage # "none", ~Quiet(s)
       PROVE  rr.outcome = "none" /\ rr.status # "absent"
  BY <1>1, <1>10 DEF Supervised, Accounted
<1>11. CASE s.stage # "none" /\ ~Quiet(s) /\ next = WithProgress(rr, s.pend)
  <2>1. s.pend \in Nat /\ (s.pend # 0 => Has(rr, "ready"))
    BY <1>1 DEF Reported, SupRecord
  <2> QED
    BY <1>1, <1>10, <1>11, <2>1, ShapedProgress
<1>12. CASE s.stage # "none" /\ ~Quiet(s) /\ next = ConfirmedByTree(rr)
  <2>1. /\ next.events = rr.events /\ next.status = rr.status /\ next.cancel = rr.cancel
        /\ next.outcome = rr.outcome /\ next.complete = rr.complete
    BY <1>1, <1>12, Zenon DEF ConfirmedByTree, RunRecord
  <2> QED
    BY <1>1, <1>10, <1>12, <2>1, ShapedKept
<1>13. ASSUME s.stage # "none", ~Quiet(s), NEW field, next = SignalField(rr, field)
       PROVE  Goal
  <2>1. /\ next.events = rr.events /\ next.status = rr.status /\ next.cancel = rr.cancel
        /\ next.outcome = rr.outcome /\ next.complete = rr.complete
    BY <1>1, <1>13, Zenon DEF SignalField, RunRecord
  <2> QED
    BY <1>1, <1>10, <1>13, <2>1, ShapedKept
<1> QED
  BY <1>2, <1>4, <1>5, <1>6, <1>7, <1>8, <1>9, <1>11, <1>12, <1>13, HistorySteps DEF HistoryStep

\* The ways a supervision goes on without reading a frame.
Advances(s, t) ==
  /\ t.ready = s.ready /\ t.term = s.term /\ t.pend \in {0, s.pend}
  /\ s.invalid => t.invalid
  /\ t.stage \in {"none", "scheduled"} => t.stage = s.stage
  /\ s.stage = "none" => t.stage = "none"
  /\ t.stage = "live" => s.stage \in {"scheduled", "live"}
  /\ t.cons \in {s.cons, "closed"} \/ (s.cons = "progress" /\ t.cons = "idle")

\* Every step of a supervision is one of them, a frame, its beginning or its loss.
LEMMA SupSteps ==
  ASSUME TypeInv, SupervisionInv, [Next]_vars, NEW r \in Runs
  PROVE  \/ Advances(sup[r], sup'[r])
         \/ FrameReady(r) \/ FrameProgress(r) \/ PublishReady(r)
         \/ \E envelope \in Envelopes : FrameTerminal(r, envelope)
         \/ Crash
         \/ \E k \in LaunchKeys : LaunchPublish(k) /\ launched[k].run = r
<1> DEFINE s == sup[r]
           t == sup'[r]
<1>1. s \in SupRecord
  BY DEF TypeInv, TypeOK
<1>2. ASSUME t = s PROVE Advances(s, t)
  BY <1>2 DEF Advances
<1>3. ASSUME t = Requested(s) PROVE Advances(s, t)
  BY <1>1, <1>2, <1>3 DEF Requested, SupRecord, Advances
<1>4. ASSUME NEW x, t = [s EXCEPT !.co = x] PROVE Advances(s, t)
  BY <1>1, <1>4 DEF SupRecord, Advances
<1>5. ASSUME NEW x, t = [s EXCEPT !.esc = x] PROVE Advances(s, t)
  BY <1>1, <1>5 DEF SupRecord, Advances
<1>6. ASSUME NEW x \in Stages \ {"none", "scheduled", "live"}, s.stage # "none",
             t = [s EXCEPT !.stage = x] PROVE Advances(s, t)
  BY <1>1, <1>6 DEF SupRecord, Advances
<1>7. ASSUME NEW q \in Runs, Supervises(q)
      PROVE  \/ Advances(s, t)
             \/ FrameReady(r) \/ FrameProgress(r) \/ PublishReady(r)
             \/ \E envelope \in Envelopes : FrameTerminal(r, envelope)
  <2>1. CASE q # r
    <3>1. t = s
      BY <1>7, <2>1, OwnSteps DEF Supervises, Others
    <3> QED
      BY <1>2, <3>1
  <2>2. CASE StartNext(r)
    <3>1. /\ s.stage = "scheduled"
          /\ \/ t = [s EXCEPT !.stage = "live"]
             \/ t = [s EXCEPT !.stage = "live", !.exit = "stillborn"]
             \/ t = Requested([s EXCEPT !.stage = "live"])
             \/ t = Requested([s EXCEPT !.stage = "live", !.exit = "stillborn"])
             \/ t = [s EXCEPT !.stage = "flush", !.exit = "unsupervised"]
      BY <2>2, Zenon DEF TypeInv, TypeOK, StartNext, SupStartOk, SupStartStillborn, SupStartFail,
         SupStartFailSpawned
    <3> QED
      BY <1>1, <3>1 DEF Requested, SupRecord, Advances
  <2>3. CASE FrameInvalid(r)
    <3>1. t = [s EXCEPT !.invalid = TRUE, !.cons = "closed"]
      BY <2>3, Zenon DEF TypeInv, TypeOK, FrameInvalid
    <3> QED
      BY <1>1, <3>1 DEF SupRecord, Advances
  <2>4. CASE ChannelClose(r)
    <3>1. t = [s EXCEPT !.cons = "closed"]
      BY <2>4, Zenon DEF TypeInv, TypeOK, ChannelClose
    <3> QED
      BY <1>1, <3>1 DEF SupRecord, Advances
  <2>5. CASE PublishProgress(r)
    <3>1. s.cons = "progress" /\ t = [s EXCEPT !.cons = "idle", !.pend = 0]
      BY <2>5, Zenon DEF TypeInv, TypeOK, PublishProgress
    <3> QED
      BY <1>1, <3>1 DEF SupRecord, Advances
  <2>6. CASE Complete(r) \/ CallbackThrows(r)
    <3>1. /\ s.stage = "live"
          /\ \/ t = [s EXCEPT !.stage = "drain", !.captured = IF s.co = "idle" THEN "none" ELSE s.co]
             \/ t = [s EXCEPT !.stage = "flush", !.exit = "callbackFailed"]
             \/ t = [s EXCEPT !.stage = "flush", !.exit = "callbackFailed", !.cons = "closed"]
      BY <2>6, Zenon DEF TypeInv, TypeOK, Complete, CallbackThrows, Captured
    <3> QED
      BY <1>1, <3>1 DEF SupRecord, Advances
  <2>7. CASE Flush(r)
    <3>1. s.stage = "flush" /\ t = [s EXCEPT !.stage = "commit", !.pend = 0]
      BY <2>7, Zenon DEF TypeInv, TypeOK, Flush
    <3> QED
      BY <1>1, <3>1 DEF SupRecord, Advances
  <2>8. CASE Commit(r)
    <3>1. /\ s.stage = "commit"
          /\ \/ t = [s EXCEPT !.stage = "audit"]
             \/ t = [s EXCEPT !.stage = "release"]
             \/ t = [Requested(s) EXCEPT !.stage = "await"]
      BY <2>8, Zenon DEF TypeInv, TypeOK, Commit, CommitCancelled, CommitUncancelled,
         CommitAwaits, CommitGivesUp
    <3>2. CASE t = [Requested(s) EXCEPT !.stage = "await"]
      <4>1. Requested(s) \in SupRecord
        BY <1>1, RequestedType
      <4>2. Advances(s, Requested(s))
        BY <1>1 DEF Requested, SupRecord, Advances
      <4> DEFINE mid == Requested(s)
      <4>3. /\ t.stage = "await" /\ t.ready = mid.ready /\ t.term = mid.term
            /\ t.pend = mid.pend /\ t.invalid = mid.invalid /\ t.cons = mid.cons
        BY <3>2, <4>1, Zenon DEF SupRecord
      <4> HIDE DEF mid
      <4> QED
        BY <3>1, <4>2, <4>3 DEF Advances, mid
    <3> QED
      BY <1>6, <3>1, <3>2 DEF Stages
  <2>9. CASE AwaitCancel(r)
    <3>1. /\ s.stage = "await"
          /\ \/ t = [s EXCEPT !.captured = s.co, !.stage = "commit"]
             \/ t = [s EXCEPT !.stage = "release"]
      BY <2>9, Zenon DEF TypeInv, TypeOK, AwaitCancel
    <3> QED
      BY <1>1, <3>1 DEF SupRecord, Advances
  <2>10. CASE Drain(r) \/ OutcomeAudit(r) \/ Release(r) \/ SettlementThrows(r)
    <3>1. /\ s.stage # "none"
          /\ \/ t = [s EXCEPT !.stage = "flush"]
             \/ t = [s EXCEPT !.stage = "release"]
             \/ t = [s EXCEPT !.stage = "done"]
      BY <2>10 DEF TypeInv, TypeOK, Drain, OutcomeAudit, Release, SettlementThrows
    <3> QED
      BY <1>6, <3>1 DEF Stages
  <2>11. CASE SignalNext(r) \/ PublicationThrows(r)
    <3>1. \/ \E x : t = [s EXCEPT !.co = x]
          \/ \E x : t = [s EXCEPT !.esc = x]
          \/ t = [s EXCEPT !.co = "confirm", !.esc = "done"]
      <4>1. CASE CoopSignal(r) \/ PublishCoop(r) \/ PublishConfirmed(r)
        BY <4>1, Zenon DEF TypeInv, TypeOK, CoopSignal, PublishCoop, PublishConfirmed
      <4>2. CASE Escalate(r) \/ PublishForced(r)
        BY <4>2, Zenon DEF TypeInv, TypeOK, Escalate, PublishForced
      <4>3. CASE Settle(r) \/ PublicationThrows(r)
        BY <4>3, Zenon DEF TypeInv, TypeOK, Settle, PublicationThrows
      <4> QED
        BY <2>11, <4>1, <4>2, <4>3 DEF SignalNext
    <3>2. t = [s EXCEPT !.co = "confirm", !.esc = "done"] => Advances(s, t)
      BY <1>1 DEF SupRecord, Advances
    <3> QED
      BY <1>4, <1>5, <3>1, <3>2
  <2>12. CASE ProcessNext(r)
    <3>1. t = s
      BY <2>12 DEF ProcessNext, RootExits, KidsExit, KillLands, GuardDrain
    <3> QED
      BY <1>2, <3>1
  <2> QED
    BY <1>7, <2>1, <2>2, <2>3, <2>4, <2>5, <2>6, <2>7, <2>8, <2>9, <2>10, <2>11, <2>12
       DEF Supervises, FrameNext, SettleNext
<1>8. ASSUME NEW k \in LaunchKeys, LaunchPublish(k), launched[k].run # r
      PROVE  t = s
  BY <1>8, Zenon DEF LaunchPublish, TypeInv, TypeOK
<1>9. CASE CancelNext
  <2>1. sup' = sup \/ \E q : RequestIfActive(q)
    BY <1>9, Zenon DEF CancelNext, CancelArm, CancelPublish, CancelExisting, CancelReject,
       CancelCommit
  <2>2. t = s \/ t = Requested(s)
    BY <2>1, Zenon DEF RequestIfActive, TypeInv, TypeOK
  <2> QED
    BY <1>2, <1>3, <2>2
<1>10. \/ sup' = sup \/ CancelNext \/ Crash
       \/ \E k \in LaunchKeys : LaunchPublish(k)
       \/ \E q \in Runs : Supervises(q)
  BY Zenon DEF Next, vars, Observe, LaunchNext, LaunchExisting, LaunchReject,
     LaunchCommit, RecoverNext, RecoverAct, RecoverCommit, RecoverPublish, RecoverExisting,
     RecoverReject, RecoverIntent, BootNext, BootReconcile, BootPublish, BootDone, BootIntent,
     FaultNext, OperationThrows, Supervises
<1> QED
  BY <1>2, <1>7, <1>8, <1>9, <1>10

\* What is read is reported before more is.
LEMMA ReportedStep ==
  ASSUME TypeInv, TypeInv', RecordInv, SupervisionInv, HistoryInv, [Next]_vars, NEW r \in Runs
  PROVE  Reported(run'[r], sup'[r])
<1> DEFINE rr == run[r]
           next == run'[r]
           s == sup[r]
           t == sup'[r]
<1>1. /\ s \in SupRecord /\ Supervised(r) /\ Shaped(rr) /\ Reported(rr, s)
      /\ Has(rr, "ready") => Has(next, "ready")
      /\ Has(next, "ready") => Has(rr, "ready") \/ PublishReady(r)
  BY ShapedStep DEF TypeInv, TypeOK, SupervisionInv, HistoryInv
<1>2. CASE PublishReady(r)
  <2>1. s.stage = "live" /\ s.cons = "ready" /\ t = [s EXCEPT !.cons = "idle"] /\ next = Ready(rr)
    BY <1>2, Zenon DEF PublishReady, TypeInv, TypeOK
  <2>2. Has(next, "ready")
    <3>1. rr \in RunRecord
      BY DEF TypeInv, TypeOK
    <3>2. next.events = Append(rr.events, "ready")
      BY <2>1, <3>1, Zenon DEF Ready, Recorded, RunRecord
    <3>3. Len(rr.events) + 1 \in 1..(Len(rr.events) + 1)
      BY <3>1, Appends DEF RunRecord
    <3> QED
      BY <3>1, <3>2, <3>3, Appends DEF Has, RunRecord
  <2>3. /\ t.stage = "live" /\ t.ready = s.ready /\ t.cons = "idle" /\ t.term = s.term
        /\ t.pend = s.pend /\ t.invalid = s.invalid
    BY <1>1, <2>1, Zenon DEF SupRecord
  <2> QED
    BY <1>1, <2>1, <2>2, <2>3 DEF Reported
<1>3. ASSUME ~PublishReady(r)
      PROVE  Has(next, "ready") <=> Has(rr, "ready")
  BY <1>1, <1>3
<1>4. CASE ~PublishReady(r) /\ Advances(s, t)
  BY <1>1, <1>3, <1>4 DEF Reported, Advances
<1>5. CASE ~PublishReady(r) /\ FrameReady(r)
  <2>1. /\ s.stage = "live" /\ s.cons = "idle" /\ ~s.ready
        /\ t = [s EXCEPT !.ready = TRUE, !.cons = "ready"]
    BY <1>5, Zenon DEF FrameReady, Consuming, TypeInv, TypeOK
  <2>2. /\ t.stage = "live" /\ t.ready = TRUE /\ t.cons = "ready" /\ t.term = s.term
        /\ t.pend = s.pend /\ t.invalid = s.invalid
    BY <1>1, <2>1, Zenon DEF SupRecord
  <2> QED
    BY <1>1, <1>3, <1>5, <2>1, <2>2 DEF Reported
<1>6. CASE ~PublishReady(r) /\ FrameProgress(r)
  <2> DEFINE m == [s EXCEPT !.seen = @ + 1, !.pend = @ + 1]
  <2>1. /\ s.stage = "live" /\ s.cons = "idle" /\ s.ready
        /\ t = m \/ t = [m EXCEPT !.cons = "progress"]
    BY <1>6, Zenon DEF FrameProgress, Consuming, TypeInv, TypeOK
  <2>2. /\ t.stage = "live" /\ t.ready = s.ready /\ t.cons \in {"idle", "progress"}
        /\ t.term = s.term /\ t.invalid = s.invalid
    <3>1. /\ m.stage = s.stage /\ m.ready = s.ready /\ m.cons = s.cons
          /\ m.term = s.term /\ m.invalid = s.invalid
      BY <1>1, Zenon DEF SupRecord
    <3>2. LET n == [m EXCEPT !.cons = "progress"] IN
          /\ n.stage = s.stage /\ n.ready = s.ready /\ n.cons = "progress"
          /\ n.term = s.term /\ n.invalid = s.invalid
      BY <1>1, Zenon DEF SupRecord
    <3> HIDE DEF m
    <3> QED
      BY <2>1, <3>1, <3>2
  <2> QED
    BY <1>1, <1>3, <1>6, <2>1, <2>2 DEF Reported
<1>7. ASSUME ~PublishReady(r), NEW envelope \in Envelopes, FrameTerminal(r, envelope)
      PROVE  Reported(next, t)
  <2>1. s.stage = "live" /\ s.cons = "idle" /\ t = WithTerminal(s, envelope)
    BY <1>7, Zenon DEF FrameTerminal, Consuming, TypeInv, TypeOK
  <2>2. /\ t.stage = "live" /\ t.ready = s.ready /\ t.cons = "idle" /\ t.pend = s.pend
        /\ ~s.ready => t.invalid = TRUE
    BY <1>1, <2>1 DEF SupRecord, WithTerminal
  <2> QED
    BY <1>1, <1>3, <1>7, <2>1, <2>2 DEF Reported
<1>8. CASE ~PublishReady(r) /\ Crash
  <2>1. t = NoSup
    BY <1>8 DEF Crash
  <2>2. /\ t.stage = "none" /\ t.ready = FALSE /\ t.cons = "idle" /\ t.term = "none" /\ t.pend = 0
    BY <2>1 DEF NoSup
  <2> QED
    BY <2>2 DEF Reported
<1>9. ASSUME ~PublishReady(r), NEW k \in LaunchKeys, LaunchPublish(k), launched[k].run = r
      PROVE  Reported(next, t)
  <2>1. rr = Created /\ s.stage = "none" /\ t = [s EXCEPT !.stage = "scheduled"]
    BY <1>9 DEF LaunchPublish, SupervisionInv, HostInv, TypeInv, TypeOK
  <2>2. ~Has(rr, "ready")
    BY <2>1, ShapedCreated
  <2>3. /\ t.stage = "scheduled" /\ t.ready = s.ready /\ t.cons = s.cons /\ t.term = s.term
        /\ t.pend = s.pend /\ t.invalid = s.invalid
    BY <1>1, <2>1, Zenon DEF SupRecord
  <2> QED
    BY <1>1, <1>3, <1>9, <2>1, <2>2, <2>3 DEF Reported
<1> QED
  BY <1>2, <1>4, <1>5, <1>6, <1>7, <1>8, <1>9, SupSteps

\* Histories start empty ...
LEMMA HistoryInvInit == Init => HistoryInv
<1> SUFFICES ASSUME Init, NEW r \in Runs PROVE Shaped(run[r]) /\ Reported(run[r], sup[r])
  BY DEF HistoryInv
<1>1. /\ run[r].status = "absent" /\ run[r].events = <<>> /\ run[r].outcome = "none"
      /\ run[r].complete = FALSE
  BY DEF Init, NoRun
<1>2. /\ sup[r].stage = "none" /\ sup[r].ready = FALSE /\ sup[r].cons = "idle"
      /\ sup[r].term = "none" /\ sup[r].pend = 0
  BY DEF Init, NoSup
<1>3. Len(<<>>) = 0 /\ \A i \in 1..0 : FALSE
  OBVIOUS
<1>4. Shaped(run[r])
  BY <1>1, <1>3 DEF Shaped, Has
<1>5. Reported(run[r], sup[r])
  BY <1>2 DEF Reported
<1> QED
  BY <1>4, <1>5

\* ... and stay in shape.
LEMMA HistoryInvStep ==
  TypeInv /\ TypeInv' /\ RecordInv /\ SupervisionInv /\ HistoryInv /\ [Next]_vars => HistoryInv'
BY ShapedStep, ReportedStep DEF HistoryInv

\* HistoryShape for any adapter, number of frames, cancellations and restarts: the retained
\* events of a run read as one life, and a complete result ends one that deserves it.
THEOREM HistoriesReadAsOneLife == Spec => []HistoryShape
<1>1. RecordInv /\ HistoryInv => HistoryShape
  <2> SUFFICES ASSUME RecordInv, HistoryInv, NEW r \in Runs, run[r].status # "absent"
               PROVE  LET events == run[r].events IN
                      /\ Position(r, "created") = {1}
                      /\ \A i, j \in Position(r, "ready") : i = j
                      /\ \A i \in Position(r, "progress") :
                           /\ \E j \in Position(r, "ready") : j < i
                           /\ \A j \in Position(r, "cancel") : i < j
                      /\ Position(r, "terminal") =
                           IF run[r].outcome = "none" THEN {} ELSE {Len(events)}
                      /\ run[r].complete =>
                           /\ Position(r, "ready") # {} /\ ~run[r].forced
                           /\ run[r].cancel => run[r].outcome = "cancelled"
    BY DEF HistoryShape
  <2>1. Shaped(run[r]) /\ Sound(run[r])
    BY DEF RecordInv, HistoryInv
  <2>2. Position(r, "created") = {1}
    BY <2>1 DEF Shaped, Position
  <2>3. \A i, j \in Position(r, "ready") : i = j
    BY <2>1 DEF Shaped, Position
  <2>4. \A i \in Position(r, "progress") :
          /\ \E j \in Position(r, "ready") : j < i
          /\ \A j \in Position(r, "cancel") : i < j
    BY <2>1 DEF Shaped, Position
  <2>5. Position(r, "terminal") = IF run[r].outcome = "none" THEN {} ELSE {Len(run[r].events)}
    BY <2>1 DEF Shaped, Sound, Open, Position
  <2>6. run[r].complete =>
          /\ Position(r, "ready") # {} /\ ~run[r].forced
          /\ run[r].cancel => run[r].outcome = "cancelled"
    BY <2>1 DEF Shaped, Has, Position
  <2> QED
    BY <2>2, <2>3, <2>4, <2>5, <2>6
<1> QED
  BY <1>1, TypeInvInit, TypeInvStep, RecordInvInit, RecordInvStep, SupervisionInvInit,
     SupervisionInvStep, HistoryInvInit, HistoryInvStep, PTL DEF Spec


\* A history in which a cancellation and a detection are recorded at most once each, and
\* a detection leaves its run to recovery until the run ends.
Once(rr) ==
  LET events == rr.events IN
  /\ \A i, j \in 1..Len(events) : events[i] = "cancel" /\ events[j] = "cancel" => i = j
  /\ \A i, j \in 1..Len(events) : events[i] = "recovery" /\ events[j] = "recovery" => i = j
  /\ Has(rr, "recovery") /\ rr.outcome = "none" => rr.status = "recovery_required"

\* The strengthening of HistoryFits.  The last conjunct of Once is what it lives on: a run
\* that was left to recovery never becomes active again, so no restart detects it anew.
OnceInv == \A r \in Runs : Once(run[r])

\* An appended event keeps a history once, if it is itself the first of its kind.
LEMMA OnceAppend ==
  ASSUME NEW rr \in RunRecord, NEW next \in RunRecord, NEW event \in Events \ {"progress"},
         Once(rr), next.events = Append(rr.events, event),
         event \in {"cancel", "recovery"} => ~Has(rr, event),
         (Has(rr, "recovery") \/ event = "recovery") /\ next.outcome = "none" =>
           next.status = "recovery_required"
  PROVE  Once(next)
<1> DEFINE es == rr.events
           later == next.events
           n == Len(es)
<1>1. /\ n \in Nat /\ Len(later) = n + 1 /\ later[n + 1] = event
      /\ \A i \in 1..n : later[i] = es[i]
  BY Appends DEF RunRecord
<1>2. \A kind \in {"cancel", "recovery"} :
        \A i, j \in 1..n : es[i] = kind /\ es[j] = kind => i = j
  BY DEF Once
<1>3. \A e : Has(rr, e) <=> \E i \in 1..n : es[i] = e
  BY DEF Has
<1>4. \A e : Has(next, e) <=> \E i \in 1..Len(later) : later[i] = e
  BY DEF Has
<1> HIDE DEF es, later, n
<1>5. \A i \in 1..(n + 1) : i \in 1..n \/ i = n + 1
  BY <1>1
<1>6. ASSUME NEW kind \in {"cancel", "recovery"}, NEW i \in 1..(n + 1), NEW j \in 1..(n + 1),
             later[i] = kind, later[j] = kind
      PROVE  i = j
  BY <1>1, <1>2, <1>3, <1>5, <1>6
<1>7. Has(next, "recovery") => Has(rr, "recovery") \/ event = "recovery"
  BY <1>1, <1>3, <1>4, <1>5
<1> QED
  BY <1>1, <1>6, <1>7 DEF Once, later

\* Progress is neither a cancellation nor a detection.
LEMMA OnceProgress ==
  ASSUME NEW rr \in RunRecord, NEW n \in Nat, Once(rr)
  PROVE  Once(WithProgress(rr, n))
<1>1. CASE rr.cancel \/ rr.outcome # "none"
  BY <1>1, Zenon DEF WithProgress
<1>2. CASE ~(rr.cancel \/ rr.outcome # "none")
  <2> DEFINE next == WithProgress(rr, n)
             es == rr.events
             m == Len(es)
             records == [i \in 1..n |-> "progress"]
             later == next.events
  <2>1. /\ next.status = rr.status /\ next.outcome = rr.outcome
        /\ next.events = es \o records
    BY <1>2, Zenon DEF WithProgress, RunRecord
  <2>2. /\ m \in Nat /\ Len(later) = m + n
        /\ \A i \in 1..m : later[i] = es[i]
        /\ \A i \in (m + 1)..(m + n) : later[i] = "progress"
    <3>1. es \in Seq(Events) /\ records \in Seq(Events) /\ Len(records) = n
      BY DEF Events, RunRecord
    <3>2. \A i \in 1..n : records[i] = "progress"
      OBVIOUS
    <3>3. later = es \o records /\ m = Len(es)
      BY <2>1
    <3> HIDE DEF records, es, next, later, m
    <3> QED
      BY <3>1, <3>2, <3>3, Concatenates
  <2>3. \A kind \in {"cancel", "recovery"} :
          \A i, j \in 1..m : es[i] = kind /\ es[j] = kind => i = j
    BY DEF Once
  <2>4. Has(rr, "recovery") <=> \E i \in 1..m : es[i] = "recovery"
    BY DEF Has
  <2>5. Has(next, "recovery") <=> \E i \in 1..Len(later) : later[i] = "recovery"
    BY DEF Has
  <2> HIDE DEF next, es, m, records, later
  <2>6. \A i \in 1..(m + n) : i \in 1..m \/ i \in (m + 1)..(m + n)
    BY <2>2
  <2>7. \A kind \in {"cancel", "recovery"} :
          \A i, j \in 1..(m + n) : later[i] = kind /\ later[j] = kind => i = j
    BY <2>2, <2>3, <2>6
  <2>8. Has(next, "recovery") => Has(rr, "recovery")
    BY <2>2, <2>4, <2>5, <2>6
  <2> QED
    BY <2>1, <2>2, <2>7, <2>8 DEF Once, next, later
<1> QED
  BY <1>1, <1>2

\* A step that appends nothing and ends nothing keeps a history once.
LEMMA OnceKept ==
  ASSUME NEW rr, NEW next, Once(rr), next.events = rr.events,
         next.status = rr.status, next.outcome = rr.outcome
  PROVE  Once(next)
BY DEF Once, Has

\* Nothing has been recorded before the first run of a history ...
LEMMA OnceInvInit == Init => OnceInv
<1> SUFFICES ASSUME Init, NEW r \in Runs PROVE Once(run[r])
  BY DEF OnceInv
<1>1. run[r].events = <<>>
  BY DEF Init, NoRun
<1>2. Len(<<>>) = 0 /\ \A i \in 1..0 : FALSE
  OBVIOUS
<1> QED
  BY <1>1, <1>2 DEF Once, Has

\* ... and no step records a second cancellation or detection.
LEMMA OnceInvStep ==
  TypeInv /\ TypeInv' /\ RecordInv /\ SupervisionInv /\ HistoryInv /\ OnceInv /\ [Next]_vars
    => OnceInv'
<1> SUFFICES ASSUME TypeInv, TypeInv', RecordInv, SupervisionInv, HistoryInv, OnceInv, [Next]_vars,
                    NEW r \in Runs
             PROVE  Once(run'[r])
  BY DEF OnceInv
<1> DEFINE rr == run[r]
           next == run'[r]
           s == sup[r]
<1>1. /\ rr \in RunRecord /\ next \in RunRecord /\ s \in SupRecord
      /\ Supervised(r) /\ Sound(rr) /\ Shaped(rr) /\ Once(rr)
  BY DEF TypeInv, TypeOK, SupervisionInv, RecordInv, HistoryInv, OnceInv
<1>2. CASE next = rr
  BY <1>1, <1>2
<1>3. CASE Creates(r)
  <2>1. next.events = <<"created">>
    BY <1>3 DEF Creates, Created, NoRun
  <2>2. Len(<<"created">>) = 1 /\ <<"created">>[1] = "created" /\ \A i \in 1..1 : i = 1
    OBVIOUS
  <2> QED
    BY <2>1, <2>2 DEF Once, Has
<1>4. CASE Accepts(r)
  <2>1. /\ rr.status \in {"starting", "running"} /\ rr.outcome = "none" /\ ~rr.cancel
        /\ next = CancelAccepted(rr)
    BY <1>4 DEF Accepts, Cancellable
  <2>2. next.events = Append(rr.events, "cancel")
    BY <1>1, <2>1, Zenon DEF CancelAccepted, Recorded, RunRecord
  <2>3. ~Has(rr, "cancel") /\ ~Has(rr, "recovery")
    BY <1>1, <2>1 DEF Shaped, Once
  <2> QED
    BY <1>1, <2>2, <2>3, OnceAppend DEF Events
<1>5. ASSUME NEW prev, next = Finalized(rr, prev)
      PROVE  Once(next)
  <2>1. next.events = Append(rr.events, "terminal")
    BY <1>1, <1>5, FinalizedHistory
  <2>2. next.outcome # "none"
    BY <1>1, <1>5, FinalizedFields
  <2>3. "terminal" \in Events \ {"progress"}
    BY DEF Events
  <2> QED
    BY ONLY <1>1, <2>1, <2>2, <2>3, OnceAppend
<1>6. CASE Recovers(r)
  <2>1. PICK action, insp : next = Effect(rr, action, insp)
    BY <1>6 DEF Recovers
  <2>2. CASE next = [rr EXCEPT !.obs = insp, !.rev = @ + 1]
    <3>1. next.events = rr.events /\ next.status = rr.status /\ next.outcome = rr.outcome
      BY <1>1, <2>2, Zenon DEF RunRecord
    <3> QED
      BY <1>1, <3>1, OnceKept
  <2> QED
    BY <1>2, <1>5, <2>1, <2>2 DEF Effect
<1>7. CASE Reconciles(r)
  <2>1. PICK insp : next = Reconciled(rr, insp)
    BY <1>7 DEF Reconciles
  <2>2. CASE rr.status \in Active /\ next = ToRecovery(rr, insp)
    <3>1. next.events = Append(rr.events, "recovery") /\ next.status = "recovery_required"
      BY <1>1, <2>2, Zenon DEF ToRecovery, Recorded, RunRecord
    <3>2. ~Has(rr, "recovery")
      BY <1>1, <2>2 DEF Once, Sound, Active, Envelopes
    <3> QED
      BY <1>1, <3>1, <3>2, OnceAppend DEF Events
  <2> QED
    BY <1>2, <1>5, <2>1, <2>2 DEF Reconciled
<1>8. CASE Commits(r)
  <2>1. \E code \in Envelopes \cup {"start_failed", "protocol_invalid", "incomplete"} :
          next.events = Append(rr.events, "terminal") /\ next.outcome = code
    <3>1. CASE ~rr.cancel
      <4>1. next = Ended(rr, OutcomeCode(s), ValidTerminal(s))
        BY <1>8, <3>1 DEF Commits
      <4>2. OutcomeCode(s) \in Envelopes \cup {"start_failed", "protocol_invalid", "incomplete"}
        BY DEF OutcomeCode, ValidTerminal
      <4>3. next.events = Append(rr.events, "terminal") /\ next.outcome = OutcomeCode(s)
        BY <1>1, <4>1, Zenon DEF Ended, Recorded, RunRecord
      <4> QED
        BY <4>2, <4>3, Zenon
    <3>2. CASE rr.cancel
      <4> DEFINE complete == ValidTerminal(s) /\ s.term = "cancelled" /\ ~rr.forced
      <4>1. PICK how : next = [Ended(rr, "cancelled", complete) EXCEPT !.confirmed = how]
        BY <1>8, <3>2 DEF Commits
      <4>2. "cancelled" \in Envelopes
        BY DEF Envelopes
      <4>3. next.events = Append(rr.events, "terminal") /\ next.outcome = "cancelled"
        BY <1>1, <4>1, Zenon DEF Ended, Recorded, RunRecord
      <4> QED
        BY <4>2, <4>3, Zenon
    <3> QED
      BY <3>1, <3>2
  <2>2. next.events = Append(rr.events, "terminal") /\ next.outcome # "none"
    BY <2>1 DEF Envelopes
  <2> QED
    BY <1>1, <2>2, OnceAppend DEF Events
<1>9. CASE PublishReady(r)
  <2>1. s.stage = "live" /\ next = Ready(rr)
    BY <1>9, Zenon DEF PublishReady, TypeInv, TypeOK
  <2>2. rr.outcome = "none" /\ rr.status # "recovery_required"
    BY <1>1, <2>1 DEF Supervised, Accounted, Quiet
  <2>3. next.events = Append(rr.events, "ready")
    BY <1>1, <2>1, Zenon DEF Ready, Recorded, RunRecord
  <2>4. ~Has(rr, "recovery")
    BY <1>1, <2>2 DEF Once
  <2> QED
    BY <1>1, <2>3, <2>4, OnceAppend DEF Events
<1>10. CASE next = WithProgress(rr, s.pend)
  BY <1>1, <1>10, OnceProgress DEF SupRecord
<1>11. ASSUME \/ next = ConfirmedByTree(rr)
              \/ \E field \in {"coop", "forced"} : next = SignalField(rr, field)
       PROVE  Once(next)
  <2>1. next.events = rr.events /\ next.status = rr.status /\ next.outcome = rr.outcome
    BY <1>1, <1>11, Zenon DEF ConfirmedByTree, SignalField, RunRecord
  <2> QED
    BY <1>1, <2>1, OnceKept
<1> QED
  BY <1>2, <1>3, <1>4, <1>6, <1>7, <1>8, <1>9, <1>10, <1>11, HistorySteps DEF HistoryStep

\* HistoryFits for any number of frames, cancellations, restarts and recoveries: the five
\* kinds of event that are not progress are recorded at most once each, so the room that
\* MAX_PROGRESS_RECORDS_PER_RUN leaves under MAX_RETAINED_RUN_EVENTS always suffices.
THEOREM HistoriesFit == Spec => []HistoryFits
<1>1. TypeInv /\ RecordInv /\ HistoryInv /\ OnceInv => HistoryFits
  <2> SUFFICES ASSUME TypeInv, RecordInv, HistoryInv, OnceInv, NEW r \in Runs
               PROVE  Cardinality({i \in 1..Len(run[r].events) : run[r].events[i] # "progress"}) <= 5
    BY DEF HistoryFits
  <2> DEFINE es == run[r].events
             lasting == {i \in 1..Len(es) : es[i] # "progress"}
             kinds == {"created", "ready", "cancel", "recovery", "terminal"}
             kind == [i \in lasting |-> es[i]]
  <2>1. es \in Seq(Events) /\ Shaped(run[r]) /\ Sound(run[r]) /\ Once(run[r])
    BY DEF TypeInv, TypeOK, RunRecord, RecordInv, HistoryInv, OnceInv
  <2>2. \A i \in 1..Len(es) : es[i] \in Events
    BY <2>1
  <2>3. \A i, j \in 1..Len(es) : es[i] = es[j] /\ es[i] # "progress" => i = j
    <3>1. run[r].status = "absent" => \A i \in 1..Len(es) : FALSE
      BY <2>1 DEF Shaped
    <3> SUFFICES ASSUME NEW i \in 1..Len(es), NEW j \in 1..Len(es), es[i] = es[j], es[i] # "progress"
                 PROVE  i = j
      OBVIOUS
    <3>2. CASE es[i] = "created"
      BY <2>1, <3>1, <3>2 DEF Shaped
    <3>3. CASE es[i] = "ready"
      BY <2>1, <3>3 DEF Shaped
    <3>4. CASE es[i] \in {"cancel", "recovery"}
      BY <2>1, <3>4 DEF Once
    <3>5. CASE es[i] = "terminal"
      <4>1. run[r].outcome # "none"
        BY <2>1, <3>5 DEF Sound, Open
      <4>2. \A l \in 1..Len(es) : es[l] = "terminal" <=> l = Len(es)
        BY <2>1, <4>1 DEF Shaped
      <4> QED
        BY <3>5, <4>2
    <3> QED
      BY <2>2, <3>2, <3>3, <3>4, <3>5 DEF Events
  <2>4. IsFiniteSet(kinds) /\ Cardinality(kinds) = 5
    <3> DEFINE two == {"created", "ready"}
               four == (two \cup {"cancel"}) \cup {"recovery"}
    <3>1. IsFiniteSet(two) /\ Cardinality(two) = 2
      <4>1. two = {"created"} \cup {"ready"} /\ "ready" \notin {"created"}
        OBVIOUS
      <4>2. IsFiniteSet({"created"}) /\ Cardinality({"created"}) = 1
        BY FS_Singleton
      <4> QED
        BY <4>1, <4>2, FS_AddElement
    <3>2. IsFiniteSet(two \cup {"cancel"}) /\ Cardinality(two \cup {"cancel"}) = 3
      BY <3>1, FS_AddElement
    <3>3. IsFiniteSet(four) /\ Cardinality(four) = 4
      BY <3>2, FS_AddElement
    <3>4. "terminal" \notin four /\ kinds = four \cup {"terminal"}
      OBVIOUS
    <3> HIDE DEF four
    <3>5. IsFiniteSet(four \cup {"terminal"}) /\ Cardinality(four \cup {"terminal"}) = 5
      BY <3>3, <3>4, FS_AddElement
    <3> QED
      BY <3>4, <3>5
  <2>5. kind \in Injection(lasting, kinds)
    BY <2>2, <2>3 DEF Injection, IsInjective, Events
  <2>6. Cardinality(lasting) <= Cardinality(kinds)
    BY <2>4, <2>5, FS_Injection
  <2> QED
    BY <2>4, <2>6
<1> QED
  BY <1>1, TypeInvInit, TypeInvStep, RecordInvInit, RecordInvStep, SupervisionInvInit,
     SupervisionInvStep, HistoryInvInit, HistoryInvStep, OnceInvInit, OnceInvStep, PTL DEF Spec

\* What the durable state must say for an audit of the kind about the subject.
Backed(kind, subject) ==
  CASE kind = "launch" -> run[subject].status # "absent"
    [] kind = "cancel" -> run[subject].cancel
    [] kind = "outcome" -> run[subject].outcome # "none"
    [] kind = "recovery" -> Has(run[subject], "recovery")
    [] kind = "interruption" -> run[subject].outcome = "interrupted"
    [] kind = "cancelReconciliation" -> run[subject].outcome = "cancelled_reconciled"
    [] kind = "recover" -> recovers[subject].state \in {"result", "failure"}

\* The audits, and those a committed outcome waits for.
AwaitedAudits == {<<"outcome", r>> : r \in {q \in Runs : sup[q].stage = "audit"}}

\* An audit identity names a kind and a run or a recovery request.
LEMMA AuditIdForm ==
  ASSUME NEW audit \in AuditIds
  PROVE  /\ audit = <<audit[1], audit[2]>>
         /\ \/ /\ audit[2] \in Runs
               /\ audit[1] \in {"launch", "cancel", "outcome", "recovery", "interruption",
                                "cancelReconciliation"}
            \/ audit[1] = "recover" /\ audit[2] \in RecoverKeys
BY DEF AuditIds

\* Only what the state called for before the step, or an outcome it had committed, is published.
LEMMA AuditSteps ==
  ASSUME TypeInv, [Next]_vars
  PROVE  /\ audits \subseteq audits'
         /\ audits' \subseteq audits \cup RequiredAudits \cup AwaitedAudits
<1>1. CASE audits' = audits \/ ReadState
  BY <1>1 DEF ReadState
<1>2. ASSUME NEW q \in Runs, OutcomeAudit(q)
      PROVE  audits \subseteq audits' /\ audits' \subseteq audits \cup AwaitedAudits
  BY <1>2 DEF OutcomeAudit, AwaitedAudits
<1>3. \/ audits' = audits \/ ReadState
      \/ \E q \in Runs : OutcomeAudit(q)
  <2>1. ASSUME NEW q \in Runs, Supervises(q)
        PROVE  audits' = audits \/ ReadState \/ OutcomeAudit(q)
    BY <2>1, Zenon DEF Supervises, StartNext, SupStartOk, SupStartStillborn, SupStartFail,
       SupStartFailSpawned, FrameNext, FrameReady, FrameProgress, FrameInvalid, ChannelClose,
       FrameTerminal, SettleNext, PublishReady, PublishProgress, Complete, Drain, Flush, Commit,
       AwaitCancel, Release, SignalNext, CoopSignal, PublishCoop, Escalate, PublishForced,
       Settle, PublishConfirmed, ProcessNext, RootExits, KidsExit, KillLands,
       GuardDrain, CallbackThrows, SettlementThrows, PublicationThrows
  <2>2. LaunchNext \/ CancelNext => audits' = audits \/ ReadState
    BY Zenon DEF LaunchNext, LaunchPublish, LaunchExisting, LaunchReject, LaunchCommit,
       CancelNext, CancelArm, CancelPublish, CancelExisting, CancelReject, CancelCommit
  <2>3. RecoverNext => audits' = audits \/ ReadState
    BY Zenon DEF RecoverNext, RecoverAct, RecoverCommit, RecoverPublish, RecoverExisting,
       RecoverReject, RecoverIntent
  <2>4. BootNext \/ Crash \/ OperationThrows \/ Observe \/ UNCHANGED vars =>
          audits' = audits \/ ReadState
    BY Zenon DEF BootNext, BootReconcile, BootPublish, BootDone, BootIntent, Crash,
       OperationThrows, Observe, vars
  <2> QED
    BY <2>1, <2>2, <2>3, <2>4, Zenon DEF Next, FaultNext, Supervises
<1> QED
  BY <1>1, <1>2, <1>3

\* A recovery request that was answered stays answered.
LEMMA AnswersStay ==
  ASSUME TypeInv, SupervisionInv, [Next]_vars, NEW k \in RecoverKeys,
         recovers[k].state \in {"result", "failure"}
  PROVE  recovers'[k] = recovers[k]
<1>1. ASSUME NEW q \in Runs, Supervises(q)
      PROVE  recovers' = recovers
  BY <1>1, SupervisesRuns
<1>2. ASSUME NEW j \in RecoverKeys, NEW m, recovers' = [recovers EXCEPT ![j] = m], j # k
      PROVE  recovers'[k] = recovers[k]
  BY <1>2, Zenon DEF TypeInv, TypeOK
<1>3. CASE RecoverNext
  <2>1. ASSUME NEW j \in RecoverKeys, RecoverCommit(j)
        PROVE  recovers'[k] = recovers[k]
    <3>1. j # k
      BY <2>1 DEF RecoverCommit, TypeInv, KeyInv
    <3>2. \E m : recovers' = [recovers EXCEPT ![j] = m]
      BY <2>1, Zenon DEF RecoverCommit
    <3> QED
      BY <1>2, <3>1, <3>2
  <2>2. ASSUME NEW j \in RecoverKeys, NEW r \in Runs, NEW a \in RecoveryActions,
               RecoverReject(j, r, a) \/ RecoverIntent(j, r, a)
        PROVE  recovers'[k] = recovers[k]
    <3>1. j # k
      BY <2>2 DEF RecoverReject, RecoverIntent
    <3>2. \E m : recovers' = [recovers EXCEPT ![j] = m]
      BY <2>2, Zenon DEF RecoverReject, RecoverIntent
    <3> QED
      BY <1>2, <3>1, <3>2
  <2>3. ASSUME NEW j \in RecoverKeys, NEW r, NEW a,
               RecoverAct(j) \/ RecoverPublish(j) \/ RecoverExisting(j, r, a)
        PROVE  recovers' = recovers
    BY <2>3, Zenon DEF RecoverAct, RecoverPublish, RecoverExisting, durable
  <2> QED
    BY <1>3, <2>1, <2>2, <2>3 DEF RecoverNext
<1>4. LaunchNext \/ CancelNext => recovers' = recovers
  BY Zenon DEF LaunchNext, LaunchPublish, LaunchExisting, LaunchReject, LaunchCommit,
     CancelNext, CancelArm, CancelPublish, CancelExisting, CancelReject, CancelCommit, durable
<1>5. BootNext \/ Crash \/ OperationThrows \/ Observe \/ UNCHANGED vars => recovers' = recovers
  BY Zenon DEF BootNext, BootReconcile, BootPublish, BootDone, BootIntent, Crash,
     OperationThrows, Observe, vars, durable
<1> QED
  BY <1>1, <1>3, <1>4, <1>5 DEF Next, FaultNext, Supervises

\* What an audit is backed by is never taken back.
LEMMA BackingStays ==
  ASSUME TypeInv, TypeInv', RecordInv, SupervisionInv, HistoryInv, [Next]_vars,
         NEW audit \in AuditIds, Backed(audit[1], audit[2])
  PROVE  Backed(audit[1], audit[2])'
<1> DEFINE kind == audit[1]
           subject == audit[2]
<1>1. CASE kind = "recover" /\ subject \in RecoverKeys
  <2>1. recovers[subject].state \in {"result", "failure"}
    BY <1>1 DEF Backed
  <2>2. recovers'[subject].state \in {"result", "failure"}
    BY <1>1, <2>1, AnswersStay
  <2> QED
    BY <1>1, <2>2 DEF Backed
<1>2. ASSUME NEW r \in Runs, r = subject,
             kind \in {"launch", "cancel", "outcome", "recovery", "interruption",
                       "cancelReconciliation"}
      PROVE  Backed(kind, subject)'
  <2>1. /\ run[r].status # "absent" => run'[r].status # "absent"
        /\ run[r].cancel => run'[r].cancel
        /\ run[r].outcome # "none" => run'[r] = run[r]
        /\ Has(run[r], "recovery") => Has(run'[r], "recovery")
    BY RunMoves, Frozen, ShapedStep
  <2>2. /\ kind = "launch" => run[r].status # "absent"
        /\ kind = "cancel" => run[r].cancel
        /\ kind = "outcome" => run[r].outcome # "none"
        /\ kind = "recovery" => Has(run[r], "recovery")
        /\ kind = "interruption" => run[r].outcome = "interrupted"
        /\ kind = "cancelReconciliation" => run[r].outcome = "cancelled_reconciled"
    BY <1>2 DEF Backed
  <2>3. /\ kind = "launch" => run'[r].status # "absent"
        /\ kind = "cancel" => run'[r].cancel
        /\ kind = "outcome" => run'[r].outcome # "none"
        /\ kind = "recovery" => Has(run'[r], "recovery")
        /\ kind = "interruption" => run'[r].outcome = "interrupted"
        /\ kind = "cancelReconciliation" => run'[r].outcome = "cancelled_reconciled"
    BY <2>1, <2>2
  <2> QED
    BY <1>2, <2>3 DEF Backed
<1> QED
  BY <1>1, <1>2, AuditIdForm

\* What the state calls for, it backs.
LEMMA RequiredBacked ==
  ASSUME TypeInv, SupervisionInv, HistoryInv, NEW audit \in RequiredAudits \cup AwaitedAudits
  PROVE  audit \in AuditIds /\ Backed(audit[1], audit[2])
<1>1. \A r \in Runs : /\ sup[r].stage = "audit" => run[r].outcome # "none"
                      /\ run[r].status = "recovery_required" => Has(run[r], "recovery")
  BY DEF SupervisionInv, Supervised, Accounted, HistoryInv, Shaped
<1>2. CASE audit \in AwaitedAudits
  <2>1. PICK r \in Runs : sup[r].stage = "audit" /\ audit = <<"outcome", r>>
    BY <1>2 DEF AwaitedAudits
  <2> QED
    BY <1>1, <2>1 DEF Backed, AuditIds
<1>3. CASE audit \in RequiredAudits
  <2>1. audit \in AuditIds
    BY <1>3, AuditsType
  <2>2. \/ audit[1] = "launch" /\ run[audit[2]].status # "absent"
        \/ audit[1] = "cancel" /\ run[audit[2]].cancel
        \/ audit[1] = "outcome" /\ run[audit[2]].outcome # "none"
        \/ audit[1] = "recovery" /\ audit[2] \in Runs /\ run[audit[2]].status = "recovery_required"
        \/ audit[1] = "interruption" /\ run[audit[2]].outcome = "interrupted"
        \/ audit[1] = "cancelReconciliation" /\ run[audit[2]].outcome = "cancelled_reconciled"
        \/ audit[1] = "recover" /\ audit[2] \in Responded
    BY <1>3 DEF RequiredAudits
  <2> QED
    BY <1>1, <2>1, <2>2 DEF Backed, Responded
<1> QED
  BY <1>2, <1>3

\* AuditFollowsState for any number of requests, crashes and refused writes: the audit log
\* never speaks of a launch, a cancellation, an outcome or a recovery that is not durable.
THEOREM AuditsAreBacked == Spec => []AuditFollowsState
<1>1. AuditFollowsState <=> \A audit \in audits : Backed(audit[1], audit[2])
  <2>1. \A r : Position(r, "recovery") # {} <=> Has(run[r], "recovery")
    BY DEF Position, Has
  <2> QED
    BY <2>1 DEF AuditFollowsState, Backed
<1>2. Init => AuditFollowsState
  BY DEF Init, AuditFollowsState
<1>3. TypeInv /\ TypeInv' /\ RecordInv /\ SupervisionInv /\ HistoryInv /\ AuditFollowsState
        /\ [Next]_vars => AuditFollowsState'
  <2> SUFFICES ASSUME TypeInv, TypeInv', RecordInv, SupervisionInv, HistoryInv,
                      \A audit \in audits : Backed(audit[1], audit[2]),
                      [Next]_vars
               PROVE  \A audit \in audits' : Backed(audit[1], audit[2])'
    <3>1. AuditFollowsState' <=> \A audit \in audits' : Backed(audit[1], audit[2])'
      <4>1. \A r : Position(r, "recovery")' # {} <=> Has(run'[r], "recovery")
        BY DEF Position, Has
      <4> QED
        BY <4>1 DEF AuditFollowsState, Backed
    <3> QED
      BY <1>1, <3>1
  <2> TAKE audit \in audits'
  <2>1. audit \in AuditIds /\ Backed(audit[1], audit[2])
    BY AuditSteps, RequiredBacked DEF TypeInv, TypeOK
  <2> QED
    BY <2>1, BackingStays
<1> QED
  BY <1>2, <1>3, TypeInvInit, TypeInvStep, RecordInvInit, RecordInvStep, SupervisionInvInit,
     SupervisionInvStep, HistoryInvInit, HistoryInvStep, PTL DEF Spec

\* A recovery that is required ends with the recovery commit, and nowhere else.
LEMMA RecoveryEnds ==
  ASSUME TypeInv, SupervisionInv, [Next]_vars, NEW r \in Runs, Recoverable(r)
  PROVE  run'[r] = run[r] \/ \E k \in RecoverKeys : RecoverCommit(k)
<1>1. ASSUME NEW q \in Runs, Supervises(q)
      PROVE  run'[r] = run[r]
  <2>1. CASE q = r
    <3>1. sup[r].stage = "none"
      BY DEF SupervisionInv, Supervised, Accounted, Recoverable
    <3> QED
      BY <1>1, <2>1, <3>1, SupervisesRuns
  <2>2. CASE q # r
    BY <1>1, <2>2, OwnSteps DEF Supervises, Others
  <2> QED
    BY <2>1, <2>2
<1>2. ASSUME NEW q, q # r, NEW next, run' = [run EXCEPT ![q] = next]
      PROVE  run'[r] = run[r]
  BY <1>2, Zenon DEF TypeInv, TypeOK
<1>3. ASSUME NEW k \in LaunchKeys, NEW p \in Params, NEW q \in Runs, LaunchCommit(k, p, q)
      PROVE  run'[r] = run[r]
  <2>1. q # r
    BY <1>3 DEF LaunchCommit, Recoverable
  <2> QED
    BY <1>2, <1>3, <2>1, Zenon DEF LaunchCommit
<1>4. ASSUME NEW k \in CancelKeys, NEW q \in Runs, CancelCommit(k, q)
      PROVE  run'[r] = run[r]
  <2>1. q # r
    BY <1>4 DEF CancelCommit, Cancellable, Recoverable
  <2> QED
    BY <1>2, <1>4, <2>1, Zenon DEF CancelCommit
<1>5. CASE BootReconcile
  <2>1. \E insp : run'[r] = Reconciled(run[r], insp)
    BY <1>5, Zenon DEF BootReconcile
  <2> QED
    BY <2>1 DEF Reconciled, Active, Recoverable
<1>6. \/ run' = run \/ BootReconcile
      \/ \E k \in LaunchKeys, p \in Params, q \in Runs : LaunchCommit(k, p, q)
      \/ \E k \in CancelKeys, q \in Runs : CancelCommit(k, q)
      \/ \E k \in RecoverKeys : RecoverCommit(k)
      \/ \E q \in Runs : Supervises(q)
  BY Zenon DEF Next, vars, Observe, LaunchNext, LaunchPublish, LaunchExisting, LaunchReject,
     CancelNext, CancelArm, CancelPublish, CancelExisting, CancelReject, RecoverNext,
     RecoverAct, RecoverPublish, RecoverExisting, RecoverReject, RecoverIntent, BootNext,
     BootPublish, BootDone, BootIntent, Crash, FaultNext, OperationThrows, Supervises, durable
<1> QED
  BY <1>1, <1>3, <1>4, <1>5, <1>6

\* Where the lock is free, or held by a recovery that has not committed, nothing is owed but
\* the audit of an outcome just committed; the lock is only held by a Host that is there; and
\* a detection that recovery erased from the state had been audited before.
CaughtInv ==
  /\ host \in {"intents", "up"} /\ lock.op \in {"free", "recover", "acted"} =>
       RequiredAudits \subseteq audits \cup AwaitedAudits
  /\ lock.op # "free" => host \in {"intents", "up"}
  /\ \A r \in Runs : Has(run[r], "recovery") =>
       <<"recovery", r>> \in audits \/ run[r].status = "recovery_required"

\* Whoever waits for its outcome audit waits until it is published.
LEMMA AwaitedStays ==
  ASSUME TypeInv, ~IoFaults, NEW q \in Runs, Supervises(q)
  PROVE  AwaitedAudits \subseteq AwaitedAudits' \cup audits'
<1>1. /\ sup[q] \in SupRecord
      /\ \A r \in Runs \ {q} : sup'[r] = sup[r]
  BY OwnSteps DEF TypeInv, TypeOK, Supervises, Others
<1>2. ASSUME sup[q].stage = "audit"
      PROVE  sup'[q].stage = "audit" \/ <<"outcome", q>> \in audits'
  <2>1. CASE OutcomeAudit(q)
    BY <2>1 DEF OutcomeAudit
  <2>2. CASE SignalNext(q)
    <3>1. \/ \E x : sup'[q] = [sup[q] EXCEPT !.co = x]
          \/ \E x : sup'[q] = [sup[q] EXCEPT !.esc = x]
          \/ sup'[q] = [sup[q] EXCEPT !.co = "confirm", !.esc = "done"]
      <4>1. CASE CoopSignal(q) \/ PublishCoop(q) \/ PublishConfirmed(q)
        BY <4>1, Zenon DEF TypeInv, TypeOK, CoopSignal, PublishCoop, PublishConfirmed
      <4>2. CASE Escalate(q) \/ PublishForced(q)
        BY <4>2, Zenon DEF TypeInv, TypeOK, Escalate, PublishForced
      <4>3. CASE Settle(q)
        BY <4>3, Zenon DEF TypeInv, TypeOK, Settle
      <4> QED
        BY <2>2, <4>1, <4>2, <4>3 DEF SignalNext
    <3> QED
      BY <1>1, <1>2, <3>1 DEF SupRecord
  <2>3. CASE ProcessNext(q)
    BY <1>2, <2>3 DEF ProcessNext, RootExits, KidsExit, KillLands, GuardDrain
  <2>4. ~StartNext(q) /\ ~FrameNext(q)
    BY <1>2 DEF StartNext, SupStartOk, SupStartStillborn, SupStartFail, SupStartFailSpawned,
       FrameNext, FrameReady, FrameProgress, FrameInvalid, ChannelClose, FrameTerminal, Consuming
  <2>5. SettleNext(q) => OutcomeAudit(q)
    BY <1>2 DEF SettleNext, PublishReady, PublishProgress, Complete, Drain, Flush, Commit,
       AwaitCancel, Release
  <2>6. ~CallbackThrows(q) /\ ~SettlementThrows(q) /\ ~PublicationThrows(q)
    BY DEF CallbackThrows, SettlementThrows, PublicationThrows
  <2> QED
    BY <2>1, <2>2, <2>3, <2>4, <2>5, <2>6 DEF Supervises
<1> QED
  BY <1>1, <1>2 DEF AwaitedAudits

\* A supervision makes nothing due on its run but the outcome it commits, whose audit it
\* then waits to publish.
LEMMA SupervisionDues ==
  ASSUME TypeInv, SupervisionInv, ~IoFaults, [Next]_vars, NEW q \in Runs, Supervises(q)
  PROVE  \/ run'[q] = run[q]
         \/ /\ run[q].status # "absent"
            /\ run'[q].cancel = run[q].cancel
            /\ run'[q].status # "recovery_required"
            /\ \/ run'[q].outcome = run[q].outcome
               \/ /\ run'[q].outcome \notin {"interrupted", "cancelled_reconciled"}
                  /\ sup'[q].stage = "audit"
<1> DEFINE rr == run[q]
           next == run'[q]
           s == sup[q]
<1>1. rr \in RunRecord /\ s \in SupRecord /\ Supervised(q)
  BY DEF TypeInv, TypeOK, SupervisionInv
<1>2. CASE Commit(q) /\ CommitCancelled(q)
  <2> DEFINE complete == ValidTerminal(s) /\ s.term = "cancelled" /\ ~rr.forced
             how == IF rr.confirmed # "no" THEN rr.confirmed
                    ELSE IF s.captured = "yes" THEN "tree"
                    ELSE IF s.captured = "no" THEN "no"
                    ELSE "nostart"
  <2>1. /\ s.stage = "commit"
        /\ next = [Ended(rr, "cancelled", complete) EXCEPT !.confirmed = how]
        /\ sup'[q] = [s EXCEPT !.stage = "audit"]
    BY <1>2, Zenon DEF TypeInv, TypeOK, Commit, CommitCancelled
  <2>2. /\ next.status = OutcomeStatus("cancelled") /\ next.outcome = "cancelled"
        /\ next.cancel = rr.cancel
    BY <1>1, <2>1, Zenon DEF Ended, Recorded, RunRecord
  <2>3. sup'[q].stage = "audit"
    BY <1>1, <2>1 DEF SupRecord
  <2> QED
    BY <1>1, <2>1, <2>2, <2>3 DEF OutcomeStatus, Supervised, Accounted
<1>3. CASE Commit(q) /\ CommitUncancelled(q)
  <2>1. /\ s.stage = "commit"
        /\ next = Ended(rr, OutcomeCode(s), ValidTerminal(s))
        /\ sup'[q] = [s EXCEPT !.stage = "audit"]
    BY <1>3, Zenon DEF TypeInv, TypeOK, Commit, CommitUncancelled
  <2>2. /\ next.status = OutcomeStatus(OutcomeCode(s)) /\ next.outcome = OutcomeCode(s)
        /\ next.cancel = rr.cancel
    BY <1>1, <2>1, EndedFields
  <2>3. sup'[q].stage = "audit"
    BY <1>1, <2>1 DEF SupRecord
  <2>4. OutcomeCode(s) \notin {"interrupted", "cancelled_reconciled"}
    BY <1>1 DEF OutcomeCode, StartFailed, ValidTerminal, Envelopes
  <2> QED
    BY <1>1, <2>1, <2>2, <2>3, <2>4 DEF OutcomeStatus, Supervised, Accounted
<1>4. CASE PublishReady(q) \/ PublishProgress(q) \/ Flush(q)
  <2>1. s.stage # "none" /\ (next = Ready(rr) \/ next = rr \/ \E n : next = WithProgress(rr, n))
    BY <1>4, Zenon DEF TypeInv, TypeOK, PublishReady, PublishProgress, Flush
  <2>2. rr.status \notin {"absent", "recovery_required"}
    BY <1>1, <2>1 DEF Supervised, Accounted
  <2> QED
    BY <1>1, <2>1, <2>2, FramesFields
<1>5. CASE PublishCoop(q) \/ PublishForced(q) \/ PublishConfirmed(q)
  <2>1. next = ConfirmedByTree(rr) \/ \E field : next = SignalField(rr, field)
    BY <1>5, Zenon DEF TypeInv, TypeOK, PublishCoop, PublishForced, PublishConfirmed
  <2>2. s.stage # "none"
    BY <1>1, <1>5 DEF PublishCoop, PublishForced, PublishConfirmed, Supervised, Ordered, Resting
  <2>3. rr.status \notin {"absent", "recovery_required"}
    BY <1>1, <2>2 DEF Supervised, Accounted
  <2> QED
    BY <1>1, <2>1, <2>3, SignalFields, ConfirmedFields
<1>6. \/ run' = run
      \/ PublishReady(q) \/ PublishProgress(q) \/ Flush(q) \/ Commit(q)
      \/ PublishCoop(q) \/ PublishForced(q) \/ PublishConfirmed(q)
  BY Zenon DEF Supervises, StartNext, SupStartOk, SupStartStillborn, SupStartFail,
     SupStartFailSpawned, FrameNext, FrameReady, FrameProgress, FrameInvalid, ChannelClose,
     FrameTerminal, SettleNext, Complete, Drain, AwaitCancel, OutcomeAudit, Release,
     SignalNext, CoopSignal, Escalate, Settle, ProcessNext, RootExits, KidsExit, KillLands,
     GuardDrain, CallbackThrows, SettlementThrows, PublicationThrows, durable
<1>7. Commit(q) => run' = run \/ CommitCancelled(q) \/ CommitUncancelled(q)
  BY Zenon DEF Commit, CommitAwaits, CommitGivesUp
<1> QED
  BY <1>2, <1>3, <1>4, <1>5, <1>6, <1>7

\* A supervision makes nothing due that it does not publish at once, or wait to publish.
LEMMA SupervisionOwes ==
  ASSUME TypeInv, SupervisionInv, [Next]_vars, ~IoFaults,
         NEW q \in Runs, Supervises(q), RequiredAudits \subseteq audits \cup AwaitedAudits
  PROVE  RequiredAudits' \subseteq audits' \cup AwaitedAudits'
<1>1. /\ UNCHANGED recovers /\ \A r \in Runs \ {q} : run'[r] = run[r]
      /\ AwaitedAudits \subseteq AwaitedAudits' \cup audits'
      /\ audits \subseteq audits'
  BY AwaitedStays, AuditSteps, SupervisesRuns, OwnSteps DEF Supervises, Others
<1>2. RequiredAudits \subseteq audits' \cup AwaitedAudits'
  BY <1>1
<1>3. Responded' = Responded
  BY <1>1 DEF Responded
<1> SUFFICES ASSUME NEW audit \in RequiredAudits' PROVE audit \in RequiredAudits \cup AwaitedAudits'
  BY <1>2
<1>4. CASE run'[q] = run[q]
  <2>1. \A r \in Runs : run'[r] = run[r]
    BY <1>1, <1>4
  <2> QED
    BY <1>3, <2>1 DEF RequiredAudits
<1>5. CASE run'[q] # run[q]
  <2>1. ASSUME NEW kind, NEW r \in Runs, r # q, audit = <<kind, r>>, kind # "recover"
        PROVE  audit \in RequiredAudits
    BY <1>1, <2>1 DEF RequiredAudits
  <2>2. ASSUME NEW kind, audit = <<kind, q>>, kind # "recover"
        PROVE  audit \in RequiredAudits \cup AwaitedAudits'
    <3>1. /\ run[q].status # "absent"
          /\ run'[q].cancel = run[q].cancel
          /\ run'[q].status # "recovery_required"
          /\ \/ run'[q].outcome = run[q].outcome
             \/ /\ run'[q].outcome \notin {"interrupted", "cancelled_reconciled"}
                /\ sup'[q].stage = "audit"
      BY <1>5, SupervisionDues
    <3>2. sup'[q].stage = "audit" => <<"outcome", q>> \in AwaitedAudits'
      BY DEF AwaitedAudits
    <3> QED
      BY <2>2, <3>1, <3>2 DEF RequiredAudits
  <2>3. \/ \E kind, r : r \in Runs /\ kind # "recover" /\ audit = <<kind, r>>
        \/ audit \in {"recover"} \X Responded
    BY <1>3 DEF RequiredAudits
  <2> QED
    BY <2>1, <2>2, <2>3 DEF RequiredAudits
<1> QED
  BY <1>4, <1>5

\* The Host has its records open, and nobody has committed what it has yet to publish.
Settled == host \in {"intents", "up"} /\ lock.op \in {"free", "recover", "acted"}

\* The answers of the recovery operation change with its commit or its rejection alone.
LEMMA RespondedStays ==
  ASSUME TypeInv, NEW k \in RecoverKeys, NEW r \in Runs, NEW a \in RecoveryActions, RecoverIntent(k, r, a)
  PROVE  Responded' = Responded
<1>1. /\ recovers[k].state = "none"
      /\ recovers' = [recovers EXCEPT ![k] = [state |-> "pending", run |-> r, action |-> a,
                                               settled |-> FALSE]]
  BY DEF RecoverIntent
<1>2. recovers'[k].state = "pending" /\ \A j \in RecoverKeys \ {k} : recovers'[j] = recovers[j]
  BY <1>1 DEF TypeInv, TypeOK
<1> QED
  BY <1>1, <1>2 DEF Responded

\* A step publishes all that is due, leaves the records to whoever holds the lock, touches
\* no record, or supervises a run.
LEMMA PublishingSteps ==
  ASSUME TypeInv, ~IoFaults, [Next]_vars
  PROVE  \/ ReadState /\ run' = run /\ Responded' = Responded
         \/ ~Settled'
         \/ UNCHANGED <<run, recovers, audits, sup>> /\ (Settled' => Settled)
         \/ \E q \in Runs : Supervises(q)
<1>1. ASSUME NEW k \in LaunchKeys,
             LaunchPublish(k) \/ \E p \in Params : LaunchExisting(k, p) \/ LaunchReject(k, p)
      PROVE  ReadState /\ UNCHANGED <<run, recovers>>
  BY <1>1, Zenon DEF LaunchPublish, LaunchExisting, LaunchReject, durable
<1>2. ASSUME NEW k \in CancelKeys,
             CancelPublish(k) \/ \E r \in Runs : CancelExisting(k, r) \/ CancelReject(k, r)
      PROVE  ReadState /\ UNCHANGED <<run, recovers>>
  BY <1>2, Zenon DEF CancelPublish, CancelExisting, CancelReject, durable
<1>3. ASSUME NEW k \in RecoverKeys,
             \/ RecoverPublish(k)
             \/ \E r \in Runs, a \in RecoveryActions : RecoverExisting(k, r, a)
      PROVE  ReadState /\ UNCHANGED <<run, recovers>>
  BY <1>3, Zenon DEF RecoverPublish, RecoverExisting, durable
<1>4. ASSUME NEW k \in RecoverKeys, NEW r \in Runs, NEW a \in RecoveryActions, RecoverIntent(k, r, a)
      PROVE  ReadState /\ run' = run /\ Responded' = Responded
  BY <1>4, RespondedStays DEF RecoverIntent
<1>5. BootPublish \/ Observe => ReadState /\ UNCHANGED <<run, recovers>>
  BY Zenon DEF BootPublish, Observe, durable
<1>6. \/ \E k \in LaunchKeys, p \in Params, r \in Runs : LaunchCommit(k, p, r)
      \/ \E k \in CancelKeys, r \in Runs : CancelCommit(k, r)
      \/ \E k \in CancelKeys : CancelArm(k)
      \/ \E k \in RecoverKeys, r \in Runs, a \in RecoveryActions : RecoverReject(k, r, a)
      \/ \E k \in RecoverKeys : RecoverCommit(k)
      \/ BootReconcile \/ Crash
      => ~Settled'
  <2>1. \/ \E k \in LaunchKeys, p \in Params, r \in Runs : LaunchCommit(k, p, r)
        \/ \E k \in CancelKeys, r \in Runs : CancelCommit(k, r)
        \/ \E k \in CancelKeys : CancelArm(k)
        \/ \E k \in RecoverKeys, r \in Runs, a \in RecoveryActions : RecoverReject(k, r, a)
        \/ \E k \in RecoverKeys : RecoverCommit(k)
        \/ BootReconcile \/ Crash
        => \/ \E k : lock' \in {Held("launch", k), Held("arm", k), Held("cancel", k), Held("recovered", k)}
           \/ host' \in {"reconciled", "down"}
    BY Zenon DEF LaunchCommit, CancelCommit, CancelArm, RecoverReject, RecoverCommit,
       BootReconcile, Crash
  <2> QED
    BY <2>1 DEF Settled, Held
<1>7. (\E k \in RecoverKeys : RecoverAct(k) \/ BootIntent(k)) \/ BootDone \/ UNCHANGED vars
      => UNCHANGED <<run, recovers, audits, sup>> /\ (Settled' => Settled)
  <2>1. ASSUME NEW k \in RecoverKeys, RecoverAct(k)
        PROVE  UNCHANGED <<run, recovers, audits, sup, host>> /\ lock = Held("recover", k)
    BY <2>1, Zenon DEF RecoverAct, durable
  <2>2. ASSUME NEW k \in RecoverKeys, BootIntent(k)
        PROVE  UNCHANGED <<run, recovers, audits, sup, host>> /\ lock = NoLock
    BY <2>2, Zenon DEF BootIntent, durable
  <2>3. BootDone => UNCHANGED <<run, recovers, audits, sup, lock>> /\ host = "intents"
    BY Zenon DEF BootDone, durable
  <2>4. UNCHANGED vars => UNCHANGED <<run, recovers, audits, sup, lock, host>>
    BY Zenon DEF vars, durable
  <2> QED
    BY <2>1, <2>2, <2>3, <2>4 DEF Settled, Held, NoLock
<1>8. UNCHANGED recovers => Responded' = Responded
  BY DEF Responded
<1> QED
  BY <1>1, <1>2, <1>3, <1>4, <1>5, <1>6, <1>7, <1>8
     DEF Next, LaunchNext, CancelNext, RecoverNext, BootNext, FaultNext, Supervises, OperationThrows

\* The lock is only held while the Host is there.
LEMMA LockIsLive ==
  ASSUME TypeInv, CaughtInv, [Next]_vars
  PROVE  lock'.op # "free" => host' \in {"intents", "up"}
<1>1. ASSUME NEW q \in Runs, Supervises(q)
      PROVE  UNCHANGED <<host, lock>>
  BY <1>1, Zenon DEF Supervises, StartNext, SupStartOk, SupStartStillborn, SupStartFail,
     SupStartFailSpawned, FrameNext, FrameReady, FrameProgress, FrameInvalid, ChannelClose,
     FrameTerminal, SettleNext, PublishReady, PublishProgress, Complete, Drain, Flush, Commit,
     AwaitCancel, OutcomeAudit, Release, SignalNext, CoopSignal, PublishCoop, Escalate,
     PublishForced, Settle, PublishConfirmed, ProcessNext, RootExits, KidsExit, KillLands,
     GuardDrain, CallbackThrows, SettlementThrows, PublicationThrows
<1>2. ASSUME LaunchNext \/ CancelNext \/ RecoverNext
      PROVE  host' = host /\ (host = "up" \/ lock.op # "free")
  <2>1. host' = host /\ (host = "up" \/ lock.op # "free" \/ \E op \in LockOps \ {"free"} : \E k : lock = Held(op, k))
    <3>1. LaunchNext => host' = host /\ (host = "up" \/ \E k : lock = Held("launch", k))
      BY Zenon DEF LaunchNext, LaunchPublish, LaunchExisting, LaunchReject, LaunchCommit, Unlocked
    <3>2. CancelNext => host' = host /\ (host = "up" \/ \E k : lock = Held("arm", k) \/ lock = Held("cancel", k))
      BY Zenon DEF CancelNext, CancelArm, CancelPublish, CancelExisting, CancelReject,
         CancelCommit, Unlocked
    <3>3. RecoverNext => host' = host /\ (\/ host = "up" \/ lock.op = "acted"
                                          \/ \E k : lock = Held("recover", k) \/ lock = Held("recovered", k))
      BY Zenon DEF RecoverNext, RecoverAct, RecoverCommit, RecoverPublish, RecoverExisting,
         RecoverReject, RecoverIntent, Unlocked
    <3> QED
      BY <1>2, <3>1, <3>2, <3>3 DEF LockOps
  <2> QED
    BY <2>1 DEF Held
<1>4. BootNext \/ Crash \/ OperationThrows =>
        \/ lock'.op = "free"
        \/ host' \in {"intents", "up"}
        \/ UNCHANGED lock /\ host \notin {"intents", "up"}
  BY DEF BootNext, BootReconcile, BootPublish, BootDone, BootIntent, Crash, OperationThrows,
     NoLock, CaughtInv
<1>5. Observe \/ UNCHANGED vars => UNCHANGED <<host, lock>>
  BY DEF Observe, vars
<1> QED
  BY <1>1, <1>2, <1>4, <1>5 DEF Next, FaultNext, Supervises, CaughtInv

\* Audits stay caught up over every step.
LEMMA CaughtStep ==
  ASSUME TypeInv, TypeInv', RecordInv, SupervisionInv, HistoryInv, CaughtInv, ~IoFaults,
         [Next]_vars
  PROVE  CaughtInv'
<1>1. audits \subseteq audits'
  BY AuditSteps
<1>2. Settled => RequiredAudits \subseteq audits \cup AwaitedAudits
  BY DEF CaughtInv, Settled
<1>3. Settled' => RequiredAudits' \subseteq audits' \cup AwaitedAudits'
  <2>1. CASE ReadState /\ run' = run /\ Responded' = Responded
    BY <2>1 DEF ReadState, RequiredAudits
  <2>2. CASE UNCHANGED <<run, recovers, audits, sup>> /\ (Settled' => Settled)
    BY <1>2, <2>2 DEF RequiredAudits, Responded, AwaitedAudits
  <2>3. ASSUME NEW q \in Runs, Supervises(q), Settled'
        PROVE  RequiredAudits' \subseteq audits' \cup AwaitedAudits'
    <3>1. Settled
      BY <2>3, SupervisesRuns DEF Settled
    <3> QED
      BY <1>2, <2>3, <3>1, SupervisionOwes
  <2> QED
    BY <2>1, <2>2, <2>3, PublishingSteps
<1>4. ASSUME NEW r \in Runs, Has(run'[r], "recovery"), run'[r].status # "recovery_required"
      PROVE  <<"recovery", r>> \in audits'
  <2>1. Has(run[r], "recovery")
    BY <1>4, ShapedStep
  <2>2. CASE <<"recovery", r>> \in audits
    BY <1>1, <2>2
  <2>3. CASE run[r].status = "recovery_required"
    <3>1. PICK k \in RecoverKeys : RecoverCommit(k)
      BY <1>4, <2>3, RecoveryEnds DEF Recoverable
    <3>2. Settled
      BY <3>1 DEF RecoverCommit, CaughtInv, Settled
    <3>3. <<"recovery", r>> \in RequiredAudits /\ <<"recovery", r>> \notin AwaitedAudits
      BY <2>3 DEF RequiredAudits, AwaitedAudits
    <3> QED
      BY <1>1, <1>2, <3>2, <3>3
  <2> QED
    BY <2>1, <2>2, <2>3 DEF CaughtInv
<1> QED
  BY <1>3, <1>4, LockIsLive DEF CaughtInv, Settled

\* AuditsCaughtUp where every write succeeds: whenever the Host serves and no operation holds
\* the lock, all that the records say is audited, but for outcomes whose audit is about to
\* be published.
THEOREM AuditsCatchUp == ~IoFaults => (Spec => []AuditsCaughtUp)
<1> SUFFICES ASSUME ~IoFaults PROVE Spec => []AuditsCaughtUp
  OBVIOUS
<1>1. Init => CaughtInv
  BY DEF Init, CaughtInv, Has, NoRun, NoLock
<1>2. CaughtInv => AuditsCaughtUp
  <2> SUFFICES ASSUME CaughtInv, Unlocked PROVE AuditsCaughtUp
    BY DEF AuditsCaughtUp
  <2>1. RequiredAudits \subseteq audits \cup AwaitedAudits
    BY DEF CaughtInv, Unlocked
  <2>2. ASSUME NEW r \in Runs, Position(r, "recovery") # {}
        PROVE  <<"recovery", r>> \in audits
    <3>1. Has(run[r], "recovery")
      BY <2>2 DEF Has, Position
    <3>2. run[r].status = "recovery_required" => <<"recovery", r>> \in RequiredAudits
      BY DEF RequiredAudits
    <3>3. <<"recovery", r>> \notin AwaitedAudits
      BY DEF AwaitedAudits
    <3> QED
      BY <2>1, <3>1, <3>2, <3>3 DEF CaughtInv
  <2> QED
    BY <2>1, <2>2 DEF AuditsCaughtUp, AwaitedAudits
<1>3. TypeInv /\ TypeInv' /\ RecordInv /\ SupervisionInv /\ HistoryInv /\ CaughtInv
        /\ [Next]_vars => CaughtInv'
  BY CaughtStep
<1> QED
  BY <1>1, <1>2, <1>3, TypeInvInit, TypeInvStep, RecordInvInit, RecordInvStep, SupervisionInvInit,
     SupervisionInvStep, HistoryInvInit, HistoryInvStep, PTL DEF Spec

=============================================================================

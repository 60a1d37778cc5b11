----------------------------- MODULE HarnessRuns -----------------------------
(***************************************************************************)
(* The Harness-run manager of the Host (src/src/harness-runs): launching,  *)
(* supervising, cancelling, recovering and reconciling Harness runs.       *)
(*                                                                         *)
(* Durable state is one JSON document (runs and retained idempotency       *)
(* outcomes) replaced atomically by persist, and an append-only audit log  *)
(* written after it.  Everything else is volatile: one mutation lock, the  *)
(* supervision of each run, the accepted-cancellation map.  The process    *)
(* tree of the adapter and its native guardian live outside the Host.      *)
(*                                                                         *)
(* A step that holds the mutation lock and ends in one persist is one      *)
(* action; what the code does after that persist, while it still holds the *)
(* lock, is a later action, so a Host crash can fall between the two.      *)
(***************************************************************************)
EXTENDS Naturals, Sequences, FiniteSets

CONSTANTS
  Runs,                 \* identities a launch may draw (random in the code)
  LaunchKeys,           \* idempotency keys of launch requests
  CancelKeys,           \* idempotency keys of cancellation requests
  RecoverKeys,          \* idempotency keys of recovery requests
  Params,               \* request fingerprints of launch requests
  None,                 \* no key, run or fingerprint
  BatchSize,            \* PROGRESS_PERSIST_BATCH_SIZE
  TerminationAvailable, \* is options.terminateConfirmedInterruptedRun wired?
  IoFaults,             \* may a state or audit write be refused?
  MaxProgress,          \* bound: progress frames an adapter sends per run
  MaxCrashes            \* bound: Host process losses

ASSUME RunsAssumption ==
  /\ None \notin Runs \cup LaunchKeys \cup CancelKeys \cup RecoverKeys \cup Params
  /\ BatchSize \in Nat \ {0}
  /\ TerminationAvailable \in BOOLEAN
  /\ IoFaults \in BOOLEAN
  /\ MaxProgress \in Nat
  /\ MaxCrashes \in Nat

VARIABLES
  \* durable: harness-runs.json and audit.jsonl
  run, launched, cancels, recovers, audits,
  \* volatile: the Host process
  host, lock, sup, accepted,
  \* the adapter process tree and its guardian
  proc,
  \* history: runs reported to the client of each launch key; crashes so far
  told, crashes

durable == <<run, launched, cancels, recovers>>
vars == <<run, launched, cancels, recovers, audits,
          host, lock, sup, accepted, proc, told, crashes>>

(***************************************************************************)
(* Values.                                                                 *)
(***************************************************************************)
\* Mutant of Active: a restart detects anew what it has already left to recovery.
ActiveOrStuck == {"starting", "running", "cancelling", "recovery_required"}

Active == {"starting", "running", "cancelling"}
Statuses ==
  Active \cup {"absent", "recovery_required", "succeeded", "failed", "cancelled"}
Envelopes == {"succeeded", "failed", "cancelled"}
Outcomes == Envelopes \cup
  {"none", "start_failed", "protocol_invalid", "incomplete",
   "interrupted", "cancelled_reconciled"}
Events == {"created", "ready", "progress", "cancel", "recovery", "terminal"}
Inspections == {"none", "unavailable", "unconfirmed", "safe", "confirmed"}
RecoveryActions == {"recheck", "terminate_confirmed_tree", "finalize"}

\* Mutant of OutcomeStatus: the outcome code taken for the status.
OutcomeStatusRaw(code) == code

\* harness_run_succeeded / failed / cancelled from the outcome code.
OutcomeStatus(code) ==
  CASE code = "succeeded" -> "succeeded"
    [] code \in {"cancelled", "cancelled_reconciled"} -> "cancelled"
    [] OTHER -> "failed"

\* confirmed abstracts terminationConfirmedAt by what vouched for it: the live
\* supervisor's tree inventory, the guardian's evidence, or the absence of a
\* supervisor.  obs is recovery.processObservation, prev recovery.previousStatus.
Vouchers == {"no", "tree", "guard", "nostart"}
Interrupted == Active \cup {"none"}
RunRecord ==
  [status: Statuses, prev: Interrupted, rev: Nat, events: Seq(Events),
   cancel: BOOLEAN, coop: BOOLEAN, forced: BOOLEAN,
   confirmed: Vouchers, obs: Inspections, outcome: Outcomes, complete: BOOLEAN]

NoRun ==
  [status |-> "absent", prev |-> "none", rev |-> 0, events |-> <<>>,
   cancel |-> FALSE, coop |-> FALSE, forced |-> FALSE,
   confirmed |-> "no", obs |-> "none", outcome |-> "none", complete |-> FALSE]

\* Supervision of one run.  stage: where supervise() is; cons: where the frame
\* consumer is; co and esc: the cancellation operation and its escalation timer;
\* captured: the cancellation result superviseHarnessAdapter returned; exit: how
\* it returned -- the adapter exited, its process never started, no supervisor
\* was ever handed out, or one of the observer's callbacks threw.
Stages == {"none", "scheduled", "live", "drain", "flush", "commit", "await",
           "audit", "release", "done"}
Consumers == {"idle", "ready", "progress", "closed"}
Terminals == Envelopes \cup {"none", "many"}
Cancellations == {"idle", "signal", "publish", "wait", "confirm", "yes", "no", "failed"}
Escalations == {"off", "armed", "publish", "done", "failed"}
Results == {"none", "yes", "no"}
Exits == {"ok", "stillborn", "unsupervised", "callbackFailed"}
SupRecord ==
  [stage: Stages, cons: Consumers, ready: BOOLEAN, term: Terminals, invalid: BOOLEAN,
   seen: Nat, pend: Nat, co: Cancellations, esc: Escalations,
   captured: Results, exit: Exits]

NoSup ==
  [stage |-> "none", cons |-> "idle", ready |-> FALSE, term |-> "none",
   invalid |-> FALSE, seen |-> 0, pend |-> 0, co |-> "idle", esc |-> "off",
   captured |-> "none", exit |-> "ok"]

\* root: the adapter itself runs; kids: only descendants are left.  guard is the
\* native guardian: watching, having lost its Host, or gone.
Trees == {"none", "root", "kids", "gone"}
Guards == {"none", "watch", "lost", "gone"}
ProcRecord == [tree: Trees, killed: BOOLEAN, guard: Guards, evidence: BOOLEAN]

NoProc == [tree |-> "none", killed |-> FALSE, guard |-> "none", evidence |-> FALSE]

Alive(r) == proc[r].tree \in {"root", "kids"}
RootExited(r) == proc[r].tree \in {"kids", "gone"}

\* Retained idempotency outcomes.  settled: the recovery response carries a
\* confirmed process observation or a terminal outcome.
Verdicts == {"none", "accepted", "rejected"}
Progressions == {"none", "pending", "result", "failure"}
LaunchOutcome == [state: Verdicts, fp: Params \cup {None}, run: Runs \cup {None}]
CancelOutcome == [state: Verdicts, run: Runs \cup {None}]
RecoverMutation == [state: Progressions, run: Runs \cup {None},
                    action: RecoveryActions \cup {"none"}, settled: BOOLEAN]

NoLaunch == [state |-> "none", fp |-> None, run |-> None]
NoCancel == [state |-> "none", run |-> None]
NoRecover == [state |-> "none", run |-> None, action |-> "none", settled |-> FALSE]

LockOps == {"free", "launch", "arm", "cancel", "recover", "acted", "recovered"}
Keys == LaunchKeys \cup CancelKeys \cup RecoverKeys \cup {None}
Lock == [op: LockOps, key: Keys, insp: Inspections]
NoLock == [op |-> "free", key |-> None, insp |-> "none"]
Held(op, key) == [op |-> op, key |-> key, insp |-> "none"]

Hosts == {"down", "reconciled", "intents", "up"}

AuditIds ==
  ({"launch", "cancel", "outcome", "recovery", "interruption", "cancelReconciliation"}
     \X Runs) \cup ({"recover"} \X RecoverKeys)

TypeOK ==
  /\ run \in [Runs -> RunRecord]
  /\ launched \in [LaunchKeys -> LaunchOutcome]
  /\ cancels \in [CancelKeys -> CancelOutcome]
  /\ recovers \in [RecoverKeys -> RecoverMutation]
  /\ audits \subseteq AuditIds
  /\ host \in Hosts
  /\ lock \in Lock
  /\ sup \in [Runs -> SupRecord]
  /\ accepted \subseteq Runs
  /\ proc \in [Runs -> ProcRecord]
  /\ told \in [LaunchKeys -> SUBSET Runs]
  /\ crashes \in Nat

Init ==
  /\ run = [r \in Runs |-> NoRun]
  /\ launched = [k \in LaunchKeys |-> NoLaunch]
  /\ cancels = [k \in CancelKeys |-> NoCancel]
  /\ recovers = [k \in RecoverKeys |-> NoRecover]
  /\ audits = {}
  /\ host = "down"
  /\ lock = NoLock
  /\ sup = [r \in Runs |-> NoSup]
  /\ accepted = {}
  /\ proc = [r \in Runs |-> NoProc]
  /\ told = [k \in LaunchKeys |-> {}]
  /\ crashes = 0

(***************************************************************************)
(* Store: the audits the durable state calls for.  readState, with which   *)
(* every locked operation starts, publishes the missing ones.              *)
(***************************************************************************)
\* Mutant of Responded: intents are audited before their action was taken.
RespondedOrPending == {k \in RecoverKeys : recovers[k].state # "none"}

Responded == {k \in RecoverKeys : recovers[k].state \in {"result", "failure"}}

RequiredAudits ==
  ({"launch"} \X {r \in Runs : run[r].status # "absent"})
  \cup ({"cancel"} \X {r \in Runs : run[r].cancel})
  \cup ({"outcome"} \X {r \in Runs : run[r].outcome # "none"})
  \cup ({"recovery"} \X {r \in Runs : run[r].status = "recovery_required"})
  \cup ({"interruption"} \X {r \in Runs : run[r].outcome = "interrupted"})
  \cup ({"cancelReconciliation"}
          \X {r \in Runs : run[r].outcome = "cancelled_reconciled"})
  \cup ({"recover"} \X Responded)

ReadState == audits' = audits \cup RequiredAudits

Unlocked == host = "up" /\ lock.op = "free"

\* observe, lookup and readLogs read without the mutation lock, and so publish
\* what an operation that still holds it is about to.
Observe ==
  /\ host = "up"
  /\ ReadState
  /\ UNCHANGED <<durable, host, lock, sup, accepted, proc, told, crashes>>

\* run.revision += 1 together with appendEvent.
Recorded(rr, event) ==
  [rr EXCEPT !.rev = @ + 1, !.events = Append(@, event)]

(***************************************************************************)
(* Launch.                                                                 *)
(***************************************************************************)
\* Mutant of LaunchExisting: a replay starts supervision again.
LaunchExistingSupervises(k, p) ==
  /\ Unlocked
  /\ launched[k] = [state |-> "accepted", fp |-> p, run |-> launched[k].run]
  /\ ReadState
  /\ sup' = [sup EXCEPT ![launched[k].run].stage = IF @ = "none" THEN "scheduled" ELSE @]
  /\ UNCHANGED <<durable, host, lock, accepted, proc, told, crashes>>

LaunchExisting(k, p) ==
  /\ Unlocked
  /\ launched[k].state # "none"
  /\ ReadState
  /\ told' = IF launched[k].fp = p /\ launched[k].state = "accepted"
             THEN [told EXCEPT ![k] = @ \cup {launched[k].run}]
             ELSE told
  /\ UNCHANGED <<durable, host, lock, sup, accepted, proc, crashes>>

\* Any validation failure after the key check: the failure itself is retained.
LaunchReject(k, p) ==
  /\ Unlocked
  /\ launched[k].state = "none"
  /\ ReadState
  /\ launched' = [launched EXCEPT ![k] = [state |-> "rejected", fp |-> p, run |-> None]]
  /\ UNCHANGED <<run, cancels, recovers, host, lock, sup, accepted, proc, told, crashes>>

\* Mutant of LaunchCommit: the key is not looked up first.
LaunchCommitUnkeyed(k, p, r) ==
  /\ Unlocked
  /\ run[r].status = "absent"
  /\ ReadState
  /\ run' = [run EXCEPT ![r] = [NoRun EXCEPT !.status = "starting", !.rev = 1,
                                             !.events = <<"created">>]]
  /\ launched' = [launched EXCEPT ![k] = [state |-> "accepted", fp |-> p, run |-> r]]
  /\ lock' = Held("launch", k)
  /\ UNCHANGED <<cancels, recovers, host, sup, accepted, proc, told, crashes>>

LaunchCommit(k, p, r) ==
  /\ Unlocked
  /\ launched[k].state = "none"
  /\ run[r].status = "absent"
  /\ ReadState
  /\ run' = [run EXCEPT ![r] = [NoRun EXCEPT !.status = "starting", !.rev = 1,
                                             !.events = <<"created">>]]
  /\ launched' = [launched EXCEPT ![k] = [state |-> "accepted", fp |-> p, run |-> r]]
  /\ lock' = Held("launch", k)
  /\ UNCHANGED <<cancels, recovers, host, sup, accepted, proc, told, crashes>>

\* Accepted audits, then the response; supervision starts in a later turn.
LaunchPublish(k) ==
  /\ lock = Held("launch", k)
  /\ ReadState
  /\ sup' = [sup EXCEPT ![launched[k].run].stage = "scheduled"]
  /\ told' = [told EXCEPT ![k] = @ \cup {launched[k].run}]
  /\ lock' = NoLock
  /\ UNCHANGED <<durable, host, accepted, proc, crashes>>

(***************************************************************************)
(* Cancellation.                                                           *)
(***************************************************************************)
\* requestCancellation: memoized, so only the first call starts the operation.
Requested(s) ==
  IF s.co = "idle" THEN [s EXCEPT !.co = "signal", !.esc = "armed"] ELSE s

\* activeSupervisions holds the run from onSupervisorAvailable to the return of
\* superviseHarnessAdapter.
RequestIfActive(r) ==
  sup' = IF sup[r].stage \in {"live", "drain"} THEN [sup EXCEPT ![r] = Requested(@)] ELSE sup

Cancellable(r) ==
  /\ run[r].status \in {"starting", "running"}
  /\ run[r].outcome = "none"
  /\ ~run[r].cancel

CancelExisting(k, r) ==
  /\ Unlocked
  /\ cancels[k].state # "none"
  /\ ReadState
  /\ IF /\ cancels[k] = [state |-> "accepted", run |-> r]
        /\ run[r].status = "cancelling"
        /\ run[r].outcome = "none"
        /\ sup[r].stage \in {"live", "drain"}
     THEN accepted' = accepted \cup {r} /\ RequestIfActive(r)
     ELSE UNCHANGED <<accepted, sup>>
  /\ UNCHANGED <<durable, host, lock, proc, told, crashes>>

CancelReject(k, r) ==
  /\ Unlocked
  /\ cancels[k].state = "none"
  /\ ~Cancellable(r)
  /\ ReadState
  /\ cancels' = [cancels EXCEPT ![k] = [state |-> "rejected", run |-> r]]
  /\ UNCHANGED <<run, launched, recovers, host, lock, sup, accepted, proc, told, crashes>>

CancelCommit(k, r) ==
  /\ Unlocked
  /\ cancels[k].state = "none"
  /\ Cancellable(r)
  /\ ReadState
  /\ run' = [run EXCEPT ![r] = [Recorded(@, "cancel") EXCEPT
                                  !.status = "cancelling", !.cancel = TRUE]]
  /\ cancels' = [cancels EXCEPT ![k] = [state |-> "accepted", run |-> r]]
  /\ lock' = Held("arm", k)
  /\ UNCHANGED <<launched, recovers, host, sup, accepted, proc, told, crashes>>

\* The accepted cancellation reaches a supervisor that is there, or waits for one.
CancelArm(k) ==
  /\ lock = Held("arm", k)
  /\ accepted' = accepted \cup {cancels[k].run}
  /\ RequestIfActive(cancels[k].run)
  /\ lock' = Held("cancel", k)
  /\ UNCHANGED <<durable, audits, host, proc, told, crashes>>

CancelPublish(k) ==
  /\ lock = Held("cancel", k)
  /\ ReadState
  /\ lock' = NoLock
  /\ UNCHANGED <<durable, host, sup, accepted, proc, told, crashes>>

(***************************************************************************)
(* Recovery of a run the last restart could not account for.               *)
(***************************************************************************)
\* Mutant of Inspect: no evidence of a live tree is taken for its end.
InspectOptimist(r) == {"confirmed"}

\* What the platform can say now: the guardian's evidence confirms the end of the
\* tree; only the injected inspector can vouch for a tree that is still there.
Inspect(r) ==
  IF proc[r].evidence THEN {"confirmed"}
  ELSE {"unconfirmed"} \cup (IF TerminationAvailable /\ Alive(r) THEN {"safe"} ELSE {})

AvailableActions(obs) ==
  CASE obs = "confirmed" -> {"finalize"}
    [] obs = "safe" -> {"recheck", "terminate_confirmed_tree"}
    [] OTHER -> {"recheck"}

Recoverable(r) == run[r].status = "recovery_required"

\* Mutant of Finalized: an accepted cancellation is forgotten over the restart.
FinalizedInterrupted(rr, prev) ==
  [Recorded(rr, "terminal") EXCEPT !.obs = "none", !.prev = "none", !.status = "failed",
                                   !.outcome = "interrupted"]

\* finalizeInterruptedRun: the outcome a run interrupted in status prev receives.
Finalized(rr, prev) ==
  LET ended == [Recorded(rr, "terminal") EXCEPT !.obs = "none", !.prev = "none"]
  IN  IF prev = "cancelling" /\ rr.cancel
      THEN [ended EXCEPT !.status = "cancelled", !.outcome = "cancelled_reconciled",
                         !.confirmed = IF @ = "no" THEN "guard" ELSE @]
      ELSE [ended EXCEPT !.status = "failed", !.outcome = "interrupted"]

RecoverExisting(k, r, a) ==
  /\ Unlocked
  /\ recovers[k].state # "none"
  /\ ReadState
  /\ lock' = IF recovers[k].state = "pending" /\ recovers[k].run = r /\ recovers[k].action = a
             THEN Held("recover", k) ELSE lock
  /\ UNCHANGED <<durable, host, sup, accepted, proc, told, crashes>>

RecoverReject(k, r, a) ==
  /\ Unlocked
  /\ recovers[k].state = "none"
  /\ ~(Recoverable(r) /\ a \in AvailableActions(run[r].obs))
  /\ recovers' = [recovers EXCEPT ![k] = [state |-> "failure", run |-> r, action |-> a,
                                          settled |-> FALSE]]
  /\ ReadState
  /\ lock' = Held("recovered", k)
  /\ UNCHANGED <<run, launched, cancels, host, sup, accepted, proc, told, crashes>>

RecoverIntent(k, r, a) ==
  /\ Unlocked
  /\ recovers[k].state = "none"
  /\ Recoverable(r)
  /\ a \in AvailableActions(run[r].obs)
  /\ ReadState
  /\ recovers' = [recovers EXCEPT ![k] = [state |-> "pending", run |-> r, action |-> a,
                                          settled |-> FALSE]]
  /\ lock' = Held("recover", k)
  /\ UNCHANGED <<run, launched, cancels, host, sup, accepted, proc, told, crashes>>

\* The external action of the intent; it may report nothing usable.
RecoverAct(k) ==
  LET r == recovers[k].run
      Found(insp) == lock' = [lock EXCEPT !.op = "acted", !.insp = insp]
  IN  /\ lock = Held("recover", k)
      /\ \/ /\ Recoverable(r) /\ recovers[k].action = "recheck"
            /\ \E insp \in Inspect(r) \cup {"none"} : Found(insp)
            /\ UNCHANGED proc
         \/ /\ Recoverable(r) /\ recovers[k].action = "terminate_confirmed_tree"
            /\ Found("confirmed")
            /\ proc' = IF Alive(r) THEN [proc EXCEPT ![r].tree = "gone"] ELSE proc
         \/ /\ Recoverable(r) /\ recovers[k].action = "terminate_confirmed_tree"
            /\ \E insp \in {"unconfirmed", "none"} : Found(insp)
            /\ UNCHANGED proc
         \/ /\ ~Recoverable(r) \/ recovers[k].action = "finalize"
            /\ Found("none")
            /\ UNCHANGED proc
      /\ UNCHANGED <<durable, audits, host, sup, accepted, told, crashes>>

\* What the action found, or the finalization that was asked for.
Effect(rr, action, insp) ==
  IF insp # "none" THEN [rr EXCEPT !.obs = insp, !.rev = @ + 1]
  ELSE IF action = "finalize" THEN Finalized(rr, rr.prev)
  ELSE rr

Answered(m, rr) ==
  [m EXCEPT !.state = "result", !.settled = rr.obs = "confirmed" \/ rr.outcome # "none"]

\* Effect and response in one persist.
RecoverCommit(k) ==
  LET r == recovers[k].run
      after == Effect(run[r], recovers[k].action, lock.insp)
  IN  /\ lock.op = "acted" /\ lock.key = k
      /\ IF Recoverable(r)
         THEN /\ run' = [run EXCEPT ![r] = after]
              /\ recovers' = [recovers EXCEPT ![k] = Answered(@, after)]
         ELSE /\ recovers' = [recovers EXCEPT ![k].state = "failure"]
              /\ UNCHANGED run
      /\ lock' = Held("recovered", k)
      /\ UNCHANGED <<launched, cancels, audits, host, sup, accepted, proc, told, crashes>>

RecoverPublish(k) ==
  /\ lock = Held("recovered", k)
  /\ ReadState
  /\ lock' = NoLock
  /\ UNCHANGED <<durable, host, sup, accepted, proc, told, crashes>>

(***************************************************************************)
(* Supervision: starting the adapter and consuming its frames.             *)
(***************************************************************************)
Spawned == [NoProc EXCEPT !.tree = "root", !.guard = "watch"]

\* Mutant of SupStartOk: a cancellation accepted before the supervisor was there
\* is not handed to it.
SupStartOkForgets(r) ==
  /\ sup[r].stage = "scheduled"
  /\ sup' = [sup EXCEPT ![r].stage = "live"]
  /\ proc' = [proc EXCEPT ![r] = Spawned]
  /\ UNCHANGED <<durable, audits, host, lock, accepted, told, crashes>>

SupStartOk(r) ==
  /\ sup[r].stage = "scheduled"
  /\ LET live == [sup[r] EXCEPT !.stage = "live"]
     IN  sup' = [sup EXCEPT ![r] = IF r \in accepted THEN Requested(live) ELSE live]
  /\ proc' = [proc EXCEPT ![r] = Spawned]
  /\ UNCHANGED <<durable, audits, host, lock, accepted, told, crashes>>

\* The guardian runs, the adapter's own process could not be started.
SupStartStillborn(r) ==
  /\ sup[r].stage = "scheduled"
  /\ LET live == [sup[r] EXCEPT !.stage = "live", !.exit = "stillborn"]
     IN  sup' = [sup EXCEPT ![r] = IF r \in accepted THEN Requested(live) ELSE live]
  /\ proc' = [proc EXCEPT ![r] = [Spawned EXCEPT !.tree = "gone"]]
  /\ UNCHANGED <<durable, audits, host, lock, accepted, told, crashes>>

\* superviseHarnessAdapter throws before it spawns anything...
SupStartFail(r) ==
  /\ sup[r].stage = "scheduled"
  /\ sup' = [sup EXCEPT ![r] = [@ EXCEPT !.stage = "flush", !.exit = "unsupervised"]]
  /\ UNCHANGED <<durable, audits, host, lock, accepted, proc, told, crashes>>

\* ... or after the spawn (no usable channel, the start frame is refused): the kill
\* is requested, not awaited, and the supervisor was not handed out yet.
SupStartFailSpawned(r) ==
  /\ sup[r].stage = "scheduled"
  /\ sup' = [sup EXCEPT ![r] = [@ EXCEPT !.stage = "flush", !.exit = "unsupervised"]]
  /\ proc' = [proc EXCEPT ![r] = [Spawned EXCEPT !.killed = TRUE]]
  /\ UNCHANGED <<durable, audits, host, lock, accepted, told, crashes>>

Consuming(r) == sup[r].stage = "live" /\ sup[r].cons = "idle" /\ sup[r].exit = "ok"

FrameReady(r) ==
  /\ Consuming(r)
  /\ ~sup[r].ready
  /\ sup' = [sup EXCEPT ![r] = [@ EXCEPT !.ready = TRUE, !.cons = "ready"]]
  /\ UNCHANGED <<durable, audits, host, lock, accepted, proc, told, crashes>>

\* The first record is persisted at once, later ones in batches.
FrameProgress(r) ==
  /\ Consuming(r)
  /\ sup[r].ready
  /\ sup[r].term = "none"
  /\ sup[r].seen < MaxProgress
  /\ LET s == [sup[r] EXCEPT !.seen = @ + 1, !.pend = @ + 1]
     IN  sup' = [sup EXCEPT ![r] =
                  IF s.seen = 1 \/ s.pend >= BatchSize THEN [s EXCEPT !.cons = "progress"]
                  ELSE s]
  /\ UNCHANGED <<durable, audits, host, lock, accepted, proc, told, crashes>>

\* One terminal envelope is expected, and none before readiness.
WithTerminal(s, envelope) ==
  [s EXCEPT !.term = IF @ = "none" THEN envelope ELSE "many",
            !.invalid = IF s.ready THEN @ ELSE TRUE]

FrameTerminal(r, envelope) ==
  /\ Consuming(r)
  /\ sup[r].term # "many"
  /\ sup' = [sup EXCEPT ![r] = WithTerminal(@, envelope)]
  /\ UNCHANGED <<durable, audits, host, lock, accepted, proc, told, crashes>>

\* A frame the protocol does not allow here: kill the tree, destroy the channel.
FrameInvalid(r) ==
  /\ Consuming(r)
  /\ sup' = [sup EXCEPT ![r] = [@ EXCEPT !.invalid = TRUE, !.cons = "closed"]]
  /\ proc' = IF proc[r].guard = "watch" /\ Alive(r)
             THEN [proc EXCEPT ![r].killed = TRUE] ELSE proc
  /\ UNCHANGED <<durable, audits, host, lock, accepted, told, crashes>>

ChannelClose(r) ==
  /\ sup[r].stage = "live"
  /\ sup[r].cons = "idle"
  /\ sup' = [sup EXCEPT ![r].cons = "closed"]
  /\ UNCHANGED <<durable, audits, host, lock, accepted, proc, told, crashes>>

\* Mutant of Ready: readiness makes every run running.
ReadyAlways(rr) == [Recorded(rr, "ready") EXCEPT !.status = "running"]

Ready(rr) ==
  [Recorded(rr, "ready") EXCEPT !.status = IF @ = "starting" THEN "running" ELSE @]

\* updateRun of onReady.
PublishReady(r) ==
  /\ Unlocked
  /\ sup[r].stage = "live" /\ sup[r].cons = "ready"
  /\ ReadState
  /\ run' = [run EXCEPT ![r] = Ready(@)]
  /\ sup' = [sup EXCEPT ![r].cons = "idle"]
  /\ UNCHANGED <<launched, cancels, recovers, host, lock, accepted, proc, told, crashes>>

\* Mutant of WithProgress: queued progress overtakes an accepted cancellation.
WithProgressAlways(rr, n) ==
  [rr EXCEPT !.rev = @ + n, !.events = @ \o [i \in 1..n |-> "progress"]]

\* persistProgressRecords: nothing enters history once a cancellation is accepted.
WithProgress(rr, n) ==
  IF rr.cancel \/ rr.outcome # "none" THEN rr
  ELSE [rr EXCEPT !.rev = @ + n, !.events = @ \o [i \in 1..n |-> "progress"]]

PublishProgress(r) ==
  /\ Unlocked
  /\ sup[r].stage = "live" /\ sup[r].cons = "progress"
  /\ ReadState
  /\ run' = [run EXCEPT ![r] = WithProgress(@, sup[r].pend)]
  /\ sup' = [sup EXCEPT ![r] = [@ EXCEPT !.cons = "idle", !.pend = 0]]
  /\ UNCHANGED <<launched, cancels, recovers, host, lock, accepted, proc, told, crashes>>

(***************************************************************************)
(* Supervision: completion and the one terminal commit.                    *)
(***************************************************************************)
\* superviseHarnessAdapter returns with the cancellation result it awaited.
Captured(s) ==
  [s EXCEPT !.stage = "drain", !.captured = IF s.co = "idle" THEN "none" ELSE s.co]

\* Mutant of Complete: the end of the channel is taken for the end of the adapter.
CompleteOnClose(r) ==
  /\ sup[r].stage = "live"
  /\ sup[r].cons = "closed"
  /\ sup[r].co \in {"idle", "yes", "no"}
  /\ sup' = [sup EXCEPT ![r] = Captured(@)]
  /\ UNCHANGED <<durable, audits, host, lock, accepted, proc, told, crashes>>

\* Exit, frame consumer and start observation have settled; a cancellation that
\* was requested by now is awaited too, a later one is not.
Complete(r) ==
  /\ sup[r].stage = "live"
  /\ RootExited(r)
  /\ sup[r].cons = "closed"
  /\ \/ /\ sup[r].co \in {"idle", "yes", "no"}
        /\ sup' = [sup EXCEPT ![r] = Captured(@)]
     \/ /\ sup[r].co = "failed"
        /\ sup' = [sup EXCEPT ![r] = [@ EXCEPT !.stage = "flush", !.exit = "callbackFailed"]]
  /\ UNCHANGED <<durable, audits, host, lock, accepted, proc, told, crashes>>

\* The diagnostic queue is empty; activeSupervisions forgets the run.
Drain(r) ==
  /\ sup[r].stage = "drain"
  /\ sup' = [sup EXCEPT ![r].stage = "flush"]
  /\ UNCHANGED <<durable, audits, host, lock, accepted, proc, told, crashes>>

Flush(r) ==
  /\ sup[r].stage = "flush"
  /\ IF sup[r].pend = 0 THEN UNCHANGED <<run, audits>>
     ELSE /\ Unlocked
          /\ ReadState
          /\ run' = [run EXCEPT ![r] = WithProgress(@, sup[r].pend)]
  /\ sup' = [sup EXCEPT ![r] = [@ EXCEPT !.stage = "commit", !.pend = 0]]
  /\ UNCHANGED <<launched, cancels, recovers, host, lock, accepted, proc, told, crashes>>

StartFailed(s) == s.exit # "ok"
ValidTerminal(s) == s.term \in Envelopes /\ ~s.invalid /\ s.exit # "callbackFailed"

OutcomeCode(s) ==
  IF StartFailed(s) THEN "start_failed"
  ELSE IF s.invalid THEN "protocol_invalid"
  ELSE IF ValidTerminal(s) THEN s.term
  ELSE "incomplete"

Ended(rr, code, complete) ==
  [Recorded(rr, "terminal") EXCEPT !.status = OutcomeStatus(code), !.outcome = code,
                                   !.complete = complete]

CancelTerminationKnown(r) ==
  sup[r].captured # "none" \/ run[r].confirmed # "no" \/ sup[r].exit = "unsupervised"

\* A cancelled run whose termination is known ends as cancelled.
CommitCancelled(r) ==
  LET s == sup[r]
      how == IF run[r].confirmed # "no" THEN run[r].confirmed
             ELSE IF s.captured = "yes" THEN "tree"
             ELSE IF s.captured = "no" THEN "no"
             ELSE "nostart"
  IN  /\ run[r].cancel
      /\ CancelTerminationKnown(r)
      /\ how # "no"
      /\ run' = [run EXCEPT ![r] =
           [Ended(@, "cancelled", ValidTerminal(s) /\ s.term = "cancelled" /\ ~run[r].forced)
              EXCEPT !.confirmed = how]]
      /\ sup' = [sup EXCEPT ![r].stage = "audit"]

\* Mutant of CommitUncancelled: the adapter's result wins over the cancellation.
CommitUncancelledAlways(r) ==
  /\ run' = [run EXCEPT ![r] = Ended(@, OutcomeCode(sup[r]), ValidTerminal(sup[r]))]
  /\ sup' = [sup EXCEPT ![r].stage = "audit"]

CommitUncancelled(r) ==
  /\ ~run[r].cancel
  /\ run' = [run EXCEPT ![r] = Ended(@, OutcomeCode(sup[r]), ValidTerminal(sup[r]))]
  /\ sup' = [sup EXCEPT ![r].stage = "audit"]

\* Mutants of CommitAwaits: every settling run is signalled; or none is.
CommitAwaitsAny(r) ==
  /\ ~CancelTerminationKnown(r)
  /\ sup' = [sup EXCEPT ![r] = [Requested(@) EXCEPT !.stage = "await"]]
  /\ UNCHANGED run
CommitAwaitsUnasked(r) ==
  /\ run[r].cancel
  /\ ~CancelTerminationKnown(r)
  /\ sup' = [sup EXCEPT ![r].stage = "await"]
  /\ UNCHANGED run

\* A cancellation accepted late: leave the lock and see the tree end first.
CommitAwaits(r) ==
  /\ run[r].cancel
  /\ ~CancelTerminationKnown(r)
  /\ sup' = [sup EXCEPT ![r] = [Requested(@) EXCEPT !.stage = "await"]]
  /\ UNCHANGED run

\* Termination could not be confirmed: no outcome, the run stays cancelling.
CommitGivesUp(r) ==
  /\ run[r].cancel
  /\ run[r].confirmed = "no"
  /\ sup[r].captured = "no"
  /\ sup' = [sup EXCEPT ![r].stage = "release"]
  /\ UNCHANGED run

Commit(r) ==
  /\ Unlocked
  /\ sup[r].stage = "commit"
  /\ run[r].outcome = "none"
  /\ ReadState
  /\ CommitCancelled(r) \/ CommitUncancelled(r) \/ CommitAwaits(r) \/ CommitGivesUp(r)
  /\ UNCHANGED <<launched, cancels, recovers, host, lock, accepted, proc, told, crashes>>

AwaitCancel(r) ==
  /\ sup[r].stage = "await"
  /\ \/ /\ sup[r].co \in {"yes", "no"}
        /\ sup' = [sup EXCEPT ![r] = [@ EXCEPT !.captured = sup[r].co, !.stage = "commit"]]
     \/ /\ \/ sup[r].co = "failed"
           \/ sup[r].co = "wait" /\ sup[r].exit = "callbackFailed" \* completion had failed
        /\ sup' = [sup EXCEPT ![r].stage = "release"]
  /\ UNCHANGED <<durable, audits, host, lock, accepted, proc, told, crashes>>

OutcomeAudit(r) ==
  /\ sup[r].stage = "audit"
  /\ audits' = audits \cup {<<"outcome", r>>}
  /\ accepted' = accepted \ {r}
  /\ sup' = [sup EXCEPT ![r].stage = "release"]
  /\ UNCHANGED <<durable, host, lock, proc, told, crashes>>

\* The guardian is told to go and leaves once the adapter itself has exited.
Release(r) ==
  /\ sup[r].stage = "release"
  /\ IF sup[r].exit = "unsupervised" \/ proc[r].guard = "gone" THEN UNCHANGED proc
     ELSE /\ RootExited(r)
          /\ proc' = [proc EXCEPT ![r].guard = "gone"]
  /\ sup' = [sup EXCEPT ![r].stage = "done"]
  /\ UNCHANGED <<durable, audits, host, lock, accepted, told, crashes>>

(***************************************************************************)
(* Supervision: the cancellation operation and its escalation timer.       *)
(***************************************************************************)
CoopSignal(r) ==
  /\ sup[r].co = "signal"
  /\ sup' = [sup EXCEPT ![r].co =
               IF proc[r].tree = "root" /\ proc[r].guard = "watch" THEN "publish" ELSE "wait"]
  /\ UNCHANGED <<durable, audits, host, lock, accepted, proc, told, crashes>>

\* Mutant of SignalField: the record changes under its old revision.
SignalFieldUnrevised(rr, field) ==
  IF field = "coop" THEN [rr EXCEPT !.coop = TRUE] ELSE [rr EXCEPT !.forced = TRUE]

SignalField(rr, field) ==
  CASE field = "coop" /\ ~rr.coop -> [rr EXCEPT !.coop = TRUE, !.rev = @ + 1]
    [] field = "forced" /\ ~rr.forced -> [rr EXCEPT !.forced = TRUE, !.rev = @ + 1]
    [] OTHER -> rr

PublishCoop(r) ==
  /\ Unlocked
  /\ sup[r].co = "publish"
  /\ ReadState
  /\ run' = [run EXCEPT ![r] = SignalField(@, "coop")]
  /\ sup' = [sup EXCEPT ![r].co = "wait"]
  /\ UNCHANGED <<launched, cancels, recovers, host, lock, accepted, proc, told, crashes>>

\* The cooperative deadline: nothing to do when the whole tree is gone, else the
\* group is killed if its guardian can still be reached.
Escalate(r) ==
  /\ sup[r].esc = "armed"
  /\ IF proc[r].guard = "watch" /\ Alive(r)
     THEN /\ proc' = [proc EXCEPT ![r].killed = TRUE]
          /\ sup' = [sup EXCEPT ![r].esc = "publish"]
     ELSE /\ sup' = [sup EXCEPT ![r].esc = "done"]
          /\ UNCHANGED proc
  /\ UNCHANGED <<durable, audits, host, lock, accepted, told, crashes>>

PublishForced(r) ==
  /\ Unlocked
  /\ sup[r].esc = "publish"
  /\ ReadState
  /\ run' = [run EXCEPT ![r] = SignalField(@, "forced")]
  /\ sup' = [sup EXCEPT ![r].esc = "done"]
  /\ UNCHANGED <<launched, cancels, recovers, host, lock, accepted, proc, told, crashes>>

\* After completion: an empty tree disarms the timer and confirms; a tree that is
\* still there, or cannot be inventoried, once the deadline has passed does not.
Settle(r) ==
  /\ sup[r].co = "wait"
  /\ sup[r].exit \in {"ok", "stillborn"}
  /\ RootExited(r)
  /\ sup[r].cons = "closed"
  /\ \/ /\ ~Alive(r)
        /\ sup[r].esc \in {"armed", "done"}
        /\ sup' = [sup EXCEPT ![r] = [@ EXCEPT !.co = "confirm", !.esc = "done"]]
     \/ /\ sup[r].esc = "done"
        /\ sup' = [sup EXCEPT ![r].co = "no"]
     \/ /\ sup[r].esc = "failed"
        /\ sup' = [sup EXCEPT ![r].co = "failed"]
  /\ UNCHANGED <<durable, audits, host, lock, accepted, proc, told, crashes>>

\* The first confirmation counts.
ConfirmedByTree(rr) ==
  IF rr.confirmed = "no" THEN [rr EXCEPT !.confirmed = "tree", !.rev = @ + 1] ELSE rr

PublishConfirmed(r) ==
  /\ Unlocked
  /\ sup[r].co = "confirm"
  /\ ReadState
  /\ run' = [run EXCEPT ![r] = ConfirmedByTree(@)]
  /\ sup' = [sup EXCEPT ![r].co = "yes"]
  /\ UNCHANGED <<launched, cancels, recovers, host, lock, accepted, proc, told, crashes>>

(***************************************************************************)
(* The adapter process tree and its guardian.                              *)
(***************************************************************************)
RootExits(r) ==
  /\ proc[r].tree = "root"
  /\ \E after \in {"kids", "gone"} : proc' = [proc EXCEPT ![r].tree = after]
  /\ UNCHANGED <<durable, audits, host, lock, sup, accepted, told, crashes>>

KidsExit(r) ==
  /\ proc[r].tree = "kids"
  /\ proc' = [proc EXCEPT ![r].tree = "gone"]
  /\ UNCHANGED <<durable, audits, host, lock, sup, accepted, told, crashes>>

\* SIGKILL of the group takes the supervisor with it; the guardian then drains
\* what escaped the group and leaves without evidence.  (One that lost its Host
\* drains anyway.)
KillLands(r) ==
  /\ proc[r].killed
  /\ proc[r].guard = "watch"
  /\ proc' = [proc EXCEPT ![r] = [@ EXCEPT !.tree = "gone", !.guard = "gone"]]
  /\ UNCHANGED <<durable, audits, host, lock, sup, accepted, told, crashes>>

\* A guardian that lost its Host drains the tree and publishes what it saw.
GuardDrain(r) ==
  /\ proc[r].guard = "lost"
  /\ \E confirmed \in BOOLEAN :
       proc' = [proc EXCEPT ![r] = [@ EXCEPT !.tree = "gone", !.guard = "gone",
                                             !.evidence = confirmed]]
  /\ UNCHANGED <<durable, audits, host, lock, sup, accepted, told, crashes>>

Crash ==
  /\ host # "down"
  /\ crashes < MaxCrashes
  /\ host' = "down"
  /\ lock' = NoLock
  /\ sup' = [r \in Runs |-> NoSup]
  /\ accepted' = {}
  /\ proc' = [r \in Runs |-> [proc[r] EXCEPT !.guard = IF @ = "watch" THEN "lost" ELSE @]]
  /\ crashes' = crashes + 1
  /\ UNCHANGED <<durable, audits, told>>

(***************************************************************************)
(* Startup: reconcile interrupted runs, publish, finish pending intents.   *)
(***************************************************************************)
ToRecovery(rr, insp) ==
  [Recorded(rr, "recovery") EXCEPT !.status = "recovery_required", !.prev = rr.status,
                                   !.obs = insp]

\* Mutant of Reconciled: every run that exists is accounted for again.
ReconciledAgain(rr, insp) ==
  IF rr.status = "absent" THEN rr
  ELSE IF rr.confirmed # "no" \/ insp = "confirmed" THEN Finalized(rr, "running")
  ELSE rr

\* A run with an outcome keeps it: outcome, status and event are one persist, so
\* repairAcceptedTerminalOutcome has nothing to repair.
Reconciled(rr, insp) ==
  IF rr.status \notin Active THEN rr
  ELSE IF rr.confirmed # "no" \/ insp = "confirmed" THEN Finalized(rr, rr.status)
  ELSE ToRecovery(rr, insp)

BootReconcile ==
  /\ host = "down"
  /\ ReadState
  /\ \E seen \in [Runs -> Inspections] :
       /\ \A r \in Runs : seen[r] \in Inspect(r)
       /\ run' = [r \in Runs |-> Reconciled(run[r], seen[r])]
  /\ host' = "reconciled"
  /\ UNCHANGED <<launched, cancels, recovers, lock, sup, accepted, proc, told, crashes>>

\* Mutant of BootPublish: the audits of the reconciliation are left for later.
BootPublishNothing ==
  /\ host = "reconciled"
  /\ host' = "intents"
  /\ UNCHANGED <<durable, audits, lock, sup, accepted, proc, told, crashes>>

BootPublish ==
  /\ host = "reconciled"
  /\ ReadState
  /\ host' = "intents"
  /\ UNCHANGED <<durable, lock, sup, accepted, proc, told, crashes>>

BootIntent(k) ==
  /\ host = "intents"
  /\ lock = NoLock
  /\ recovers[k].state = "pending"
  /\ lock' = Held("recover", k)
  /\ UNCHANGED <<durable, audits, host, sup, accepted, proc, told, crashes>>

BootDone ==
  /\ host = "intents"
  /\ lock = NoLock
  /\ \A k \in RecoverKeys : recovers[k].state # "pending"
  /\ host' = "up"
  /\ UNCHANGED <<durable, audits, lock, sup, accepted, proc, told, crashes>>

(***************************************************************************)
(* Refused writes (IoFaults): what each throw leaves behind.               *)
(***************************************************************************)
\* Thrown with the lock held: the operation ends where it is.  While the Host
\* starts, it does not come up.
OperationThrows ==
  /\ IoFaults
  /\ lock.op \in {"launch", "cancel", "recover", "acted", "recovered"}
  /\ lock' = NoLock
  /\ host' = IF host = "up" THEN "up" ELSE "down"
  /\ UNCHANGED <<durable, audits, sup, accepted, proc, told, crashes>>

\* Thrown by onAdapterStarted, onReady or onProgress: the run is treated as one
\* whose adapter could not be started.
CallbackThrows(r) ==
  /\ IoFaults
  /\ sup[r].stage = "live"
  /\ sup[r].exit = "ok"
  /\ sup' = [sup EXCEPT ![r] = [@ EXCEPT !.stage = "flush", !.exit = "callbackFailed",
                                           !.cons = "closed"]]
  /\ UNCHANGED <<durable, audits, host, lock, accepted, proc, told, crashes>>

\* Thrown by the last progress flush, the commit or the outcome audit.
SettlementThrows(r) ==
  /\ IoFaults
  /\ sup[r].stage \in {"flush", "commit", "audit"}
  /\ accepted' = IF sup[r].stage = "audit" THEN accepted \ {r} ELSE accepted
  /\ sup' = [sup EXCEPT ![r].stage = "release"]
  /\ UNCHANGED <<durable, audits, host, lock, proc, told, crashes>>

\* Thrown while a signal or a confirmation is published: the operation fails.
PublicationThrows(r) ==
  /\ IoFaults
  /\ \/ /\ sup[r].co \in {"publish", "confirm"}
        /\ sup' = [sup EXCEPT ![r].co = "failed"]
     \/ /\ sup[r].esc = "publish"
        /\ sup' = [sup EXCEPT ![r].esc = "failed"]
  /\ UNCHANGED <<durable, audits, host, lock, accepted, proc, told, crashes>>

(***************************************************************************)
(* Specification.                                                          *)
(***************************************************************************)
LaunchNext ==
  \E k \in LaunchKeys :
    \/ LaunchPublish(k)
    \/ \E p \in Params :
         LaunchExisting(k, p) \/ LaunchReject(k, p) \/ \E r \in Runs : LaunchCommit(k, p, r)

CancelNext ==
  \E k \in CancelKeys :
    \/ CancelArm(k) \/ CancelPublish(k)
    \/ \E r \in Runs : CancelExisting(k, r) \/ CancelReject(k, r) \/ CancelCommit(k, r)

RecoverNext ==
  \E k \in RecoverKeys :
    \/ RecoverAct(k) \/ RecoverCommit(k) \/ RecoverPublish(k)
    \/ \E r \in Runs, a \in RecoveryActions :
         RecoverExisting(k, r, a) \/ RecoverReject(k, r, a) \/ RecoverIntent(k, r, a)

FrameNext(r) ==
  \/ FrameReady(r) \/ FrameProgress(r) \/ FrameInvalid(r) \/ ChannelClose(r)
  \/ \E envelope \in Envelopes : FrameTerminal(r, envelope)

StartNext(r) ==
  SupStartOk(r) \/ SupStartStillborn(r) \/ SupStartFail(r) \/ SupStartFailSpawned(r)

SettleNext(r) ==
  \/ PublishReady(r) \/ PublishProgress(r) \/ Complete(r) \/ Drain(r) \/ Flush(r)
  \/ Commit(r) \/ AwaitCancel(r) \/ OutcomeAudit(r) \/ Release(r)

SignalNext(r) ==
  \/ CoopSignal(r) \/ PublishCoop(r) \/ Escalate(r) \/ PublishForced(r)
  \/ Settle(r) \/ PublishConfirmed(r)

ProcessNext(r) == RootExits(r) \/ KidsExit(r) \/ KillLands(r) \/ GuardDrain(r)

BootNext ==
  BootReconcile \/ BootPublish \/ BootDone \/ \E k \in RecoverKeys : BootIntent(k)

FaultNext ==
  \/ OperationThrows
  \/ \E r \in Runs : CallbackThrows(r) \/ SettlementThrows(r) \/ PublicationThrows(r)

Next ==
  \/ LaunchNext \/ CancelNext \/ RecoverNext \/ Observe
  \/ \E r \in Runs :
       StartNext(r) \/ FrameNext(r) \/ SettleNext(r) \/ SignalNext(r) \/ ProcessNext(r)
  \/ BootNext \/ Crash \/ FaultNext

Spec == Init /\ [][Next]_vars

\* The Host's own steps are taken (its event loop and its FIFO lock); the kernel
\* delivers a kill and closes the channel of a tree that is gone; a guardian that
\* lost its Host drains.  Nothing obliges an adapter to answer, exit or behave.
Fairness ==
  /\ \A k \in LaunchKeys : WF_vars(LaunchPublish(k))
  /\ \A k \in CancelKeys : WF_vars(CancelArm(k) \/ CancelPublish(k))
  /\ \A k \in RecoverKeys : WF_vars(RecoverAct(k) \/ RecoverCommit(k) \/ RecoverPublish(k))
  /\ \A r \in Runs :
       /\ WF_vars(StartNext(r))
       /\ WF_vars(SettleNext(r))
       /\ WF_vars(CoopSignal(r) \/ PublishCoop(r))
       /\ WF_vars(Escalate(r) \/ PublishForced(r))
       /\ WF_vars(Settle(r) \/ PublishConfirmed(r))
       /\ WF_vars(KillLands(r) \/ GuardDrain(r))
       /\ WF_vars(proc[r].tree = "gone" /\ ChannelClose(r))
  /\ WF_vars(BootNext)

FairSpec == Spec /\ Fairness

(***************************************************************************)
(* Properties.                                                             *)
(***************************************************************************)
\* A run that ended although its cancellation had been accepted ended as
\* cancelled, and something vouched for the end of its tree: no adapter result,
\* start failure or restart overtakes an accepted cancellation
\* (run-supervision.mjs commitTerminalOutcome, reconciliation.mjs).
CancellationWins ==
  \A r \in Runs : run[r].cancel /\ run[r].outcome # "none" =>
    /\ run[r].outcome \in {"cancelled", "cancelled_reconciled"}
    /\ run[r].confirmed # "no"

Position(r, event) == {i \in 1..Len(run[r].events) : run[r].events[i] = event}

\* History reads as one life: created first, ready at most once, no progress
\* before ready or after an accepted cancellation, nothing after the one terminal
\* event, which is there exactly when an outcome is (appendEvent's callers).  A result
\* taken for complete ends a life that was ready and a tree that was not killed;
\* after an accepted cancellation it is a cancelled one (incompleteResult in
\* commitTerminalOutcome).
HistoryShape ==
  \A r \in Runs : run[r].status # "absent" =>
    LET events == run[r].events IN
    /\ Position(r, "created") = {1}
    /\ \A i, j \in Position(r, "ready") : i = j
    /\ \A i \in Position(r, "progress") :
         /\ \E j \in Position(r, "ready") : j < i
         /\ \A j \in Position(r, "cancel") : i < j
    /\ Position(r, "terminal") =
         IF run[r].outcome = "none" THEN {} ELSE {Len(events)}
    /\ run[r].complete =>
         /\ Position(r, "ready") # {} /\ ~run[r].forced
         /\ run[r].cancel => run[r].outcome = "cancelled"

\* appendEvent throws at MAX_RETAINED_RUN_EVENTS, and MAX_PROGRESS_RECORDS_PER_RUN
\* leaves room for five events: over any restarts, cancellations and recoveries no run
\* records more than five that are not progress, so that its terminal event always fits.
HistoryFits ==
  \A r \in Runs :
    Cardinality({i \in 1..Len(run[r].events) : run[r].events[i] # "progress"}) <= 5

\* terminationConfirmedAt and host_daemon_interrupted are never written while a
\* process of the tree still runs: not by the live supervisor, not by restart
\* reconciliation, not by recovery.  (A start failure is apart: it confirms the end
\* of a tree it does not wait for.)
ConfirmedIsTrue ==
  \A r \in Runs :
    run[r].confirmed \in {"tree", "guard"} \/ run[r].outcome = "interrupted" => ~Alive(r)

\* An outcome that is not about the start of the adapter, its cancellation or a
\* lost Host is committed only after the adapter itself has exited.
OutcomeMeansExited ==
  \A r \in Runs :
    run[r].outcome \in {"succeeded", "failed", "protocol_invalid", "incomplete"} => RootExited(r)

\* No cancellation signal is dispatched, retained or scheduled for a run whose
\* cancellation is not durable.
NoSignalBeforeAcceptance ==
  \A r \in Runs :
    run[r].coop \/ run[r].forced \/ sup[r].co # "idle" \/ r \in accepted => run[r].cancel

\* What reconcileInterruptedRuns and repairAcceptedTerminalOutcome refuse with a
\* throw -- and then no Host starts on this state again -- is never on disk.
StartupNeverRefuses ==
  \A r \in Runs : run[r].outcome = "none" =>
    /\ run[r].status \in Active => (run[r].status = "cancelling") = run[r].cancel
    /\ Position(r, "terminal") = {}
    /\ Recoverable(r) => run[r].prev \in Active /\ run[r].obs # "none"

\* "No accepted audit is published before this canonical commit" (launch.mjs:583):
\* an audit never speaks of what the durable state does not say.
AuditFollowsState ==
  \A audit \in audits : LET kind == audit[1]  subject == audit[2] IN
    CASE kind = "launch" -> run[subject].status # "absent"
      [] kind = "cancel" -> run[subject].cancel
      [] kind = "outcome" -> run[subject].outcome # "none"
      [] kind = "recovery" -> Position(subject, "recovery") # {}
      [] kind = "interruption" -> run[subject].outcome = "interrupted"
      [] kind = "cancelReconciliation" -> run[subject].outcome = "cancelled_reconciled"
      [] kind = "recover" -> recovers[subject].state \in {"result", "failure"}

\* Between operations no audit is owed, except that of an outcome just committed;
\* in particular a detection of an interrupted run was audited before finalize
\* erased it from the state (store.mjs readState, ensure...Audits).
AuditsCaughtUp ==
  Unlocked =>
    /\ RequiredAudits \subseteq audits \cup {<<"outcome", r>> : r \in {q \in Runs : sup[q].stage = "audit"}}
    /\ \A r \in Runs : Position(r, "recovery") # {} => <<"recovery", r>> \in audits

\* However often a client repeats a launch key, over restarts too, it hears of one
\* run, nobody else does, and no run exists that no key accounts for.
OneRunPerKey ==
  /\ \A k \in LaunchKeys : told[k] \subseteq {launched[k].run}
  /\ \A j, k \in LaunchKeys : told[j] \cap told[k] # {} => j = k
  /\ \A r \in Runs : run[r].status # "absent" =>
       \E k \in LaunchKeys : launched[k].run = r /\ launched[k].state = "accepted"

\* A run that ended is never touched again: not by late publications, replays,
\* recovery or the reconciliation of a later restart.
\* The record run[r] leaves out logStreams, which appendDiagnostic
\* (run-supervision.mjs:43-57) still extends after the outcome: output that drains
\* late changes those ranges and nothing else. RunDiagnostics models them.
TerminalFrozen ==
  [][\A r \in Runs : run[r].outcome # "none" => run'[r] = run[r]]_vars

\* An adapter is started at most once for a run (adapterRelaunched: FALSE in every
\* reconciliation audit), and only for a run whose launch is durable.
NeverRelaunched ==
  [][\A r \in Runs :
       (\/ sup[r].stage = "none" /\ sup'[r].stage # "none"
        \/ proc[r].tree # "root" /\ proc'[r].tree = "root")
         => run[r].status # "absent" /\ proc[r].tree = "none"]_vars

\* An accepted cancellation comes to an end: the run leaves cancelling, or the Host
\* has established that it cannot confirm the end of the tree.
CancelSettles ==
  \A r \in Runs :
    run[r].status = "cancelling" ~> (run[r].status # "cancelling" \/ sup[r].captured = "no")

\* Once the whole tree of an active run is gone the run does not stay active,
\* with the same exception.
ExitSettles ==
  \A r \in Runs :
    (run[r].status \in Active /\ proc[r].tree = "gone")
      ~> (run[r].status \notin Active \/ sup[r].captured = "no")

(***************************************************************************)
(* The manager implements what RunLifecycle promises its clients.          *)
(***************************************************************************)
PhaseOf(rr) ==
  CASE rr.status \in {"starting", "running"} -> "active"
    [] rr.status = "recovery_required" -> IF rr.cancel THEN "cancelSuspended" ELSE "suspended"
    [] OTHER -> rr.status

Lifecycle == INSTANCE RunLifecycle WITH
  phase <- [r \in Runs |-> PhaseOf(run[r])],
  owner <- [k \in LaunchKeys |-> launched[k].run],
  answers <- told

\* The detailed manager is a lifecycle: every step is an abstract one or a stutter.
ImplementsLifecycle == Lifecycle!Spec

=============================================================================

-------------------------- MODULE RuntimeLifecycle --------------------------
(***************************************************************************)
(* Launch and stop of the Controller runtime (runtime.mjs), the daemon     *)
(* they start and terminate (runtime-daemon.mjs, daemon/index.mjs) and the *)
(* Host binding a launch pins (host-identity.mjs).                         *)
(*                                                                         *)
(* A caller runs its whole operation under runtime.lock, whose exclusion   *)
(* is assumed here (PrivateStateLock is the lock itself).  Each durable    *)
(* write is a step of its own: the caller may die between any two, and the *)
(* next caller then takes the lock over.                                   *)
(***************************************************************************)
EXTENDS BootstrapExchange, HostIdentity, Sequences

CONSTANTS MaxCalls,       \* bound: operations begun
          MaxCallerDeaths,\* bound: callers that die inside the lock
          MaxDaemonDeaths,\* bound: daemons that die by themselves
          Retained,       \* outcomes kept per file (128 in the code)
          Nobody          \* no daemon, no operation

ASSUME LifecycleAssumption ==
    /\ MaxCalls \in Nat /\ MaxCallerDeaths \in Nat /\ MaxDaemonDeaths \in Nat
    /\ Retained \in Nat \ {0}
    /\ Nobody \notin Runtimes
    /\ Runtimes \subseteq Nat
    /\ Starters = Runtimes

VARIABLES
    state,      \* runtime-state.json: [pid, rev], or Nobody
    lifecycle,  \* runtime-lifecycle.json: [rev, status, runtime]
    launches,   \* runtime-launch-outcomes.json
    stops,      \* runtime-stop-outcomes.json
    failure,    \* is there a startup-error.json?
    daemon,     \* the daemon processes
    op,         \* the operation inside the lock, or Nobody
    told,       \* history: revisions that accepted results reported
    count       \* history: calls, caller deaths, daemon deaths, and whether a
                \* caller took the lock while an orphaned daemon was still there

durable == <<state, lifecycle, launches, stops, failure>>
vars == <<durable, daemon, op, told, count, bootVars, identityVars>>

Revisions == 0..(2 * MaxCalls)
States == {"running", "stopped"}
RuntimeStates == [pid : Runtimes, rev : Revisions]
IsOutcomes(outcomes) == outcomes \in Seq(Keys) /\ Len(outcomes) <= Retained
Stages == {"spawned", "bind", "fill", "commit", "record", "bootstrap", "outcome",
           "failing", "refusing", "terminating"}

\* Nobody is no state of a runtime and no operation.
ASSUME NobodyAssumption ==
    /\ Nobody \notin [pid : Runtimes, rev : Nat]
    /\ Nobody \notin [kind : {"launch", "stop"}, key : Keys, at : Stages,
                     d : Runtimes, rev : Nat, fresh : BOOLEAN]

DaemonType ==
    [phase : {"unborn", "starting", "ready", "dead"}, rev : Revisions,
     committed : BOOLEAN, orphan : BOOLEAN, killed : BOOLEAN,
     term : BOOLEAN, shutdown : {"no", "closing", "removing"}]

TypeOK ==
    /\ BootTypeOK /\ IdentityTypeOK
    /\ state \in RuntimeStates \cup {Nobody}
    /\ lifecycle \in [rev : Revisions, status : States, runtime : Runtimes \cup {Nobody}]
    /\ IsOutcomes(launches) /\ IsOutcomes(stops)
    /\ failure \in BOOLEAN
    /\ daemon \in [Runtimes -> DaemonType]
    /\ op \in [kind : {"launch", "stop"}, key : Keys, at : Stages,
               d : Runtimes, rev : Revisions, fresh : BOOLEAN] \cup {Nobody}
    /\ told \subseteq [rev : Revisions, status : States, runtime : Runtimes]
    /\ count \in [calls : 0..MaxCalls, callers : 0..MaxCallerDeaths, daemons : 0..MaxDaemonDeaths,
                 overtaken : BOOLEAN]

Unborn == [phase |-> "unborn", rev |-> 0, committed |-> FALSE, orphan |-> FALSE,
           killed |-> FALSE, term |-> FALSE, shutdown |-> "no"]

Init ==
    /\ BootInit /\ IdentityInit
    /\ state = Nobody
    /\ lifecycle = [rev |-> 0, status |-> "stopped", runtime |-> Nobody]
    /\ launches = <<>> /\ stops = <<>>
    /\ failure = FALSE
    /\ daemon = [d \in Runtimes |-> Unborn]
    /\ op = Nobody
    /\ told = {}
    /\ count = [calls |-> 0, callers |-> 0, daemons |-> 0, overtaken |-> FALSE]

-----------------------------------------------------------------------------
\* pidIsRunning: also of a process that has been sent SIGKILL.
Running(d) == daemon[d].phase \in {"starting", "ready"}

\* A daemon that can still run code of its own.
Active(d) == Running(d) /\ ~daemon[d].killed

\* The authenticated health request: answered while the server listens.
Healthy(d) == Active(d) /\ daemon[d].phase = "ready" /\ daemon[d].shutdown = "no"

RecordedRuns == state # Nobody /\ Running(state.pid)
RecordedHealthy == state # Nobody /\ Healthy(state.pid)

\* A launch trusts the recorded revision of a live pid only; a stop any.
LaunchRevision == IF RecordedRuns THEN state.rev ELSE lifecycle.rev
StopRevision == IF state # Nobody THEN state.rev ELSE lifecycle.rev

Mutant_Retain(outcomes, k) ==
    LET all == Append(outcomes, k)
    IN IF Len(all) > Retained + 1 THEN Tail(all) ELSE all

\* Outcomes are known by their keys, oldest first.  What one says matters to
\* its caller alone: a key that has one is answered and nothing is done.
Retain(outcomes, k) ==
    LET all == Append(outcomes, k)
    IN IF Len(all) > Retained THEN Tail(all) ELSE all

HasKey(outcomes, k) == \E i \in 1..Len(outcomes) : outcomes[i] = k

NextRuntime(d) ==
    /\ daemon[d].phase = "unborn"
    /\ \A c \in Runtimes : daemon[c].phase = "unborn" => d <= c

Goto(stage) == op' = [op EXCEPT !.at = stage]

\* An operation can begin: the lock is free, or its holder is dead.
CanBegin == op = Nobody

Calls ==
    /\ CanBegin
    /\ count.calls < MaxCalls
    /\ count' = [count EXCEPT !.calls = @ + 1,
                              !.overtaken = @ \/ \E d \in Runtimes : daemon[d].orphan /\ Running(d)]

Begun(kind, k, stage, d, rev, fresh) ==
    op' = [kind |-> kind, key |-> k, at |-> stage, d |-> d,
           rev |-> rev, fresh |-> fresh]

-----------------------------------------------------------------------------
(* terminateProcessTree: SIGTERM, half a second, then SIGKILL unawaited. *)
Terminate(d) ==
    daemon' = [daemon EXCEPT ![d].term = Running(d)]

TerminationEnds(d) ==
    \/ ~Running(d) /\ UNCHANGED daemon
    \/ Running(d) /\ daemon' = [daemon EXCEPT ![d].killed = TRUE]

-----------------------------------------------------------------------------
(* launchRuntime *)

\* Replay and key conflict answer from the retained outcome and write nothing
\* but an audit.  So does a launch that cannot read a file left torn.
LaunchAnswered(k) ==
    /\ CanBegin
    /\ \/ HasKey(launches, k)
       \/ ~Readable
    /\ UNCHANGED <<durable, daemon, op, told, count, bootVars, identityVars>>

\* The caller expected another revision than the one there is.
LaunchConflict(k) ==
    /\ Calls
    /\ ~HasKey(launches, k)
    /\ launches' = Retain(launches, k)
    /\ UNCHANGED <<state, lifecycle, stops, failure, daemon, op, told, bootVars, identityVars>>

Admitted(k) ==
    /\ Calls
    /\ ~HasKey(launches, k)
    /\ Readable

\* rejectLiveRuntime: the recorded process lives and does not answer.
LaunchNotReady(k) ==
    /\ Admitted(k)
    /\ RecordedRuns
    /\ launches' = Retain(launches, k)
    /\ UNCHANGED <<state, lifecycle, stops, failure, daemon, op, told, bootVars, identityVars>>

LaunchReuse(k) ==
    /\ Admitted(k)
    /\ RecordedHealthy
    /\ Begun("launch", k, "bind", state.pid, state.rev, FALSE)
    /\ UNCHANGED <<durable, daemon, told, bootVars, identityVars>>

LaunchSpawn(k) ==
    /\ Admitted(k)
    /\ ~RecordedRuns
    /\ \E d \in Runtimes :
          /\ NextRuntime(d)
          /\ Begun("launch", k, "spawned", d, LaunchRevision + 1, TRUE)
          /\ daemon' = [daemon EXCEPT ![d] = [Unborn EXCEPT !.phase = "starting", !.rev = LaunchRevision + 1]]
          /\ Proposes(d)
    /\ state' = Nobody
    /\ failure' = FALSE
    /\ UNCHANGED <<lifecycle, launches, stops, told, bootVars, identity, binding>>

\* waitForStartup: the child's own state and an authenticated answer.
LaunchReady ==
    /\ op # Nobody /\ op.at = "spawned"
    /\ ~failure
    /\ state # Nobody /\ state.pid = op.d
    /\ Healthy(op.d)
    /\ Goto("bind")
    /\ UNCHANGED <<durable, daemon, told, count, bootVars, identityVars>>

\* A startup error, an exit, or the deadline.
LaunchStartupFails ==
    /\ op # Nobody /\ op.at = "spawned"
    /\ Terminate(op.d)
    /\ Goto("failing")
    /\ UNCHANGED <<durable, told, count, bootVars, identityVars>>

\* acceptControllerHostBinding: created exclusively, then filled.  A binding
\* that is torn or to another Host ends the start, or the reuse.
LaunchBind ==
    /\ op # Nobody /\ op.at = "bind"
    /\ IF BindingIsFree
       THEN binding' = Torn /\ Goto("fill") /\ UNCHANGED daemon
       ELSE /\ UNCHANGED binding
            /\ CASE BindingAgrees(op.d) -> Goto(IF op.fresh THEN "commit" ELSE "record") /\ UNCHANGED daemon
                 [] ~BindingAgrees(op.d) /\ op.fresh -> Goto("failing") /\ Terminate(op.d)
                 [] OTHER -> op' = Nobody /\ UNCHANGED daemon
    /\ UNCHANGED <<durable, told, count, bootVars, identity, hello>>

LaunchFillBinding ==
    /\ op # Nobody /\ op.at = "fill"
    /\ binding' = hello[op.d].host
    /\ Goto(IF op.fresh THEN "commit" ELSE "record")
    /\ UNCHANGED <<durable, daemon, told, count, bootVars, identity, hello>>

\* The acknowledgement arrives, after the daemon has taken the commit.
LaunchCommitted ==
    /\ op # Nobody /\ op.at = "commit"
    /\ daemon[op.d].committed /\ Running(op.d)
    /\ failure' = FALSE
    /\ Goto("record")
    /\ UNCHANGED <<state, lifecycle, launches, stops, daemon, told, count, bootVars, identityVars>>

\* It does not, within a second, or the child exits.
LaunchCommitFails ==
    /\ op # Nobody /\ op.at = "commit"
    /\ Terminate(op.d)
    /\ Goto("failing")
    /\ UNCHANGED <<durable, told, count, bootVars, identityVars>>

Mutant_LaunchRecord ==
    /\ op # Nobody /\ op.kind = "launch" /\ op.at = "record"
    /\ lifecycle' = IF op.fresh
                    THEN [rev |-> op.rev, status |-> "running", runtime |-> op.d]
                    ELSE lifecycle
    /\ Goto("bootstrap")
    /\ UNCHANGED <<state, launches, stops, failure, daemon, told, count, bootVars, identityVars>>

\* A reused runtime is recorded again where the record does not match it.
LaunchRecord ==
    /\ op # Nobody /\ op.kind = "launch" /\ op.at = "record"
    /\ lifecycle' = [rev |-> op.rev, status |-> "running", runtime |-> op.d]
    /\ Goto("bootstrap")
    /\ UNCHANGED <<state, launches, stops, failure, daemon, told, count, bootVars, identityVars>>

LaunchBootstrap ==
    /\ op # Nobody /\ op.at = "bootstrap"
    /\ IssueToken(op.d, op.key)
    /\ Goto("outcome")
    /\ UNCHANGED <<durable, daemon, told, count, identityVars>>

LaunchOutcome ==
    /\ op # Nobody /\ op.kind = "launch" /\ op.at = "outcome"
    /\ launches' = Retain(launches, op.key)
    /\ told' = told \cup {[rev |-> op.rev, status |-> "running", runtime |-> op.d]}
    /\ op' = Nobody
    /\ UNCHANGED <<state, lifecycle, stops, failure, daemon, count, bootVars, identityVars>>

\* The catch of spawnRuntime: the process is ended, then its files are removed.
LaunchFailed ==
    /\ op # Nobody /\ op.at = "failing"
    /\ TerminationEnds(op.d)
    /\ state' = Nobody
    /\ failure' = FALSE
    /\ Goto("refusing")
    /\ UNCHANGED <<lifecycle, launches, stops, told, count, bootVars, identityVars>>

\* The catch of launchRuntime keeps the failure, after its audit.
LaunchRefused ==
    /\ op # Nobody /\ op.at = "refusing"
    /\ launches' = Retain(launches, op.key)
    /\ op' = Nobody
    /\ UNCHANGED <<state, lifecycle, stops, failure, daemon, told, count, bootVars, identityVars>>

-----------------------------------------------------------------------------
(* stopRuntime *)

StopAnswered(k) ==
    /\ CanBegin
    /\ HasKey(stops, k)
    /\ UNCHANGED <<durable, daemon, op, told, count, bootVars, identityVars>>

\* Refused: another revision, or a recorded process that does not answer.
StopRefused(k) ==
    /\ Calls
    /\ ~HasKey(stops, k)
    /\ stops' = Retain(stops, k)
    /\ UNCHANGED <<state, lifecycle, launches, failure, daemon, op, told, bootVars, identityVars>>

Mutant_StopNotRunning(k) ==
    /\ Calls
    /\ ~HasKey(stops, k)
    /\ state' = Nobody
    /\ stops' = Retain(stops, k)
    /\ UNCHANGED <<lifecycle, launches, failure, daemon, op, told, bootVars, identityVars>>

StopNotRunning(k) ==
    /\ Calls
    /\ ~HasKey(stops, k)
    /\ ~RecordedRuns
    /\ state' = Nobody
    /\ stops' = Retain(stops, k)
    /\ UNCHANGED <<lifecycle, launches, failure, daemon, op, told, bootVars, identityVars>>

StopTerminate(k) ==
    /\ Calls
    /\ ~HasKey(stops, k)
    /\ RecordedHealthy
    /\ Terminate(state.pid)
    /\ Begun("stop", k, "terminating", state.pid, state.rev + 1, FALSE)
    /\ UNCHANGED <<durable, told, bootVars, identityVars>>

StopClear ==
    /\ op # Nobody /\ op.at = "terminating"
    /\ TerminationEnds(op.d)
    /\ state' = Nobody
    /\ Goto("record")
    /\ UNCHANGED <<lifecycle, launches, stops, failure, told, count, bootVars, identityVars>>

StopRecord ==
    /\ op # Nobody /\ op.kind = "stop" /\ op.at = "record"
    /\ lifecycle' = [rev |-> op.rev, status |-> "stopped", runtime |-> op.d]
    /\ Goto("outcome")
    /\ UNCHANGED <<state, launches, stops, failure, daemon, told, count, bootVars, identityVars>>

StopOutcome ==
    /\ op # Nobody /\ op.kind = "stop" /\ op.at = "outcome"
    /\ stops' = Retain(stops, op.key)
    /\ told' = told \cup {[rev |-> op.rev, status |-> "stopped", runtime |-> op.d]}
    /\ op' = Nobody
    /\ UNCHANGED <<state, lifecycle, launches, failure, daemon, count, bootVars, identityVars>>

\* The caller dies inside the lock; a daemon it had not committed loses its
\* channel, unless the commit was already under way.
CallerDies ==
    /\ op # Nobody
    /\ count.callers < MaxCallerDeaths
    /\ count' = [count EXCEPT !.callers = @ + 1]
    /\ \/ /\ op.kind = "launch" /\ op.fresh
          /\ daemon' = [daemon EXCEPT ![op.d].orphan = ~daemon[op.d].committed]
       \/ /\ op.kind = "launch" /\ op.at = "commit" /\ Active(op.d)
          /\ daemon' = [daemon EXCEPT ![op.d].committed = TRUE]
       \/ /\ ~(op.kind = "launch" /\ op.fresh)
          /\ UNCHANGED daemon
    /\ op' = Nobody
    /\ UNCHANGED <<durable, told, bootVars, identityVars>>

-----------------------------------------------------------------------------
(* The daemon *)

\* What a process that ends leaves: its exchanges were in memory.
Ended(d) ==
    /\ daemon' = [daemon EXCEPT ![d].phase = "dead"]
    /\ exchange' = [t \in Tokens |-> IF t[1] = d THEN "none" ELSE exchange[t]]
    /\ UNCHANGED <<tokens, sessions, identityVars>>

\* launchHost; a Host that is at its file outlives a daemon that was not killed.
DaemonGreets(d) ==
    /\ \/ Active(d) /\ daemon[d].phase = "starting"
       \/ hello[d].at = "filling" /\ ~daemon[d].killed
    /\ Handshake(d)
    /\ UNCHANGED <<durable, daemon, op, told, count, bootVars>>

\* Also while a shutdown is closing the server: the start-up goes on.
DaemonReady(d) ==
    /\ Active(d) /\ daemon[d].phase = "starting"
    /\ hello[d].at = "accepted"
    /\ state' = [pid |-> d, rev |-> daemon[d].rev]
    /\ daemon' = [daemon EXCEPT ![d].phase = "ready"]
    /\ UNCHANGED <<lifecycle, launches, stops, failure, op, told, count, bootVars, identityVars>>

\* A start that fails reports why and removes whatever state file there is.
DaemonStartFails(d) ==
    /\ Active(d) /\ daemon[d].phase = "starting"
    /\ failure' = TRUE
    /\ state' = Nobody
    /\ Ended(d)
    /\ UNCHANGED <<lifecycle, launches, stops, op, told, count, identityVars>>

\* The commit is taken and acknowledged, by a daemon that is shutting down too.
DaemonCommit(d) ==
    /\ Active(d) /\ ~daemon[d].committed /\ ~daemon[d].orphan
    /\ op # Nobody /\ op.at = "commit" /\ op.d = d
    /\ daemon' = [daemon EXCEPT ![d].committed = TRUE]
    /\ UNCHANGED <<durable, op, told, count, bootVars, identityVars>>

Mutant_DaemonShutsDown(d) ==
    /\ Active(d) /\ daemon[d].shutdown = "no"
    /\ daemon[d].term
    /\ daemon' = [daemon EXCEPT ![d].shutdown = "closing", ![d].term = FALSE]
    /\ UNCHANGED <<durable, op, told, count, bootVars, identityVars>>

\* shutdown: at SIGTERM, at an error of its own, and when the launcher is
\* gone before it committed.  A second SIGTERM exits at once.
DaemonShutsDown(d) ==
    /\ Active(d) /\ daemon[d].shutdown = "no"
    /\ daemon[d].term \/ (daemon[d].orphan /\ ~daemon[d].committed)
    /\ daemon' = [daemon EXCEPT ![d].shutdown = "closing", ![d].term = FALSE]
    /\ UNCHANGED <<durable, op, told, count, bootVars, identityVars>>

DaemonFaults(d) ==
    /\ Active(d) /\ daemon[d].shutdown = "no"
    /\ count.daemons < MaxDaemonDeaths
    /\ count' = [count EXCEPT !.daemons = @ + 1]
    /\ daemon' = [daemon EXCEPT ![d].shutdown = "closing"]
    /\ UNCHANGED <<durable, op, told, bootVars, identityVars>>

\* Closed; the state file is read, and removed if it is its own.
DaemonClosed(d) ==
    /\ Active(d) /\ daemon[d].shutdown = "closing"
    /\ IF state # Nobody /\ state.pid = d
       THEN daemon' = [daemon EXCEPT ![d].shutdown = "removing"] /\ UNCHANGED bootVars
       ELSE Ended(d)
    /\ UNCHANGED <<durable, op, told, count, identityVars>>

DaemonRemovesState(d) ==
    /\ Active(d) /\ daemon[d].shutdown = "removing"
    /\ state' = Nobody
    /\ Ended(d)
    /\ UNCHANGED <<lifecycle, launches, stops, failure, op, told, count, identityVars>>

\* A second SIGTERM exits at once; SIGKILL takes effect; a death by itself.
DaemonDies(d) ==
    /\ Running(d)
    /\ \/ daemon[d].term /\ daemon[d].shutdown # "no" /\ UNCHANGED count
       \/ daemon[d].killed /\ UNCHANGED count
       \/ /\ count.daemons < MaxDaemonDeaths
          /\ count' = [count EXCEPT !.daemons = @ + 1]
    /\ Ended(d)
    /\ UNCHANGED <<durable, op, told, identityVars>>

Serve(d) ==
    /\ Healthy(d)
    /\ \/ \E k \in Keys : ExchangeStep(<<d, k>>)
       \/ \E t \in Tokens : t[1] # d /\ ForeignToken(t)
    /\ UNCHANGED <<durable, daemon, op, told, count, identityVars>>

-----------------------------------------------------------------------------
Launch(k) ==
    \/ LaunchAnswered(k) \/ LaunchConflict(k) \/ LaunchNotReady(k)
    \/ LaunchReuse(k) \/ LaunchSpawn(k)

Stop(k) ==
    \/ StopAnswered(k) \/ StopRefused(k)
    \/ StopNotRunning(k) \/ StopTerminate(k)

LaunchStep ==
    \/ LaunchReady \/ LaunchStartupFails \/ LaunchBind \/ LaunchFillBinding
    \/ LaunchCommitted \/ LaunchCommitFails \/ LaunchRecord \/ LaunchBootstrap
    \/ LaunchOutcome \/ LaunchFailed \/ LaunchRefused

StopStep == StopClear \/ StopRecord \/ StopOutcome

DaemonStep(d) ==
    \/ DaemonGreets(d) \/ DaemonReady(d) \/ DaemonStartFails(d) \/ DaemonCommit(d) \/ DaemonShutsDown(d)
    \/ DaemonFaults(d) \/ DaemonClosed(d) \/ DaemonRemovesState(d) \/ DaemonDies(d)
    \/ Serve(d)

Next ==
    \/ \E k \in Keys : Launch(k) \/ Stop(k)
    \/ LaunchStep
    \/ StopStep
    \/ CallerDies
    \/ \E d \in Runtimes : DaemonStep(d)

Spec == Init /\ [][Next]_vars

\* Steps of live processes; nothing obliges anybody to call, to fail or to die.
Fairness ==
    /\ WF_vars(LaunchStep)
    /\ WF_vars(StopStep)
    /\ \A d \in Runtimes :
         /\ WF_vars(DaemonReady(d)) /\ WF_vars(DaemonShutsDown(d))
         /\ WF_vars(DaemonClosed(d)) /\ WF_vars(DaemonRemovesState(d))
         /\ WF_vars(daemon[d].killed /\ DaemonDies(d))

FairSpec == Spec /\ Fairness

-----------------------------------------------------------------------------
(* Properties *)

\* Not on its way out.
Serving(d) ==
    /\ daemon[d].committed /\ Running(d)
    /\ ~daemon[d].term /\ ~daemon[d].killed /\ daemon[d].shutdown = "no"

(***************************************************************************)
(* A committed runtime is the one runtime-state.json names, wherever the   *)
(* callers die: otherwise no stop could reach it and the next launch would *)
(* start another beside it.  That is so until a caller overtakes a daemon  *)
(* that lost its launcher and has not noticed yet, since that one can      *)
(* still write or remove the other's state file.                           *)
(***************************************************************************)
ServingIsRecorded ==
    ~count.overtaken => \A d \in Runtimes : Serving(d) => state = [pid |-> d, rev |-> daemon[d].rev]

(***************************************************************************)
(* A revision that an accepted launch or stop reported names one state of  *)
(* one runtime for ever, so that an expected revision cannot be met by     *)
(* another: not after a caller died between the daemon and the record.     *)
(***************************************************************************)
RevisionNamesOneState ==
    ~count.overtaken => \A a, b \in told : a.rev = b.rev => a = b

(***************************************************************************)
(* Killing a launcher before it committed the daemon orphans nothing.      *)
(***************************************************************************)
OrphanEnds ==
    \A d \in Runtimes :
        (daemon[d].orphan /\ ~daemon[d].committed) ~> (daemon[d].phase = "dead")
=============================================================================

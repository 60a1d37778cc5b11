------------------------- MODULE RuntimeLifecycleSafety -------------------------
(***************************************************************************)
(* Safety of the runtime lifecycle, for any runtimes, keys and bounds: the *)
(* identity of the Host, the session of a bootstrap token, the record of   *)
(* what runs, and what a revision names.                                   *)
(*                                                                         *)
(* Shape types what the proofs read, without the bounds TLC needs.  The    *)
(* inductive invariants are IdentityInv, SessionInv, OrderInv (one daemon  *)
(* acts, and the file and the revisions follow it) and BoundInv (each call *)
(* raises the revisions by one at most).                                   *)
(***************************************************************************)
EXTENDS RuntimeLifecycle, TLAPS

Daemons ==
    [phase : {"unborn", "starting", "ready", "dead"}, rev : Nat,
     committed : BOOLEAN, orphan : BOOLEAN, killed : BOOLEAN,
     term : BOOLEAN, shutdown : {"no", "closing", "removing"}]

Operations ==
    [kind : {"launch", "stop"}, key : Keys, at : Stages, d : Runtimes, rev : Nat, fresh : BOOLEAN]

Shape ==
    /\ IdentityTypeOK
    /\ state \in [pid : Runtimes, rev : Nat] \cup {Nobody}
    /\ lifecycle \in [rev : Nat, status : States, runtime : Runtimes \cup {Nobody}]
    /\ daemon \in [Runtimes -> Daemons]
    /\ op \in Operations \cup {Nobody}

\* An operation that goes on keeps its shape.
LEMMA GotoShape ==
  ASSUME op \in Operations, NEW stage \in Stages, Goto(stage)
  PROVE  /\ op' \in Operations /\ op'.at = stage
         /\ op'.d = op.d /\ op'.fresh = op.fresh /\ op'.kind = op.kind /\ op'.key = op.key
BY DEF Goto, Operations

\* What the rest of this module reads of a step's daemons: none is elsewhere.
Stay(next) ==
    /\ next \in [Runtimes -> Daemons]
    /\ \A c \in Runtimes : next[c].phase = daemon[c].phase

\* One daemon is at another place.
Moves(next, d, phase) ==
    /\ next \in [Runtimes -> Daemons]
    /\ next[d].phase = phase
    /\ \A c \in Runtimes : c # d => next[c].phase = daemon[c].phase

\* The fields of a daemon, one at a time.
LEMMA DaemonFields ==
  ASSUME daemon \in [Runtimes -> Daemons], NEW d \in Runtimes
  PROVE  /\ Stay(daemon)
         /\ \A b \in BOOLEAN :
              /\ Stay([daemon EXCEPT ![d].term = b])
              /\ Stay([daemon EXCEPT ![d].killed = b])
              /\ Stay([daemon EXCEPT ![d].orphan = b])
              /\ Stay([daemon EXCEPT ![d].committed = b])
              /\ \A step \in {"no", "closing", "removing"} :
                   Stay([daemon EXCEPT ![d].shutdown = step, ![d].term = b])
         /\ \A step \in {"no", "closing", "removing"} : Stay([daemon EXCEPT ![d].shutdown = step])
         /\ \A phase \in {"unborn", "starting", "ready", "dead"} :
              Moves([daemon EXCEPT ![d].phase = phase], d, phase)
         /\ \A rev \in Nat :
              Moves([daemon EXCEPT ![d] = [Unborn EXCEPT !.phase = "starting", !.rev = rev]],
                    d, "starting")
<1>1. Stay(daemon)
  BY DEF Stay
<1>2. ASSUME NEW b \in BOOLEAN
      PROVE  /\ Stay([daemon EXCEPT ![d].term = b])
             /\ Stay([daemon EXCEPT ![d].killed = b])
             /\ Stay([daemon EXCEPT ![d].orphan = b])
             /\ Stay([daemon EXCEPT ![d].committed = b])
  BY DEF Stay, Daemons
<1>3. ASSUME NEW b \in BOOLEAN, NEW step \in {"no", "closing", "removing"}
      PROVE  /\ Stay([daemon EXCEPT ![d].shutdown = step, ![d].term = b])
             /\ Stay([daemon EXCEPT ![d].shutdown = step])
  BY DEF Stay, Daemons
<1>4. ASSUME NEW phase \in {"unborn", "starting", "ready", "dead"}
      PROVE  Moves([daemon EXCEPT ![d].phase = phase], d, phase)
  BY DEF Moves, Daemons
<1>5. ASSUME NEW rev \in Nat
      PROVE  Moves([daemon EXCEPT ![d] = [Unborn EXCEPT !.phase = "starting", !.rev = rev]],
                   d, "starting")
  BY DEF Moves, Daemons, Unborn
<1> QED
  BY <1>1, <1>2, <1>3, <1>4, <1>5

\* Terminating a daemon does not change where it is.
LEMMA TerminateStays ==
  ASSUME daemon \in [Runtimes -> Daemons], NEW d \in Runtimes, Terminate(d) \/ TerminationEnds(d)
  PROVE  Stay(daemon')
<1>1. Running(d) \in BOOLEAN /\ TRUE \in BOOLEAN
  BY DEF Running
<1> QED
  BY <1>1, DaemonFields, Zenon DEF Terminate, TerminationEnds

-----------------------------------------------------------------------------
(* Steps that leave the identities alone *)

\* A start that is at the Host's binding.
Binding(o) == o # Nobody /\ o.at \in {"bind", "fill"}

\* How a daemon goes on: it stays, it ends, or its Host has accepted.
Progress(c) ==
    \/ daemon'[c].phase = daemon[c].phase
    \/ daemon[c].phase # "unborn" /\ daemon'[c].phase = "dead"
    \/ daemon[c].phase = "starting" /\ daemon'[c].phase = "ready" /\ hello[c].at = "accepted"

Quiet ==
    /\ UNCHANGED identityVars
    /\ state' \in [pid : Runtimes, rev : Nat] \cup {Nobody}
    /\ lifecycle' \in [rev : Nat, status : States, runtime : Runtimes \cup {Nobody}]
    /\ daemon' \in [Runtimes -> Daemons]
    /\ \A c \in Runtimes : Progress(c)
    /\ op' \in Operations \cup {Nobody}
    /\ Binding(op') => (Binding(op) /\ op'.d = op.d) \/ daemon[op'.d].phase = "ready"

\* Daemons that stay, and those of which one ends, progress.
LEMMA StayProgress ==
  /\ Stay(daemon') => daemon' \in [Runtimes -> Daemons] /\ \A c \in Runtimes : Progress(c)
  /\ \A d \in Runtimes : daemon[d].phase # "unborn" /\ Moves(daemon', d, "dead") =>
        daemon' \in [Runtimes -> Daemons] /\ \A c \in Runtimes : Progress(c)
BY DEF Stay, Moves, Progress

\* An operation that begins.
LEMMA BegunShape ==
  ASSUME NEW kind \in {"launch", "stop"}, NEW k \in Keys, NEW stage \in Stages, NEW d \in Runtimes,
         NEW rev \in Nat, NEW fresh \in BOOLEAN, Begun(kind, k, stage, d, rev, fresh)
  PROVE  op' \in Operations /\ op'.at = stage /\ op'.d = d
BY DEF Begun, Operations

\* Requests that only answer, and a reuse, whose runtime is ready.
LEMMA RequestQuiet ==
  ASSUME Shape, NEW k \in Keys, Launch(k) \/ Stop(k), ~LaunchSpawn(k)
  PROVE  Quiet
<1>1. CASE UNCHANGED <<daemon, op, identityVars, lifecycle>> /\ (UNCHANGED state \/ state' = Nobody)
  BY <1>1 DEF Quiet, Shape, Progress
<1>2. CASE LaunchReuse(k)
  <2>1. state \in [pid : Runtimes, rev : Nat] /\ daemon[state.pid].phase = "ready"
    BY <1>2 DEF LaunchReuse, RecordedHealthy, Healthy, Shape
  <2>2. op' \in Operations /\ op'.d = state.pid
    <3>1. "launch" \in {"launch", "stop"} /\ "bind" \in Stages /\ FALSE \in BOOLEAN
      BY DEF Stages
    <3> QED
      BY <1>2, <2>1, <3>1, BegunShape DEF LaunchReuse
  <2>3. UNCHANGED <<daemon, state, lifecycle, identityVars>>
    BY <1>2 DEF LaunchReuse, durable
  <2> QED
    BY <2>1, <2>2, <2>3 DEF Quiet, Shape, Progress
<1>3. CASE StopTerminate(k)
  <2>1. state \in [pid : Runtimes, rev : Nat]
    BY <1>3 DEF StopTerminate, RecordedHealthy, Shape
  <2>2. op' \in Operations /\ op'.at = "terminating"
    <3>1. /\ "stop" \in {"launch", "stop"} /\ "terminating" \in Stages /\ FALSE \in BOOLEAN
          /\ state.rev + 1 \in Nat
      BY <2>1 DEF Stages
    <3> QED
      BY <1>3, <2>1, <3>1, BegunShape DEF StopTerminate
  <2>3. Stay(daemon')
    BY <1>3, <2>1, TerminateStays DEF StopTerminate, Shape
  <2>4. UNCHANGED <<state, lifecycle, identityVars>>
    BY <1>3 DEF StopTerminate, durable
  <2> QED
    BY <2>2, <2>3, <2>4, StayProgress DEF Quiet, Shape, Binding
<1> QED
  BY <1>1, <1>2, <1>3 DEF Launch, Stop, LaunchAnswered, LaunchConflict, LaunchNotReady, StopAnswered,
     StopRefused, StopNotRunning, durable

\* The stages of a launch, but for the binding.
LEMMA LaunchQuiet ==
  ASSUME Shape, LaunchStep, ~LaunchBind, ~LaunchFillBinding
  PROVE  Quiet
<1>1. CASE LaunchReady
  <2>1. op \in Operations /\ daemon[op.d].phase = "ready" /\ Goto("bind")
    BY <1>1 DEF LaunchReady, Healthy, Shape
  <2>2. op' \in Operations /\ op'.d = op.d
    BY <2>1, GotoShape DEF Stages
  <2>3. UNCHANGED <<daemon, state, lifecycle, identityVars>>
    BY <1>1 DEF LaunchReady, durable
  <2> QED
    BY <2>1, <2>2, <2>3 DEF Quiet, Shape, Progress
<1>2. CASE LaunchStartupFails \/ LaunchCommitFails
  <2>1. op \in Operations /\ Terminate(op.d) /\ Goto("failing")
    BY <1>2 DEF LaunchStartupFails, LaunchCommitFails, Shape
  <2>2. op' \in Operations /\ op'.at = "failing"
    BY <2>1, GotoShape DEF Stages
  <2>3. Stay(daemon')
    BY <2>1, TerminateStays DEF Shape, Operations
  <2>4. UNCHANGED <<state, lifecycle, identityVars>>
    BY <1>2 DEF LaunchStartupFails, LaunchCommitFails, durable
  <2> QED
    BY <2>2, <2>3, <2>4, StayProgress DEF Quiet, Shape, Binding
<1>3. CASE LaunchCommitted \/ LaunchBootstrap
  <2>1. op \in Operations /\ (Goto("record") \/ Goto("outcome"))
    BY <1>3 DEF LaunchCommitted, LaunchBootstrap, Shape
  <2>2. op' \in Operations /\ op'.at \in {"record", "outcome"}
    BY <2>1, GotoShape DEF Stages
  <2>3. UNCHANGED <<daemon, state, lifecycle, identityVars>>
    BY <1>3 DEF LaunchCommitted, LaunchBootstrap, durable
  <2> QED
    BY <2>2, <2>3 DEF Quiet, Shape, Progress, Binding
<1>4. CASE LaunchRecord
  <2>1. op \in Operations /\ Goto("bootstrap")
    BY <1>4 DEF LaunchRecord, Shape
  <2>2. op' \in Operations /\ op'.at = "bootstrap"
    BY <2>1, GotoShape DEF Stages
  <2>3. lifecycle' \in [rev : Nat, status : States, runtime : Runtimes \cup {Nobody}]
    BY <1>4, <2>1 DEF LaunchRecord, Operations, States
  <2>4. UNCHANGED <<daemon, state, identityVars>>
    BY <1>4 DEF LaunchRecord
  <2> QED
    BY <2>2, <2>3, <2>4 DEF Quiet, Shape, Progress, Binding
<1>5. CASE LaunchOutcome \/ LaunchRefused
  BY <1>5 DEF LaunchOutcome, LaunchRefused, Quiet, Shape, Progress, Binding
<1>6. CASE LaunchFailed
  <2>1. op \in Operations /\ TerminationEnds(op.d) /\ Goto("refusing")
    BY <1>6 DEF LaunchFailed, Shape
  <2>2. Stay(daemon')
    BY <2>1, TerminateStays DEF Shape, Operations
  <2>3. op' \in Operations /\ op'.at = "refusing"
    BY <2>1, GotoShape DEF Stages
  <2>4. state' = Nobody /\ UNCHANGED <<lifecycle, identityVars>>
    BY <1>6 DEF LaunchFailed
  <2> QED
    BY <2>2, <2>3, <2>4, StayProgress DEF Quiet, Shape, Binding
<1> QED
  BY <1>1, <1>2, <1>3, <1>4, <1>5, <1>6 DEF LaunchStep

\* The stages of a stop, and a caller that dies.
LEMMA StopQuiet ==
  ASSUME Shape, StopStep \/ CallerDies
  PROVE  Quiet
<1>1. CASE StopClear
  <2>1. op \in Operations /\ TerminationEnds(op.d) /\ Goto("record")
    BY <1>1 DEF StopClear, Shape
  <2>2. op' \in Operations /\ op'.at = "record"
    BY <2>1, GotoShape DEF Stages
  <2>3. Stay(daemon')
    BY <2>1, TerminateStays DEF Shape, Operations
  <2>4. state' = Nobody /\ UNCHANGED <<lifecycle, identityVars>>
    BY <1>1 DEF StopClear
  <2> QED
    BY <2>2, <2>3, <2>4, StayProgress DEF Quiet, Shape, Binding
<1>2. CASE StopRecord
  <2>1. op \in Operations /\ Goto("outcome")
    BY <1>2 DEF StopRecord, Shape
  <2>2. op' \in Operations /\ op'.at = "outcome"
    BY <2>1, GotoShape DEF Stages
  <2>3. lifecycle' \in [rev : Nat, status : States, runtime : Runtimes \cup {Nobody}]
    BY <1>2, <2>1 DEF StopRecord, Operations, States
  <2>4. UNCHANGED <<daemon, state, identityVars>>
    BY <1>2 DEF StopRecord
  <2> QED
    BY <2>2, <2>3, <2>4 DEF Quiet, Shape, Progress, Binding
<1>3. CASE StopOutcome
  BY <1>3 DEF StopOutcome, Quiet, Shape, Progress, Binding
<1>4. CASE CallerDies
  <2>1. op \in Operations /\ op' = Nobody /\ UNCHANGED <<state, lifecycle, identityVars>>
    BY <1>4 DEF CallerDies, durable, Shape
  <2>2. (~daemon[op.d].committed) \in BOOLEAN /\ TRUE \in BOOLEAN /\ op.d \in Runtimes
    BY <2>1 DEF Operations
  <2>3. Stay(daemon')
    BY <1>4, <2>2, DaemonFields, Zenon DEF CallerDies, Shape
  <2> QED
    BY <2>1, <2>3, StayProgress DEF Quiet, Shape, Binding
<1> QED
  BY <1>1, <1>2, <1>3, <1>4 DEF StopStep

\* A daemon by itself, but for the handshake of its Host.
LEMMA DaemonQuiet ==
  ASSUME Shape, NEW d \in Runtimes, DaemonStep(d), ~DaemonGreets(d)
  PROVE  Quiet
<1>1. UNCHANGED <<op, lifecycle>> => op' \in Operations \cup {Nobody} /\ (Binding(op') => Binding(op) /\ op'.d = op.d)
                                 /\ lifecycle' \in [rev : Nat, status : States, runtime : Runtimes \cup {Nobody}]
  BY DEF Shape, Binding
<1>2. CASE DaemonReady(d)
  <2>1. /\ UNCHANGED <<op, lifecycle, identityVars>>
        /\ daemon[d].phase = "starting" /\ hello[d].at = "accepted"
        /\ state' = [pid |-> d, rev |-> daemon[d].rev]
        /\ daemon' = [daemon EXCEPT ![d].phase = "ready"]
    BY <1>2 DEF DaemonReady
  <2>2. Moves(daemon', d, "ready")
    BY <2>1, DaemonFields DEF Shape
  <2>3. state' \in [pid : Runtimes, rev : Nat]
    BY <2>1 DEF Shape, Daemons
  <2> QED
    BY <1>1, <2>1, <2>2, <2>3 DEF Quiet, Moves, Progress
<1>3. CASE /\ UNCHANGED <<op, lifecycle, identityVars>> /\ (UNCHANGED state \/ state' = Nobody)
           /\ Stay(daemon') \/ (daemon[d].phase # "unborn" /\ Ended(d))
  <2>1. Ended(d) => Moves(daemon', d, "dead")
    BY DaemonFields, Zenon DEF Ended, Shape
  <2> QED
    BY <1>1, <1>3, <2>1, StayProgress DEF Quiet, Shape
<1>4. CASE DaemonCommit(d) \/ DaemonFaults(d) \/ DaemonShutsDown(d)
  <2>1. UNCHANGED <<op, lifecycle, state, identityVars>>
    BY <1>4 DEF DaemonCommit, DaemonFaults, DaemonShutsDown, durable
  <2>2. Stay(daemon')
    <3>1. TRUE \in BOOLEAN /\ FALSE \in BOOLEAN /\ "closing" \in {"no", "closing", "removing"}
      OBVIOUS
    <3> QED
      BY <1>4, <3>1, DaemonFields, Zenon DEF DaemonCommit, DaemonFaults, DaemonShutsDown, Shape
  <2> QED
    BY <1>3, <2>1, <2>2
<1>5. CASE DaemonStartFails(d) \/ DaemonRemovesState(d) \/ DaemonDies(d)
  BY <1>3, <1>5 DEF DaemonStartFails, DaemonRemovesState, DaemonDies, Active, Running, durable
<1>6. CASE DaemonClosed(d)
  <2>1. UNCHANGED <<op, lifecycle, state, identityVars>>
    BY <1>6 DEF DaemonClosed, durable
  <2>2. CASE daemon' = [daemon EXCEPT ![d].shutdown = "removing"]
    BY <1>3, <2>1, <2>2, DaemonFields DEF Shape
  <2>3. CASE Ended(d)
    BY <1>3, <1>6, <2>1, <2>3 DEF DaemonClosed, Active, Running
  <2> QED
    BY <1>6, <2>2, <2>3 DEF DaemonClosed
<1>7. CASE Serve(d)
  BY <1>3, <1>7, DaemonFields DEF Serve, durable, Shape
<1> QED
  BY <1>2, <1>4, <1>5, <1>6, <1>7 DEF DaemonStep

-----------------------------------------------------------------------------
(* The identity of the Host *)

\* A file that is being filled has one Host at it; what is accepted is on file;
\* only the starter of a Host that accepted gets to the binding.
IdentityInv ==
    /\ \A d \in Runtimes : daemon[d].phase = "unborn" => hello[d].at = "greeting"
    /\ \A d \in Runtimes : daemon[d].phase # "unborn" => hello[d].host \in Starters
    /\ \A d \in Runtimes : daemon[d].phase = "ready" => hello[d].at = "accepted"
    /\ \A d \in Runtimes : hello[d].at = "filling" => identity = Torn /\ hello[d].host = d
    /\ \A c, d \in Runtimes : hello[c].at = "filling" /\ hello[d].at = "filling" => c = d
    /\ \A d \in Runtimes : hello[d].at = "accepted" => daemon[d].phase # "unborn" /\ identity = hello[d].host
    /\ Binding(op) => hello[op.d].at = "accepted"
    /\ binding \in Starters => identity = binding

\* Steps that leave the identities alone.
LEMMA QuietIdentity ==
  ASSUME Shape, IdentityInv, Quiet
  PROVE  Shape' /\ IdentityInv'
<1>1. Shape'
  BY DEF Shape, Quiet, IdentityTypeOK, identityVars
<1>2. identity' = identity /\ binding' = binding /\ hello' = hello /\ \A c \in Runtimes : Progress(c)
  BY DEF Quiet, identityVars
<1>3. Binding(op') => hello[op'.d].at = "accepted"
  <2>1. CASE Binding(op) /\ op'.d = op.d
    BY <2>1 DEF IdentityInv
  <2>2. CASE Binding(op') /\ daemon[op'.d].phase = "ready"
    BY <2>2 DEF IdentityInv, Quiet, Binding, Operations
  <2> QED
    BY <2>1, <2>2 DEF Quiet
<1>4. \A d \in Runtimes :
        /\ daemon'[d].phase = "unborn" => hello[d].at = "greeting"
        /\ daemon'[d].phase # "unborn" => hello[d].host \in Starters
        /\ daemon'[d].phase = "ready" => hello[d].at = "accepted"
        /\ hello[d].at = "accepted" => daemon'[d].phase # "unborn"
  BY <1>2 DEF IdentityInv, Progress
<1>5. op' # Nobody /\ op'.at \in {"bind", "fill"} => hello[op'.d].at = "accepted"
  BY <1>3 DEF Binding
<1>6. /\ \A d \in Runtimes : hello[d].at = "filling" => identity = Torn /\ hello[d].host = d
      /\ \A c, d \in Runtimes : hello[c].at = "filling" /\ hello[d].at = "filling" => c = d
      /\ \A d \in Runtimes : hello[d].at = "accepted" => identity = hello[d].host
      /\ binding \in Starters => identity = binding
  BY DEF IdentityInv
<1> QED
  BY <1>1, <1>2, <1>4, <1>5, <1>6 DEF IdentityInv, Binding

\* A launch that spawns: its starter asks for an identity that can be read.
LEMMA SpawnIdentity ==
  ASSUME Shape, IdentityInv, NEW k \in Keys, LaunchSpawn(k)
  PROVE  Shape' /\ IdentityInv'
<1>1. PICK d \in Runtimes :
        /\ daemon[d].phase = "unborn"
        /\ Begun("launch", k, "spawned", d, LaunchRevision + 1, TRUE)
        /\ daemon' = [daemon EXCEPT ![d] = [Unborn EXCEPT !.phase = "starting", !.rev = LaunchRevision + 1]]
        /\ Proposes(d)
  BY DEF LaunchSpawn, NextRuntime
<1>2. Readable /\ state' = Nobody /\ UNCHANGED <<lifecycle, identity, binding>>
  BY DEF LaunchSpawn, Admitted
<1>3. LaunchRevision + 1 \in Nat
  <2>1. lifecycle.rev \in Nat
    BY DEF Shape
  <2>2. RecordedRuns => state.rev \in Nat
    BY DEF RecordedRuns, Shape
  <2> QED
    BY <2>1, <2>2 DEF LaunchRevision
<1>4. Moves(daemon', d, "starting")
  BY <1>1, <1>3, DaemonFields DEF Shape
<1>5. op' \in Operations /\ op'.at = "spawned"
  <2>1. "launch" \in {"launch", "stop"} /\ "spawned" \in Stages /\ TRUE \in BOOLEAN
    BY DEF Stages
  <2> QED
    BY <1>1, <1>3, <2>1, BegunShape
<1>6. d \in Starters /\ Prepared(d) \in Starters
  <2>1. d \in Starters
    BY LifecycleAssumption
  <2> QED
    BY <1>2, <2>1 DEF Prepared, Readable, Shape, IdentityTypeOK, Files
<1>7. /\ hello' \in [Starters -> Greetings]
      /\ hello'[d].host \in Starters
      /\ \A c \in Starters : hello'[c].at = hello[c].at
      /\ \A c \in Starters : c # d => hello'[c] = hello[c]
  BY <1>1, <1>6 DEF Proposes, Shape, IdentityTypeOK, Greetings
<1>8. hello[d].at = "greeting"
  BY <1>1 DEF IdentityInv
<1>9. Shape'
  BY <1>2, <1>4, <1>5, <1>7 DEF Shape, IdentityTypeOK, Moves
<1>10. \A c \in Runtimes : c \in Starters
  BY LifecycleAssumption
<1> QED
  BY <1>2, <1>4, <1>5, <1>7, <1>8, <1>9, <1>10 DEF IdentityInv, Moves, Binding

\* The handshake of one starter's Host goes on.
Greeted(d, at) ==
    /\ hello'[d].at = at /\ hello'[d].host = hello[d].host
    /\ \A c \in Runtimes : c # d => hello'[c] = hello[c]

\* The handshake of a Host.
LEMMA GreetIdentity ==
  ASSUME Shape, IdentityInv, NEW d \in Runtimes, DaemonGreets(d)
  PROVE  Shape' /\ IdentityInv'
<1>1. UNCHANGED <<daemon, op, state, lifecycle, binding>>
  BY DEF DaemonGreets, Handshake, durable
<1>2. Runtimes = Starters /\ NoFile \notin Starters /\ Torn \notin Starters /\ Torn # NoFile
  BY LifecycleAssumption, IdentityAssumption
<1>3. /\ daemon[d].phase # "unborn" /\ hello[d].host \in Starters
      /\ Binding(op) => op.d \in Runtimes
  BY DEF DaemonGreets, IdentityInv, Binding, Shape, Operations
<1>4. CASE HostOpens(d)
  <2>1. /\ identity = NoFile /\ identity' = Torn /\ hello[d].host = d /\ hello[d].at = "greeting"
        /\ hello' = [hello EXCEPT ![d].at = "filling"]
    BY <1>4 DEF HostOpens, Creates
  <2>2. Shape' /\ Greeted(d, "filling")
    BY <1>1, <1>2, <2>1 DEF Shape, IdentityTypeOK, Greeted, Greetings, Files
  <2>3. \A c \in Runtimes : hello[c].at \notin {"filling", "accepted"}
    BY <1>2, <2>1 DEF IdentityInv
  <2>4. binding \notin Starters /\ ~Binding(op) /\ \A c \in Runtimes : daemon[c].phase # "ready"
    BY <1>2, <1>3, <2>1, <2>3 DEF IdentityInv
  <2>5. \A c \in Runtimes : /\ hello'[c].host = hello[c].host
                            /\ hello'[c].at = IF c = d THEN "filling" ELSE hello[c].at
    BY <2>2 DEF Greeted
  <2>6. \A c \in Runtimes : /\ daemon'[c].phase = daemon[c].phase
                            /\ daemon[c].phase = "unborn" => hello'[c].at = "greeting"
                            /\ daemon[c].phase # "unborn" => hello'[c].host \in Starters
    BY <1>1, <1>3, <2>5 DEF IdentityInv
  <2>7. \A c \in Runtimes : /\ hello'[c].at = "filling" => c = d /\ identity' = Torn /\ hello'[c].host = c
                            /\ hello'[c].at # "accepted"
    BY <2>1, <2>3, <2>5
  <2>8. binding' \notin Starters /\ ~Binding(op')
    BY <1>1, <2>4
  <2> QED
    BY <2>2, <2>4, <2>6, <2>7, <2>8 DEF IdentityInv
<1>5. CASE HostFills(d)
  <2>1. /\ identity = Torn /\ identity' = d /\ hello[d].at = "filling"
        /\ hello[d].host = d
        /\ hello' = [hello EXCEPT ![d].at = "accepted"]
    BY <1>5 DEF HostFills, IdentityInv
  <2>2. Shape' /\ Greeted(d, "accepted")
    BY <1>1, <1>2, <2>1 DEF Shape, IdentityTypeOK, Greeted, Greetings, Files
  <2>3. \A c \in Runtimes : hello[c].at # "accepted" /\ (c # d => hello[c].at # "filling")
    BY <1>2, <2>1 DEF IdentityInv, Shape, IdentityTypeOK, Greetings
  <2> QED
    BY <1>1, <1>2, <1>3, <2>1, <2>2, <2>3 DEF IdentityInv, Greeted, Binding
<1>6. CASE HostAgrees(d) \/ HostRefuses(d)
  <2>1. /\ UNCHANGED identity /\ hello[d].at = "greeting"
        /\ \/ identity = hello[d].host /\ hello' = [hello EXCEPT ![d].at = "accepted"]
           \/ hello' = [hello EXCEPT ![d].at = "refused"]
    BY <1>6 DEF HostAgrees, HostRefuses
  <2>2. Shape' /\ ((Greeted(d, "accepted") /\ identity = hello[d].host) \/ Greeted(d, "refused"))
    BY <1>1, <1>2, <2>1 DEF Shape, IdentityTypeOK, Greeted, Greetings, Files
  <2>3. daemon[d].phase # "ready" /\ ~(Binding(op) /\ op.d = d)
    BY <2>1 DEF IdentityInv
  <2> QED
    BY <1>1, <1>2, <1>3, <2>1, <2>2, <2>3 DEF IdentityInv, Greeted, Binding
<1> QED
  BY <1>4, <1>5, <1>6 DEF DaemonGreets, Handshake

\* A start at the Host's binding.
LEMMA BindIdentity ==
  ASSUME Shape, IdentityInv, LaunchBind \/ LaunchFillBinding
  PROVE  Shape' /\ IdentityInv'
<1>1. /\ op \in Operations /\ op.d \in Runtimes /\ op.d \in Starters
      /\ hello[op.d].at = "accepted" /\ identity = hello[op.d].host
      /\ UNCHANGED <<state, lifecycle, identity, hello>>
  <2>1. Binding(op) /\ op \in Operations /\ UNCHANGED <<state, lifecycle, identity, hello>>
    BY DEF LaunchBind, LaunchFillBinding, Binding, Shape, durable
  <2>2. op.d \in Runtimes
    BY <2>1 DEF Operations
  <2> QED
    BY <2>1, <2>2, LifecycleAssumption DEF IdentityInv
<1>2. Stay(daemon')
  <2>1. UNCHANGED daemon \/ Terminate(op.d)
    BY DEF LaunchBind, LaunchFillBinding
  <2> QED
    BY <1>1, <2>1, DaemonFields, TerminateStays DEF Shape
<1>3. op' = Nobody \/ (op' \in Operations /\ (Binding(op') => op'.d = op.d))
  <2>1. \/ op' = Nobody
        \/ \E stage \in {"fill", "commit", "record", "failing"} : Goto(stage)
    BY DEF LaunchBind, LaunchFillBinding
  <2>2. {"fill", "commit", "record", "failing"} \subseteq Stages
    BY DEF Stages
  <2> QED
    BY <1>1, <2>1, <2>2, GotoShape
<1>4. binding' \in Files /\ (binding' \in Starters => binding' = identity)
  <2>1. binding' \in {binding, Torn, hello[op.d].host}
    BY DEF LaunchBind, LaunchFillBinding
  <2> QED
    BY <1>1, <2>1, IdentityAssumption DEF Shape, IdentityTypeOK, IdentityInv, Greetings, Files
<1>5. Shape'
  BY <1>1, <1>2, <1>3, <1>4 DEF Shape, Stay, IdentityTypeOK
<1> QED
  BY <1>1, <1>2, <1>3, <1>4, <1>5 DEF IdentityInv, Stay, Binding

\* No file, and no daemon.
LEMMA IdentityStarts == Init => Shape /\ IdentityInv
<1> SUFFICES ASSUME Init PROVE Shape /\ IdentityInv
  OBVIOUS
<1>1. daemon \in [Runtimes -> Daemons] /\ \A d \in Runtimes : daemon[d].phase = "unborn"
  BY DEF Init, Unborn, Daemons
<1>2. IdentityTypeOK /\ \A d \in Runtimes : hello[d].at = "greeting"
  BY LifecycleAssumption DEF Init, IdentityInit, IdentityTypeOK, Files, Greetings
<1>3. binding \notin Starters
  BY IdentityAssumption DEF Init, IdentityInit
<1>4. Shape
  BY <1>1, <1>2 DEF Shape, Init, States
<1> QED
  BY <1>1, <1>2, <1>3, <1>4 DEF IdentityInv, Init, Binding

\* Every step of Next is one of the above.
LEMMA IdentityKept == Shape /\ IdentityInv /\ [Next]_vars => Shape' /\ IdentityInv'
<1> SUFFICES ASSUME Shape, IdentityInv, [Next]_vars PROVE Shape' /\ IdentityInv'
  OBVIOUS
<1>1. ASSUME NEW k \in Keys, Launch(k) \/ Stop(k) PROVE Shape' /\ IdentityInv'
  BY <1>1, RequestQuiet, QuietIdentity, SpawnIdentity
<1>2. CASE LaunchStep
  BY <1>2, LaunchQuiet, QuietIdentity, BindIdentity
<1>3. CASE StopStep \/ CallerDies
  BY <1>3, StopQuiet, QuietIdentity
<1>4. ASSUME NEW d \in Runtimes, DaemonStep(d) PROVE Shape' /\ IdentityInv'
  BY <1>4, DaemonQuiet, QuietIdentity, GreetIdentity
<1>5. CASE UNCHANGED vars
  <2>1. UNCHANGED <<identityVars, state, lifecycle, daemon, op>>
    BY <1>5 DEF vars, durable
  <2>2. Quiet
    BY <2>1 DEF Quiet, Shape, Progress, Binding
  <2> QED
    BY <2>2, QuietIdentity
<1> QED
  BY <1>1, <1>2, <1>3, <1>4, <1>5 DEF Next

(***************************************************************************)
(* host-identity.mjs, runtime.mjs: whichever daemons outlive their         *)
(* launchers and whoever dies between creating a file and filling it, what *)
(* is bound to and what a Host accepted is the identity on file.           *)
(***************************************************************************)
THEOREM HostIsOne == Spec => []OneHostIdentity
<1>1. IdentityInv => OneHostIdentity
  BY LifecycleAssumption DEF IdentityInv, OneHostIdentity
<1> QED
  BY <1>1, IdentityStarts, IdentityKept, PTL DEF Spec

-----------------------------------------------------------------------------
(* The session of a bootstrap token *)

\* A session that was made is remembered for as long as its daemon lives.
SessionInv ==
    /\ exchange \in [Tokens -> {"none", "claimed", "made", "thrown"}]
    /\ sessions \in [Tokens -> {0, 1}]
    /\ \A t \in Tokens : sessions[t] = 1 => exchange[t] = "made" \/ daemon[t[1]].phase = "dead"

\* Nobody comes back from the dead.
LEMMA DeadStayDead ==
  ASSUME Shape, [Next]_vars, NEW c \in Runtimes, daemon[c].phase = "dead"
  PROVE  daemon'[c].phase = "dead"
<1>1. CASE Quiet
  BY <1>1 DEF Quiet, Progress
<1>2. ASSUME NEW k \in Keys, LaunchSpawn(k) PROVE daemon'[c].phase = "dead"
  <2>1. PICK d \in Runtimes :
          /\ daemon[d].phase = "unborn"
          /\ daemon' = [daemon EXCEPT ![d] = [Unborn EXCEPT !.phase = "starting", !.rev = LaunchRevision + 1]]
    BY <1>2 DEF LaunchSpawn, NextRuntime
  <2> QED
    BY <2>1 DEF Shape
<1>3. CASE LaunchBind \/ LaunchFillBinding
  <2>1. UNCHANGED daemon \/ (op \in Operations /\ Terminate(op.d))
    BY <1>3 DEF LaunchBind, LaunchFillBinding, Shape
  <2>2. op \in Operations => op.d \in Runtimes
    BY DEF Operations
  <2>3. Stay(daemon')
    BY <2>1, <2>2, DaemonFields, TerminateStays DEF Shape
  <2> QED
    BY <2>3 DEF Stay
<1>4. ASSUME NEW d \in Runtimes, DaemonGreets(d) PROVE daemon'[c].phase = "dead"
  BY <1>4 DEF DaemonGreets
<1>5. CASE UNCHANGED vars
  BY <1>5 DEF vars
<1> QED
  BY <1>1, <1>2, <1>3, <1>4, <1>5, RequestQuiet, LaunchQuiet, StopQuiet, DaemonQuiet DEF Next, LaunchStep

\* Only daemons look at tokens: one that ends forgets, one that serves claims.
LEMMA WhoExchanges ==
  ASSUME [Next]_vars
  PROVE  \/ UNCHANGED <<exchange, sessions>>
         \/ \E d \in Runtimes : Ended(d)
         \/ \E d \in Runtimes, k \in Keys : Healthy(d) /\ ExchangeStep(<<d, k>>)
<1>1. ASSUME NEW k \in Keys, Launch(k) \/ Stop(k) PROVE UNCHANGED <<exchange, sessions>>
  BY <1>1 DEF Launch, Stop, LaunchAnswered, LaunchConflict, LaunchNotReady, LaunchReuse, LaunchSpawn,
     StopAnswered, StopRefused, StopNotRunning, StopTerminate, bootVars
<1>2. CASE LaunchStep
  BY <1>2 DEF LaunchStep, LaunchReady, LaunchStartupFails, LaunchBind, LaunchFillBinding, LaunchCommitted,
     LaunchCommitFails, LaunchRecord, LaunchBootstrap, IssueToken, LaunchOutcome, LaunchFailed, LaunchRefused, bootVars
<1>3. CASE StopStep \/ CallerDies \/ UNCHANGED vars
  BY <1>3 DEF StopStep, StopClear, StopRecord, StopOutcome, CallerDies, vars, bootVars
<1>4. ASSUME NEW d \in Runtimes, DaemonStep(d)
      PROVE  \/ UNCHANGED <<exchange, sessions>>
             \/ Ended(d)
             \/ \E k \in Keys : Healthy(d) /\ ExchangeStep(<<d, k>>)
  BY <1>4 DEF DaemonStep, DaemonGreets, DaemonReady, DaemonStartFails, DaemonCommit, DaemonShutsDown,
     DaemonFaults, DaemonClosed, DaemonRemovesState, DaemonDies, Serve, ForeignToken, bootVars
<1> QED
  BY <1>1, <1>2, <1>3, <1>4 DEF Next

\* A token that is claimed has made no session.
LEMMA SessionKept == Shape /\ SessionInv /\ [Next]_vars => SessionInv'
<1> SUFFICES ASSUME Shape, SessionInv, [Next]_vars PROVE SessionInv'
  OBVIOUS
<1>1. \A t \in Tokens : t[1] \in Runtimes
  BY DEF Tokens
<1>2. \A t \in Tokens : daemon[t[1]].phase = "dead" => daemon'[t[1]].phase = "dead"
  BY <1>1, DeadStayDead
<1>3. CASE UNCHANGED <<exchange, sessions>>
  BY <1>2, <1>3 DEF SessionInv
<1>4. ASSUME NEW d \in Runtimes, Ended(d) PROVE SessionInv'
  <2>1. sessions' = sessions /\ daemon'[d].phase = "dead"
    BY <1>4 DEF Ended, Shape, Daemons
  <2>2. /\ exchange' \in [Tokens -> {"none", "claimed", "made", "thrown"}]
        /\ \A t \in Tokens : t[1] # d => exchange'[t] = exchange[t]
    BY <1>4 DEF Ended, SessionInv
  <2> QED
    BY <1>2, <2>1, <2>2 DEF SessionInv
<1>5. ASSUME NEW d \in Runtimes, NEW k \in Keys, Healthy(d), ExchangeStep(<<d, k>>) PROVE SessionInv'
  <2> DEFINE t == <<d, k>>
  <2>1. t \in Tokens /\ t[1] = d /\ daemon[d].phase # "dead"
    BY <1>5 DEF Tokens, Healthy
  <2>2. /\ exchange[t] # "made" /\ sessions[t] = 0
        /\ \/ /\ sessions' = sessions
              /\ \E at \in {"none", "claimed", "thrown"} : exchange' = [exchange EXCEPT ![t] = at]
           \/ /\ sessions' = [sessions EXCEPT ![t] = @ + 1]
              /\ exchange' = [exchange EXCEPT ![t] = "made"]
    <3>1. exchange[t] # "made"
      BY <1>5 DEF ExchangeStep, RenameThrows, ClaimToken, RejectClaim, ClaimThrows, CreateSession
    <3>2. sessions[t] = 0
      BY <2>1, <3>1 DEF SessionInv
    <3> QED
      BY <1>5, <3>1, <3>2 DEF ExchangeStep, RenameThrows, ClaimToken, RejectClaim, ClaimThrows, CreateSession
  <2> HIDE DEF t
  <2>3. /\ exchange' \in [Tokens -> {"none", "claimed", "made", "thrown"}]
        /\ sessions' \in [Tokens -> {0, 1}]
        /\ sessions'[t] = 1 => exchange'[t] = "made"
        /\ \A u \in Tokens : u # t => exchange'[u] = exchange[u] /\ sessions'[u] = sessions[u]
    BY <2>1, <2>2 DEF SessionInv
  <2> QED
    BY <1>2, <2>3 DEF SessionInv
<1> QED
  BY <1>3, <1>4, <1>5, WhoExchanges

(***************************************************************************)
(* daemon/bootstrap.mjs: a token makes at most one browser session, though *)
(* a launch that is repeated writes the same token file again, at any      *)
(* time, and though callers and daemons die anywhere.                      *)
(***************************************************************************)
THEOREM OneSession == Spec => []TokenMakesOneSession
<1>1. Init => SessionInv
  BY DEF Init, BootInit, SessionInv
<1>2. SessionInv => TokenMakesOneSession
  BY DEF SessionInv, TokenMakesOneSession
<1> QED
  BY <1>1, <1>2, IdentityStarts, IdentityKept, SessionKept, PTL DEF Spec

------------------------------------------------------------------------
(* The record of what runs *)

\* While no caller overtook an orphan: one daemon acts, and only for the
\* operation there is; an orphan that runs has the lock to itself.
Lone ==
    /\ \A c, d \in Runtimes : Active(c) /\ Active(d) => c = d
    /\ op # Nobody => \A c \in Runtimes : (Active(c) => c = op.d) /\ ~(Running(c) /\ daemon[c].orphan)

\* The start of a daemon has an operation that attends it.
Attends(o, c) ==
    /\ o # Nobody
    /\ o.kind = "launch" /\ o.fresh /\ o.d = c /\ o.at \in {"spawned", "failing"}

\* A daemon that acts is on file, or has not got there.
Recorded ==
    \A c \in Runtimes :
        /\ daemon[c].committed => daemon[c].phase \in {"ready", "dead"}
        /\ Active(c) /\ daemon[c].phase = "ready" => state = [pid |-> c, rev |-> daemon[c].rev]
        /\ Active(c) /\ daemon[c].phase = "starting" => daemon[c].orphan \/ Attends(op, c)

Outcome(rev, status, c) == [rev |-> rev, status |-> status, runtime |-> c]

\* The lifecycle has not got to this revision, or says just that.
Reaches(rev, c) == lifecycle.rev < rev \/ lifecycle = Outcome(rev, "running", c)

Ahead == \A c \in Runtimes : Active(c) => Reaches(daemon[c].rev, c)

\* A launch, stage by stage.
LaunchInv ==
    op # Nobody /\ op.kind = "launch" =>
      /\ op.at # "terminating"
      /\ op.at \in {"spawned", "commit", "failing"} => op.fresh
      /\ daemon[op.d].phase # "unborn" /\ daemon[op.d].rev = op.rev
      /\ Reaches(op.rev, op.d)
      /\ op.at \in {"bootstrap", "outcome"} => lifecycle = Outcome(op.rev, "running", op.d)

\* A stop, stage by stage.
StopInv ==
    op # Nobody /\ op.kind = "stop" =>
      /\ op.at \in {"terminating", "record", "outcome"} /\ ~op.fresh
      /\ op.at = "outcome" => lifecycle = Outcome(op.rev, "stopped", op.d)
      /\ op.at # "outcome" => lifecycle.rev < op.rev
      /\ op.at # "terminating" => ~Active(op.d)

\* What was told of the lifecycle's revision is what the lifecycle says.
ToldInv ==
    /\ told \subseteq [rev : Nat, status : States, runtime : Runtimes]
    /\ \A a \in told : a.rev <= lifecycle.rev /\ (a.rev = lifecycle.rev => a = lifecycle)
    /\ \A a, b \in told : a.rev = b.rev => a = b

Orderly == Lone /\ Recorded /\ Ahead /\ LaunchInv /\ StopInv /\ ToldInv
OrderlyInv == ~count.overtaken => Orderly

\* Daemons that go on or fade: none begins to act, none gets elsewhere.
Fade ==
    \A c \in Runtimes :
        /\ daemon'[c].rev = daemon[c].rev
        /\ Active(c)' => /\ Active(c) /\ daemon'[c].phase = daemon[c].phase
                         /\ daemon[c].orphan => daemon'[c].orphan
        /\ Running(c)' /\ daemon'[c].orphan => (Running(c) /\ daemon[c].orphan) \/ op' = Nobody
        /\ daemon'[c].committed => daemon'[c].phase \in {"ready", "dead"}
        /\ daemon[c].phase # "unborn" => daemon'[c].phase # "unborn"

\* What daemons that fade leave true.
LEMMA FadeKeeps ==
  ASSUME Lone, Recorded, Ahead, ToldInv, Fade,
         UNCHANGED <<lifecycle, told>>,
         state' = state \/ \A c \in Runtimes : ~(Active(c)' /\ daemon[c].phase = "ready"),
         op' # Nobody => op # Nobody /\ op'.d = op.d,
         \A c \in Runtimes : Active(c)' /\ daemon[c].phase = "starting" /\ ~daemon'[c].orphan => Attends(op', c)
  PROVE  Lone' /\ Recorded' /\ Ahead' /\ ToldInv'
<1>1. Lone'
  BY DEF Lone, Fade
<1>2. Recorded'
  BY DEF Recorded, Fade
<1>3. Ahead'
  BY DEF Ahead, Fade, Reaches
<1>4. ToldInv'
  BY DEF ToldInv
<1> QED
  BY <1>1, <1>2, <1>3, <1>4

\* A daemon step that fades.
LEMMA DaemonFades ==
  ASSUME Shape, Orderly, Fade, UNCHANGED <<lifecycle, told, op>>,
         state' = state \/ \A c \in Runtimes : ~(Active(c)' /\ daemon[c].phase = "ready")
  PROVE  Orderly'
<1>1. \A c \in Runtimes : Active(c)' /\ daemon[c].phase = "starting" /\ ~daemon'[c].orphan => Attends(op', c)
  BY DEF Fade, Orderly, Recorded, Attends
<1>2. Lone' /\ Recorded' /\ Ahead' /\ ToldInv'
  BY <1>1, FadeKeeps DEF Orderly
<1>3. op # Nobody => op.d \in Runtimes
  BY DEF Shape, Operations
<1>4. LaunchInv'
  BY <1>3 DEF Orderly, LaunchInv, Fade, Reaches
<1>5. StopInv'
  BY <1>3 DEF Orderly, StopInv, Fade
<1> QED
  BY <1>2, <1>4, <1>5 DEF Orderly

\* The daemons' steps, but for the one that gets ready.
LEMMA DaemonOrderly ==
  ASSUME Shape, Orderly, NEW d \in Runtimes, DaemonStep(d), ~DaemonReady(d)
  PROVE  Orderly'
<1> USE DEF Active, Running
<1>0. daemon \in [Runtimes -> Daemons] /\ \A c \in Runtimes : daemon[c].committed => daemon[c].phase \in {"ready", "dead"}
  BY DEF Shape, Orderly, Recorded
<1>1. CASE UNCHANGED daemon /\ UNCHANGED <<state, lifecycle, told, op>>
  <2>1. Fade
    BY <1>0, <1>1 DEF Fade
  <2> QED
    BY <1>1, <2>1, DaemonFades
<1>2. CASE Ended(d) /\ UNCHANGED <<lifecycle, told, op>> /\ daemon[d].phase \notin {"unborn", "dead"} /\ UNCHANGED state
  <2>1. Fade
    BY <1>0, <1>2 DEF Fade, Ended, Daemons
  <2> QED
    BY <1>2, <2>1, DaemonFades
<1>3. CASE Ended(d) /\ UNCHANGED <<lifecycle, told, op>> /\ Active(d)
  <2>1. Fade
    BY <1>0, <1>3 DEF Fade, Ended, Daemons
  <2>2. \A c \in Runtimes : ~Active(c)'
    <3>1. ~Active(d)'
      BY <1>0, <1>3 DEF Ended, Daemons
    <3>2. \A c \in Runtimes : Active(c)' => Active(c)
      BY <2>1 DEF Fade
    <3>3. \A c \in Runtimes : Active(c) => c = d
      BY <1>3 DEF Orderly, Lone
    <3> QED
      BY <3>1, <3>2, <3>3
  <2> QED
    BY <1>3, <2>1, <2>2, DaemonFades
<1>4. CASE DaemonCommit(d)
  <2>0. daemon[d].phase = "ready"
    BY <1>4 DEF DaemonCommit, Orderly, Recorded, Attends
  <2>1. Fade /\ UNCHANGED <<state, lifecycle, told, op>>
    BY <1>0, <1>4, <2>0 DEF Fade, DaemonCommit, Daemons, durable
  <2> QED
    BY <2>1, DaemonFades
<1>5. CASE DaemonShutsDown(d) \/ DaemonFaults(d)
  <2>1. Fade /\ UNCHANGED <<state, lifecycle, told, op>>
    BY <1>0, <1>5 DEF Fade, DaemonShutsDown, DaemonFaults, Daemons, durable
  <2> QED
    BY <2>1, DaemonFades
<1>6. CASE DaemonClosed(d) /\ ~Ended(d)
  <2>1. Fade /\ UNCHANGED <<state, lifecycle, told, op>>
    BY <1>0, <1>6 DEF Fade, DaemonClosed, Daemons, durable
  <2> QED
    BY <2>1, DaemonFades
<1>7. CASE DaemonStartFails(d) \/ DaemonRemovesState(d) \/ (DaemonClosed(d) /\ Ended(d))
  BY <1>3, <1>7 DEF DaemonStartFails, DaemonRemovesState, DaemonClosed, durable
<1>8. CASE DaemonDies(d)
  BY <1>2, <1>8 DEF DaemonDies, durable
<1>9. CASE DaemonGreets(d) \/ Serve(d)
  BY <1>1, <1>9 DEF DaemonGreets, Serve, durable
<1> QED
  BY <1>4, <1>5, <1>6, <1>7, <1>8, <1>9 DEF DaemonStep

\* A daemon that gets ready puts itself on file: nobody else acts.
LEMMA ReadyOrderly ==
  ASSUME Shape, Orderly, NEW d \in Runtimes, DaemonReady(d)
  PROVE  Orderly'
<1>1. /\ Active(d) /\ daemon[d].phase = "starting"
      /\ state' = [pid |-> d, rev |-> daemon[d].rev]
      /\ daemon' = [daemon EXCEPT ![d].phase = "ready"]
      /\ UNCHANGED <<lifecycle, told, op>>
  BY DEF DaemonReady
<1>2. \A c \in Runtimes :
        /\ daemon'[c].phase = IF c = d THEN "ready" ELSE daemon[c].phase
        /\ daemon'[c].rev = daemon[c].rev /\ daemon'[c].orphan = daemon[c].orphan
        /\ daemon'[c].committed = daemon[c].committed /\ daemon'[c].killed = daemon[c].killed
  BY <1>1 DEF Shape, Daemons
<1>3. \A c \in Runtimes : (Active(c)' <=> Active(c)) /\ (Running(c)' <=> Running(c))
  BY <1>1, <1>2 DEF Active, Running
<1>4. \A c \in Runtimes : Active(c) => c = d
  BY <1>1 DEF Orderly, Lone
<1>5. Lone'
  BY <1>1, <1>2, <1>3 DEF Orderly, Lone
<1>6. Recorded'
  BY <1>1, <1>2, <1>3, <1>4 DEF Orderly, Recorded
<1>7. Ahead' /\ ToldInv'
  BY <1>1, <1>2, <1>3 DEF Orderly, Ahead, Reaches, ToldInv
<1>8. op # Nobody => op.d \in Runtimes
  BY DEF Shape, Operations
<1>9. LaunchInv' /\ StopInv'
  BY <1>1, <1>2, <1>3, <1>8 DEF Orderly, LaunchInv, StopInv, Reaches
<1> QED
  BY <1>5, <1>6, <1>7, <1>9 DEF Orderly

Counts == [calls : Nat, callers : Nat, daemons : Nat, overtaken : BOOLEAN]

\* While an operation can begin and no orphan runs, a daemon that acts is on file.
LEMMA NobodyActs ==
  ASSUME Shape, Orderly, NEW k \in Keys, LaunchSpawn(k), ~count'.overtaken, count \in Counts
  PROVE  \A c \in Runtimes : ~Active(c) /\ ~(daemon[c].orphan /\ Running(c))
<1>1. op = Nobody /\ ~RecordedRuns /\ \A c \in Runtimes : ~(daemon[c].orphan /\ Running(c))
  <2>1. /\ op = Nobody /\ ~RecordedRuns
        /\ count' = [count EXCEPT !.calls = @ + 1,
                       !.overtaken = @ \/ \E d \in Runtimes : daemon[d].orphan /\ Running(d)]
    BY DEF LaunchSpawn, Admitted, Calls, CanBegin
  <2>2. count'.overtaken = (count.overtaken \/ \E d \in Runtimes : daemon[d].orphan /\ Running(d))
    BY <2>1 DEF Counts
  <2> QED
    BY <2>1, <2>2
<1>2. ASSUME NEW c \in Runtimes, Active(c) PROVE FALSE
  <2>1. daemon[c].phase = "ready"
    BY <1>1, <1>2 DEF Orderly, Recorded, Attends, Active, Running
  <2>2. state = [pid |-> c, rev |-> daemon[c].rev]
    BY <1>2, <2>1 DEF Orderly, Recorded
  <2>3. state # Nobody
    BY <2>2, NobodyAssumption DEF Shape, Daemons
  <2> QED
    BY <1>1, <1>2, <2>2, <2>3 DEF RecordedRuns, Active
<1> QED
  BY <1>1, <1>2

\* No operation is Nobody.
LEMMA OperationsAreSome == Nobody \notin Operations
BY NobodyAssumption DEF Operations

\* A launch that spawns: the daemon is the only one that acts.
LEMMA SpawnOrderly ==
  ASSUME Shape, Orderly, NEW k \in Keys, LaunchSpawn(k), ~count'.overtaken,
         count \in Counts
  PROVE  Orderly'
<1>1. PICK d \in Runtimes :
        /\ daemon[d].phase = "unborn"
        /\ Begun("launch", k, "spawned", d, LaunchRevision + 1, TRUE)
        /\ daemon' = [daemon EXCEPT ![d] = [Unborn EXCEPT !.phase = "starting", !.rev = LaunchRevision + 1]]
  BY DEF LaunchSpawn, NextRuntime
<1>2. /\ state' = Nobody /\ UNCHANGED <<lifecycle, told>>
      /\ LaunchRevision = lifecycle.rev /\ lifecycle.rev \in Nat
  BY DEF LaunchSpawn, LaunchRevision, Shape
<1>3. \A c \in Runtimes : ~Active(c) /\ ~(daemon[c].orphan /\ Running(c))
  BY NobodyActs
<1>4. /\ op' = [kind |-> "launch", key |-> k, at |-> "spawned", d |-> d,
                rev |-> lifecycle.rev + 1, fresh |-> TRUE]
      /\ op' # Nobody
  <2>1. op' = [kind |-> "launch", key |-> k, at |-> "spawned", d |-> d,
                rev |-> lifecycle.rev + 1, fresh |-> TRUE]
    BY <1>1, <1>2 DEF Begun
  <2>2. op' \in Operations
    BY <1>1, <1>2, <2>1 DEF Operations, Stages
  <2> QED
    BY <2>1, <2>2, OperationsAreSome
<1>5. /\ daemon'[d] = [Unborn EXCEPT !.phase = "starting", !.rev = lifecycle.rev + 1]
      /\ \A c \in Runtimes : c # d => daemon'[c] = daemon[c]
  BY <1>1, <1>2 DEF Shape
<1>6. \A c \in Runtimes : /\ Active(c)' => c = d
                          /\ ~(daemon'[c].orphan /\ Running(c)')
  BY <1>3, <1>5 DEF Active, Running, Unborn
<1>11. daemon'[d].rev = lifecycle.rev + 1 /\ daemon'[d].phase = "starting"
  BY <1>5 DEF Unborn
<1>12. lifecycle' = lifecycle /\ lifecycle.rev < lifecycle.rev + 1
  BY <1>2
<1>7. Lone'
  BY <1>4, <1>6 DEF Lone
<1>8. Recorded'
  BY <1>4, <1>5, <1>6 DEF Recorded, Orderly, Unborn, Attends
<1>9. Ahead' /\ ToldInv'
  <2>1. Ahead'
    BY <1>6, <1>11, <1>12 DEF Ahead, Reaches
  <2>2. ToldInv'
    BY <1>2 DEF Orderly, ToldInv
  <2> QED
    BY <2>1, <2>2
<1>10. LaunchInv' /\ StopInv'
  BY <1>4, <1>11, <1>12 DEF LaunchInv, StopInv, Reaches
<1> QED
  BY <1>7, <1>8, <1>9, <1>10 DEF Orderly

\* Requests that only answer, a reuse, and the termination of what is on file.
LEMMA RequestOrderly ==
  ASSUME Shape, Orderly, NEW k \in Keys, Launch(k) \/ Stop(k), ~LaunchSpawn(k), ~count'.overtaken,
         count \in Counts
  PROVE  Orderly'
<1> USE DEF Active, Running
<1>1. CASE UNCHANGED <<state, lifecycle, told, op, daemon>>
  BY <1>1 DEF Orderly, Lone, Recorded, Ahead, LaunchInv, StopInv, ToldInv, Reaches, Attends
<1>2. CASE StopNotRunning(k)
  <2>1. /\ ~RecordedRuns /\ op = Nobody /\ state' = Nobody
        /\ UNCHANGED <<lifecycle, told, op, daemon>>
    BY <1>2 DEF StopNotRunning, Calls, CanBegin
  <2>2. Fade
    BY <2>1 DEF Fade, Orderly, Recorded
  <2>3. \A c \in Runtimes : ~(Active(c)' /\ daemon[c].phase = "ready")
    <3>1. SUFFICES ASSUME NEW c \in Runtimes, Active(c), daemon[c].phase = "ready" PROVE FALSE
      BY <2>1
    <3>2. state = [pid |-> c, rev |-> daemon[c].rev]
      BY <3>1 DEF Orderly, Recorded
    <3>3. state # Nobody
      BY <3>2, NobodyAssumption DEF Shape, Daemons
    <3> QED
      BY <2>1, <3>1, <3>2, <3>3 DEF RecordedRuns
  <2> QED
    BY <2>1, <2>2, <2>3, DaemonFades
<1>3. ASSUME Calls, UNCHANGED <<state, lifecycle, told>>,
             NEW b \in BOOLEAN, RecordedHealthy,
             daemon' = [daemon EXCEPT ![state.pid].term = b],
             op' \in Operations, op'.d = state.pid
      PROVE  Lone' /\ Recorded' /\ Ahead' /\ ToldInv' /\ Active(state.pid) /\ daemon[state.pid].phase = "ready"
             /\ state = [pid |-> state.pid, rev |-> daemon[state.pid].rev] /\ op' # Nobody
             /\ daemon'[state.pid].phase = "ready" /\ daemon'[state.pid].rev = daemon[state.pid].rev
  <2>1. /\ state # Nobody /\ state.pid \in Runtimes /\ Active(state.pid) /\ daemon[state.pid].phase = "ready"
        /\ op = Nobody
    BY <1>3 DEF RecordedHealthy, Healthy, Shape, Calls, CanBegin
  <2>2. \A c \in Runtimes : ~(daemon[c].orphan /\ Running(c))
    <3>1. count' = [count EXCEPT !.calls = @ + 1,
                       !.overtaken = @ \/ \E d \in Runtimes : daemon[d].orphan /\ Running(d)]
      BY <1>3 DEF Calls
    <3>2. count'.overtaken = (count.overtaken \/ \E d \in Runtimes : daemon[d].orphan /\ Running(d))
      BY <3>1 DEF Counts
    <3> QED
      BY <3>2
  <2>3. \A c \in Runtimes :
          /\ daemon'[c].phase = daemon[c].phase /\ daemon'[c].rev = daemon[c].rev
          /\ daemon'[c].orphan = daemon[c].orphan /\ daemon'[c].killed = daemon[c].killed
          /\ daemon'[c].committed = daemon[c].committed
    BY <1>3, <2>1 DEF Shape, Daemons
  <2>4. op' # Nobody
    BY <1>3, OperationsAreSome
  <2>5. Lone'
    BY <1>3, <2>1, <2>2, <2>3 DEF Lone, Orderly
  <2>6. Recorded'
    BY <1>3, <2>1, <2>2, <2>3 DEF Recorded, Orderly, Lone
  <2>7. Ahead' /\ ToldInv'
    BY <1>3, <2>3 DEF Ahead, Orderly, ToldInv, Reaches
  <2> QED
    BY <2>1, <2>3, <2>4, <2>5, <2>6, <2>7 DEF Orderly, Recorded
<1>4. CASE LaunchReuse(k)
  <2> DEFINE p == state.pid
  <2>1. /\ Calls /\ RecordedHealthy /\ UNCHANGED <<state, lifecycle, told, daemon>>
        /\ op' = [kind |-> "launch", key |-> k, at |-> "bind", d |-> state.pid,
                  rev |-> state.rev, fresh |-> FALSE]
    BY <1>4 DEF LaunchReuse, Admitted, Begun, durable
  <2>2. state \in [pid : Runtimes, rev : Nat]
    BY <2>1 DEF RecordedHealthy, Shape
  <2>3. op' \in Operations
    BY <2>1, <2>2 DEF Operations, Stages
  <2>4. daemon' = [daemon EXCEPT ![state.pid].term = daemon[state.pid].term] /\ daemon[state.pid].term \in BOOLEAN
    BY <2>1, <2>2 DEF Shape, Daemons
  <2>5. /\ Lone' /\ Recorded' /\ Ahead' /\ ToldInv' /\ Active(state.pid) /\ daemon[state.pid].phase = "ready"
        /\ state = [pid |-> state.pid, rev |-> daemon[state.pid].rev] /\ op' # Nobody
        /\ daemon'[state.pid].phase = "ready" /\ daemon'[state.pid].rev = daemon[state.pid].rev
    BY <1>3, <2>1, <2>3, <2>4
  <2>6. Reaches(state.rev, state.pid)
    BY <2>2, <2>5 DEF Orderly, Ahead
  <2>7. LaunchInv' /\ StopInv'
    BY <2>1, <2>5, <2>6 DEF LaunchInv, StopInv, Reaches
  <2> QED
    BY <2>5, <2>7 DEF Orderly
<1>5. CASE StopTerminate(k)
  <2>1. /\ Calls /\ RecordedHealthy /\ UNCHANGED <<state, lifecycle, told>>
        /\ daemon' = [daemon EXCEPT ![state.pid].term = Running(state.pid)]
        /\ op' = [kind |-> "stop", key |-> k, at |-> "terminating", d |-> state.pid,
                  rev |-> state.rev + 1, fresh |-> FALSE]
    BY <1>5 DEF StopTerminate, Terminate, Begun, durable
  <2>2. state \in [pid : Runtimes, rev : Nat]
    BY <2>1 DEF RecordedHealthy, Shape
  <2>3. op' \in Operations
    BY <2>1, <2>2 DEF Operations, Stages
  <2>4. Running(state.pid) \in BOOLEAN
    OBVIOUS
  <2>5. /\ Lone' /\ Recorded' /\ Ahead' /\ ToldInv' /\ Active(state.pid) /\ daemon[state.pid].phase = "ready"
        /\ state = [pid |-> state.pid, rev |-> daemon[state.pid].rev] /\ op' # Nobody
        /\ daemon'[state.pid].phase = "ready" /\ daemon'[state.pid].rev = daemon[state.pid].rev
    <3>1. PICK b \in BOOLEAN : b = Running(state.pid)
      BY <2>4
    <3>2. daemon' = [daemon EXCEPT ![state.pid].term = b]
      BY <2>1, <3>1, Zenon
    <3>3. op'.d = state.pid
      BY <2>1
    <3> QED
      BY <1>3, <2>1, <2>3, <3>2, <3>3
  <2>6. Reaches(state.rev, state.pid)
    BY <2>2, <2>5 DEF Orderly, Ahead
  <2>7. lifecycle.rev < state.rev + 1
    BY <2>2, <2>6 DEF Reaches, Outcome, Shape
  <2>8. LaunchInv' /\ StopInv'
    BY <2>1, <2>5, <2>7 DEF LaunchInv, StopInv, Reaches
  <2> QED
    BY <2>5, <2>8 DEF Orderly
<1> QED
  BY <1>1, <1>2, <1>4, <1>5 DEF Launch, Stop, LaunchAnswered, LaunchConflict, LaunchNotReady, StopAnswered,
     StopRefused, durable

\* A daemon that is terminated, or whose termination ends, fades; the latter
\* no longer acts.
LEMMA TerminationFades ==
  ASSUME Shape, Recorded, NEW d \in Runtimes
  PROVE  /\ daemon' = daemon => Fade
         /\ Terminate(d) => Fade
         /\ TerminationEnds(d) => Fade /\ ~Active(d)'
<1> USE DEF Active, Running
<1>1. daemon \in [Runtimes -> Daemons] /\ \A c \in Runtimes : daemon[c].committed => daemon[c].phase \in {"ready", "dead"}
  BY DEF Shape, Recorded
<1>2. daemon' = daemon => Fade
  BY <1>1 DEF Fade
<1>3. ASSUME NEW b \in BOOLEAN, daemon' = [daemon EXCEPT ![d].term = b] PROVE Fade
  BY <1>1, <1>3 DEF Fade, Daemons
<1>4. Terminate(d) => Fade
  <2>1. PICK b \in BOOLEAN : b = Running(d)
    <3>1. Running(d) \in BOOLEAN
      BY DEF Running
    <3> HIDE DEF Running
    <3> QED
      BY <3>1
  <2>2. Terminate(d) => daemon' = [daemon EXCEPT ![d].term = b]
    BY <2>1, Zenon DEF Terminate
  <2> QED
    BY <1>3, <2>2
<1>5. TerminationEnds(d) => Fade /\ ~Active(d)'
  BY <1>1 DEF Fade, Daemons, TerminationEnds
<1> QED
  BY <1>2, <1>4, <1>5

\* An operation that goes on, with daemons that fade and the lifecycle as it was.
LEMMA StageOrderly ==
  ASSUME Shape, Orderly, op \in Operations, NEW stage \in Stages, Goto(stage), Fade,
         UNCHANGED <<lifecycle, told>>,
         state' = state \/ \A c \in Runtimes : ~(Active(c)' /\ daemon[c].phase = "ready"),
         op.at = "spawned" /\ daemon'[op.d].phase = "starting" => stage \in {"spawned", "failing"},
         op.at = "failing" => stage = "failing" \/ \A c \in Runtimes : ~Active(c)',
         op.kind = "launch" => stage # "terminating",
         stage \in {"spawned", "commit", "failing"} => op.fresh /\ op.kind = "launch",
         op.kind = "launch" /\ stage \in {"bootstrap", "outcome"} => op.at \in {"bootstrap", "outcome"},
         op.kind = "stop" => stage \in {"terminating", "record"} /\ op.at \in {"terminating", "record"},
         op.kind = "stop" /\ stage = "record" => ~Active(op.d)'
  PROVE  Orderly'
<1>1. /\ op' \in Operations /\ op'.at = stage /\ op'.rev = op.rev /\ op'.d = op.d /\ op'.fresh = op.fresh /\ op'.kind = op.kind
      /\ op # Nobody /\ op' # Nobody /\ op.d \in Runtimes /\ op.kind \in {"launch", "stop"}
  BY OperationsAreSome DEF Goto, Operations
<1>2. \A c \in Runtimes : Active(c)' /\ daemon[c].phase = "starting" /\ ~daemon'[c].orphan => Attends(op', c)
  <2>1. SUFFICES ASSUME NEW c \in Runtimes, Active(c)', daemon[c].phase = "starting", ~daemon'[c].orphan
                 PROVE  Attends(op', c)
    OBVIOUS
  <2>2. Attends(op, c) /\ daemon'[c].phase = "starting"
    BY <2>1 DEF Fade, Orderly, Recorded
  <2>3. stage \in {"spawned", "failing"}
    BY <2>1, <2>2 DEF Attends
  <2> QED
    BY <1>1, <2>2, <2>3 DEF Attends
<1>3. Lone' /\ Recorded' /\ Ahead' /\ ToldInv'
  BY <1>1, <1>2, FadeKeeps DEF Orderly
<1>4. LaunchInv'
  BY <1>1 DEF Orderly, LaunchInv, Fade, Reaches
<1>5. StopInv'
  BY <1>1 DEF Orderly, StopInv, Fade
<1> QED
  BY <1>3, <1>4, <1>5 DEF Orderly

\* An operation that ends or dies, with daemons that fade.
LEMMA EndOrderly ==
  ASSUME Shape, Orderly, op' = Nobody, Fade, UNCHANGED <<lifecycle, told>>,
         state' = state \/ \A c \in Runtimes : ~(Active(c)' /\ daemon[c].phase = "ready"),
         \A c \in Runtimes : Active(c)' /\ daemon[c].phase = "starting" => daemon'[c].orphan
  PROVE  Orderly'
<1>1. Lone' /\ Recorded' /\ Ahead' /\ ToldInv'
  BY FadeKeeps DEF Orderly
<1> QED
  BY <1>1 DEF Orderly, LaunchInv, StopInv

\* With an operation that is at none of the starting stages, nobody starts.
LEMMA NobodyStarts ==
  ASSUME Orderly, op # Nobody, ~(op.fresh /\ op.kind = "launch" /\ op.at \in {"spawned", "failing"})
  PROVE  \A c \in Runtimes : Active(c) => daemon[c].phase = "ready"
BY DEF Orderly, Lone, Recorded, Attends, Active, Running

\* What a launch or a stop told.
LEMMA TellOrderly ==
  ASSUME Shape, Orderly, op \in Operations, op.at = "outcome", op' = Nobody, UNCHANGED <<state, lifecycle, daemon>>,
         told' = told \cup {lifecycle}, lifecycle.runtime \in Runtimes
  PROVE  Orderly'
<1>1. op # Nobody
  BY OperationsAreSome
<1>2. Fade /\ \A c \in Runtimes : ~(Active(c)' /\ daemon[c].phase = "starting")
  <2>1. \A c \in Runtimes : Active(c) => daemon[c].phase = "ready"
    BY <1>1, NobodyStarts
  <2> QED
    BY <2>1 DEF Fade, Orderly, Recorded, Active, Running
<1>3. Lone' /\ Recorded' /\ Ahead' /\ LaunchInv' /\ StopInv'
  BY <1>2 DEF Fade, Orderly, Lone, Recorded, Ahead, Reaches, LaunchInv, StopInv, Active, Running
<1>4. ToldInv'
  BY DEF Orderly, ToldInv, Shape
<1> QED
  BY <1>3, <1>4 DEF Orderly

\* The lifecycle of an operation at its record.
LEMMA RecordOrderly ==
  ASSUME Shape, Orderly, op \in Operations, op.at = "record", NEW stage \in {"bootstrap", "outcome"}, Goto(stage),
         UNCHANGED <<state, daemon, told>>,
         NEW status \in States, lifecycle' = Outcome(op.rev, status, op.d),
         op.kind = "launch" => status = "running",
         op.kind = "stop" => status = "stopped" /\ stage = "outcome"
  PROVE  Orderly'
<1>1. /\ op' \in Operations /\ op'.at = stage /\ op'.rev = op.rev /\ op'.d = op.d /\ op'.fresh = op.fresh /\ op'.kind = op.kind
      /\ op # Nobody /\ op' # Nobody /\ op.d \in Runtimes /\ op.kind \in {"launch", "stop"}
      /\ op.rev \in Nat /\ lifecycle.rev \in Nat
  BY OperationsAreSome DEF Goto, Operations, Stages, Shape
<1>2. \A c \in Runtimes : Active(c) => daemon[c].phase = "ready" /\ c = op.d
  BY <1>1, NobodyStarts DEF Orderly, Lone
<1>3. Lone'
  BY <1>1 DEF Orderly, Lone, Active, Running
<1>4. Recorded'
  BY <1>1, <1>2 DEF Orderly, Recorded, Active, Running
<1>5. Ahead'
  BY <1>1, <1>2 DEF Orderly, Ahead, Reaches, Active, Running, LaunchInv, StopInv
<1>6. LaunchInv' /\ StopInv'
  BY <1>1 DEF Orderly, LaunchInv, StopInv, Reaches, Active, Running
<1>7. lifecycle.rev < op.rev \/ lifecycle = lifecycle'
  BY <1>1 DEF Orderly, LaunchInv, StopInv, Reaches
<1>8. ToldInv'
  BY <1>1, <1>7 DEF Orderly, ToldInv, Outcome
<1> QED
  BY <1>3, <1>4, <1>5, <1>6, <1>8 DEF Orderly

\* The stages of a launch.
LEMMA LaunchOrderly ==
  ASSUME Shape, Orderly, LaunchStep
  PROVE  Orderly'
<1>1. op \in Operations /\ op # Nobody /\ op.d \in Runtimes /\ op.kind \in {"launch", "stop"} /\ op.at \in Stages
  <2>1. op # Nobody
    BY DEF LaunchStep, LaunchReady, LaunchStartupFails, LaunchBind, LaunchFillBinding, LaunchCommitted,
       LaunchCommitFails, LaunchRecord, LaunchBootstrap, LaunchOutcome, LaunchFailed, LaunchRefused
  <2> QED
    BY <2>1 DEF Shape, Operations
<1>2. op.at \in {"spawned", "bind", "fill", "commit", "bootstrap", "failing", "refusing"} => op.kind = "launch"
  BY <1>1 DEF Orderly, StopInv
<1>3. op.at \in {"spawned", "commit", "failing"} => op.fresh
  BY <1>1, <1>2 DEF Orderly, LaunchInv
<1>4. daemon' = daemon => Fade
  BY <1>1, TerminationFades DEF Orderly
<1>5. Terminate(op.d) => Fade
  BY <1>1, TerminationFades DEF Orderly
<1>6. {"bind", "fill", "commit", "record", "bootstrap", "outcome", "failing", "refusing"} \subseteq Stages
  BY DEF Stages
<1>7. CASE LaunchReady
  <2>1. /\ op.at = "spawned" /\ daemon[op.d].phase = "ready" /\ Goto("bind")
        /\ UNCHANGED <<state, daemon, lifecycle, told>>
    BY <1>7 DEF LaunchReady, Healthy, durable
  <2> QED
    BY <1>1, <1>2, <1>4, <1>6, <2>1, StageOrderly
<1>8. CASE LaunchStartupFails \/ LaunchCommitFails
  <2>1. /\ op.at \in {"spawned", "commit"} /\ Terminate(op.d) /\ Goto("failing")
        /\ UNCHANGED <<state, lifecycle, told>>
    BY <1>8 DEF LaunchStartupFails, LaunchCommitFails, durable
  <2> QED
    BY <1>1, <1>2, <1>3, <1>5, <1>6, <2>1, StageOrderly
<1>9. CASE LaunchBind
  <2>1. op.at = "bind" /\ UNCHANGED <<state, lifecycle, told>>
    BY <1>9 DEF LaunchBind, durable
  <2>2. \/ Goto("fill") /\ UNCHANGED daemon
        \/ op.fresh /\ Goto("commit") /\ UNCHANGED daemon
        \/ Goto("record") /\ UNCHANGED daemon
        \/ op.fresh /\ Goto("failing") /\ Terminate(op.d)
        \/ op' = Nobody /\ UNCHANGED daemon
    BY <1>9, Zenon DEF LaunchBind
  <2>3. CASE Goto("fill") /\ UNCHANGED daemon
    BY <1>1, <1>2, <1>4, <1>6, <2>1, <2>3, StageOrderly
  <2>4. CASE op.fresh /\ Goto("commit") /\ UNCHANGED daemon
    BY <1>1, <1>2, <1>4, <1>6, <2>1, <2>4, StageOrderly
  <2>5. CASE Goto("record") /\ UNCHANGED daemon
    BY <1>1, <1>2, <1>4, <1>6, <2>1, <2>5, StageOrderly
  <2>6. CASE op.fresh /\ Goto("failing") /\ Terminate(op.d)
    BY <1>1, <1>2, <1>5, <1>6, <2>1, <2>6, StageOrderly
  <2>7. CASE op' = Nobody /\ UNCHANGED daemon
    <3>1. \A c \in Runtimes : Active(c) => daemon[c].phase = "ready"
      BY <1>1, <2>1, NobodyStarts
    <3>2. \A c \in Runtimes : Active(c)' => Active(c)
      BY <2>7 DEF Active, Running
    <3> QED
      BY <1>4, <2>1, <2>7, <3>1, <3>2, EndOrderly
  <2> QED
    BY <2>2, <2>3, <2>4, <2>5, <2>6, <2>7
<1>10. CASE LaunchFillBinding
  <2>1. /\ op.at = "fill" /\ (Goto("record") \/ (op.fresh /\ Goto("commit")))
        /\ UNCHANGED <<state, daemon, lifecycle, told>>
    BY <1>10 DEF LaunchFillBinding, durable
  <2> QED
    BY <1>1, <1>2, <1>4, <1>6, <2>1, StageOrderly
<1>11. CASE LaunchCommitted
  <2>1. /\ op.at = "commit" /\ Goto("record")
        /\ UNCHANGED <<state, daemon, lifecycle, told>>
    BY <1>11 DEF LaunchCommitted
  <2> QED
    BY <1>1, <1>2, <1>4, <1>6, <2>1, StageOrderly
<1>12. CASE LaunchRecord
  <2>1. /\ op.kind = "launch" /\ op.at = "record" /\ Goto("bootstrap")
        /\ lifecycle' = Outcome(op.rev, "running", op.d)
        /\ UNCHANGED <<state, daemon, told>>
    BY <1>12 DEF LaunchRecord, Outcome
  <2>2. "running" \in States
    BY DEF States
  <2> QED
    BY <1>1, <2>1, <2>2, RecordOrderly
<1>13. CASE LaunchBootstrap
  <2>1. /\ op.at = "bootstrap" /\ Goto("outcome")
        /\ UNCHANGED <<state, daemon, lifecycle, told>>
    BY <1>13 DEF LaunchBootstrap, durable
  <2> QED
    BY <1>1, <1>2, <1>4, <1>6, <2>1, StageOrderly
<1>14. CASE LaunchOutcome
  <2>1. /\ op.kind = "launch" /\ op.at = "outcome" /\ op' = Nobody
        /\ told' = told \cup {Outcome(op.rev, "running", op.d)}
        /\ UNCHANGED <<state, lifecycle, daemon>>
    BY <1>14 DEF LaunchOutcome, Outcome
  <2>2. lifecycle = Outcome(op.rev, "running", op.d)
    BY <1>1, <2>1 DEF Orderly, LaunchInv
  <2>3. lifecycle.runtime \in Runtimes
    BY <1>1, <2>2 DEF Outcome
  <2> QED
    BY <1>1, <2>1, <2>2, <2>3, TellOrderly
<1>15. CASE LaunchFailed
  <2>1. op.at = "failing" /\ TerminationEnds(op.d) /\ Goto("refusing") /\ UNCHANGED <<lifecycle, told>>
    BY <1>15 DEF LaunchFailed
  <2>2. PICK p \in Runtimes : p = op.d
    BY <1>1
  <2>3. Fade /\ ~Active(p)'
    BY <2>1, <2>2, TerminationFades DEF Orderly
  <2>4. \A c \in Runtimes : ~Active(c)'
    BY <1>1, <2>2, <2>3 DEF Fade, Orderly, Lone
  <2> QED
    BY <1>1, <1>2, <1>6, <2>1, <2>3, <2>4, StageOrderly
<1>16. CASE LaunchRefused
  <2>1. op.at = "refusing" /\ op' = Nobody /\ UNCHANGED <<state, daemon, lifecycle, told>>
    BY <1>16 DEF LaunchRefused
  <2>2. \A c \in Runtimes : Active(c) => daemon[c].phase = "ready"
    BY <1>1, <2>1, NobodyStarts
  <2>3. \A c \in Runtimes : Active(c)' => Active(c)
    BY <2>1 DEF Active, Running
  <2> QED
    BY <1>4, <2>1, <2>2, <2>3, EndOrderly
<1> QED
  BY <1>7, <1>8, <1>9, <1>10, <1>11, <1>12, <1>13, <1>14, <1>15, <1>16 DEF LaunchStep

\* The stages of a stop.
LEMMA StopOrderly ==
  ASSUME Shape, Orderly, StopStep
  PROVE  Orderly'
<1>1. op \in Operations /\ op # Nobody /\ op.d \in Runtimes /\ op.kind \in {"launch", "stop"} /\ op.at \in Stages
  <2>1. op # Nobody
    BY DEF StopStep, StopClear, StopRecord, StopOutcome
  <2> QED
    BY <2>1 DEF Shape, Operations
<1>2. CASE StopClear
  <2>1. op.at = "terminating" /\ TerminationEnds(op.d) /\ Goto("record") /\ UNCHANGED <<lifecycle, told>>
    BY <1>2 DEF StopClear
  <2>2. op.kind = "stop"
    BY <1>1, <2>1 DEF Orderly, LaunchInv
  <2>3. PICK p \in Runtimes : p = op.d
    BY <1>1
  <2>4. Fade /\ ~Active(p)'
    BY <2>1, <2>3, TerminationFades DEF Orderly
  <2>5. \A c \in Runtimes : ~Active(c)'
    BY <1>1, <2>3, <2>4 DEF Fade, Orderly, Lone
  <2>6. "record" \in Stages
    BY DEF Stages
  <2>7. op'.d \in Runtimes
    BY <1>1, <2>1, <2>6, GotoShape
  <2> QED
    BY <1>1, <2>1, <2>2, <2>4, <2>5, <2>6, <2>7, StageOrderly
<1>3. CASE StopRecord
  <2>1. /\ op.kind = "stop" /\ op.at = "record" /\ Goto("outcome")
        /\ lifecycle' = Outcome(op.rev, "stopped", op.d)
        /\ UNCHANGED <<state, daemon, told>>
    BY <1>3 DEF StopRecord, Outcome
  <2>2. "stopped" \in States
    BY DEF States
  <2> QED
    BY <1>1, <2>1, <2>2, RecordOrderly
<1>4. CASE StopOutcome
  <2>1. /\ op.kind = "stop" /\ op.at = "outcome" /\ op' = Nobody
        /\ told' = told \cup {Outcome(op.rev, "stopped", op.d)}
        /\ UNCHANGED <<state, lifecycle, daemon>>
    BY <1>4 DEF StopOutcome, Outcome
  <2>2. lifecycle = Outcome(op.rev, "stopped", op.d)
    BY <1>1, <2>1 DEF Orderly, StopInv
  <2>3. lifecycle.runtime \in Runtimes
    BY <1>1, <2>2 DEF Outcome
  <2> QED
    BY <1>1, <2>1, <2>2, <2>3, TellOrderly
<1> QED
  BY <1>2, <1>3, <1>4 DEF StopStep

\* A caller that dies: what it started is an orphan, or is committed.
LEMMA DeathOrderly ==
  ASSUME Shape, Orderly, CallerDies
  PROVE  Orderly'
<1> USE DEF Active, Running
<1>1. /\ op \in Operations /\ op # Nobody /\ op.d \in Runtimes /\ op' = Nobody
      /\ UNCHANGED <<state, lifecycle, told>> /\ daemon \in [Runtimes -> Daemons]
  BY DEF CallerDies, durable, Shape, Operations
<1>2. \A c \in Runtimes : /\ Active(c) => c = op.d
                          /\ ~(Running(c) /\ daemon[c].orphan)
                          /\ daemon[c].committed => daemon[c].phase \in {"ready", "dead"}
  BY <1>1 DEF Orderly, Lone, Recorded
<1>3. CASE daemon' = [daemon EXCEPT ![op.d].orphan = ~daemon[op.d].committed]
  <2>1. PICK b \in BOOLEAN : b = ~daemon[op.d].committed
    OBVIOUS
  <2>2. daemon' = [daemon EXCEPT ![op.d].orphan = b]
    BY <1>3, <2>1, Zenon
  <2>3. Fade
    BY <1>1, <1>2, <2>2 DEF Fade, Daemons
  <2>4. \A c \in Runtimes : Active(c)' /\ daemon[c].phase = "starting" => daemon'[c].orphan
    BY <1>1, <1>2, <2>1, <2>2 DEF Daemons
  <2> QED
    BY <1>1, <2>3, <2>4, EndOrderly
<1>4. CASE op.kind = "launch" /\ op.at = "commit" /\ Active(op.d) /\ daemon' = [daemon EXCEPT ![op.d].committed = TRUE]
  <2>0. \A c \in Runtimes : Active(c) => daemon[c].phase = "ready"
    BY <1>1, <1>4, NobodyStarts
  <2>1. Fade
    BY <1>1, <1>2, <1>4, <2>0 DEF Fade, Daemons
  <2>2. \A c \in Runtimes : Active(c)' => daemon[c].phase # "starting"
    BY <1>1, <1>2, <1>4, <2>0 DEF Daemons
  <2> QED
    BY <1>1, <2>1, <2>2, EndOrderly
<1>5. CASE ~(op.kind = "launch" /\ op.fresh) /\ UNCHANGED daemon
  <2>1. Fade
    BY <1>1, <1>2, <1>5 DEF Fade
  <2>2. \A c \in Runtimes : Active(c) => daemon[c].phase = "ready"
    BY <1>1, <1>5, NobodyStarts
  <2>3. \A c \in Runtimes : Active(c)' => daemon[c].phase # "starting"
    BY <1>5, <2>2
  <2> QED
    BY <1>1, <2>1, <2>3, EndOrderly
<1> QED
  BY <1>3, <1>4, <1>5 DEF CallerDies

\* What is overtaken stays overtaken.
LEMMA CountKept ==
  ASSUME count \in Counts, [Next]_vars
  PROVE  count' \in Counts /\ (count.overtaken => count'.overtaken)
<1>1. CASE UNCHANGED count
  BY <1>1
<1>2. CASE Calls
  <2>1. PICK b \in BOOLEAN : b = \E d \in Runtimes : daemon[d].orphan /\ Running(d)
    OBVIOUS
  <2>2. count' = [count EXCEPT !.calls = @ + 1, !.overtaken = @ \/ b]
    BY <1>2, <2>1, Zenon DEF Calls
  <2>3. PICK o \in BOOLEAN : o = (count.overtaken \/ b)
    OBVIOUS
  <2>4. count' = [count EXCEPT !.calls = @ + 1, !.overtaken = o]
    BY <2>2, <2>3
  <2>8. o \in BOOLEAN
    OBVIOUS
  <2>5. count' \in Counts
    <3>1. count.calls + 1 \in Nat
      BY DEF Counts
    <3> QED
      BY <2>4, <2>8, <3>1 DEF Counts
  <2>6. count'.overtaken = o
    BY <2>4 DEF Counts
  <2>7. count.overtaken => o
    BY <2>3, Zenon
  <2> QED
    BY <2>5, <2>6, <2>7, Zenon
<1>3. CASE count' = [count EXCEPT !.callers = @ + 1] \/ count' = [count EXCEPT !.daemons = @ + 1]
  BY <1>3 DEF Counts
<1>4. ASSUME NEW k \in Keys, Launch(k) \/ Stop(k) PROVE Calls \/ UNCHANGED count
  BY <1>4 DEF Launch, Stop, LaunchAnswered, LaunchConflict, LaunchNotReady, LaunchReuse, LaunchSpawn, Admitted,
     StopAnswered, StopRefused, StopNotRunning, StopTerminate
<1>5. LaunchStep \/ StopStep => UNCHANGED count
  BY DEF LaunchStep, LaunchReady, LaunchStartupFails, LaunchBind, LaunchFillBinding, LaunchCommitted,
     LaunchCommitFails, LaunchRecord, LaunchBootstrap, LaunchOutcome, LaunchFailed, LaunchRefused,
     StopStep, StopClear, StopRecord, StopOutcome
<1>6. ASSUME NEW d \in Runtimes, DaemonStep(d)
      PROVE  UNCHANGED count \/ count' = [count EXCEPT !.daemons = @ + 1]
  BY <1>6 DEF DaemonStep, DaemonGreets, DaemonReady, DaemonStartFails, DaemonCommit, DaemonShutsDown,
     DaemonFaults, DaemonClosed, DaemonRemovesState, DaemonDies, Serve
<1>7. CallerDies => count' = [count EXCEPT !.callers = @ + 1]
  BY DEF CallerDies
<1> QED
  BY <1>1, <1>2, <1>3, <1>4, <1>5, <1>6, <1>7 DEF Next, vars

\* The order of things is kept by every step of Next until it is overtaken.
OrderInv == count \in Counts /\ OrderlyInv

\* Nobody has started anything.
LEMMA OrderStarts == Init => OrderInv
<1> SUFFICES ASSUME Init PROVE OrderInv
  OBVIOUS
<1>1. \A c \in Runtimes : daemon[c].phase = "unborn" /\ ~daemon[c].committed
  BY DEF Init, Unborn
<1>2. Orderly
  BY <1>1 DEF Init, Orderly, Lone, Recorded, Ahead, LaunchInv, StopInv, ToldInv, Active, Running
<1> QED
  BY <1>2 DEF Init, OrderInv, OrderlyInv, Counts

\* Every step of Next is one of the above.
LEMMA OrderKept == Shape /\ OrderInv /\ [Next]_vars => OrderInv'
<1> SUFFICES ASSUME Shape, OrderInv, [Next]_vars PROVE OrderInv'
  OBVIOUS
<1>1. count' \in Counts /\ (count.overtaken => count'.overtaken)
  BY CountKept DEF OrderInv
<1>2. SUFFICES ASSUME ~count'.overtaken PROVE Orderly'
  BY <1>1 DEF OrderInv, OrderlyInv
<1>3. Orderly /\ count \in Counts
  BY <1>1, <1>2 DEF OrderInv, OrderlyInv
<1>4. ASSUME NEW k \in Keys, Launch(k) \/ Stop(k) PROVE Orderly'
  BY <1>2, <1>3, <1>4, SpawnOrderly, RequestOrderly
<1>5. ASSUME NEW d \in Runtimes, DaemonStep(d) PROVE Orderly'
  BY <1>3, <1>5, DaemonOrderly, ReadyOrderly
<1>6. CASE UNCHANGED vars
  <2>1. UNCHANGED <<state, lifecycle, told, op, daemon>>
    BY <1>6 DEF vars, durable
  <2> QED
    BY <1>3, <2>1 DEF Orderly, Lone, Recorded, Ahead, LaunchInv, StopInv, ToldInv, Reaches, Attends, Active, Running
<1> QED
  BY <1>3, <1>4, <1>5, <1>6, LaunchOrderly, StopOrderly, DeathOrderly DEF Next

(***************************************************************************)
(* runtime.mjs, runtime-daemon.mjs: a committed runtime that is not on its *)
(* way out is the one runtime-state.json names, whichever callers die and  *)
(* wherever they do, until a caller overtakes an orphan that still runs.   *)
(***************************************************************************)
THEOREM WhatServesIsRecorded == Spec => []ServingIsRecorded
<1>1. OrderInv => ServingIsRecorded
  BY DEF OrderInv, OrderlyInv, Orderly, Recorded, ServingIsRecorded, Serving, Active, Running
<1> QED
  BY <1>1, IdentityStarts, IdentityKept, OrderStarts, OrderKept, PTL DEF Spec

(***************************************************************************)
(* runtime.mjs: a revision an accepted launch or stop reported is never    *)
(* reported of another state or of another runtime, also where a caller    *)
(* died between the commit of its daemon and the record of the launch.     *)
(***************************************************************************)
THEOREM RevisionsAreNotReused == Spec => []RevisionNamesOneState
<1>1. OrderInv => RevisionNamesOneState
  BY DEF OrderInv, OrderlyInv, Orderly, ToldInv, RevisionNamesOneState
<1> QED
  BY <1>1, IdentityStarts, IdentityKept, OrderStarts, OrderKept, PTL DEF Spec

-----------------------------------------------------------------------------
(* The type invariant: each call raises the revisions by one at most *)

Counted == count \in [calls : 0..MaxCalls, callers : 0..MaxCallerDeaths, daemons : 0..MaxDaemonDeaths,
                      overtaken : BOOLEAN]

Kept ==
    /\ IsOutcomes(launches) /\ IsOutcomes(stops)
    /\ failure \in BOOLEAN
    /\ tokens \subseteq Tokens

\* No revision is above n.
Below(n) ==
    /\ state # Nobody => state.rev <= n
    /\ lifecycle.rev <= n
    /\ \A d \in Runtimes : daemon[d].rev <= n
    /\ op # Nobody => op.rev <= n
    /\ told \subseteq [rev : 0..n, status : States, runtime : Runtimes]

BoundInv == Counted /\ Kept /\ Below(count.calls)

\* An outcome more, and the oldest less where there are too many.
LEMMA RetainOutcomes ==
  ASSUME NEW outcomes, IsOutcomes(outcomes), NEW k \in Keys
  PROVE  IsOutcomes(Retain(outcomes, k))
<1> DEFINE all == Append(outcomes, k)
<1>1. all \in Seq(Keys) /\ Len(all) = Len(outcomes) + 1 /\ Len(outcomes) \in Nat
  BY DEF IsOutcomes
<1>2. Tail(all) \in Seq(Keys) /\ Len(Tail(all)) = Len(all) - 1
  BY <1>1
<1>3. Retained \in Nat \ {0}
  BY LifecycleAssumption
<1> HIDE DEF all
<1>4. CASE Len(all) > Retained
  <2>1. Retain(outcomes, k) = Tail(all)
    BY <1>4 DEF Retain, all
  <2> QED
    BY <1>1, <1>2, <1>3, <2>1 DEF IsOutcomes
<1>5. CASE ~(Len(all) > Retained)
  <2>1. Retain(outcomes, k) = all
    BY <1>5 DEF Retain, all
  <2> QED
    BY <1>1, <1>3, <1>5, <2>1 DEF IsOutcomes
<1> QED
  BY <1>4, <1>5

\* How the outcomes, the startup error and the tokens go on.
Keeps ==
    /\ launches' = launches \/ \E k \in Keys : launches' = Retain(launches, k)
    /\ stops' = stops \/ \E k \in Keys : stops' = Retain(stops, k)
    /\ failure' = failure \/ failure' \in {TRUE, FALSE}
    /\ tokens' \subseteq tokens \/ \E d \in Runtimes, k \in Keys : tokens' = tokens \cup {<<d, k>>}

\* Every step keeps them.
LEMMA StepKeeps ==
  ASSUME Shape, [Next]_vars
  PROVE  Keeps
<1>1. ASSUME NEW k \in Keys, Launch(k) \/ Stop(k) PROVE Keeps
  BY <1>1 DEF Keeps, Launch, Stop, LaunchAnswered, LaunchConflict, LaunchNotReady, LaunchReuse, LaunchSpawn,
     StopAnswered, StopRefused, StopNotRunning, StopTerminate, bootVars, durable
<1>2. op # Nobody => op.key \in Keys /\ op.d \in Runtimes
  BY DEF Shape, Operations
<1>3. CASE LaunchStep
  BY <1>2, <1>3 DEF Keeps, LaunchStep, LaunchReady, LaunchStartupFails, LaunchBind, LaunchFillBinding, LaunchCommitted,
     LaunchCommitFails, LaunchRecord, LaunchBootstrap, IssueToken, LaunchOutcome, LaunchFailed, LaunchRefused, bootVars, durable
<1>4. CASE StopStep \/ CallerDies \/ UNCHANGED vars
  BY <1>2, <1>4 DEF Keeps, StopStep, StopClear, StopRecord, StopOutcome, CallerDies, vars, bootVars, durable
<1>5. ASSUME NEW d \in Runtimes, DaemonStep(d) PROVE Keeps
  BY <1>5 DEF Keeps, DaemonStep, DaemonGreets, DaemonReady, DaemonStartFails, DaemonCommit, DaemonShutsDown,
     DaemonFaults, DaemonClosed, DaemonRemovesState, DaemonDies, Serve, Ended, ExchangeStep, RenameThrows, ForeignToken, ClaimToken,
     RejectClaim, ClaimThrows, CreateSession, bootVars, durable
<1> QED
  BY <1>1, <1>3, <1>4, <1>5 DEF Next

\* The bounds of the counters are guards.
LEMMA CountedKept ==
  ASSUME Counted, [Next]_vars
  PROVE  Counted' /\ ((Calls /\ count'.calls = count.calls + 1) \/ count'.calls = count.calls)
<1>1. CASE UNCHANGED count
  BY <1>1 DEF Counted
<1>2. CASE Calls
  <2>1. PICK b \in BOOLEAN : b = \E d \in Runtimes : daemon[d].orphan /\ Running(d)
    OBVIOUS
  <2>2. count.calls < MaxCalls /\ count' = [count EXCEPT !.calls = @ + 1, !.overtaken = @ \/ b]
    BY <1>2, <2>1, Zenon DEF Calls
  <2>3. PICK o \in BOOLEAN : o = (count.overtaken \/ b)
    OBVIOUS
  <2>4. count' = [count EXCEPT !.calls = @ + 1, !.overtaken = o]
    BY <2>2, <2>3
  <2>5. o \in BOOLEAN
    OBVIOUS
  <2>6. count.calls + 1 \in 0..MaxCalls
    BY <2>2, LifecycleAssumption DEF Counted
  <2> QED
    BY <1>2, <2>4, <2>5, <2>6 DEF Counted
<1>3. CASE count.callers < MaxCallerDeaths /\ count' = [count EXCEPT !.callers = @ + 1]
  BY <1>3, LifecycleAssumption DEF Counted
<1>4. CASE count.daemons < MaxDaemonDeaths /\ count' = [count EXCEPT !.daemons = @ + 1]
  BY <1>4, LifecycleAssumption DEF Counted
<1>5. ASSUME NEW k \in Keys, Launch(k) \/ Stop(k) PROVE Calls \/ UNCHANGED count
  BY <1>5 DEF Launch, Stop, LaunchAnswered, LaunchConflict, LaunchNotReady, LaunchReuse, LaunchSpawn, Admitted,
     StopAnswered, StopRefused, StopNotRunning, StopTerminate
<1>6. LaunchStep \/ StopStep => UNCHANGED count
  BY DEF LaunchStep, LaunchReady, LaunchStartupFails, LaunchBind, LaunchFillBinding, LaunchCommitted,
     LaunchCommitFails, LaunchRecord, LaunchBootstrap, LaunchOutcome, LaunchFailed, LaunchRefused,
     StopStep, StopClear, StopRecord, StopOutcome
<1>7. ASSUME NEW d \in Runtimes, DaemonStep(d)
      PROVE  UNCHANGED count \/ (count.daemons < MaxDaemonDeaths /\ count' = [count EXCEPT !.daemons = @ + 1])
  BY <1>7 DEF DaemonStep, DaemonGreets, DaemonReady, DaemonStartFails, DaemonCommit, DaemonShutsDown,
     DaemonFaults, DaemonClosed, DaemonRemovesState, DaemonDies, Serve
<1>8. CallerDies => count.callers < MaxCallerDeaths /\ count' = [count EXCEPT !.callers = @ + 1]
  BY DEF CallerDies
<1> QED
  BY <1>1, <1>2, <1>3, <1>4, <1>5, <1>6, <1>7, <1>8 DEF Next, vars

\* Where a revision comes from: what there is, or a call.
Raised(n) ==
    /\ state' # Nobody => state' = state \/ \E d \in Runtimes : state'.rev = daemon[d].rev
    /\ lifecycle' = lifecycle \/ (op # Nobody /\ lifecycle'.rev = op.rev)
    /\ op' # Nobody => (op # Nobody /\ op'.rev = op.rev) \/ op'.rev <= n
    /\ \A c \in Runtimes : daemon'[c].rev = daemon[c].rev \/ daemon'[c].rev <= n
    /\ \/ told' = told
       \/ op # Nobody /\ \E status \in States : told' = told \cup {Outcome(op.rev, status, op.d)}

\* Terminating a daemon, or ending it, leaves its revision.
LEMMA SameRevisions ==
  ASSUME Shape, NEW d \in Runtimes, Terminate(d) \/ TerminationEnds(d) \/ Ended(d)
  PROVE  \A c \in Runtimes : daemon'[c].rev = daemon[c].rev
BY DEF Shape, Daemons, Terminate, TerminationEnds, Ended

\* The revisions of a request.
LEMMA RequestRaises ==
  ASSUME Shape, Counted, Below(count.calls), NEW k \in Keys, Launch(k) \/ Stop(k),
         count'.calls = count.calls \/ (Calls /\ count'.calls = count.calls + 1)
  PROVE  Raised(count'.calls)
<1>1. CASE UNCHANGED <<lifecycle, told, op, daemon>> /\ (UNCHANGED state \/ state' = Nobody)
  BY <1>1 DEF Raised
<1>2. ASSUME Calls PROVE count'.calls = count.calls + 1 /\ count.calls \in Nat
  <2>1. PICK b : b = \E d \in Runtimes : daemon[d].orphan /\ Running(d)
    OBVIOUS
  <2>2. count' = [count EXCEPT !.calls = @ + 1, !.overtaken = @ \/ b]
    BY <1>2, <2>1, Zenon DEF Calls
  <2> QED
    BY <2>2 DEF Counted
<1>3. CASE LaunchReuse(k)
  <2>1. /\ state # Nobody /\ op'.rev = state.rev /\ UNCHANGED <<state, lifecycle, told, daemon>> /\ Calls
    BY <1>3 DEF LaunchReuse, RecordedHealthy, Begun, Admitted, durable
  <2>2. state.rev <= count.calls /\ state.rev \in Nat
    BY <2>1 DEF Below, Shape
  <2> QED
    BY <1>2, <2>1, <2>2 DEF Raised
<1>4. CASE StopTerminate(k)
  <2>1. /\ state # Nobody /\ op'.rev = state.rev + 1 /\ UNCHANGED <<state, lifecycle, told>> /\ Calls
        /\ Terminate(state.pid)
    BY <1>4 DEF StopTerminate, RecordedHealthy, Begun, durable
  <2>2. state.rev <= count.calls /\ state.rev \in Nat /\ state.pid \in Runtimes
    BY <2>1 DEF Below, Shape
  <2>3. \A c \in Runtimes : daemon'[c].rev = daemon[c].rev
    BY <2>1, <2>2, SameRevisions
  <2> QED
    BY <1>2, <2>1, <2>2, <2>3 DEF Raised
<1>5. CASE LaunchSpawn(k)
  <2>1. PICK d \in Runtimes :
          /\ Begun("launch", k, "spawned", d, LaunchRevision + 1, TRUE)
          /\ daemon' = [daemon EXCEPT ![d] = [Unborn EXCEPT !.phase = "starting", !.rev = LaunchRevision + 1]]
    BY <1>5 DEF LaunchSpawn
  <2>2. /\ Calls /\ state' = Nobody /\ UNCHANGED <<lifecycle, told>> /\ op'.rev = lifecycle.rev + 1
        /\ LaunchRevision = lifecycle.rev
    BY <1>5, <2>1 DEF LaunchSpawn, Admitted, Begun, LaunchRevision
  <2>3. \A c \in Runtimes : daemon'[c].rev = daemon[c].rev \/ daemon'[c].rev = lifecycle.rev + 1
    BY <2>1, <2>2 DEF Shape, Unborn
  <2>4. lifecycle.rev <= count.calls /\ lifecycle.rev \in Nat
    BY DEF Below, Shape
  <2> QED
    BY <1>2, <2>2, <2>3, <2>4 DEF Raised
<1> QED
  BY <1>1, <1>3, <1>4, <1>5 DEF Launch, Stop, LaunchAnswered, LaunchConflict, LaunchNotReady, StopAnswered,
     StopRefused, StopNotRunning, durable

\* The other steps raise nothing.
LEMMA StepRaises ==
  ASSUME Shape, [Next]_vars, NEW n, ~ \E k \in Keys : Launch(k) \/ Stop(k)
  PROVE  Raised(n)
<1>1. ASSUME op # Nobody, NEW stage, Goto(stage) PROVE op'.rev = op.rev
  BY <1>1 DEF Goto, Shape, Operations
<1>2. op # Nobody => op \in Operations /\ op.d \in Runtimes
  BY DEF Shape, Operations
<1>3. "running" \in States /\ "stopped" \in States
  BY DEF States
<1>4. CASE LaunchStep \/ StopStep
  <2>1. op # Nobody
    BY <1>4 DEF LaunchStep, LaunchReady, LaunchStartupFails, LaunchBind, LaunchFillBinding, LaunchCommitted,
       LaunchCommitFails, LaunchRecord, LaunchBootstrap, LaunchOutcome, LaunchFailed, LaunchRefused,
       StopStep, StopClear, StopRecord, StopOutcome
  <2>2. op' = Nobody \/ \E stage : Goto(stage)
    BY <1>4 DEF LaunchStep, LaunchReady, LaunchStartupFails, LaunchBind, LaunchFillBinding, LaunchCommitted,
       LaunchCommitFails, LaunchRecord, LaunchBootstrap, LaunchOutcome, LaunchFailed, LaunchRefused,
       StopStep, StopClear, StopRecord, StopOutcome
  <2>3. daemon' = daemon \/ Terminate(op.d) \/ TerminationEnds(op.d)
    BY <1>4 DEF LaunchStep, LaunchReady, LaunchStartupFails, LaunchBind, LaunchFillBinding, LaunchCommitted,
       LaunchCommitFails, LaunchRecord, LaunchBootstrap, LaunchOutcome, LaunchFailed, LaunchRefused,
       StopStep, StopClear, StopRecord, StopOutcome
  <2>4. /\ state' = state \/ state' = Nobody
        /\ lifecycle' = lifecycle \/ lifecycle'.rev = op.rev
        /\ told' = told \/ \E status \in States : told' = told \cup {Outcome(op.rev, status, op.d)}
    BY <1>3, <1>4 DEF LaunchStep, LaunchReady, LaunchStartupFails, LaunchBind, LaunchFillBinding, LaunchCommitted,
       LaunchCommitFails, LaunchRecord, LaunchBootstrap, LaunchOutcome, LaunchFailed, LaunchRefused,
       StopStep, StopClear, StopRecord, StopOutcome, Outcome, durable
  <2>5. \A c \in Runtimes : daemon'[c].rev = daemon[c].rev
    BY <1>2, <2>1, <2>3, SameRevisions
  <2> QED
    BY <1>1, <2>1, <2>2, <2>4, <2>5 DEF Raised
<1>5. CASE CallerDies
  <2>1. op' = Nobody /\ UNCHANGED <<state, lifecycle, told>>
    BY <1>5 DEF CallerDies, durable
  <2>2. \A c \in Runtimes : daemon'[c].rev = daemon[c].rev
    BY <1>2, <1>5 DEF CallerDies, Shape, Daemons
  <2> QED
    BY <2>1, <2>2 DEF Raised
<1>6. ASSUME NEW d \in Runtimes, DaemonStep(d) PROVE Raised(n)
  <2>1. /\ UNCHANGED <<lifecycle, told, op>>
        /\ state' = state \/ state' = Nobody \/ state' = [pid |-> d, rev |-> daemon[d].rev]
    BY <1>6 DEF DaemonStep, DaemonGreets, DaemonReady, DaemonStartFails, DaemonCommit, DaemonShutsDown,
       DaemonFaults, DaemonClosed, DaemonRemovesState, DaemonDies, Serve, durable
  <2>2. \A c \in Runtimes : daemon'[c].rev = daemon[c].rev
    <3>1. CASE DaemonReady(d) \/ DaemonCommit(d) \/ DaemonShutsDown(d) \/ DaemonFaults(d)
      BY <3>1 DEF DaemonReady, DaemonCommit, DaemonShutsDown, DaemonFaults, Shape, Daemons
    <3>2. CASE DaemonClosed(d) /\ ~Ended(d)
      BY <3>2 DEF DaemonClosed, Shape, Daemons
    <3>3. CASE Ended(d)
      BY <3>3, SameRevisions
    <3>4. CASE UNCHANGED daemon
      BY <3>4
    <3> QED
      BY <1>6, <3>1, <3>2, <3>3, <3>4 DEF DaemonStep, DaemonGreets, DaemonStartFails,
         DaemonRemovesState, DaemonDies, Serve
  <2> QED
    BY <2>1, <2>2 DEF Raised
<1>7. CASE UNCHANGED vars
  BY <1>7 DEF vars, durable, Raised
<1> QED
  BY <1>4, <1>5, <1>6, <1>7 DEF Next

\* No revision gets above the calls there were.
LEMMA BoundKept == Shape /\ BoundInv /\ Shape' /\ [Next]_vars => BoundInv'
<1> SUFFICES ASSUME Shape, BoundInv, Shape', [Next]_vars PROVE BoundInv'
  OBVIOUS
<1>1. Counted' /\ ((Calls /\ count'.calls = count.calls + 1) \/ count'.calls = count.calls)
  BY CountedKept DEF BoundInv
<1>2. Kept'
  <2>1. Keeps
    BY StepKeeps
  <2>2. \A d \in Runtimes, k \in Keys : <<d, k>> \in Tokens
    BY DEF Tokens
  <2> QED
    BY <2>1, <2>2, RetainOutcomes DEF Keeps, Kept, BoundInv
<1>3. Raised(count'.calls)
  BY <1>1, RequestRaises, StepRaises DEF BoundInv
<1>4. count.calls \in Nat /\ count'.calls \in Nat /\ count.calls <= count'.calls
  BY <1>1 DEF Counted, BoundInv
<1>5. op # Nobody => op.rev \in Nat /\ op.d \in Runtimes /\ op.rev <= count.calls
  BY DEF Shape, Operations, BoundInv, Below
<1>6. /\ state # Nobody => state.rev \in Nat
      /\ lifecycle.rev \in Nat
      /\ \A d \in Runtimes : daemon[d].rev \in Nat /\ daemon[d].rev <= count.calls
  BY DEF Shape, Daemons, BoundInv, Below
<1>7. /\ state' # Nobody => state'.rev <= count'.calls
      /\ lifecycle'.rev <= count'.calls
      /\ \A d \in Runtimes : daemon'[d].rev <= count'.calls
      /\ op' # Nobody => op'.rev <= count'.calls
  <2>1. state' # Nobody => state'.rev <= count'.calls
    BY <1>3, <1>4, <1>6 DEF Raised, BoundInv, Below
  <2>2. lifecycle'.rev <= count'.calls
    BY <1>3, <1>4, <1>5, <1>6 DEF Raised, BoundInv, Below
  <2>3. \A d \in Runtimes : daemon'[d].rev <= count'.calls
    BY <1>3, <1>4, <1>6 DEF Raised
  <2>4. op' # Nobody => op'.rev <= count'.calls
    BY <1>3, <1>4, <1>5 DEF Raised
  <2> QED
    BY <2>1, <2>2, <2>3, <2>4
<1>8. told' \subseteq [rev : 0..count'.calls, status : States, runtime : Runtimes]
  <2>1. told \subseteq [rev : 0..count'.calls, status : States, runtime : Runtimes]
    BY <1>4 DEF BoundInv, Below
  <2>2. ASSUME NEW status \in States, op # Nobody
        PROVE  Outcome(op.rev, status, op.d) \in [rev : 0..count'.calls, status : States, runtime : Runtimes]
    BY <1>4, <1>5, <2>2 DEF Outcome
  <2> QED
    BY <1>3, <2>1, <2>2 DEF Raised
<1> QED
  BY <1>1, <1>2, <1>7, <1>8 DEF BoundInv, Below

(***************************************************************************)
(* The type invariant.  It bounds what the code leaves unbounded: each     *)
(* operation raises the revisions by one at most, and no more outcomes are *)
(* retained than the limit says.                                           *)
(***************************************************************************)
THEOREM LifecycleIsTyped == Spec => []TypeOK
<1>1. Init => BoundInv
  <2>1. SUFFICES ASSUME Init PROVE BoundInv
    OBVIOUS
  <2>2. Counted /\ Kept
    <3>1. MaxCalls \in Nat /\ MaxCallerDeaths \in Nat /\ MaxDaemonDeaths \in Nat /\ Retained \in Nat
      BY LifecycleAssumption
    <3>2. Counted
      BY <2>1, <3>1 DEF Init, Counted
    <3>3. <<>> \in Seq(Keys) /\ Len(<<>>) = 0
      OBVIOUS
    <3>4. IsOutcomes(<<>>)
      BY <3>1, <3>3 DEF IsOutcomes
    <3>5. Kept
      BY <2>1, <3>4 DEF Init, BootInit, Kept
    <3> QED
      BY <3>2, <3>5
  <2>3. Below(count.calls)
    BY <2>1 DEF Init, Below, Unborn
  <2> QED
    BY <2>2, <2>3 DEF BoundInv
<1>2. Init => SessionInv
  BY DEF Init, BootInit, SessionInv
<1>3. Shape /\ SessionInv /\ BoundInv => TypeOK
  <2>1. SUFFICES ASSUME Shape, SessionInv, BoundInv PROVE TypeOK
    OBVIOUS
  <2>2. \A r \in Nat : r <= count.calls => r \in Revisions
    BY <2>1, LifecycleAssumption DEF BoundInv, Counted, Revisions
  <2>3. BootTypeOK /\ IdentityTypeOK
    BY <2>1 DEF SessionInv, BoundInv, Kept, BootTypeOK, Shape
  <2>4. state \in RuntimeStates \cup {Nobody}
    BY <2>1, <2>2 DEF Shape, BoundInv, Below, RuntimeStates
  <2>5. lifecycle \in [rev : Revisions, status : States, runtime : Runtimes \cup {Nobody}]
    BY <2>1, <2>2 DEF Shape, BoundInv, Below
  <2>6. daemon \in [Runtimes -> DaemonType]
    BY <2>1, <2>2 DEF Shape, BoundInv, Below, Daemons, DaemonType
  <2>7. op \in [kind : {"launch", "stop"}, key : Keys, at : Stages,
                d : Runtimes, rev : Revisions, fresh : BOOLEAN] \cup {Nobody}
    BY <2>1, <2>2 DEF Shape, BoundInv, Below, Operations
  <2>8. told \subseteq [rev : Revisions, status : States, runtime : Runtimes]
    BY <2>1, <2>2 DEF BoundInv, Below, Counted
  <2> QED
    BY <2>1, <2>3, <2>4, <2>5, <2>6, <2>7, <2>8 DEF TypeOK, BoundInv, Counted, Kept
<1> QED
  BY <1>1, <1>2, <1>3, IdentityStarts, IdentityKept, SessionKept, BoundKept, PTL DEF Spec

=============================================================================

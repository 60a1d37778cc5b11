---------------------------- MODULE ProjectOpening ----------------------------
(***************************************************************************)
(* Opening a Project: the Controller's composite of Host requests          *)
(* (daemon/project-preparation.mjs), the outcomes it keeps by key          *)
(* (daemon/host-mutations.mjs), and the Host process behind a pipe         *)
(* (daemon/host-transport/local.mjs, local-host.mjs).                      *)
(*                                                                         *)
(* One composite is under way at a time, and one request of it.  The Host  *)
(* may die before or after it has written its file, so that an answer that *)
(* is lost says nothing of what was done.  Host and runtime keep different *)
(* things: the Host its file, the runtime nothing.                         *)
(***************************************************************************)
EXTENDS ProjectRegistry

CONSTANTS Wanted,      \* what a request may say of the Harness, "any" among it
          None,
          MaxRequests, \* bound: requests of the person
          MaxMoves,    \* bound: changes of the directories
          MaxLosses    \* bound: deaths of the Host and of the runtime

ASSUME WantedAssumption == Wanted \subseteq Adapters \cup {"any"}

VARIABLES
    fs,        \* the directory at each path
    registry,  \* the Host's files
    host,      \* the Host process
    link,      \* what the runtime has made of the Host's end; "down": no runtime
    current,   \* currentProjectPreparation.current
    outcomes,  \* hostMutationOutcomes
    op,        \* the composite under way
    counts     \* of requests, moves and losses, for the bounds; and whether the
               \* last registration was an echo

vars == <<fs, registry, host, link, current, outcomes, op, counts>>
runtimeVars == <<link, current, outcomes, op>>

Kinds == {"prepare", "resolve"}

Prepare == [kind : {"prepare"}, key : Keys, path : Paths, adapter : Wanted, asNew : BOOLEAN,
            expected : 0..MaxRevision]
Resolutions == {"forget", "restore", "resolve_conflict"}
Resolution == [kind : {"resolve"}, key : Keys, action : Resolutions, project : Projects,
               path : Paths \cup {NoDir}, expected : 0..MaxRevision]
Requests == Prepare \cup Resolution

Snapshots == [id : 0..MaxProjects, revision : 0..MaxRevision, harness : Adapters \cup {"none"}]
Claims == {"registered", "harness", "pinned"}
Stages == {"inspecting", "harness first", "registering", "reinspecting", "harness", "pinning",
           "auditing", "resolving"}

Idle == [at |-> "idle"]

TypeOK ==
    /\ fs \in [Paths -> Dirs \cup {NoDir}]
    /\ \A a, b \in Paths : fs[a] = fs[b] => a = b \/ fs[a] = NoDir
    /\ registry.projects \in [Projects -> Registrations]
    /\ registry.harnesses \subseteq Adapters
    /\ \A a, b \in registry.kept : a.op = b.op /\ a.key = b.key => a = b
    /\ host \in {"up", "down"}
    /\ link \in {"down", "connected", "disconnected", "unmarked", "unsaved"}
    /\ current \in Snapshots
    /\ \A k \in Kinds \X Keys : outcomes[k] # None =>
          /\ outcomes[k].request \in Requests
          /\ outcomes[k].project \in Snapshots
          /\ outcomes[k].claims \subseteq Claims
    /\ counts.echoed \in BOOLEAN
    /\ op # Idle => /\ op.at \in Stages /\ op.request \in Requests
                    /\ op.inspected \in Snapshots /\ op.project \in Snapshots
                    /\ op.claims \subseteq Claims

NothingKept == [k \in Kinds \X Keys |-> None]

Init ==
    /\ fs \in {f \in [Paths -> Dirs \cup {NoDir}] :
                  \A a, b \in Paths : f[a] = f[b] => a = b \/ f[a] = NoDir}
    /\ registry = EmptyRegistry
    /\ host = "up" /\ link = "connected"
    /\ current = NoProject
    /\ outcomes = NothingKept
    /\ op = Idle
    /\ counts = [requests |-> 0, moves |-> 0, losses |-> 0, echoed |-> FALSE]

Count(what) == counts' = [counts EXCEPT ![what] = @ + 1]

-----------------------------------------------------------------------------
(* What is kept by key: a code, the Project shown, the registrations       *)
(* listed, and what is said to have been done.                             *)

Outcome(request, code, project, found, claims) ==
    [request |-> request, code |-> code, project |-> project, found |-> found, claims |-> claims]
Slot(request) == <<request.kind, request.key>>

\* retainHostMutationOutcome
Keep(request, code, project, found, claims) ==
    outcomes' = [outcomes EXCEPT ![Slot(request)] = Outcome(request, code, project, found, claims)]

\* projectFailureInvalidatesCurrentPreparation
Invalidates(code, found) == code = "conflict" \/ current.id \in found

Mutant_Clear == UNCHANGED current
Clear == current' = NoProject
ClearIf(code, found) == IF Invalidates(code, found) THEN Clear ELSE UNCHANGED current

\* hostMutationFailure, at the route or within the composite: what the key
\* was answered before stays, and the claims are of what was accepted.
HostFailure(request, project, claims) ==
    /\ IF outcomes[Slot(request)] = None
       THEN Keep(request, "host_disconnected", project, {}, claims)
       ELSE UNCHANGED outcomes
    /\ UNCHANGED current

\* replayHostMutationOutcome: a kept failure clears what it cleared before, a
\* key kept for another request conflicts.
Replayed(request, kept) ==
    /\ IF kept.request = request THEN ClearIf(kept.code, kept.found) ELSE UNCHANGED current
    /\ UNCHANGED <<outcomes, op>>

\* prepareExplicitProject and resolveExplicitProjectRegistration, up to their
\* first request.  Only the first looks for an outcome while the Host is there.
Begin(request) ==
    /\ Count("requests")
    /\ LET kept == outcomes[Slot(request)]
       IN IF request.kind = "prepare" /\ kept # None
          THEN Replayed(request, kept)
          ELSE IF link \in {"disconnected", "unsaved"}
          THEN HostFailure(request, NoProject, {}) /\ UNCHANGED op
          ELSE /\ op' = [at |-> IF request.kind = "prepare" THEN "inspecting" ELSE "resolving",
                         request |-> request, inspected |-> NoProject, project |-> NoProject,
                         claims |-> {}]
               /\ UNCHANGED <<current, outcomes>>
    /\ UNCHANGED <<fs, registry, host, link>>

-----------------------------------------------------------------------------
(* The composite, stage by stage *)

Adapter ==
    CASE op.request.adapter # "any" -> op.request.adapter
      [] op.request.adapter = "any" /\ op.inspected.harness # "none" -> op.inspected.harness
      [] OTHER -> "sandcastle"

AsNew(code) == op.request.asNew /\ code \in {"moved", "replaced", "tombstoned"}

\* An ordinary open of a fresh runtime adopts the revision it has just seen.
ExpectedRevision ==
    IF current = NoProject /\ op.inspected # NoProject THEN op.inspected.revision
    ELSE op.request.expected

\* What the Host does with the request of a stage.  The two requests of
\* ensureHarness are one: nobody else registers a Harness between them.
Performed(fine) ==
    CASE op.at \in {"inspecting", "reinspecting"} ->
            InspectProject(registry, fs, op.request.path, fine)
      [] op.at \in {"harness first", "harness"} ->
            IF Adapter \in registry.harnesses
            THEN [reg |-> registry, answer |-> Answer("found", NoProject, {})]
            ELSE RegisterHarness(registry, Adapter, op.request.key, fine)
      [] op.at = "registering" ->
            RegisterProject(registry, fs, [key |-> op.request.key, path |-> op.request.path,
                                           asNew |-> op.request.asNew,
                                           expected |-> ExpectedRevision], fine)
      [] op.at = "pinning" ->
            PinHarness(registry, fs, [key |-> op.request.key, project |-> op.project.id,
                                      adapter |-> Adapter, expected |-> op.project.revision], fine)
      [] OTHER -> ResolveRegistration(registry, fs, op.request)

\* The composite ends with what the Host refused.
Refuses(answer) ==
    /\ Keep(op.request, answer.code, NoProject, answer.found, {})
    /\ op' = Idle

Go(stage) == op' = [op EXCEPT !.at = stage]

Inspected(answer) ==
    LET seen == IF answer.code = "registered" THEN answer.project ELSE NoProject
        wanted == [op EXCEPT !.inspected = seen]
        adapter == CASE op.request.adapter # "any" -> op.request.adapter
                     [] op.request.adapter = "any" /\ seen.harness # "none" -> seen.harness
                     [] OTHER -> "sandcastle"
    IN IF answer.code \notin {"registered", "unregistered"} /\ ~AsNew(answer.code)
       THEN Refuses(answer) /\ ClearIf(answer.code, answer.found)
       ELSE IF seen.harness \notin {"none", adapter}
       THEN Refuses(Answer("bounded_configuration_invalid", NoProject, {})) /\ UNCHANGED current
       ELSE /\ op' = [wanted EXCEPT !.at = IF adapter = "sandcastle" THEN "harness first"
                                           ELSE "registering"]
            /\ UNCHANGED <<current, outcomes>>

\* The project that is prepared from here on is the one the runtime shows.
Adopt(project, claims, harnessed) ==
    /\ current' = project
    /\ op' = [op EXCEPT !.project = project, !.claims = claims,
                        !.at = CASE ~harnessed -> "harness"
                                 [] harnessed /\ project.harness # Adapter -> "pinning"
                                 [] OTHER -> "auditing"]
    /\ UNCHANGED outcomes

Made(answer, claim) == IF answer.code = "made" THEN {claim} ELSE {}

Harnessed(answer) ==
    IF answer.code \notin {"found", "made"}
    THEN Refuses(answer) /\ UNCHANGED current
    ELSE IF op.at = "harness first"
    THEN /\ op' = [op EXCEPT !.at = "registering", !.claims = Made(answer, "harness")]
         /\ UNCHANGED <<current, outcomes>>
    ELSE Adopt(op.project, op.claims \cup Made(answer, "harness"), TRUE)

Registered(answer) ==
    LET project == IF op.inspected # NoProject THEN op.inspected ELSE answer.project
        claims == op.claims \cup Made(answer, "registered")
    IN IF answer.code \notin {"made", "reused"}
       THEN Refuses(answer) /\ ClearIf(answer.code, answer.found)
       ELSE IF op.request.asNew
       THEN /\ op' = [op EXCEPT !.at = "reinspecting", !.project = project, !.claims = claims]
            /\ UNCHANGED <<current, outcomes>>
       ELSE Adopt(project, claims, Adapter = "sandcastle")

Reinspected(answer) ==
    IF answer.code \notin {"registered", "unregistered"}
    THEN Refuses(answer) /\ Clear
    ELSE Adopt(op.project, op.claims, Adapter = "sandcastle")

Pinned(answer) ==
    IF answer.code \notin {"made", "reused"}
    THEN Refuses(answer) /\ UNCHANGED current
    ELSE Adopt(answer.project, op.claims \cup Made(answer, "pinned"), TRUE)

\* Its successes are not kept: a repeated key is the Host's to recognise.
Resolved(answer) ==
    /\ IF answer.code = "resolved" THEN Clear ELSE ClearIf(answer.code, answer.found)
    /\ op' = Idle
    /\ UNCHANGED outcomes

Answered(answer) ==
    CASE op.at = "inspecting" -> Inspected(answer)
      [] op.at \in {"harness first", "harness"} -> Harnessed(answer)
      [] op.at = "registering" -> Registered(answer)
      [] op.at = "reinspecting" -> Reinspected(answer)
      [] op.at = "pinning" -> Pinned(answer)
      [] OTHER -> Resolved(answer)

Asking == op # Idle /\ op.at # "auditing"

\* A registration that is repeated from its key, for a path that was found to
\* lead to no Project: the answer is all the runtime has, however old it is.
Echo == op.inspected = NoProject /\ Kept(registry, "register", op.request.key) # {}

Registering(answer) == op.at = "registering" /\ answer.code \in {"made", "reused"}

\* requestHostOperation, answered.
Ask ==
    /\ Asking /\ host = "up" /\ link = "connected"
    /\ \E done \in {Performed(fine) : fine \in BOOLEAN} :
          /\ done.answer.code # "host_dies"
          /\ registry' = done.reg
          /\ Answered(done.answer)
          /\ IF Registering(done.answer) THEN counts' = [counts EXCEPT !.echoed = Echo]
             ELSE UNCHANGED counts
    /\ UNCHANGED <<fs, host, link>>

-----------------------------------------------------------------------------
(* The Host is lost *)

\* markHostDisconnected: the audit fails, the state cannot be written, or
\* both are done.  A failure is kept for good, with its promise.
Marked == link' \in {"disconnected", "unmarked", "unsaved"}

Mutant_Lost ==
    /\ op' = Idle
    /\ IF link' = "disconnected"
       THEN HostFailure(op.request, op.project,
                        IF op.at = "harness first" THEN {"harness"} ELSE op.claims)
       ELSE UNCHANGED <<current, outcomes>>

\* What the composite makes of a loss: what was accepted so far is named once
\* the project is registered, the Harness before that; the rest is an error
\* that answers the request and keeps nothing.
Lost ==
    /\ op' = Idle
    /\ IF link' = "disconnected"
       THEN IF op.at \in {"harness", "pinning"} THEN HostFailure(op.request, current, op.claims)
            ELSE IF op.at = "harness first" THEN HostFailure(op.request, current, {})
            ELSE HostFailure(op.request, NoProject, {})
       ELSE UNCHANGED <<current, outcomes>>

\* The Host dies with the request: before its file is written or after.
AskDies ==
    /\ Asking /\ host = "up" /\ link = "connected"
    /\ counts.losses < MaxLosses /\ Count("losses")
    /\ registry' \in {registry} \cup {Performed(fine).reg : fine \in BOOLEAN}
    /\ host' = "down"
    /\ Marked
    /\ Lost
    /\ UNCHANGED fs

\* A Host that is gone already.
AskNobody ==
    /\ Asking /\ (host = "down" \/ link # "connected")
    /\ IF link = "connected" THEN Marked ELSE UNCHANGED link
    /\ Lost
    /\ UNCHANGED <<fs, registry, host, counts>>

\* With no request under way.
HostDies ==
    /\ ~Asking /\ host = "up" /\ link = "connected"
    /\ counts.losses < MaxLosses /\ Count("losses")
    /\ host' = "down"
    /\ UNCHANGED <<fs, registry, runtimeVars>>

\* The exit event of the Host's process.
LossNoticed ==
    /\ host = "down" /\ link = "connected"
    /\ Marked
    /\ UNCHANGED <<fs, registry, host, current, outcomes, op, counts>>

\* The audit of the open: kept with its outcome, or neither.
Audited ==
    /\ op # Idle /\ op.at = "auditing"
    /\ current' = op.project
    /\ op' = Idle
    /\ \/ Keep(op.request, "project_ready", op.project, {}, op.claims)
       \/ UNCHANGED outcomes
    /\ UNCHANGED <<fs, registry, host, link, counts>>

\* The runtime stops or dies, and its Host with it.
RuntimeDies ==
    /\ link # "down"
    /\ counts.losses < MaxLosses /\ Count("losses")
    /\ link' = "down" /\ host' = "down"
    /\ current' = NoProject /\ outcomes' = NothingKept /\ op' = Idle
    /\ UNCHANGED <<fs, registry>>

\* launchHost, to the pong.
RuntimeStarts ==
    /\ link = "down"
    /\ link' = "connected" /\ host' = "up"
    /\ UNCHANGED <<fs, registry, current, outcomes, op, counts>>

-----------------------------------------------------------------------------
(* The person's directories *)

Move ==
    /\ counts.moves < MaxMoves /\ Count("moves")
    /\ \E a \in Paths, dir \in Dirs \cup {NoDir} :
          LET from == {b \in Paths : fs[b] = dir /\ dir # NoDir}
          IN /\ fs[a] # dir
             /\ fs' = [b \in Paths |-> CASE b = a -> dir
                                         [] b # a /\ b \in from -> NoDir
                                         [] OTHER -> fs[b]]
    /\ UNCHANGED <<registry, host, runtimeVars>>

CanAsk ==
    /\ link # "down" /\ op = Idle /\ counts.requests < MaxRequests
    /\ \A p \in Projects : registry.projects[p].revision < MaxRevision

\* A page sends the revision of what it shows, 0 where it shows nothing, or the
\* one its failure listed.
AsksToPrepare ==
    \E key \in Keys, path \in Paths, adapter \in Wanted, asNew \in BOOLEAN :
        /\ Having(registry, "none") # {}
        /\ asNew => adapter = "any"
        /\ \E expected \in IF asNew THEN {Resolve(registry, fs, path).rev} ELSE {0, current.revision} :
              Begin([kind |-> "prepare", key |-> key, path |-> path, adapter |-> adapter,
                     asNew |-> asNew, expected |-> expected])

AsksToResolve ==
    \E key \in Keys, project \in Projects, action \in Resolutions, path \in Paths \cup {NoDir} :
        /\ registry.projects[project].status # "none"
        /\ action = "forget" <=> path = NoDir
        /\ \E expected \in {1, registry.projects[project].revision} :
              Begin([kind |-> "resolve", key |-> key, action |-> action, project |-> project,
                     path |-> path, expected |-> expected])

Next ==
    \/ CanAsk /\ (AsksToPrepare \/ AsksToResolve)
    \/ Ask \/ Audited
    \/ AskDies \/ AskNobody \/ HostDies \/ LossNoticed
    \/ RuntimeDies \/ RuntimeStarts \/ Move

Spec == Init /\ [][Next]_vars

-----------------------------------------------------------------------------
(* Properties *)

(***************************************************************************)
(* What an outcome kept for a key says was done was done: the Project it   *)
(* shows is registered, at that revision or a later one, with that Harness *)
(* if the revision is the same; an open that is "ready" shows one that is  *)
(* pinned.  Answers may have been lost on the way, and keys repeated.      *)
(***************************************************************************)
ClaimsHappened ==
    \A k \in Kinds \X Keys : outcomes[k] # None =>
        LET o == outcomes[k]
            p == o.project.id
        IN /\ p # 0 => /\ registry.projects[p].revision >= o.project.revision
                       /\ registry.projects[p].revision = o.project.revision
                             => registry.projects[p].harness = o.project.harness
           /\ o.code = "project_ready" => o.project.harness \in registry.harnesses
           /\ o.claims \cap {"registered", "pinned"} # {} => p # 0
           /\ "harness" \in o.claims => registry.harnesses # {}

(***************************************************************************)
(* The Project the runtime shows as prepared, and lets Controllers launch  *)
(* for, is as the Host has it whenever no request is under way and the     *)
(* Host is there: through forgotten, restored, conflicting and repeated    *)
(* registrations.  An echo is the exception: what a key was answered for a *)
(* path that leads nowhere now is shown as it was, though the Project may  *)
(* have been forgotten or restored elsewhere since.                        *)
(***************************************************************************)
ViewIsHosts ==
    op = Idle /\ link = "connected" /\ ~counts.echoed /\ current # NoProject =>
        /\ registry.projects[current.id].status = "active"
        /\ Shown(registry, current.id) = current

(***************************************************************************)
(* A path leads to a Project exactly when one active registration is at    *)
(* it, and that one alone claims the directory that is there.              *)
(***************************************************************************)
PathsLeadHome ==
    \A path \in Paths, p \in Projects :
        LET place == Resolve(registry, fs, path)
            mine == {q \in Having(registry, "active") :
                       registry.projects[q].path = path \/ registry.projects[q].dir = fs[path]}
        IN (place.kind = "registered" /\ place.found = {p})
             <=> (mine = {p} /\ registry.projects[p].path = path /\ registry.projects[p].dir = fs[path])
=============================================================================

---------------------------- MODULE ProjectRegistry ----------------------------
(***************************************************************************)
(* The Host's registrations of Projects and Harnesses                      *)
(* (src/project-registration): where a path leads, and what each request   *)
(* makes of the retained file.                                             *)
(*                                                                         *)
(* The operators are functions of the file, of the directories as they are *)
(* and of the request: the registry serialises its operations, and each of *)
(* them reads the file, decides, audits and writes the file once.  A       *)
(* directory is its device, inode and birth time; digests, names, readiness*)
(* and the bounded configurations are left out.                            *)
(***************************************************************************)
EXTENDS Naturals, FiniteSets

CONSTANTS MaxProjects, \* bound: registrations, numbered as they are made
          MaxRevision, \* bound: of a registration
          Paths, Dirs, NoDir,
          Keys         \* idempotency keys of the person's requests

ASSUME RegistryAssumption ==
    /\ MaxProjects \in Nat \ {0}
    /\ MaxRevision \in Nat \ {0, 1} \* registered, and pinned
    /\ NoDir \notin Dirs \cup Paths

Projects == 1..MaxProjects

Adapters == {"conformance", "sandcastle"}
Statuses == {"none", "active", "tombstoned"}

Registrations ==
    [status : Statuses, path : Paths \cup {NoDir}, dir : Dirs \cup {NoDir},
     revision : 0..MaxRevision, harness : Adapters \cup {"none"}]

Unregistered ==
    [status |-> "none", path |-> NoDir, dir |-> NoDir, revision |-> 0, harness |-> "none"]

\* initialProjectState and initialHarnessState.
EmptyRegistry ==
    [projects |-> [p \in Projects |-> Unregistered], harnesses |-> {}, kept |-> {}]

Having(reg, status) == {p \in Projects : reg.projects[p].status = status}
At(reg, status, path) == {p \in Having(reg, status) : reg.projects[p].path = path}
Claiming(reg, status, dirs) == {p \in Having(reg, status) : reg.projects[p].dir \in dirs}

First(found) == CHOOSE p \in found : \A q \in found : p <= q

\* The latest of some registrations, 0 where there are none.
Latest(reg, found) ==
    IF found = {} THEN 0
    ELSE CHOOSE r \in {reg.projects[p].revision : p \in found} :
             \A p \in found : reg.projects[p].revision <= r

-----------------------------------------------------------------------------
(* resolveProjectLocation *)

Place(reg, kind, found) == [kind |-> kind, found |-> found, rev |-> Latest(reg, found)]
Several(found) == Cardinality(found) > 1

\* No directory at the path: only what was registered there is known.
PlaceOfNothing(reg, path) ==
    LET here == At(reg, "active", path)
        claims == Claiming(reg, "active", {reg.projects[p].dir : p \in here})
        gone == At(reg, "tombstoned", path)
    IN CASE Several(claims) -> Place(reg, "conflict", claims)
         [] ~Several(claims) /\ here # {} -> Place(reg, "missing", here)
         [] here = {} /\ gone # {} -> Place(reg, "tombstoned", gone)
         [] OTHER -> Place(reg, "invalid", {})

PlaceOfDirectory(reg, path, dir) ==
    LET here == At(reg, "active", path)
        claims == Claiming(reg, "active", {dir})
        goneHere == At(reg, "tombstoned", path)
        gone == Claiming(reg, "tombstoned", {dir})
    IN CASE Several(here) -> Place(reg, "conflict", here)
         [] ~Several(here) /\ here # {} ->
                CASE here \cap claims = {} -> Place(reg, "replaced", here)
                  [] here \cap claims # {} /\ Several(claims) -> Place(reg, "conflict", claims)
                  [] OTHER -> Place(reg, "registered", here)
         [] here = {} /\ goneHere # {} -> Place(reg, "tombstoned", goneHere)
         [] here = {} /\ goneHere = {} /\ claims # {} ->
                Place(reg, IF Several(claims) THEN "conflict" ELSE "moved", claims)
         [] OTHER -> IF gone # {} THEN Place(reg, "tombstoned", gone)
                     ELSE Place(reg, "unregistered", {})

Mutant_Resolve(reg, fs, path) ==
    IF fs[path] = NoDir THEN PlaceOfNothing(reg, path)
    ELSE LET place == PlaceOfDirectory(reg, path, fs[path])
         IN IF place.kind = "replaced" THEN [place EXCEPT !.kind = "registered"] ELSE place

Resolve(reg, fs, path) ==
    IF fs[path] = NoDir THEN PlaceOfNothing(reg, path)
    ELSE PlaceOfDirectory(reg, path, fs[path])

Failed(place) == place.kind \notin {"registered", "unregistered"}

-----------------------------------------------------------------------------
(* Answers, and what is kept of them *)

NoProject == [id |-> 0, revision |-> 0, harness |-> "none"]
Shown(reg, p) ==
    [id |-> p, revision |-> reg.projects[p].revision, harness |-> reg.projects[p].harness]

\* An answer: its code, the Project it shows, and of a failure the
\* registrations it lists.
Answer(code, project, found) == [code |-> code, project |-> project, found |-> found]
Refusal(reg, code, found) == [reg |-> reg, answer |-> Answer(code, NoProject, found)]
Refused(reg, code) == Refusal(reg, code, {})

Mutant_Kept(reg, op, key) == {}
Kept(reg, op, key) == {k \in reg.kept : k.op = op /\ k.key = key}

\* The file is written with the answer that is to be repeated.
Accepted(reg, op, request, answer) ==
    [reg |-> [reg EXCEPT !.kept = @ \cup {[op |-> op, key |-> request.key,
                                          request |-> request, answer |-> answer]}],
     answer |-> answer]

-----------------------------------------------------------------------------
(* The operations *)

\* requireRegisteredProjectLocation: why a Project is not where it was, or "".
Displaced(reg, fs, p) ==
    LET place == Resolve(reg, fs, reg.projects[p].path)
    IN CASE Failed(place) -> place.kind
         [] ~Failed(place) /\ place.found = {p} -> ""
         [] OTHER -> IF reg.projects[p].status = "tombstoned" THEN "tombstoned" ELSE "replaced"

\* The failure, with the registrations that are in the way.
Reject(reg, fs, p, why) ==
    LET place == Resolve(reg, fs, reg.projects[p].path)
    IN Refusal(reg, why, CASE Displaced(reg, fs, p) # why -> {}
                           [] Displaced(reg, fs, p) = why /\ Failed(place) -> place.found
                           [] OTHER -> {p})

\* prepareRetainedProductionProject: its projection is made again, "fine" says
\* whether that works and gives what is retained.
Unprepared(reg, fs, p, fine) ==
    CASE reg.projects[p].harness # "sandcastle" -> ""
      [] reg.projects[p].harness = "sandcastle" /\ Displaced(reg, fs, p) # "" -> Displaced(reg, fs, p)
      [] OTHER -> IF fine THEN "" ELSE "projection_failed"

InspectProject(reg, fs, path, fine) ==
    LET place == Resolve(reg, fs, path)
    IN CASE Failed(place) -> Refusal(reg, place.kind, place.found)
         [] place.kind = "unregistered" -> Refused(reg, "unregistered")
         [] OTHER ->
              LET p == First(place.found)
                  why == Unprepared(reg, fs, p, fine)
              IN IF why # "" THEN Reject(reg, fs, p, why)
                 ELSE [reg |-> reg, answer |-> Answer("registered", Shown(reg, p), {})]

\* A key that was answered: the same answer, or a conflict.
Repeated(reg, kept, request) ==
    LET k == CHOOSE x \in kept : TRUE
    IN IF k.request = request THEN [reg |-> reg, answer |-> k.answer]
       ELSE Refused(reg, "idempotency_key_conflict")

\* What a registration finds at its path: register_as_new takes a directory
\* whose Project moved, was replaced or is forgotten for one never seen.
Candidate(reg, fs, request) ==
    LET place == Resolve(reg, fs, request.path)
    IN IF /\ request.asNew /\ fs[request.path] # NoDir
          /\ place.kind \in {"moved", "replaced", "tombstoned"}
       THEN [place EXCEPT !.kind = "as new"]
       ELSE place

\* A Project that is there is given again, one that is not is made.
Given(reg, fs, request, place, fine) ==
    LET p == First(place.found)
        why == Unprepared(reg, fs, p, fine)
        fresh == First(Having(reg, "none"))
        made == [status |-> "active", path |-> request.path, dir |-> fs[request.path],
                 revision |-> 1, harness |-> "none"]
        grown == [reg EXCEPT !.projects[fresh] = made]
    IN CASE place.kind = "registered" /\ why # "" -> Reject(reg, fs, p, why)
         [] place.kind = "registered" /\ why = "" ->
              Accepted(reg, "register", request, Answer("reused", Shown(reg, p), {}))
         [] OTHER -> Accepted(grown, "register", request, Answer("made", Shown(grown, fresh), {}))

\* registerProject.  request: key, path, asNew, expected.
RegisterProject(reg, fs, request, fine) ==
    LET kept == Kept(reg, "register", request.key)
        again == Repeated(reg, kept, request)
        known == (CHOOSE k \in kept : TRUE).answer.project.id
        place == Candidate(reg, fs, request)
    IN CASE kept # {} ->
              IF again.answer.code # "idempotency_key_conflict" /\ Unprepared(reg, fs, known, fine) # ""
              THEN Reject(reg, fs, known, Unprepared(reg, fs, known, fine))
              ELSE again
         [] kept = {} /\ Failed(place) /\ place.kind # "as new" -> Refusal(reg, place.kind, place.found)
         [] kept = {} /\ ~Failed(place) /\ request.asNew -> Refused(reg, "mutation_contract_invalid")
         [] OTHER -> IF request.expected # place.rev THEN Refused(reg, "mutation_revision_conflict")
                     ELSE Given(reg, fs, request, place, fine)

\* A Harness workspace is made from its seed and probed.
Seeded(reg, request, fine) ==
    IF ~fine THEN Refused(reg, "seed_rejected")
    ELSE Accepted([reg EXCEPT !.harnesses = @ \cup {request.adapter}], "harness", request,
                  Answer("made", NoProject, {}))

\* registerBundledHarness; its key is derived and its revision is 0.
RegisterHarness(reg, adapter, key, fine) ==
    LET request == [key |-> key, adapter |-> adapter]
        kept == Kept(reg, "harness", key)
    IN CASE kept # {} -> Repeated(reg, kept, request)
         [] kept = {} /\ adapter \in reg.harnesses -> Refused(reg, "mutation_revision_conflict")
         [] OTHER -> Seeded(reg, request, fine)

\* A pin that is repeated needs its Project where it was, and prepares it again.
PinAgain(reg, fs, request, kept, fine) ==
    LET p == request.project
        why == IF Displaced(reg, fs, p) # "" THEN Displaced(reg, fs, p)
               ELSE Unprepared(reg, fs, p, fine)
        again == Repeated(reg, kept, request)
    IN IF again.answer.code # "idempotency_key_conflict" /\ why # ""
       THEN Reject(reg, fs, p, why)
       ELSE again

\* Why a Project cannot be given the Harness, or "".
Unpinnable(reg, fs, request, fine) ==
    IF Displaced(reg, fs, request.project) # "" \/ request.adapter # "sandcastle"
    THEN Displaced(reg, fs, request.project)
    ELSE Unprepared(reg, fs, request.project, fine)

\* The Project gets the Harness and a revision, unless it has that one.
PinMade(reg, request) ==
    LET p == request.project
        pinned == reg.projects[p].harness = request.adapter
        done == IF pinned THEN reg
                ELSE [reg EXCEPT !.projects[p].harness = request.adapter,
                                 !.projects[p].revision = @ + 1]
    IN Accepted(done, "pin", request,
                Answer(IF pinned THEN "reused" ELSE "made", Shown(done, p), {}))

\* pinConformanceHarness, for either Harness.  request: key, project,
\* adapter, expected.
PinHarness(reg, fs, request, fine) ==
    LET kept == Kept(reg, "pin", request.key)
        why == Unpinnable(reg, fs, request, fine)
    IN CASE kept # {} -> PinAgain(reg, fs, request, kept, fine)
         [] kept = {} /\ request.adapter \notin reg.harnesses -> Refused(reg, "harness_not_found")
         [] kept = {} /\ request.adapter \in reg.harnesses
            /\ request.expected # reg.projects[request.project].revision ->
              Refused(reg, "mutation_revision_conflict")
         [] OTHER -> CASE why # "" -> Reject(reg, fs, request.project, why)
                       [] why = "" /\ ~fine -> Refused(reg, "harness_rejected")
                       [] OTHER -> PinMade(reg, request)

\* loadLaunchContext: the Projects a run may be launched for.
Launchable(reg, fs, p) ==
    /\ reg.projects[p].status = "active"
    /\ Resolve(reg, fs, reg.projects[p].path).kind = "registered"
    /\ Resolve(reg, fs, reg.projects[p].path).found = {p}
    /\ reg.projects[p].harness \in reg.harnesses

-----------------------------------------------------------------------------
(* applyProjectRegistrationResolution.  request: key, action, project,     *)
(* path, expected.                                                         *)

\* The affected registrations change together; the answer shows the chosen.
Settled(reg, request, projects, affected) ==
    LET done == [reg EXCEPT !.projects =
                    [p \in Projects |-> IF p \in affected
                                        THEN [projects[p] EXCEPT !.revision = @ + 1]
                                        ELSE reg.projects[p]]]
    IN Accepted(done, "resolve", request, Answer("resolved", Shown(done, request.project), {}))

Forgotten(reg, request) ==
    IF reg.projects[request.project].status = "tombstoned"
    THEN Refusal(reg, "tombstoned", {request.project})
    ELSE Settled(reg, request, [reg.projects EXCEPT ![request.project].status = "tombstoned"],
                 {request.project})

\* A restoration is tried on a copy, at the path where it was or at the one
\* it moved to.  One that runs into a conflict it is part of is kept, and
\* answered as the conflict; one that runs into others' raises an error that
\* nothing catches, which ends the Host.
Restored(reg, fs, request) ==
    LET p == request.project
        woken == [reg EXCEPT !.projects[p].status = "active"]
        first == Resolve(woken, fs, request.path)
        moved == first.kind = "moved"
        tried == IF moved THEN [woken EXCEPT !.projects[p].path = request.path] ELSE woken
        place == Resolve(tried, fs, request.path)
        kept == [tried EXCEPT !.projects[p].revision = @ + 1]
    IN CASE reg.projects[p].status # "tombstoned" -> Refused(reg, "mutation_contract_invalid")
         [] reg.projects[p].status = "tombstoned" /\ place.kind = "registered" /\ place.found = {p} ->
                Settled(reg, request, tried.projects, {p})
         [] reg.projects[p].status = "tombstoned" /\ place.kind = "conflict" ->
                IF p \in place.found
                THEN Accepted(kept, "resolve", request, Answer("conflict", NoProject, place.found))
                ELSE Refused(reg, "host_dies")
         [] OTHER -> Refusal(reg, "tombstoned", {p})

\* The conflict that is resolved: the one there is, or the one that waking a
\* forgotten registration brings back.
Conflict(reg, fs, request) ==
    LET p == request.project
        asleep == IF reg.projects[p].status = "tombstoned" THEN {p} ELSE Having(reg, "tombstoned")
        Woken(x) == [reg EXCEPT !.projects[x].status = "active"]
        back == {x \in asleep : /\ Resolve(Woken(x), fs, request.path).kind = "conflict"
                                /\ p \in Resolve(Woken(x), fs, request.path).found}
    IN CASE Resolve(reg, fs, request.path).kind = "conflict" -> reg
         [] Resolve(reg, fs, request.path).kind # "conflict" /\ back # {} -> Woken(First(back))
         [] OTHER -> reg

ConflictResolved(reg, fs, request) ==
    LET p == request.project
        from == Conflict(reg, fs, request)
        place == Resolve(from, fs, request.path)
        settled == [q \in Projects |->
                       CASE q = p -> [from.projects[q] EXCEPT !.status = "active", !.path = request.path]
                         [] q # p /\ q \in place.found -> [from.projects[q] EXCEPT !.status = "tombstoned"]
                         [] OTHER -> from.projects[q]]
        after == Resolve([from EXCEPT !.projects = settled], fs, request.path)
    IN CASE place.kind # "conflict" -> Refused(reg, "mutation_contract_invalid")
         [] place.kind = "conflict" /\ (p \notin place.found \/ after.kind \notin {"registered", "missing"}
                                        \/ after.found # {p}) ->
                Refusal(reg, "conflict", place.found)
         [] OTHER -> Settled(reg, request, settled, place.found)

ResolveRegistration(reg, fs, request) ==
    LET kept == Kept(reg, "resolve", request.key)
    IN CASE kept # {} -> Repeated(reg, kept, request)
         [] kept = {} /\ request.expected # reg.projects[request.project].revision ->
                Refused(reg, "mutation_revision_conflict")
         [] OTHER -> CASE request.action = "forget" -> Forgotten(reg, request)
                       [] request.action = "restore" -> Restored(reg, fs, request)
                       [] OTHER -> ConflictResolved(reg, fs, request)
=============================================================================

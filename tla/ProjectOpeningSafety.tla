------------------------- MODULE ProjectOpeningSafety -------------------------
(***************************************************************************)
(* Opening a Project, for any paths, directories, keys and numbers of      *)
(* Projects, through every operation of the registry, lost answers,        *)
(* repeated keys and directories that move: where a path leads, what an    *)
(* outcome that was kept says, and what the runtime shows as prepared.     *)
(*                                                                         *)
(* Everything rests on one relation between two files of the Host (Grows): *)
(* whatever is asked, a registration stays as it is or gets the next       *)
(* revision, so that what was seen of it can be told by its revision.      *)
(***************************************************************************)
EXTENDS ProjectOpening, FiniteSetTheorems, WellFoundedInduction, TLAPS

-----------------------------------------------------------------------------
(* The invariant: what the Host's file is                                  *)

\* Registrations and what is shown of them, whatever the revision.
Entries ==
    [status : Statuses, path : Paths \cup {NoDir}, dir : Dirs \cup {NoDir}, revision : Nat,
     harness : Adapters \cup {"none"}]
Looks == [id : 0..MaxProjects, revision : Nat, harness : Adapters \cup {"none"}]

\* What was seen of a Project was so: it is registered, at that revision or a
\* later one, with that Harness if the revision is the same.
Backed(reg, s) ==
    /\ s \in Looks
    /\ s # NoProject =>
         /\ s.id \in Projects /\ reg.projects[s.id].status # "none"
         /\ s.revision <= reg.projects[s.id].revision
         /\ s.revision = reg.projects[s.id].revision => s.harness = reg.projects[s.id].harness

\* The answers that are kept, by the request.
RegistrationKept(reg, k) ==
    /\ k.answer.code \in {"made", "reused"}
    /\ k.answer.project # NoProject /\ Backed(reg, k.answer.project)
HarnessKept(reg, k) ==
    /\ k.answer.code = "made" /\ k.answer.project = NoProject
    /\ k.request.adapter \in reg.harnesses
PinKept(reg, k) ==
    /\ k.answer.code \in {"made", "reused"}
    /\ k.answer.project # NoProject /\ Backed(reg, k.answer.project)
    /\ k.answer.project.id = k.request.project
    /\ k.answer.project.harness = k.request.adapter
    /\ k.request.adapter \in reg.harnesses
    /\ k.request.expected \in Nat
    /\ k.answer.project.revision = IF k.answer.code = "made" THEN k.request.expected + 1
                                   ELSE k.request.expected
Remembered(reg, k) ==
    /\ k.op = "register" => RegistrationKept(reg, k)
    /\ k.op = "harness" => HarnessKept(reg, k)
    /\ k.op = "pin" => PinKept(reg, k)
    /\ k.op = "resolve" => k.answer.code \in {"resolved", "conflict"}

\* The registrations: one that was made has a revision and is of a directory.
Registrable(projects) ==
    /\ projects \in [Projects -> Entries]
    /\ \A p \in Projects :
          /\ projects[p].status = "none" <=> projects[p].revision = 0
          /\ projects[p].status # "none" => projects[p].dir \in Dirs

\* The Host's file.
Retained(reg) ==
    /\ DOMAIN reg = {"projects", "harnesses", "kept"}
    /\ Registrable(reg.projects)
    /\ reg.harnesses \subseteq Adapters
    /\ \A k \in reg.kept : Remembered(reg, k)
    /\ \A a, b \in reg.kept : a.op = b.op /\ a.key = b.key => a = b

\* A registration stays as it is or gets the next revision.
GoesUp(old, new) ==
    new = old \/ (new.revision = old.revision + 1 /\ new.status # "none")

\* What any request makes of the file.
Grows(reg, next) ==
    /\ Retained(next)
    /\ \A p \in Projects : GoesUp(reg.projects[p], next.projects[p])
    /\ reg.harnesses \subseteq next.harnesses

-----------------------------------------------------------------------------
(* The invariant: the composite, what is kept by key, and what is shown    *)

Before == {"inspecting", "harness first", "registering", "resolving"}

\* The requests a composite is made of.
OpTyped ==
    op # Idle =>
        /\ DOMAIN op = {"at", "request", "inspected", "project", "claims"}
        /\ op.at \in Stages /\ op.request \in Requests /\ op.claims \subseteq Claims
        /\ op.at = "resolving" <=> op.request.kind = "resolve"
        /\ op.at = "resolving" => registry.projects[op.request.project].status # "none"

\* A composite that may still raise a revision has one left.
RevisionsFit ==
    \A p \in Projects :
        /\ registry.projects[p].revision <= MaxRevision
        /\ Asking => registry.projects[p].revision < MaxRevision

\* What a composite has found out and done, by its stage.
StageInv ==
    op # Idle =>
        /\ Backed(registry, op.inspected) /\ Backed(registry, op.project)
        /\ op.at \in Before => op.project = NoProject /\ op.claims \subseteq {"harness"}
        /\ op.at \in Before \ {"resolving"} => Having(registry, "none") # {}
        /\ op.at \notin Before => op.project # NoProject
        /\ op.at \in {"harness", "pinning"} => current = op.project
        /\ op.at \in {"registering", "reinspecting"} /\ Adapter = "sandcastle"
              => Adapter \in registry.harnesses
        /\ op.at \in {"pinning", "auditing"} => Adapter \in registry.harnesses
        /\ op.at = "pinning" => op.project.harness # Adapter
        /\ op.at = "auditing" => op.project.harness = Adapter
        /\ "harness" \in op.claims => registry.harnesses # {}

\* What an outcome that is kept says.
Holds(reg, o) ==
    /\ o.request \in Requests /\ o.claims \subseteq Claims
    /\ Backed(reg, o.project)
    /\ o.code = "project_ready" => o.project.harness \in reg.harnesses
    /\ o.claims \cap {"registered", "pinned"} # {} => o.project # NoProject
    /\ "harness" \in o.claims => reg.harnesses # {}
OutcomesHold ==
    /\ DOMAIN outcomes = Kinds \X Keys
    /\ \A k \in Kinds \X Keys : outcomes[k] # None => Holds(registry, outcomes[k])

\* A Project is shown as the Host has it now.
Seen(reg, s) ==
    s # NoProject => reg.projects[s.id].status = "active" /\ Shown(reg, s.id) = s

\* Until the file is changed what was inspected is as the Host has it; so is
\* what the runtime shows, unless the last registration was an echo.  Between
\* a registration as new and the inspection after it nothing is shown yet.
ViewInv ==
    /\ link = "down" => current = NoProject /\ op = Idle
    /\ link = "connected" /\ op # Idle /\ op.at \in Before => Seen(registry, op.inspected)
    /\ link = "connected" /\ ~counts.echoed =>
          /\ op # Idle => Seen(registry, op.project)
          /\ (op # Idle /\ op.at = "reinspecting") \/ Seen(registry, current)

\* The directories, each at one path, and the two processes.
WorldTyped ==
    /\ fs \in [Paths -> Dirs \cup {NoDir}]
    /\ \A a, b \in Paths : fs[a] = fs[b] => a = b \/ fs[a] = NoDir
    /\ host \in {"up", "down"}
    /\ link \in {"down", "connected", "disconnected", "unmarked", "unsaved"}
    /\ DOMAIN counts = {"requests", "moves", "losses", "echoed"} /\ counts.echoed \in BOOLEAN

OpenInv ==
    /\ WorldTyped /\ Retained(registry) /\ RevisionsFit
    /\ Backed(registry, current)
    /\ OpTyped /\ StageInv /\ OutcomesHold /\ ViewInv

-----------------------------------------------------------------------------
(* Where a path leads *)

\* Several, of a set of Projects.
LEMMA OneOrSeveral ==
  ASSUME NEW found \in SUBSET Projects, NEW p
  PROVE  /\ p \in found /\ ~Several(found) => found = {p}
         /\ found = {p} => ~Several(found)
<1>1. IsFiniteSet(found)
  <2>1. IsFiniteSet(1..MaxProjects)
    BY FS_Interval, RegistryAssumption
  <2> QED
    BY <2>1, FS_Subset DEF Projects
<1>2. Cardinality({p}) = 1
  BY FS_Singleton
<1>3. ASSUME p \in found, ~Several(found) PROVE found = {p}
  <2>1. {p} \subseteq found /\ Cardinality(found) \in Nat
    BY <1>1, <1>3, FS_CardinalityType
  <2>2. Cardinality(found) <= Cardinality({p})
    BY <1>2, <1>3, <2>1 DEF Several
  <2> QED
    BY <1>1, <1>2, <2>1, <2>2, FS_Subset
<1> QED
  BY <1>2, <1>3 DEF Several

\* Only a directory that is there is unregistered, or registered.
LEMMA NothingThere ==
  ASSUME NEW reg, NEW f, NEW path, f[path] = NoDir
  PROVE  Resolve(reg, f, path).kind \in {"conflict", "missing", "tombstoned", "invalid"}
<1> DEFINE here == At(reg, "active", path)
           claims == Claiming(reg, "active", {reg.projects[p].dir : p \in here})
           gone == At(reg, "tombstoned", path)
<1>1. Resolve(reg, f, path) = PlaceOfNothing(reg, path)
  BY DEF Resolve
<1>2. PlaceOfNothing(reg, path) =
        CASE Several(claims) -> Place(reg, "conflict", claims)
          [] ~Several(claims) /\ here # {} -> Place(reg, "missing", here)
          [] here = {} /\ gone # {} -> Place(reg, "tombstoned", gone)
          [] OTHER -> Place(reg, "invalid", {})
  BY DEF PlaceOfNothing
<1>3. \A kind, found : Place(reg, kind, found).kind = kind
  BY DEF Place
<1> HIDE DEF here, claims, gone
<1> QED
  BY <1>1, <1>2, <1>3

\* The two ways to lead home.
LEMMA LeadsHome ==
  ASSUME \A p \in Projects : registry.projects[p].status # "none" => registry.projects[p].dir \in Dirs,
         fs \in [Paths -> Dirs \cup {NoDir}]
  PROVE  PathsLeadHome
<1> SUFFICES ASSUME NEW path \in Paths, NEW p \in Projects
             PROVE  LET place == Resolve(registry, fs, path)
                        mine == {q \in Having(registry, "active") :
                                   registry.projects[q].path = path \/ registry.projects[q].dir = fs[path]}
                    IN (place.kind = "registered" /\ place.found = {p})
                         <=> (mine = {p} /\ registry.projects[p].path = path
                                /\ registry.projects[p].dir = fs[path])
  BY DEF PathsLeadHome
<1> DEFINE here == At(registry, "active", path)
           claims == Claiming(registry, "active", {fs[path]})
           place == Resolve(registry, fs, path)
           mine == {q \in Having(registry, "active") :
                      registry.projects[q].path = path \/ registry.projects[q].dir = fs[path]}
<1>1. /\ here \in SUBSET Projects /\ claims \in SUBSET Projects
      /\ mine = here \cup claims
  BY DEF At, Claiming, Having
<1>2. /\ \A q : q \in here => registry.projects[q].path = path
      /\ \A q : q \in claims => registry.projects[q].dir = fs[path]
  BY DEF At, Claiming, Having
<1>3. CASE fs[path] = NoDir
  <2>1. place.kind # "registered"
    BY <1>3, NothingThere
  <2>2. p \in mine => registry.projects[p].dir \in Dirs
    BY DEF Having
  <2>3. ~(mine = {p} /\ registry.projects[p].dir = fs[path])
    BY <1>3, <2>2, RegistryAssumption
  <2> QED
    BY <2>1, <2>3
<1>4. CASE fs[path] # NoDir
  <2> DEFINE goneHere == At(registry, "tombstoned", path)
             gone == Claiming(registry, "tombstoned", {fs[path]})
  <2>1. place =
          CASE Several(here) -> Place(registry, "conflict", here)
            [] ~Several(here) /\ here # {} ->
                   CASE here \cap claims = {} -> Place(registry, "replaced", here)
                     [] here \cap claims # {} /\ Several(claims) -> Place(registry, "conflict", claims)
                     [] OTHER -> Place(registry, "registered", here)
            [] here = {} /\ goneHere # {} -> Place(registry, "tombstoned", goneHere)
            [] here = {} /\ goneHere = {} /\ claims # {} ->
                   Place(registry, IF Several(claims) THEN "conflict" ELSE "moved", claims)
            [] OTHER -> IF gone # {} THEN Place(registry, "tombstoned", gone)
                        ELSE Place(registry, "unregistered", {})
    BY <1>4 DEF Resolve, PlaceOfDirectory
  <2>2. \A kind, found : Place(registry, kind, found).kind = kind /\ Place(registry, kind, found).found = found
    BY DEF Place
  <2> HIDE DEF here, claims, goneHere, gone, place, mine
  <2>3. place.kind = "registered" =>
          /\ place.found = here
          /\ ~Several(here) /\ here \cap claims # {} /\ ~Several(claims)
    BY <2>1, <2>2
  <2>4. here = {p} /\ claims = {p} /\ ~Several(here) /\ ~Several(claims)
          => place.kind = "registered" /\ place.found = {p}
    BY <2>1, <2>2
  <2>5. ASSUME place.kind = "registered", place.found = {p}
        PROVE  mine = {p} /\ registry.projects[p].path = path /\ registry.projects[p].dir = fs[path]
    <3>1. here = {p} /\ p \in claims
      BY <2>3, <2>5
    <3>2. claims = {p}
      BY <1>1, <2>3, <2>5, <3>1, OneOrSeveral
    <3> QED
      BY <1>1, <1>2, <3>1, <3>2
  <2>6. ASSUME mine = {p}, registry.projects[p].path = path, registry.projects[p].dir = fs[path]
        PROVE  place.kind = "registered" /\ place.found = {p}
    <3>1. p \in here /\ p \in claims
      BY <2>6 DEF mine, here, claims, At, Claiming
    <3>2. here = {p} /\ claims = {p}
      BY <1>1, <2>6, <3>1
    <3> QED
      BY <1>1, <2>4, <3>2, OneOrSeveral
  <2> QED
    BY <2>5, <2>6 DEF place, mine
<1> QED
  BY <1>3, <1>4

-----------------------------------------------------------------------------
(* The file grows *)

\* What was seen of a Project stays backed.
LEMMA BackedOn ==
  ASSUME NEW reg, NEW next, Registrable(reg.projects), Registrable(next.projects),
         \A p \in Projects : GoesUp(reg.projects[p], next.projects[p]),
         NEW s, Backed(reg, s)
  PROVE  Backed(next, s)
<1> SUFFICES ASSUME s # NoProject
             PROVE  /\ next.projects[s.id].status # "none"
                    /\ s.revision <= next.projects[s.id].revision
                    /\ s.revision = next.projects[s.id].revision => s.harness = next.projects[s.id].harness
  BY DEF Backed
<1>1. /\ s.id \in Projects /\ reg.projects[s.id].status # "none" /\ s.revision \in Nat
      /\ s.revision <= reg.projects[s.id].revision
      /\ s.revision = reg.projects[s.id].revision => s.harness = reg.projects[s.id].harness
  BY DEF Backed, Looks
<1>2. reg.projects[s.id].revision \in Nat /\ next.projects[s.id].revision \in Nat
  BY <1>1 DEF Registrable, Entries
<1>3. GoesUp(reg.projects[s.id], next.projects[s.id])
  BY <1>1
<1> QED
  BY <1>1, <1>2, <1>3 DEF GoesUp

\* And so does what is kept.
LEMMA RememberedOn ==
  ASSUME NEW reg, NEW next, Registrable(reg.projects), Registrable(next.projects),
         \A p \in Projects : GoesUp(reg.projects[p], next.projects[p]),
         reg.harnesses \subseteq next.harnesses,
         NEW k, Remembered(reg, k)
  PROVE  Remembered(next, k)
<1>1. \A s : Backed(reg, s) => Backed(next, s)
  BY BackedOn
<1> QED
  BY <1>1, Zenon DEF Remembered, RegistrationKept, HarnessKept, PinKept

\* A file that stays as it is.
LEMMA GrowsItself == ASSUME NEW reg, Retained(reg) PROVE Grows(reg, reg)
BY DEF Grows, GoesUp

\* A file of other registrations and Harnesses, the answers as they were.
LEMMA GrowsTo ==
  ASSUME NEW reg, Retained(reg), NEW next, DOMAIN next = {"projects", "harnesses", "kept"},
         Registrable(next.projects),
         \A p \in Projects : GoesUp(reg.projects[p], next.projects[p]),
         reg.harnesses \subseteq next.harnesses, next.harnesses \subseteq Adapters,
         next.kept = reg.kept
  PROVE  Grows(reg, next)
<1>1. \A k \in next.kept : Remembered(next, k)
  BY RememberedOn DEF Retained
<1> QED
  BY <1>1 DEF Grows, Retained

\* Registrations that are put in place of others.
LEMMA GrowsProjects ==
  ASSUME NEW reg, Retained(reg), NEW projects, Registrable(projects),
         \A p \in Projects : GoesUp(reg.projects[p], projects[p])
  PROVE  Grows(reg, [reg EXCEPT !.projects = projects])
<1> DEFINE next == [reg EXCEPT !.projects = projects]
<1>1. /\ DOMAIN next = {"projects", "harnesses", "kept"} /\ next.projects = projects
      /\ next.harnesses = reg.harnesses /\ next.kept = reg.kept
  BY DEF Retained
<1>2. reg.harnesses \subseteq Adapters
  BY DEF Retained
<1> HIDE DEF next
<1>3. Grows(reg, next)
  BY <1>1, <1>2, GrowsTo
<1> QED
  BY <1>3 DEF next

\* An answer that is kept, of a request whose key was free.
LEMMA GrowsAccepted ==
  ASSUME NEW reg, NEW next, Grows(reg, next), NEW what, NEW request, NEW answer,
         Kept(next, what, request.key) = {},
         Remembered(next, [op |-> what, key |-> request.key, request |-> request, answer |-> answer])
  PROVE  /\ Grows(reg, Accepted(next, what, request, answer).reg)
         /\ Accepted(next, what, request, answer).reg.projects = next.projects
         /\ Accepted(next, what, request, answer).reg.harnesses = next.harnesses
         /\ Accepted(next, what, request, answer).answer = answer
<1> DEFINE entry == [op |-> what, key |-> request.key, request |-> request, answer |-> answer]
           done == [next EXCEPT !.kept = @ \cup {entry}]
<1>1. /\ DOMAIN done = {"projects", "harnesses", "kept"} /\ done.projects = next.projects
      /\ done.harnesses = next.harnesses /\ done.kept = next.kept \cup {entry}
  BY DEF Grows, Retained
<1>2. Accepted(next, what, request, answer) = [reg |-> done, answer |-> answer]
  BY DEF Accepted
<1>3. entry.op = what /\ entry.key = request.key
  OBVIOUS
<1>4. \A k \in next.kept : ~(k.op = what /\ k.key = request.key)
  BY DEF Kept
<1>5. Remembered(next, entry)
  OBVIOUS
<1> HIDE DEF entry, done
<1>6. \A s : Backed(next, s) => Backed(done, s)
  BY <1>1, Zenon DEF Backed
<1>7. \A k : Remembered(next, k) => Remembered(done, k)
  BY <1>1, <1>6, Zenon DEF Remembered, RegistrationKept, HarnessKept, PinKept
<1>8. Retained(done)
  <2>1. \A k \in done.kept : Remembered(done, k)
    BY <1>1, <1>5, <1>7 DEF Grows, Retained
  <2>2. \A a, b \in done.kept : a.op = b.op /\ a.key = b.key => a = b
    BY <1>1, <1>3, <1>4 DEF Grows, Retained
  <2> QED
    BY <1>1, <2>1, <2>2 DEF Grows, Retained
<1>9. Grows(reg, done)
  BY <1>1, <1>8 DEF Grows
<1> QED
  BY <1>1, <1>2, <1>9

-----------------------------------------------------------------------------
(* Refusals *)

Failures == {"conflict", "missing", "tombstoned", "invalid", "replaced", "moved"}
Refusals ==
    Failures \cup {"projection_failed", "idempotency_key_conflict", "mutation_contract_invalid",
                   "mutation_revision_conflict", "seed_rejected", "harness_not_found",
                   "harness_rejected", "host_dies"}

\* Nothing is done, and the code is one of a failure.
Declined(reg, done) ==
    done.reg = reg /\ done.answer.code \in Refusals /\ done.answer.project = NoProject

\* What a path can lead to.
LEMMA PlaceIs ==
  ASSUME NEW reg, NEW f, NEW path
  PROVE  /\ Resolve(reg, f, path).kind \in Failures \cup {"registered", "unregistered"}
         /\ Failed(Resolve(reg, f, path)) => Resolve(reg, f, path).kind \in Failures
         /\ Resolve(reg, f, path).found \subseteq Projects
         /\ \A p \in Resolve(reg, f, path).found : reg.projects[p].status # "none"
         /\ Resolve(reg, f, path).kind = "registered" =>
               Resolve(reg, f, path).found # {}
               /\ \A p \in Resolve(reg, f, path).found : reg.projects[p].status = "active"
         /\ Resolve(reg, f, path).rev = Latest(reg, Resolve(reg, f, path).found)
<1>1. \A kind, found : /\ Place(reg, kind, found).kind = kind /\ Place(reg, kind, found).found = found
                       /\ Place(reg, kind, found).rev = Latest(reg, found)
  BY DEF Place
<1>2. \A status, p : p \in Having(reg, status) => p \in Projects /\ reg.projects[p].status = status
  BY DEF Having
<1>3. /\ \A status : At(reg, status, path) \subseteq Having(reg, status)
      /\ \A status, dirs : Claiming(reg, status, dirs) \subseteq Having(reg, status)
  BY DEF At, Claiming
<1>4. CASE f[path] = NoDir
  <2> DEFINE here == At(reg, "active", path)
             claims == Claiming(reg, "active", {reg.projects[p].dir : p \in here})
             gone == At(reg, "tombstoned", path)
  <2>1. Resolve(reg, f, path) =
          CASE Several(claims) -> Place(reg, "conflict", claims)
            [] ~Several(claims) /\ here # {} -> Place(reg, "missing", here)
            [] here = {} /\ gone # {} -> Place(reg, "tombstoned", gone)
            [] OTHER -> Place(reg, "invalid", {})
    BY <1>4 DEF Resolve, PlaceOfNothing
  <2>2. here \subseteq Having(reg, "active") /\ claims \subseteq Having(reg, "active")
        /\ gone \subseteq Having(reg, "tombstoned")
    BY <1>3
  <2> HIDE DEF here, claims, gone
  <2>3. \/ Resolve(reg, f, path) = Place(reg, "conflict", claims)
        \/ Resolve(reg, f, path) = Place(reg, "missing", here)
        \/ Resolve(reg, f, path) = Place(reg, "tombstoned", gone)
        \/ Resolve(reg, f, path) = Place(reg, "invalid", {})
    BY <2>1
  <2> QED
    BY <1>1, <1>2, <2>2, <2>3 DEF Failures
<1>5. CASE f[path] # NoDir
  <2> DEFINE here == At(reg, "active", path)
             claims == Claiming(reg, "active", {f[path]})
             goneHere == At(reg, "tombstoned", path)
             gone == Claiming(reg, "tombstoned", {f[path]})
  <2>1. Resolve(reg, f, path) =
          CASE Several(here) -> Place(reg, "conflict", here)
            [] ~Several(here) /\ here # {} ->
                   CASE here \cap claims = {} -> Place(reg, "replaced", here)
                     [] here \cap claims # {} /\ Several(claims) -> Place(reg, "conflict", claims)
                     [] OTHER -> Place(reg, "registered", here)
            [] here = {} /\ goneHere # {} -> Place(reg, "tombstoned", goneHere)
            [] here = {} /\ goneHere = {} /\ claims # {} ->
                   Place(reg, IF Several(claims) THEN "conflict" ELSE "moved", claims)
            [] OTHER -> IF gone # {} THEN Place(reg, "tombstoned", gone)
                        ELSE Place(reg, "unregistered", {})
    BY <1>5 DEF Resolve, PlaceOfDirectory
  <2>2. here \subseteq Having(reg, "active") /\ claims \subseteq Having(reg, "active")
        /\ goneHere \subseteq Having(reg, "tombstoned") /\ gone \subseteq Having(reg, "tombstoned")
    BY <1>3
  <2> HIDE DEF here, claims, goneHere, gone
  <2>3. \/ Resolve(reg, f, path) = Place(reg, "conflict", here)
        \/ Resolve(reg, f, path) = Place(reg, "replaced", here)
        \/ Resolve(reg, f, path) = Place(reg, "conflict", claims)
        \/ here # {} /\ Resolve(reg, f, path) = Place(reg, "registered", here)
        \/ Resolve(reg, f, path) = Place(reg, "tombstoned", goneHere)
        \/ Resolve(reg, f, path) = Place(reg, "moved", claims)
        \/ Resolve(reg, f, path) = Place(reg, "tombstoned", gone)
        \/ Resolve(reg, f, path) = Place(reg, "unregistered", {})
    BY <2>1, Zenon
  <2> QED
    BY <1>1, <1>2, <2>2, <2>3 DEF Failures, Failed
<1> QED
  BY <1>4, <1>5

\* Refusals decline, and so does what is said of a Project that is not where it was.
LEMMA Declining ==
  ASSUME NEW reg
  PROVE  /\ \A code \in Refusals : \A found : Declined(reg, Refusal(reg, code, found))
         /\ \A code \in Refusals : Declined(reg, Refused(reg, code))
         /\ \A f, p : \A why \in Refusals : Declined(reg, Reject(reg, f, p, why))
         /\ \A f, p : Displaced(reg, f, p) \in Refusals \cup {""}
         /\ \A f, p, fine : Unprepared(reg, f, p, fine) \in Refusals \cup {""}
         /\ \A f, request, fine : Unpinnable(reg, f, request, fine) \in Refusals \cup {""}
<1>1. \A code \in Refusals : \A found : Declined(reg, Refusal(reg, code, found))
  BY DEF Refusal, Declined, Answer
<1>2. \A code \in Refusals : Declined(reg, Refused(reg, code))
  BY <1>1 DEF Refused
<1>3. \A f, p : \A why \in Refusals : Declined(reg, Reject(reg, f, p, why))
  BY <1>1 DEF Reject
<1>4. ASSUME NEW f, NEW p PROVE Displaced(reg, f, p) \in Refusals \cup {""}
  BY PlaceIs DEF Displaced, Failures, Refusals
<1>5. ASSUME NEW f, NEW p, NEW fine PROVE Unprepared(reg, f, p, fine) \in Refusals \cup {""}
  BY <1>4 DEF Unprepared, Refusals
<1>6. ASSUME NEW f, NEW request, NEW fine PROVE Unpinnable(reg, f, request, fine) \in Refusals \cup {""}
  BY <1>4, <1>5 DEF Unpinnable
<1> QED
  BY <1>1, <1>2, <1>3, <1>4, <1>5, <1>6

\* A key that was answered.
LEMMA Repeating ==
  ASSUME NEW reg, NEW what, NEW key, Kept(reg, what, key) # {}, NEW request
  PROVE  LET done == Repeated(reg, Kept(reg, what, key), request)
         IN \/ Declined(reg, done) /\ done.answer.code = "idempotency_key_conflict"
            \/ \E k \in reg.kept : /\ k.op = what /\ k.key = key /\ k.request = request
                                   /\ done.reg = reg /\ done.answer = k.answer
<1> DEFINE kept == Kept(reg, what, key)
<1>1. PICK k \in kept : k = CHOOSE x \in kept : TRUE
  OBVIOUS
<1>2. k \in reg.kept /\ k.op = what /\ k.key = key
  BY <1>1 DEF Kept
<1>3. Repeated(reg, kept, request) = IF k.request = request THEN [reg |-> reg, answer |-> k.answer]
                                     ELSE Refused(reg, "idempotency_key_conflict")
  BY <1>1 DEF Repeated
<1>4. "idempotency_key_conflict" \in Refusals
  BY DEF Refusals
<1>5. Declined(reg, Refused(reg, "idempotency_key_conflict"))
      /\ Refused(reg, "idempotency_key_conflict").answer.code = "idempotency_key_conflict"
  BY <1>4, Declining DEF Refused, Refusal, Answer
<1> HIDE DEF kept
<1> QED
  BY <1>2, <1>3, <1>5 DEF kept


\* Some numbers have a least one.
LEMMA LeastIs ==
  ASSUME NEW numbers \in SUBSET Nat, numbers # {}
  PROVE  \E x \in numbers : \A y \in numbers : x <= y
<1> DEFINE Less == {pair \in Nat \X Nat : pair[1] < pair[2]}
<1>1. IsWellFoundedOn(Less, Nat)
  BY NatLessThanWellFounded DEF OpToRel
<1>2. \A x, y \in Nat : x < y => <<x, y>> \in Less
  OBVIOUS
<1> HIDE DEF Less
<1>3. PICK x \in numbers : \A y \in numbers : <<y, x>> \notin Less
  BY <1>1, WFMin
<1>4. \A y \in numbers : x <= y
  <2> TAKE y \in numbers
  <2>1. x \in Nat /\ y \in Nat /\ ~(y < x)
    BY <1>2, <1>3
  <2> QED
    BY <2>1
<1> QED
  BY <1>4

\* The first of some Projects is one of them.
LEMMA FirstIsOne ==
  ASSUME NEW found \in SUBSET Projects, found # {}
  PROVE  First(found) \in found
<1>1. found \in SUBSET Nat
  BY RegistryAssumption DEF Projects
<1>2. \E x \in found : \A q \in found : x <= q
  BY <1>1, LeastIs
<1> QED
  BY <1>2, Zenon DEF First
-----------------------------------------------------------------------------
(* What each request makes of the file, and what it is answered *)

\* What an inspection answers: nothing there, a refusal, or what is registered.
LEMMA InspectSays ==
  ASSUME NEW reg, Retained(reg), NEW f, NEW path, NEW fine
  PROVE  LET done == InspectProject(reg, f, path, fine)
         IN /\ done.reg = reg
            /\ \/ Declined(reg, done)
               \/ done.answer.code = "unregistered" /\ done.answer.project = NoProject
               \/ /\ done.answer.code = "registered"
                  /\ \E p \in Projects : /\ reg.projects[p].status = "active"
                                         /\ done.answer.project = Shown(reg, p)
<1> DEFINE place == Resolve(reg, f, path)
           p == First(place.found)
           why == Unprepared(reg, f, p, fine)
           done == InspectProject(reg, f, path, fine)
<1>1. /\ Failed(place) => place.kind \in Refusals
      /\ ~Failed(place) => place.kind \in {"registered", "unregistered"}
      /\ place.found \subseteq Projects
      /\ place.kind = "registered" =>
            place.found # {} /\ \A q \in place.found : reg.projects[q].status = "active"
  BY PlaceIs DEF Refusals, Failed
<1>2. why \in Refusals \cup {""}
  BY Declining
<1>3. place.kind = "registered" => p \in Projects /\ reg.projects[p].status = "active"
  BY <1>1, FirstIsOne
<1>4. done = CASE Failed(place) -> Refusal(reg, place.kind, place.found)
               [] place.kind = "unregistered" -> Refused(reg, "unregistered")
               [] OTHER -> IF why # "" THEN Reject(reg, f, p, why)
                           ELSE [reg |-> reg, answer |-> Answer("registered", Shown(reg, p), {})]
  BY DEF InspectProject
<1>5. Refused(reg, "unregistered").reg = reg
      /\ Refused(reg, "unregistered").answer.code = "unregistered"
      /\ Refused(reg, "unregistered").answer.project = NoProject
  BY DEF Refused, Refusal, Answer
<1>6. Failed(place) => place.kind # "unregistered"
  BY DEF Failed
<1> HIDE DEF place, p, why, done
<1>7. \/ Failed(place) /\ done = Refusal(reg, place.kind, place.found)
      \/ done = Refused(reg, "unregistered")
      \/ place.kind = "registered" /\ why # "" /\ done = Reject(reg, f, p, why)
      \/ place.kind = "registered"
         /\ done = [reg |-> reg, answer |-> Answer("registered", Shown(reg, p), {})]
  BY <1>1, <1>4, <1>6
<1>8. \/ Declined(reg, done)
      \/ done = Refused(reg, "unregistered")
      \/ /\ p \in Projects /\ reg.projects[p].status = "active"
         /\ done = [reg |-> reg, answer |-> Answer("registered", Shown(reg, p), {})]
  BY <1>1, <1>2, <1>3, <1>7, Declining
<1>9. done.reg = reg /\ (\/ Declined(reg, done)
                         \/ done.answer.code = "unregistered" /\ done.answer.project = NoProject
                         \/ /\ done.answer.code = "registered"
                            /\ \E q \in Projects : /\ reg.projects[q].status = "active"
                                                   /\ done.answer.project = Shown(reg, q))
  BY <1>5, <1>8 DEF Declined, Answer
<1> QED
  BY <1>9 DEF done

\* What is shown of a registration is backed by it.
LEMMA ShownIsBacked ==
  ASSUME NEW reg, Registrable(reg.projects), NEW p \in Projects, reg.projects[p].status # "none"
  PROVE  /\ Backed(reg, Shown(reg, p)) /\ Shown(reg, p) # NoProject
         /\ Shown(reg, p).id = p
         /\ Shown(reg, p).revision = reg.projects[p].revision
         /\ Shown(reg, p).harness = reg.projects[p].harness
<1>1. reg.projects[p].revision \in Nat /\ reg.projects[p].harness \in Adapters \cup {"none"}
  BY DEF Registrable, Entries
<1>2. p \in 0..MaxProjects /\ p # 0
  BY RegistryAssumption DEF Projects
<1> QED
  BY <1>1, <1>2 DEF Shown, Backed, Looks, NoProject

\* A registration: of a path that leads to a Project, or of a new one, in the
\* first registration that is free.
LEMMA RegisterSays ==
  ASSUME NEW reg, Retained(reg), NEW f, NEW request, request.path \in Paths,
         f[request.path] \in Dirs \cup {NoDir}, Having(reg, "none") # {}, NEW fine
  PROVE  LET done == RegisterProject(reg, f, request, fine)
             shown == done.answer.project
         IN /\ Grows(reg, done.reg) /\ done.reg.harnesses = reg.harnesses
            /\ \A p \in Projects :
                  /\ done.reg.projects[p].revision \in {reg.projects[p].revision, 1}
                  /\ reg.projects[p].status # "none" => done.reg.projects[p] = reg.projects[p]
            /\ \/ Declined(reg, done)
               \/ /\ done.answer.code \in {"made", "reused"}
                  /\ shown # NoProject /\ Backed(done.reg, shown)
                  /\ Kept(reg, "register", request.key) = {} =>
                        done.reg.projects[shown.id].status = "active" /\ Shown(done.reg, shown.id) = shown
<1> DEFINE done == RegisterProject(reg, f, request, fine)
           Fine(x) ==
            /\ Grows(reg, x.reg) /\ x.reg.harnesses = reg.harnesses
            /\ \A p \in Projects :
                  /\ x.reg.projects[p].revision \in {reg.projects[p].revision, 1}
                  /\ reg.projects[p].status # "none" => x.reg.projects[p] = reg.projects[p]
            /\ \/ Declined(reg, x)
               \/ /\ x.answer.code \in {"made", "reused"}
                  /\ x.answer.project # NoProject /\ Backed(x.reg, x.answer.project)
                  /\ Kept(reg, "register", request.key) = {} =>
                        /\ x.reg.projects[x.answer.project.id].status = "active"
                        /\ Shown(x.reg, x.answer.project.id) = x.answer.project
           kept == Kept(reg, "register", request.key)
           place == Candidate(reg, f, request)
           p == First(place.found)
           why == Unprepared(reg, f, p, fine)
           fresh == First(Having(reg, "none"))
           made == [status |-> "active", path |-> request.path, dir |-> f[request.path],
                    revision |-> 1, harness |-> "none"]
           grown == [reg EXCEPT !.projects[fresh] = made]
<1>1. Registrable(reg.projects)
  BY DEF Retained
<1>2. Grows(reg, reg)
  BY GrowsItself
<1>3. \A x : Declined(reg, x) => Fine(x)
  BY <1>2 DEF Declined
<1>4. CASE kept # {}
  <2> DEFINE again == Repeated(reg, kept, request)
             known == (CHOOSE k \in kept : TRUE).answer.project.id
  <2>1. Declined(reg, done) \/ done = again
    <3>1. done = IF again.answer.code # "idempotency_key_conflict" /\ Unprepared(reg, f, known, fine) # ""
                 THEN Reject(reg, f, known, Unprepared(reg, f, known, fine))
                 ELSE again
      BY <1>4 DEF RegisterProject
    <3> HIDE DEF done, again, known
    <3> QED
      BY <3>1, Declining
  <2>2. \/ Declined(reg, again)
        \/ \E k \in reg.kept : k.op = "register" /\ again.reg = reg /\ again.answer = k.answer
    BY <1>4, Repeating
  <2> HIDE DEF again, done
  <2>3. \A k \in reg.kept : k.op = "register" => RegistrationKept(reg, k)
    BY DEF Retained, Remembered
  <2>4. Declined(reg, again) \/ Fine(again)
    <3> SUFFICES ASSUME NEW k \in reg.kept, k.op = "register", again.reg = reg, again.answer = k.answer
                 PROVE  Fine(again)
      BY <2>2
    <3> HIDE DEF kept
    <3> QED
      BY <1>2, <1>4, <2>3 DEF RegistrationKept, kept
  <2> HIDE DEF Fine
  <2>5. Fine(done)
    BY <1>3, <2>1, <2>4
  <2> QED
    BY <2>5 DEF Fine, done
<1>5. CASE kept = {}
  <2>1. /\ place.kind \in Failures \cup {"registered", "unregistered", "as new"}
        /\ Failed(place) /\ place.kind # "as new" => place.kind \in Refusals
        /\ place.found \subseteq Projects
        /\ place.kind = "registered" =>
              place.found # {} /\ \A q \in place.found : reg.projects[q].status = "active"
        /\ place.kind \in {"unregistered", "as new"} => f[request.path] \in Dirs
    <3> DEFINE there == Resolve(reg, f, request.path)
    <3>1. there.kind \in Failures \cup {"registered", "unregistered"} /\ (Failed(there) => there.kind \in Refusals)
          /\ there.found \subseteq Projects
          /\ (there.kind = "registered" =>
                there.found # {} /\ \A q \in there.found : reg.projects[q].status = "active")
      BY PlaceIs DEF Refusals
    <3>2. there.kind = "unregistered" => f[request.path] # NoDir
      BY NothingThere
    <3>3. there = [kind |-> there.kind, found |-> there.found, rev |-> there.rev]
      BY Zenon DEF Resolve, PlaceOfNothing, PlaceOfDirectory, Place
    <3>4. place = there \/ (f[request.path] # NoDir /\ place = [there EXCEPT !.kind = "as new"])
      BY DEF Candidate
    <3> HIDE DEF there, place
    <3>5. CASE place = there
      BY <3>1, <3>2, <3>5 DEF Failures
    <3>6. CASE f[request.path] # NoDir /\ place = [there EXCEPT !.kind = "as new"]
      <4>1. place.kind = "as new" /\ place.found = there.found
        BY <3>3, <3>6
      <4> QED
        BY <3>1, <3>6, <4>1
    <3> QED
      BY <3>4, <3>5, <3>6
  <2>2. why \in Refusals \cup {""}
    BY Declining
  <2>3. place.kind = "registered" => p \in Projects /\ reg.projects[p].status = "active"
    BY <2>1, FirstIsOne
  <2>4. fresh \in Projects /\ reg.projects[fresh].status = "none" /\ reg.projects[fresh].revision = 0
    <3>1. fresh \in Having(reg, "none")
      BY FirstIsOne DEF Having
    <3> HIDE DEF fresh
    <3> QED
      BY <1>1, <3>1 DEF Having, Registrable
  <2>5. \/ Declined(reg, done)
        \/ place.kind # "registered" /\ place.kind \in {"unregistered", "as new"}
           /\ done = Accepted(grown, "register", request, Answer("made", Shown(grown, fresh), {}))
        \/ place.kind = "registered"
           /\ done = Accepted(reg, "register", request, Answer("reused", Shown(reg, p), {}))
    <3>1. done = CASE Failed(place) /\ place.kind # "as new" -> Refusal(reg, place.kind, place.found)
                   [] ~Failed(place) /\ request.asNew -> Refused(reg, "mutation_contract_invalid")
                   [] OTHER -> IF request.expected # place.rev THEN Refused(reg, "mutation_revision_conflict")
                               ELSE Given(reg, f, request, place, fine)
      BY <1>5 DEF RegisterProject
    <3>2. Given(reg, f, request, place, fine) =
            CASE place.kind = "registered" /\ why # "" -> Reject(reg, f, p, why)
              [] place.kind = "registered" /\ why = "" ->
                   Accepted(reg, "register", request, Answer("reused", Shown(reg, p), {}))
              [] OTHER -> Accepted(grown, "register", request, Answer("made", Shown(grown, fresh), {}))
      BY DEF Given
    <3> HIDE DEF done, place, p, why, grown, fresh, kept
    <3>3. \/ Given(reg, f, request, place, fine) = Reject(reg, f, p, why) /\ why \in Refusals
          \/ place.kind = "registered"
             /\ Given(reg, f, request, place, fine)
                  = Accepted(reg, "register", request, Answer("reused", Shown(reg, p), {}))
          \/ place.kind # "registered"
             /\ Given(reg, f, request, place, fine)
                  = Accepted(grown, "register", request, Answer("made", Shown(grown, fresh), {}))
      <4>1. CASE place.kind = "registered" /\ why # ""
        BY <2>2, <3>2, <4>1
      <4>2. CASE place.kind = "registered" /\ why = ""
        BY <3>2, <4>2
      <4>3. CASE place.kind # "registered"
        BY <3>2, <4>3
      <4> QED
        BY <4>1, <4>2, <4>3
    <3>4. "mutation_contract_invalid" \in Refusals /\ "mutation_revision_conflict" \in Refusals
      BY DEF Refusals
    <3>5. Declined(reg, done) \/ ((~Failed(place) \/ place.kind = "as new")
                                  /\ done = Given(reg, f, request, place, fine))
      BY <2>1, <3>1, <3>4, Declining
    <3>6. ~Failed(place) \/ place.kind = "as new" => place.kind \in {"registered", "unregistered", "as new"}
      BY DEF Failed
    <3> QED
      BY <3>3, <3>5, <3>6, Declining
  <2>6. ASSUME place.kind = "registered",
               done = Accepted(reg, "register", request, Answer("reused", Shown(reg, p), {}))
        PROVE  Fine(done)
    <3> HIDE DEF place, p, kept, done
    <3>1. /\ Backed(reg, Shown(reg, p)) /\ Shown(reg, p) # NoProject /\ Shown(reg, p).id = p
      BY <1>1, <2>3, <2>6, ShownIsBacked
    <3> DEFINE answer == Answer("reused", Shown(reg, p), {})
    <3>2. answer.code = "reused" /\ answer.project = Shown(reg, p)
      BY DEF Answer
    <3> HIDE DEF answer
    <3>3. Remembered(reg, [op |-> "register", key |-> request.key, request |-> request, answer |-> answer])
      BY <3>1, <3>2 DEF Remembered, RegistrationKept
    <3>4. Grows(reg, done.reg) /\ done.reg.projects = reg.projects /\ done.reg.harnesses = reg.harnesses
          /\ done.answer = answer
      BY <1>2, <1>5, <2>6, <3>3, GrowsAccepted DEF kept, answer
    <3>5. Shown(done.reg, p) = Shown(reg, p) /\ Backed(done.reg, Shown(reg, p))
      BY <3>1, <3>4 DEF Shown, Backed
    <3> QED
      BY <2>3, <2>6, <3>1, <3>2, <3>4, <3>5
  <2>7. ASSUME place.kind \in {"unregistered", "as new"},
               done = Accepted(grown, "register", request, Answer("made", Shown(grown, fresh), {}))
        PROVE  Fine(done)
    <3> DEFINE projects == [reg.projects EXCEPT ![fresh] = made]
    <3>1. made \in Entries /\ made.status = "active" /\ made.dir \in Dirs /\ made.revision = 1
      BY <2>1, <2>7 DEF Entries, Statuses
    <3>2. grown = [reg EXCEPT !.projects = projects]
      BY DEF Retained
    <3> HIDE DEF place, fresh, made, kept, done
    <3>3. projects \in [Projects -> Entries]
          /\ \A q \in Projects : projects[q] = IF q = fresh THEN made ELSE reg.projects[q]
      BY <1>1, <3>1 DEF Registrable
    <3> HIDE DEF projects, grown
    <3>4. Registrable(projects)
      BY <1>1, <3>1, <3>3 DEF Registrable
    <3>5. \A q \in Projects : GoesUp(reg.projects[q], projects[q])
      BY <2>4, <3>1, <3>3 DEF GoesUp
    <3>6. Grows(reg, grown)
      BY <3>2, <3>4, <3>5, GrowsProjects
    <3>7. grown.projects = projects /\ grown.kept = reg.kept /\ grown.harnesses = reg.harnesses
      BY <3>2 DEF Retained
    <3>8. grown.projects[fresh].status = "active"
      BY <2>4, <3>1, <3>3, <3>7
    <3>9. Backed(grown, Shown(grown, fresh)) /\ Shown(grown, fresh) # NoProject /\ Shown(grown, fresh).id = fresh
      BY <2>4, <3>4, <3>7, <3>8, ShownIsBacked
    <3> DEFINE answer == Answer("made", Shown(grown, fresh), {})
    <3>10. answer.code = "made" /\ answer.project = Shown(grown, fresh)
      BY DEF Answer
    <3>11. Kept(grown, "register", request.key) = {}
      BY <1>5, <3>7 DEF Kept, kept
    <3> HIDE DEF answer
    <3>12. Remembered(grown, [op |-> "register", key |-> request.key, request |-> request, answer |-> answer])
      BY <3>9, <3>10 DEF Remembered, RegistrationKept
    <3>13. Grows(reg, done.reg) /\ done.reg.projects = projects /\ done.reg.harnesses = reg.harnesses
          /\ done.answer = answer
      <4>1. done = Accepted(grown, "register", request, answer)
        BY <2>7 DEF answer
      <4> QED
        BY <3>6, <3>7, <3>11, <3>12, <4>1, GrowsAccepted
    <3>14. Shown(done.reg, fresh) = Shown(grown, fresh) /\ Backed(done.reg, Shown(grown, fresh))
      BY <3>7, <3>9, <3>13 DEF Shown, Backed
    <3>15. \A q \in Projects :
              /\ done.reg.projects[q].revision \in {reg.projects[q].revision, 1}
              /\ reg.projects[q].status # "none" => done.reg.projects[q] = reg.projects[q]
      BY <2>4, <3>1, <3>3, <3>13
    <3> QED
      BY <3>7, <3>8, <3>9, <3>10, <3>13, <3>14, <3>15
  <2> HIDE DEF Fine, place, done, grown, fresh, p
  <2>8. Fine(done)
    BY <1>3, <2>5, <2>6, <2>7
  <2> QED
    BY <2>8 DEF Fine, done
<1> QED
  BY <1>4, <1>5

\* A Harness: the registrations stay as they are.
LEMMA HarnessSays ==
  ASSUME NEW reg, Retained(reg), NEW adapter \in Adapters, NEW key, NEW fine
  PROVE  LET done == RegisterHarness(reg, adapter, key, fine)
         IN /\ Grows(reg, done.reg) /\ done.reg.projects = reg.projects
            /\ \/ Declined(reg, done)
               \/ done.answer.code = "made" /\ adapter \in done.reg.harnesses
<1> DEFINE done == RegisterHarness(reg, adapter, key, fine)
           request == [key |-> key, adapter |-> adapter]
           kept == Kept(reg, "harness", key)
           next == [reg EXCEPT !.harnesses = @ \cup {adapter}]
           answer == Answer("made", NoProject, {})
           Fine(x) == /\ Grows(reg, x.reg) /\ x.reg.projects = reg.projects
                      /\ \/ Declined(reg, x)
                         \/ x.answer.code = "made" /\ adapter \in x.reg.harnesses
<1>1. Grows(reg, reg)
  BY GrowsItself
<1>2. \A x : Declined(reg, x) => Fine(x)
  BY <1>1 DEF Declined
<1>3. ASSUME kept # {} PROVE Fine(Repeated(reg, kept, request))
  <2>1. \/ Declined(reg, Repeated(reg, kept, request))
        \/ \E k \in reg.kept : /\ k.op = "harness" /\ k.request = request
                               /\ Repeated(reg, kept, request).reg = reg
                               /\ Repeated(reg, kept, request).answer = k.answer
    BY <1>3, Repeating
  <2>2. \A k \in reg.kept : k.op = "harness" => HarnessKept(reg, k)
    BY DEF Retained, Remembered
  <2>3. request.adapter = adapter
    OBVIOUS
  <2> HIDE DEF request, kept
  <2>4. ASSUME NEW k \in reg.kept, k.op = "harness", k.request = request,
               Repeated(reg, kept, request).reg = reg, Repeated(reg, kept, request).answer = k.answer
        PROVE  Fine(Repeated(reg, kept, request))
    BY <1>1, <2>2, <2>3, <2>4 DEF HarnessKept
  <2> QED
    BY <1>2, <2>1, <2>4
<1>4. ASSUME kept = {} PROVE Fine(Accepted(next, "harness", request, answer))
  <2>1. /\ DOMAIN next = {"projects", "harnesses", "kept"} /\ next.projects = reg.projects
        /\ next.harnesses = reg.harnesses \cup {adapter} /\ next.kept = reg.kept
    BY DEF Retained
  <2>2. request.key = key /\ request.adapter = adapter
    OBVIOUS
  <2>3. answer.code = "made" /\ answer.project = NoProject
    BY DEF Answer
  <2> HIDE DEF next, request, answer
  <2>4. Grows(reg, next)
    <3>1. \A p \in Projects : GoesUp(reg.projects[p], next.projects[p])
      BY <2>1 DEF GoesUp
    <3>2. Registrable(next.projects) /\ next.harnesses \subseteq Adapters
      BY <2>1 DEF Retained
    <3> QED
      BY <2>1, <3>1, <3>2, GrowsTo
  <2>5. Kept(next, "harness", request.key) = {}
    BY <1>4, <2>1, <2>2 DEF Kept
  <2>6. Remembered(next, [op |-> "harness", key |-> request.key, request |-> request, answer |-> answer])
    BY <2>1, <2>2, <2>3 DEF Remembered, HarnessKept
  <2>7. /\ Grows(reg, Accepted(next, "harness", request, answer).reg)
        /\ Accepted(next, "harness", request, answer).reg.projects = next.projects
        /\ Accepted(next, "harness", request, answer).reg.harnesses = next.harnesses
        /\ Accepted(next, "harness", request, answer).answer = answer
    BY <2>4, <2>5, <2>6, GrowsAccepted
  <2> QED
    BY <2>1, <2>3, <2>7
<1>5. "mutation_revision_conflict" \in Refusals /\ "seed_rejected" \in Refusals
  BY DEF Refusals
<1>6. \/ kept # {} /\ done = Repeated(reg, kept, request)
      \/ Declined(reg, done)
      \/ kept = {} /\ done = Accepted(next, "harness", request, answer)
  <2>1. done = CASE kept # {} -> Repeated(reg, kept, request)
                 [] kept = {} /\ adapter \in reg.harnesses -> Refused(reg, "mutation_revision_conflict")
                 [] OTHER -> Seeded(reg, request, fine)
    BY DEF RegisterHarness
  <2>2. Seeded(reg, request, fine) = IF ~fine THEN Refused(reg, "seed_rejected")
                                     ELSE Accepted(next, "harness", request, answer)
    BY DEF Seeded
  <2> HIDE DEF done, kept, request, next, answer
  <2>3. Declined(reg, Refused(reg, "mutation_revision_conflict")) /\ Declined(reg, Refused(reg, "seed_rejected"))
    BY <1>5, Declining
  <2> QED
    BY <2>1, <2>2, <2>3
<1> HIDE DEF done, kept, request, next, answer, Fine
<1>7. Fine(done)
  BY <1>2, <1>3, <1>4, <1>6
<1> QED
  BY <1>7 DEF Fine, done

\* A pin: the Project gets the Harness and the next revision, unless it has
\* that one; asked for with the revision that is there, it is answered with
\* what is there now, however often the key is used.
LEMMA PinSays ==
  ASSUME NEW reg, Retained(reg), NEW f, NEW request, request.project \in Projects,
         reg.projects[request.project].status # "none",
         request.adapter \in Adapters, request.expected \in Nat, NEW fine
  PROVE  LET done == PinHarness(reg, f, request, fine)
             p == request.project
         IN /\ Grows(reg, done.reg) /\ done.reg.harnesses = reg.harnesses
            /\ \A q \in Projects : q # p => done.reg.projects[q] = reg.projects[q]
            /\ done.reg.projects[p].status = reg.projects[p].status
            /\ \/ Declined(reg, done)
               \/ /\ done.answer.code \in {"made", "reused"}
                  /\ done.answer.project # NoProject /\ Backed(done.reg, done.answer.project)
                  /\ done.answer.project.id = p
                  /\ done.answer.project.harness = request.adapter
                  /\ request.adapter \in reg.harnesses
                  /\ request.expected = reg.projects[p].revision /\ reg.projects[p].harness # request.adapter
                        => Shown(done.reg, p) = done.answer.project
<1> DEFINE done == PinHarness(reg, f, request, fine)
           p == request.project
           kept == Kept(reg, "pin", request.key)
           Fine(x) ==
            /\ Grows(reg, x.reg) /\ x.reg.harnesses = reg.harnesses
            /\ \A q \in Projects : q # p => x.reg.projects[q] = reg.projects[q]
            /\ x.reg.projects[p].status = reg.projects[p].status
            /\ \/ Declined(reg, x)
               \/ /\ x.answer.code \in {"made", "reused"}
                  /\ x.answer.project # NoProject /\ Backed(x.reg, x.answer.project)
                  /\ x.answer.project.id = p
                  /\ x.answer.project.harness = request.adapter
                  /\ request.adapter \in reg.harnesses
                  /\ request.expected = reg.projects[p].revision /\ reg.projects[p].harness # request.adapter
                        => Shown(x.reg, p) = x.answer.project
           pinned == reg.projects[p].harness = request.adapter
           grown == IF pinned THEN reg
                    ELSE [reg EXCEPT !.projects[p].harness = request.adapter,
                                     !.projects[p].revision = @ + 1]
           answer == Answer(IF pinned THEN "reused" ELSE "made", Shown(grown, p), {})
<1>1. Grows(reg, reg) /\ Registrable(reg.projects)
  BY GrowsItself DEF Retained
<1>2. \A x : Declined(reg, x) => Fine(x)
  BY <1>1 DEF Declined
<1>3. reg.projects[p] \in Entries /\ reg.projects[p].revision \in Nat
  BY <1>1 DEF Registrable, Entries
<1>4. ASSUME kept # {} PROVE Fine(Repeated(reg, kept, request))
  <2>1. \/ Declined(reg, Repeated(reg, kept, request))
        \/ \E k \in reg.kept : /\ k.op = "pin" /\ k.request = request
                               /\ Repeated(reg, kept, request).reg = reg
                               /\ Repeated(reg, kept, request).answer = k.answer
    BY <1>4, Repeating
  <2>2. ASSUME NEW k \in reg.kept, k.op = "pin", k.request = request,
               Repeated(reg, kept, request).reg = reg, Repeated(reg, kept, request).answer = k.answer
        PROVE  Fine(Repeated(reg, kept, request))
    <3>1. PinKept(reg, k)
      BY <2>2 DEF Retained, Remembered
    <3>2. Backed(reg, k.answer.project) /\ k.answer.project # NoProject /\ k.answer.project.id = p
      BY <2>2, <3>1 DEF PinKept
    <3>3. /\ k.answer.project.revision <= reg.projects[p].revision
          /\ k.answer.project.revision = reg.projects[p].revision
                => k.answer.project.harness = reg.projects[p].harness
      BY <3>2 DEF Backed
    <3>4. ~(request.expected = reg.projects[p].revision /\ reg.projects[p].harness # request.adapter)
      BY <1>3, <2>2, <3>1, <3>3 DEF PinKept
    <3> HIDE DEF kept
    <3> QED
      BY <1>1, <2>2, <3>1, <3>2, <3>4 DEF PinKept
  <2> HIDE DEF Fine, kept
  <2> QED
    BY <1>2, <2>1, <2>2
<1>5. ASSUME kept = {}, request.adapter \in reg.harnesses, request.expected = reg.projects[p].revision
      PROVE  Fine(PinMade(reg, request))
  <2> DEFINE projects == [reg.projects EXCEPT ![p].harness = request.adapter, ![p].revision = @ + 1]
  <2>1. PinMade(reg, request) = Accepted(grown, "pin", request, answer)
    BY DEF PinMade
  <2>2. /\ Grows(reg, grown) /\ grown.harnesses = reg.harnesses /\ grown.kept = reg.kept
        /\ \A q \in Projects : q # p => grown.projects[q] = reg.projects[q]
        /\ grown.projects[p].status = reg.projects[p].status
        /\ grown.projects[p].harness = request.adapter
        /\ grown.projects[p].revision = IF pinned THEN request.expected ELSE request.expected + 1
    <3>1. CASE pinned
      BY <1>1, <1>5, <3>1
    <3>2. CASE ~pinned
      <4>1. grown = [reg EXCEPT !.projects = projects]
        BY <3>2 DEF Retained
      <4>2. /\ projects \in [Projects -> Entries]
            /\ \A q \in Projects : q # p => projects[q] = reg.projects[q]
            /\ projects[p].status = reg.projects[p].status /\ projects[p].dir = reg.projects[p].dir
            /\ projects[p].harness = request.adapter
            /\ projects[p].revision = reg.projects[p].revision + 1
        BY <1>1, <1>3 DEF Registrable, Entries
      <4> HIDE DEF projects, grown
      <4>3. Registrable(projects)
        BY <1>1, <1>3, <4>2 DEF Registrable
      <4>4. \A q \in Projects : GoesUp(reg.projects[q], projects[q])
        BY <4>2 DEF GoesUp
      <4>5. Grows(reg, grown)
        BY <4>1, <4>3, <4>4, GrowsProjects
      <4>6. grown.projects = projects /\ grown.kept = reg.kept /\ grown.harnesses = reg.harnesses
        BY <4>1 DEF Retained
      <4> QED
        BY <1>5, <3>2, <4>2, <4>5, <4>6
    <3> QED
      BY <3>1, <3>2
  <2>3. answer.code = (IF pinned THEN "reused" ELSE "made") /\ answer.project = Shown(grown, p)
    BY DEF Answer
  <2> HIDE DEF grown, answer, p, kept
  <2>4. Registrable(grown.projects) /\ p \in Projects /\ grown.projects[p].status # "none"
    BY <2>2 DEF Grows, Retained, p
  <2>5. /\ Backed(grown, answer.project) /\ answer.project # NoProject /\ answer.project.id = p
        /\ answer.project.revision = grown.projects[p].revision
        /\ answer.project.harness = request.adapter
    BY <2>2, <2>3, <2>4, ShownIsBacked
  <2>6. Kept(grown, "pin", request.key) = {}
    BY <1>5, <2>2 DEF Kept, kept
  <2>7. Remembered(grown, [op |-> "pin", key |-> request.key, request |-> request, answer |-> answer])
    <3>1. answer.code \in {"made", "reused"}
          /\ answer.project.revision = IF answer.code = "made" THEN request.expected + 1 ELSE request.expected
      BY <2>2, <2>3, <2>5
    <3> QED
      BY <1>5, <2>2, <2>5, <3>1 DEF Remembered, PinKept, p
  <2>8. /\ Grows(reg, PinMade(reg, request).reg)
        /\ PinMade(reg, request).reg.projects = grown.projects
        /\ PinMade(reg, request).reg.harnesses = grown.harnesses
        /\ PinMade(reg, request).answer = answer
    BY <2>1, <2>2, <2>6, <2>7, GrowsAccepted
  <2>9. Backed(PinMade(reg, request).reg, answer.project)
        /\ Shown(PinMade(reg, request).reg, p) = answer.project
    BY <2>3, <2>5, <2>8 DEF Backed, Shown
  <2>10. answer.code \in {"made", "reused"}
    BY <2>3
  <2> QED
    BY <1>5, <2>2, <2>5, <2>8, <2>9, <2>10
<1>6. \/ kept # {} /\ done = Repeated(reg, kept, request)
      \/ Declined(reg, done)
      \/ /\ kept = {} /\ request.adapter \in reg.harnesses /\ request.expected = reg.projects[p].revision
         /\ done = PinMade(reg, request)
  <2> DEFINE why == Unpinnable(reg, f, request, fine)
             reason == IF Displaced(reg, f, p) # "" THEN Displaced(reg, f, p) ELSE Unprepared(reg, f, p, fine)
             again == Repeated(reg, kept, request)
  <2>1. why \in Refusals \cup {""} /\ reason \in Refusals \cup {""}
    BY Declining
  <2>2. done = CASE kept # {} -> PinAgain(reg, f, request, kept, fine)
                 [] kept = {} /\ request.adapter \notin reg.harnesses -> Refused(reg, "harness_not_found")
                 [] kept = {} /\ request.adapter \in reg.harnesses
                    /\ request.expected # reg.projects[request.project].revision ->
                      Refused(reg, "mutation_revision_conflict")
                 [] OTHER -> CASE why # "" -> Reject(reg, f, request.project, why)
                               [] why = "" /\ ~fine -> Refused(reg, "harness_rejected")
                               [] OTHER -> PinMade(reg, request)
    BY DEF PinHarness
  <2>3. PinAgain(reg, f, request, kept, fine) =
          IF again.answer.code # "idempotency_key_conflict" /\ reason # "" THEN Reject(reg, f, p, reason)
          ELSE again
    BY DEF PinAgain
  <2>4. /\ "harness_not_found" \in Refusals /\ "mutation_revision_conflict" \in Refusals
        /\ "harness_rejected" \in Refusals
    BY DEF Refusals
  <2> HIDE DEF done, kept, why, reason, again
  <2>5. CASE kept # {}
    <3>1. done = PinAgain(reg, f, request, kept, fine)
      BY <2>2, <2>5
    <3>2. Declined(reg, done) \/ done = again
      BY <2>1, <2>3, <3>1, Declining
    <3> QED
      BY <2>5, <3>2 DEF again
  <2>6. CASE kept = {}
    <3>1. CASE request.adapter \notin reg.harnesses
      BY <2>2, <2>4, <2>6, <3>1, Declining
    <3>2. CASE request.adapter \in reg.harnesses /\ request.expected # reg.projects[p].revision
      BY <2>2, <2>4, <2>6, <3>2, Declining
    <3>3. CASE request.adapter \in reg.harnesses /\ request.expected = reg.projects[p].revision
      <4>1. done = CASE why # "" -> Reject(reg, f, request.project, why)
                     [] why = "" /\ ~fine -> Refused(reg, "harness_rejected")
                     [] OTHER -> PinMade(reg, request)
        BY <2>2, <2>6, <3>3
      <4>2. Declined(reg, done) \/ done = PinMade(reg, request)
        BY <2>1, <2>4, <4>1, Declining
      <4> QED
        BY <2>6, <3>3, <4>2
    <3> QED
      BY <3>1, <3>2, <3>3
  <2> QED
    BY <2>5, <2>6
<1> HIDE DEF done, kept, Fine
<1>7. Fine(done)
  BY <1>2, <1>4, <1>5, <1>6
<1> QED
  BY <1>7 DEF Fine, done

\* A copy that a resolution tries things on: what is there and how far it got
\* stays, what is active and where may change.
Tries(reg, copy) ==
    /\ DOMAIN copy = {"projects", "harnesses", "kept"}
    /\ copy.projects \in [Projects -> Entries]
    /\ copy.harnesses = reg.harnesses /\ copy.kept = reg.kept
    /\ \A p \in Projects :
          /\ copy.projects[p].revision = reg.projects[p].revision
          /\ copy.projects[p].dir = reg.projects[p].dir
          /\ copy.projects[p].status = "none" <=> reg.projects[p].status = "none"

\* A file as it is, tried.
LEMMA TriesItself == ASSUME NEW reg, Retained(reg) PROVE Tries(reg, reg)
BY DEF Tries, Retained, Registrable

\* Woken or sent to sleep, on the copy.
LEMMA TriesStatus ==
  ASSUME NEW reg, NEW copy, Tries(reg, copy), NEW p \in Projects, reg.projects[p].status # "none",
         NEW status \in {"active", "tombstoned"}
  PROVE  Tries(reg, [copy EXCEPT !.projects[p].status = status])
<1> DEFINE next == [copy EXCEPT !.projects[p].status = status]
           entry == [copy.projects[p] EXCEPT !.status = status]
<1>1. copy.projects[p] \in Entries
  BY DEF Tries
<1>2. /\ entry \in Entries /\ entry.status = status
      /\ entry.revision = copy.projects[p].revision /\ entry.dir = copy.projects[p].dir
  BY <1>1 DEF Entries, Statuses
<1>3. /\ DOMAIN next = {"projects", "harnesses", "kept"}
      /\ next.projects = [copy.projects EXCEPT ![p] = entry]
      /\ next.harnesses = copy.harnesses /\ next.kept = copy.kept
  BY DEF Tries
<1> HIDE DEF next, entry
<1>4. Tries(reg, next)
  BY <1>2, <1>3 DEF Tries
<1> QED
  BY <1>4 DEF next

\* Elsewhere, on the copy.
LEMMA TriesPath ==
  ASSUME NEW reg, NEW copy, Tries(reg, copy), NEW p \in Projects, NEW path \in Paths \cup {NoDir}
  PROVE  Tries(reg, [copy EXCEPT !.projects[p].path = path])
<1> DEFINE next == [copy EXCEPT !.projects[p].path = path]
           entry == [copy.projects[p] EXCEPT !.path = path]
<1>1. copy.projects[p] \in Entries
  BY DEF Tries
<1>2. /\ entry \in Entries /\ entry.status = copy.projects[p].status
      /\ entry.revision = copy.projects[p].revision /\ entry.dir = copy.projects[p].dir
  BY <1>1 DEF Entries
<1>3. /\ DOMAIN next = {"projects", "harnesses", "kept"}
      /\ next.projects = [copy.projects EXCEPT ![p] = entry]
      /\ next.harnesses = copy.harnesses /\ next.kept = copy.kept
  BY DEF Tries
<1> HIDE DEF next, entry
<1>4. Tries(reg, next)
  BY <1>2, <1>3 DEF Tries
<1> QED
  BY <1>4 DEF next

\* The file that a resolution writes: what it affects gets the next revision.
WithRaised(reg, projects, affected) ==
    [reg EXCEPT !.projects = [p \in Projects |-> IF p \in affected
                                                 THEN [projects[p] EXCEPT !.revision = @ + 1]
                                                 ELSE reg.projects[p]]]

\* It has grown if what is affected is registered.
LEMMA Settling ==
  ASSUME NEW reg, Retained(reg), NEW projects,
         DOMAIN projects = Projects,
         \A p \in Projects : /\ projects[p] \in Entries
                             /\ projects[p].revision = reg.projects[p].revision
                             /\ projects[p].dir = reg.projects[p].dir,
         NEW affected,
         \A p \in Projects \cap affected : projects[p].status # "none" /\ reg.projects[p].status # "none"
  PROVE  Grows(reg, WithRaised(reg, projects, affected))
<1> DEFINE next == [p \in Projects |-> IF p \in affected THEN [projects[p] EXCEPT !.revision = @ + 1]
                                       ELSE reg.projects[p]]
<1>1. Registrable(reg.projects)
  BY DEF Retained
<1>2. ASSUME NEW p \in Projects, p \in affected
      PROVE  /\ next[p] \in Entries /\ next[p].revision = reg.projects[p].revision + 1
             /\ next[p].status = projects[p].status /\ next[p].dir = reg.projects[p].dir
  <2>1. projects[p] \in Entries
    OBVIOUS
  <2>2. next[p] = [projects[p] EXCEPT !.revision = @ + 1]
    BY <1>2
  <2> QED
    BY <2>1, <2>2 DEF Entries
<1>3. ASSUME NEW p \in Projects, p \notin affected PROVE next[p] = reg.projects[p]
  BY <1>3
<1>4. next = [p \in Projects |-> next[p]]
  OBVIOUS
<1> HIDE DEF next
<1>5. next \in [Projects -> Entries]
  BY <1>1, <1>2, <1>3, <1>4 DEF Registrable
<1>6. \A p \in Projects : reg.projects[p].revision \in Nat
  BY <1>1 DEF Registrable, Entries
<1>7. Registrable(next)
  <2>1. ASSUME NEW p \in Projects
        PROVE  (next[p].status = "none" <=> next[p].revision = 0)
               /\ (next[p].status # "none" => next[p].dir \in Dirs)
    BY <1>1, <1>2, <1>3, <1>6 DEF Registrable
  <2> QED
    BY <1>5, <2>1 DEF Registrable
<1>8. \A p \in Projects : GoesUp(reg.projects[p], next[p])
  BY <1>2, <1>3 DEF GoesUp
<1>9. Grows(reg, [reg EXCEPT !.projects = next])
  BY <1>7, <1>8, GrowsProjects
<1> QED
  BY <1>9 DEF next, WithRaised

\* What is said of a resolution.
ResolvedBy(reg, done) ==
    /\ Grows(reg, done.reg)
    /\ done.reg.harnesses = reg.harnesses
    /\ Declined(reg, done) \/ done.answer.code \in {"resolved", "conflict"}

\* A resolution that is settled changes the affected registrations, by one.
LEMMA SettledSays ==
  ASSUME NEW reg, Retained(reg), NEW request, Kept(reg, "resolve", request.key) = {},
         NEW copy, Tries(reg, copy), NEW affected \in SUBSET Projects,
         \A p \in affected : reg.projects[p].status # "none"
  PROVE  ResolvedBy(reg, Settled(reg, request, copy.projects, affected))
<1> DEFINE next == WithRaised(reg, copy.projects, affected)
           answer == Answer("resolved", Shown(next, request.project), {})
<1>1. Settled(reg, request, copy.projects, affected) = Accepted(next, "resolve", request, answer)
  BY DEF Settled, WithRaised
<1>2. Grows(reg, next)
  <2>1. DOMAIN copy.projects = Projects
    BY DEF Tries
  <2>2. \A p \in Projects : /\ copy.projects[p] \in Entries
                            /\ copy.projects[p].revision = reg.projects[p].revision
                            /\ copy.projects[p].dir = reg.projects[p].dir
    BY DEF Tries
  <2>3. \A p \in Projects \cap affected : copy.projects[p].status # "none" /\ reg.projects[p].status # "none"
    BY DEF Tries
  <2> QED
    BY <2>1, <2>2, <2>3, Settling
<1>3. next.kept = reg.kept /\ next.harnesses = reg.harnesses
  BY DEF Retained, WithRaised
<1>4. answer.code = "resolved"
  BY DEF Answer
<1> HIDE DEF next, answer
<1>5. Kept(next, "resolve", request.key) = {}
  BY <1>3 DEF Kept
<1>6. Remembered(next, [op |-> "resolve", key |-> request.key, request |-> request, answer |-> answer])
  BY <1>4 DEF Remembered
<1>7. /\ Grows(reg, Accepted(next, "resolve", request, answer).reg)
      /\ Accepted(next, "resolve", request, answer).reg.harnesses = next.harnesses
      /\ Accepted(next, "resolve", request, answer).answer = answer
  BY <1>2, <1>5, <1>6, GrowsAccepted
<1> QED
  BY <1>1, <1>3, <1>4, <1>7 DEF ResolvedBy

\* A resolution that is declined changes nothing.
LEMMA DeclinedResolves ==
  ASSUME NEW reg, Retained(reg), NEW done, Declined(reg, done)
  PROVE  ResolvedBy(reg, done)
BY GrowsItself DEF Declined, ResolvedBy

\* What forgetting a registration makes of the file.
LEMMA ForgottenSays ==
  ASSUME NEW reg, Retained(reg), NEW request, request.project \in Projects,
         reg.projects[request.project].status # "none",
         Kept(reg, "resolve", request.key) = {}
  PROVE  ResolvedBy(reg, Forgotten(reg, request))
<1> DEFINE copy == [reg EXCEPT !.projects[request.project].status = "tombstoned"]
<1>1. Tries(reg, copy)
  BY TriesItself, TriesStatus
<1>2. copy.projects = [reg.projects EXCEPT ![request.project].status = "tombstoned"]
  BY DEF Retained
<1> HIDE DEF copy
<1>3. ResolvedBy(reg, Settled(reg, request, copy.projects, {request.project}))
  BY <1>1, SettledSays
<1>4. "tombstoned" \in Refusals
  BY DEF Refusals, Failures
<1>5. Declined(reg, Refusal(reg, "tombstoned", {request.project}))
  BY <1>4, Declining
<1> QED
  BY <1>2, <1>3, <1>5, DeclinedResolves DEF Forgotten

\* A restoration, or the conflict it runs into.
LEMMA RestoredSays ==
  ASSUME NEW reg, Retained(reg), NEW f, NEW request, request.project \in Projects,
         reg.projects[request.project].status # "none", request.path \in Paths \cup {NoDir},
         Kept(reg, "resolve", request.key) = {}
  PROVE  ResolvedBy(reg, Restored(reg, f, request))
<1> DEFINE p == request.project
           woken == [reg EXCEPT !.projects[p].status = "active"]
           first == Resolve(woken, f, request.path)
           moved == first.kind = "moved"
           tried == IF moved THEN [woken EXCEPT !.projects[p].path = request.path] ELSE woken
           place == Resolve(tried, f, request.path)
           kept == [tried EXCEPT !.projects[p].revision = @ + 1]
           answer == Answer("conflict", NoProject, place.found)
<1>1. Tries(reg, woken)
  BY TriesItself, TriesStatus
<1>2. Tries(reg, tried)
  <2> HIDE DEF woken, moved
  <2>1. Tries(reg, [woken EXCEPT !.projects[p].path = request.path])
    BY <1>1, TriesPath
  <2> QED
    BY <1>1, <2>1
<1> HIDE DEF woken, first, moved, tried
<1>3. ResolvedBy(reg, Settled(reg, request, tried.projects, {p}))
  BY <1>2, SettledSays
<1>4. Registrable(reg.projects) /\ reg.projects[p].revision \in Nat
  BY DEF Retained, Registrable, Entries
<1>5. Grows(reg, kept) /\ kept.kept = reg.kept /\ kept.harnesses = reg.harnesses
  <2> DEFINE entry == [tried.projects[p] EXCEPT !.revision = @ + 1]
             projects == [q \in Projects |-> IF q \in {p} THEN [tried.projects[q] EXCEPT !.revision = @ + 1]
                                             ELSE reg.projects[q]]
  <2>1. Grows(reg, WithRaised(reg, tried.projects, {p}))
    <3>1. DOMAIN tried.projects = Projects
      BY <1>2 DEF Tries
    <3>2. \A q \in Projects : /\ tried.projects[q] \in Entries
                              /\ tried.projects[q].revision = reg.projects[q].revision
                              /\ tried.projects[q].dir = reg.projects[q].dir
      BY <1>2 DEF Tries
    <3>3. \A q \in Projects \cap {p} : tried.projects[q].status # "none" /\ reg.projects[q].status # "none"
      BY <1>2 DEF Tries
    <3> QED
      BY <3>1, <3>2, <3>3, Settling
  <2>2. \A q \in Projects \ {p} : tried.projects[q] = reg.projects[q]
    <3>1. \A q \in Projects \ {p} : woken.projects[q] = reg.projects[q]
      BY DEF woken, Retained, Registrable
    <3>2. DOMAIN woken.projects = Projects /\ DOMAIN woken = {"projects", "harnesses", "kept"}
      BY <1>1 DEF Tries
    <3> QED
      BY <3>1, <3>2 DEF tried
  <2>3. kept.projects = projects
    BY <1>2, <2>2 DEF Tries
  <2>4. DOMAIN kept = {"projects", "harnesses", "kept"} /\ kept.kept = reg.kept /\ kept.harnesses = reg.harnesses
    BY <1>2 DEF Tries
  <2> HIDE DEF kept, projects
  <2>5. [reg EXCEPT !.projects = projects] = kept
    <3> DEFINE next == [reg EXCEPT !.projects = projects]
    <3>1. DOMAIN next = {"projects", "harnesses", "kept"} /\ next.projects = projects
          /\ next.kept = reg.kept /\ next.harnesses = reg.harnesses
      BY DEF Retained
    <3>2. next = [x \in DOMAIN next |-> next[x]]
      OBVIOUS
    <3>3. kept = [x \in DOMAIN kept |-> kept[x]]
      BY DEF kept
    <3> HIDE DEF next
    <3>4. \A x \in {"projects", "harnesses", "kept"} : next[x] = kept[x]
      BY <2>3, <2>4, <3>1
    <3>5. next = kept
      BY <2>4, <3>1, <3>2, <3>3, <3>4
    <3> QED
      BY <3>5 DEF next
  <2>6. WithRaised(reg, tried.projects, {p}) = [reg EXCEPT !.projects = projects]
    BY DEF WithRaised, projects
  <2> QED
    BY <2>1, <2>4, <2>5, <2>6
<1> HIDE DEF kept
<1>6. ResolvedBy(reg, Accepted(kept, "resolve", request, answer))
  <2>1. answer.code = "conflict"
    BY DEF Answer
  <2> HIDE DEF answer
  <2>2. Remembered(kept, [op |-> "resolve", key |-> request.key, request |-> request, answer |-> answer])
    BY <2>1 DEF Remembered
  <2>3. Kept(kept, "resolve", request.key) = {}
    BY <1>5 DEF Kept
  <2>4. /\ Grows(reg, Accepted(kept, "resolve", request, answer).reg)
        /\ Accepted(kept, "resolve", request, answer).reg.harnesses = kept.harnesses
        /\ Accepted(kept, "resolve", request, answer).answer = answer
    BY <1>5, <2>2, <2>3, GrowsAccepted
  <2> QED
    BY <1>5, <2>1, <2>4 DEF ResolvedBy
<1>7. Restored(reg, f, request) =
        CASE reg.projects[p].status # "tombstoned" -> Refused(reg, "mutation_contract_invalid")
          [] reg.projects[p].status = "tombstoned" /\ place.kind = "registered" /\ place.found = {p} ->
                 Settled(reg, request, tried.projects, {p})
          [] reg.projects[p].status = "tombstoned" /\ place.kind = "conflict" ->
                 IF p \in place.found
                 THEN Accepted(kept, "resolve", request, answer)
                 ELSE Refused(reg, "host_dies")
          [] OTHER -> Refusal(reg, "tombstoned", {p})
  BY DEF Restored, tried, moved, first, woken, kept
<1>8. /\ "mutation_contract_invalid" \in Refusals /\ "host_dies" \in Refusals /\ "tombstoned" \in Refusals
  BY DEF Refusals, Failures
<1>9. /\ Declined(reg, Refused(reg, "mutation_contract_invalid")) /\ Declined(reg, Refused(reg, "host_dies"))
      /\ Declined(reg, Refusal(reg, "tombstoned", {p}))
  BY <1>8, Declining
<1> HIDE DEF place, answer, p
<1> QED
  BY <1>3, <1>6, <1>7, <1>9, DeclinedResolves, Zenon

\* The forgotten registration that is woken to bring a conflict back.
LEMMA ConflictTries ==
  ASSUME NEW reg, Retained(reg), NEW f, NEW request, request.project \in Projects
  PROVE  Tries(reg, Conflict(reg, f, request))
<1> DEFINE p == request.project
           asleep == IF reg.projects[p].status = "tombstoned" THEN {p} ELSE Having(reg, "tombstoned")
           Woken(x) == [reg EXCEPT !.projects[x].status = "active"]
           back == {x \in asleep : /\ Resolve(Woken(x), f, request.path).kind = "conflict"
                                   /\ p \in Resolve(Woken(x), f, request.path).found}
<1>1. \A x \in back : x \in Projects /\ reg.projects[x].status = "tombstoned"
  BY DEF Having
<1>2. \/ Conflict(reg, f, request) = reg
      \/ back # {} /\ Conflict(reg, f, request) = Woken(First(back))
  BY DEF Conflict
<1> HIDE DEF back
<1>3. back # {} => First(back) \in Projects /\ reg.projects[First(back)].status # "none"
  <2>1. back \in SUBSET Projects
    BY <1>1
  <2>2. back # {} => First(back) \in back
    BY <2>1, FirstIsOne
  <2> QED
    BY <1>1, <2>2
<1>4. back # {} => Tries(reg, Woken(First(back)))
  BY <1>3, TriesItself, TriesStatus
<1> QED
  BY <1>2, <1>4, TriesItself

\* What the resolution of a conflict makes of the file.
LEMMA ConflictResolvedSays ==
  ASSUME NEW reg, Retained(reg), NEW f, NEW request, request.project \in Projects,
         reg.projects[request.project].status # "none", request.path \in Paths \cup {NoDir},
         Kept(reg, "resolve", request.key) = {}
  PROVE  ResolvedBy(reg, ConflictResolved(reg, f, request))
<1> DEFINE p == request.project
           from == Conflict(reg, f, request)
           place == Resolve(from, f, request.path)
           settled == [q \in Projects |->
                         CASE q = p -> [from.projects[q] EXCEPT !.status = "active", !.path = request.path]
                           [] q # p /\ q \in place.found -> [from.projects[q] EXCEPT !.status = "tombstoned"]
                           [] OTHER -> from.projects[q]]
           copy == [from EXCEPT !.projects = settled]
<1>1. Tries(reg, from)
  BY ConflictTries
<1>2. place.found \subseteq Projects /\ \A q \in place.found : reg.projects[q].status # "none"
  <2>1. place.found \subseteq Projects /\ \A q \in place.found : from.projects[q].status # "none"
    BY PlaceIs
  <2> HIDE DEF place, from
  <2> QED
    BY <1>1, <2>1 DEF Tries
<1> HIDE DEF from, place
<1>3. ASSUME NEW q \in Projects
      PROVE  /\ settled[q] \in Entries
             /\ settled[q].revision = reg.projects[q].revision /\ settled[q].dir = reg.projects[q].dir
             /\ settled[q].status = "none" <=> reg.projects[q].status = "none"
  <2>1. /\ from.projects[q] \in Entries /\ from.projects[q].revision = reg.projects[q].revision
        /\ from.projects[q].dir = reg.projects[q].dir
        /\ from.projects[q].status = "none" <=> reg.projects[q].status = "none"
    BY <1>1 DEF Tries
  <2>2. CASE q = p
    <3>1. settled[q] = [from.projects[q] EXCEPT !.status = "active", !.path = request.path]
      BY <2>2
    <3> QED
      BY <2>1, <2>2, <3>1 DEF Entries, Statuses
  <2>3. CASE q # p /\ q \in place.found
    <3>1. settled[q] = [from.projects[q] EXCEPT !.status = "tombstoned"]
      BY <2>3
    <3> QED
      BY <1>2, <2>1, <2>3, <3>1 DEF Entries, Statuses
  <2>4. CASE q # p /\ q \notin place.found
    <3>1. settled[q] = from.projects[q]
      BY <2>4
    <3> QED
      BY <2>1, <3>1
  <2> QED
    BY <2>2, <2>3, <2>4
<1>4. settled = [q \in Projects |-> settled[q]]
  OBVIOUS
<1> HIDE DEF settled
<1>5. copy.projects = settled /\ Tries(reg, copy)
  <2>1. /\ DOMAIN copy = {"projects", "harnesses", "kept"} /\ copy.projects = settled
        /\ copy.harnesses = reg.harnesses /\ copy.kept = reg.kept
    BY <1>1 DEF Tries
  <2> HIDE DEF copy
  <2>2. settled \in [Projects -> Entries]
    BY <1>3, <1>4
  <2> QED
    BY <1>3, <2>1, <2>2 DEF Tries
<1> HIDE DEF copy
<1>6. ResolvedBy(reg, Settled(reg, request, settled, place.found))
  BY <1>2, <1>5, SettledSays
<1> DEFINE after == Resolve([from EXCEPT !.projects = settled], f, request.path)
<1>7. ConflictResolved(reg, f, request) =
        CASE place.kind # "conflict" -> Refused(reg, "mutation_contract_invalid")
          [] place.kind = "conflict" /\ (p \notin place.found \/ after.kind \notin {"registered", "missing"}
                                         \/ after.found # {p}) ->
                 Refusal(reg, "conflict", place.found)
          [] OTHER -> Settled(reg, request, settled, place.found)
  BY DEF ConflictResolved, settled, from, place
<1>8. "mutation_contract_invalid" \in Refusals /\ "conflict" \in Refusals
  BY DEF Refusals, Failures
<1>9. /\ Declined(reg, Refused(reg, "mutation_contract_invalid"))
      /\ Declined(reg, Refusal(reg, "conflict", place.found))
  BY <1>8, Declining
<1> HIDE DEF after, p
<1> QED
  BY <1>6, <1>7, <1>9, DeclinedResolves, Zenon

\* A resolution: nothing is changed, or it is answered as resolved or as the
\* conflict that is left.
LEMMA ResolveSays ==
  ASSUME NEW reg, Retained(reg), NEW f, NEW request, request.project \in Projects,
         reg.projects[request.project].status # "none", request.path \in Paths \cup {NoDir}
  PROVE  ResolvedBy(reg, ResolveRegistration(reg, f, request))
<1> DEFINE kept == Kept(reg, "resolve", request.key)
           done == ResolveRegistration(reg, f, request)
<1>1. CASE kept # {}
  <2>1. done = Repeated(reg, kept, request)
    BY <1>1 DEF ResolveRegistration
  <2>2. \/ Declined(reg, done)
        \/ \E k \in reg.kept : k.op = "resolve" /\ done.reg = reg /\ done.answer = k.answer
    BY <1>1, <2>1, Repeating
  <2>3. \A k \in reg.kept : k.op = "resolve" => k.answer.code \in {"resolved", "conflict"}
    BY DEF Retained, Remembered
  <2> HIDE DEF done
  <2>4. ResolvedBy(reg, done)
    BY <2>2, <2>3, DeclinedResolves, GrowsItself DEF ResolvedBy
  <2> QED
    BY <2>4 DEF done
<1>2. CASE kept = {}
  <2>1. "mutation_revision_conflict" \in Refusals
    BY DEF Refusals
  <2>2. Declined(reg, Refused(reg, "mutation_revision_conflict"))
    BY <2>1, Declining
  <2>3. \/ done = Refused(reg, "mutation_revision_conflict")
        \/ done = Forgotten(reg, request)
        \/ done = Restored(reg, f, request)
        \/ done = ConflictResolved(reg, f, request)
    BY <1>2, Zenon DEF ResolveRegistration
  <2>4. /\ ResolvedBy(reg, Forgotten(reg, request)) /\ ResolvedBy(reg, Restored(reg, f, request))
        /\ ResolvedBy(reg, ConflictResolved(reg, f, request))
    BY <1>2, ForgottenSays, RestoredSays, ConflictResolvedSays
  <2> HIDE DEF done, kept
  <2>5. ResolvedBy(reg, done)
    BY <2>2, <2>3, <2>4, DeclinedResolves
  <2> QED
    BY <2>5 DEF done
<1> QED
  BY <1>1, <1>2

-----------------------------------------------------------------------------
(* The parts of the invariant *)

\* The Harness of a composite is one there can be.
LEMMA AdapterIs ==
  ASSUME OpenInv, op # Idle, op.at # "resolving"
  PROVE  Adapter \in Adapters /\ op.request \in Prepare
<1>1. op.request \in Prepare
  <2>1. op.request \in Requests /\ op.request.kind # "resolve"
    BY DEF OpenInv, OpTyped
  <2> QED
    BY <2>1 DEF Requests, Resolution
<1>2. op.request.adapter \in Adapters \cup {"any"}
  BY <1>1, WantedAssumption DEF Prepare
<1>3. op.inspected.harness \in Adapters \cup {"none"}
  BY DEF OpenInv, StageInv, Backed, Looks
<1> QED
  BY <1>1, <1>2, <1>3 DEF Adapter, Adapters

\* The Harness is the same as long as the request and what was inspected are.
LEMMA AdapterStays ==
  ASSUME op'.request = op.request, op'.inspected = op.inspected
  PROVE  Adapter' = Adapter
BY DEF Adapter

\* Outcomes hold on, and what is added has to hold.
LEMMA OutcomesOn ==
  ASSUME OutcomesHold, Retained(registry), Grows(registry, registry'),
         \/ outcomes' = outcomes
         \/ \E slot, o : outcomes' = [outcomes EXCEPT ![slot] = o] /\ Holds(registry', o)
  PROVE  OutcomesHold'
<1>1. \A s : Backed(registry, s) => Backed(registry', s)
  BY BackedOn DEF Grows, Retained
<1>2. \A o : Holds(registry, o) => Holds(registry', o)
  BY <1>1 DEF Holds, Grows
<1> QED
  BY <1>2 DEF OutcomesHold

\* NoProject is backed by any file, and always as it is seen.
LEMMA NothingIsBacked == \A reg : Backed(reg, NoProject) /\ Seen(reg, NoProject)
BY RegistryAssumption DEF Backed, Seen, Looks, NoProject

\* Revisions go up by one at most.
LEMMA RevisionsOn ==
  ASSUME Retained(registry), Grows(registry, registry'),
         \A p \in Projects : registry.projects[p].revision < MaxRevision
  PROVE  \A p \in Projects : registry'.projects[p].revision <= MaxRevision
<1> TAKE p \in Projects
<1>1. registry.projects[p].revision \in Nat /\ registry.projects[p].revision < MaxRevision
  BY DEF Retained, Registrable, Entries
<1>2. GoesUp(registry.projects[p], registry'.projects[p])
  BY DEF Grows
<1> QED
  BY <1>1, <1>2, RegistryAssumption DEF GoesUp

\* A Project that was not changed is seen as before.
LEMMA SeenOn ==
  ASSUME NEW reg, NEW next, NEW s, Backed(reg, s), Seen(reg, s),
         s # NoProject => next.projects[s.id] = reg.projects[s.id]
  PROVE  Seen(next, s)
BY DEF Seen, Shown, Backed

\* A composite that ends.
LEMMA Ends ==
  ASSUME OpenInv, op' = Idle, WorldTyped', Grows(registry, registry'),
         \A p \in Projects : registry'.projects[p].revision <= MaxRevision,
         \/ outcomes' = outcomes
         \/ \E slot, o : outcomes' = [outcomes EXCEPT ![slot] = o] /\ Holds(registry', o),
         Backed(registry', current'), link' = "down" => current' = NoProject,
         link' = "connected" /\ ~counts'.echoed => Seen(registry', current')
  PROVE  OpenInv'
<1>1. OutcomesHold'
  BY OutcomesOn DEF OpenInv
<1>2. Retained(registry')
  BY DEF Grows
<1>3. RevisionsFit'
  BY DEF RevisionsFit, Asking
<1>4. OpTyped' /\ StageInv'
  BY DEF OpTyped, StageInv
<1>5. ViewInv'
  BY DEF ViewInv
<1> QED
  BY <1>1, <1>2, <1>3, <1>4, <1>5 DEF OpenInv

\* A composite that goes on to another stage.
LEMMA Continues ==
  ASSUME OpenInv, op # Idle, op.at # "resolving", WorldTyped', Grows(registry, registry'),
         NEW stage \in Stages \ {"resolving"}, NEW inspected, NEW project, NEW claims \in SUBSET Claims,
         DOMAIN op' = DOMAIN op, op'.at = stage, op'.request = op.request, op'.inspected = inspected,
         op'.project = project, op'.claims = claims,
         \A p \in Projects : /\ registry'.projects[p].revision <= MaxRevision
                             /\ stage # "auditing" => registry'.projects[p].revision < MaxRevision,
         outcomes' = outcomes, link' = "connected",
         Backed(registry', current'), Backed(registry', inspected), Backed(registry', project),
         stage \in Before => project = NoProject /\ claims \subseteq {"harness"},
         stage \in Before => Having(registry', "none") # {} /\ Seen(registry', inspected),
         stage \notin Before => project # NoProject,
         stage \in {"harness", "pinning"} => current' = project,
         stage \in {"registering", "reinspecting"} /\ Adapter' = "sandcastle" => Adapter' \in registry'.harnesses,
         stage \in {"pinning", "auditing"} => Adapter' \in registry'.harnesses,
         stage = "pinning" => project.harness # Adapter',
         stage = "auditing" => project.harness = Adapter',
         "harness" \in claims => registry'.harnesses # {},
         ~counts'.echoed => Seen(registry', project) /\ (stage = "reinspecting" \/ Seen(registry', current'))
  PROVE  OpenInv'
<1>1. op' # Idle
  <2>1. op'.at # "idle"
    BY DEF Stages
  <2>2. Idle.at = "idle"
    BY DEF Idle
  <2> QED
    BY <2>1, <2>2
<1>2. OutcomesHold'
  BY OutcomesOn DEF OpenInv
<1>3. Retained(registry')
  BY DEF Grows
<1>4. RevisionsFit'
  BY DEF RevisionsFit, Asking
<1>5. OpTyped'
  BY <1>1 DEF OpenInv, OpTyped
<1>6. StageInv'
  BY <1>1 DEF StageInv
<1>7. ViewInv'
  BY <1>1 DEF ViewInv
<1> QED
  BY <1>2, <1>3, <1>4, <1>5, <1>6, <1>7 DEF OpenInv

-----------------------------------------------------------------------------
(* What the Host does for a composite *)

\* Whatever the stage, its request makes the file grow.
LEMMA PerformedGrows ==
  ASSUME OpenInv, Asking, NEW fine
  PROVE  Grows(registry, Performed(fine).reg)
<1>1. /\ op # Idle /\ op.at \in Stages \ {"auditing"} /\ Retained(registry)
      /\ fs \in [Paths -> Dirs \cup {NoDir}]
  BY DEF OpenInv, OpTyped, Asking, WorldTyped
<1>2. op.at # "resolving" => Adapter \in Adapters /\ op.request.path \in Paths
  BY <1>1, AdapterIs DEF Prepare
<1>3. CASE op.at \in {"inspecting", "reinspecting"}
  <2>1. Performed(fine) = InspectProject(registry, fs, op.request.path, fine)
    BY <1>3 DEF Performed
  <2> QED
    BY <1>1, <2>1, InspectSays, GrowsItself
<1>4. CASE op.at \in {"harness first", "harness"}
  <2>1. \/ Performed(fine).reg = registry
        \/ Performed(fine) = RegisterHarness(registry, Adapter, op.request.key, fine)
    BY <1>4 DEF Performed
  <2>2. Adapter \in Adapters
    BY <1>2, <1>4
  <2>3. Grows(registry, RegisterHarness(registry, Adapter, op.request.key, fine).reg)
    BY <1>1, <2>2, HarnessSays
  <2> QED
    BY <1>1, <2>1, <2>3, GrowsItself
<1>5. CASE op.at = "registering"
  <2> DEFINE request == [key |-> op.request.key, path |-> op.request.path, asNew |-> op.request.asNew,
                         expected |-> ExpectedRevision]
  <2>1. Performed(fine) = RegisterProject(registry, fs, request, fine)
    BY <1>5 DEF Performed
  <2>2. request.path \in Paths /\ fs[request.path] \in Dirs \cup {NoDir}
    BY <1>1, <1>2, <1>5
  <2>3. Having(registry, "none") # {}
    BY <1>1, <1>5 DEF OpenInv, StageInv, Before
  <2> HIDE DEF request
  <2> QED
    BY <1>1, <2>1, <2>2, <2>3, RegisterSays
<1>6. CASE op.at = "pinning"
  <2> DEFINE request == [key |-> op.request.key, project |-> op.project.id, adapter |-> Adapter,
                         expected |-> op.project.revision]
  <2>1. Performed(fine) = PinHarness(registry, fs, request, fine)
    BY <1>6 DEF Performed
  <2>2. op.project # NoProject /\ Backed(registry, op.project)
    BY <1>1, <1>6 DEF OpenInv, StageInv, Before
  <2>3. /\ request.project \in Projects /\ registry.projects[request.project].status # "none"
        /\ request.adapter \in Adapters /\ request.expected \in Nat
    BY <1>2, <1>6, <2>2 DEF Backed, Looks
  <2> HIDE DEF request
  <2> QED
    BY <1>1, <2>1, <2>3, PinSays
<1>7. CASE op.at = "resolving"
  <2>1. Performed(fine) = ResolveRegistration(registry, fs, op.request)
    BY <1>7 DEF Performed
  <2>2. op.request \in Resolution /\ registry.projects[op.request.project].status # "none"
    BY <1>1, <1>7 DEF OpenInv, OpTyped, Requests, Prepare
  <2>3. op.request.project \in Projects /\ op.request.path \in Paths \cup {NoDir}
    BY <2>2 DEF Resolution
  <2> QED
    BY <1>1, <2>1, <2>2, <2>3, ResolveSays DEF ResolvedBy
<1> QED
  BY <1>1, <1>3, <1>4, <1>5, <1>6, <1>7 DEF Stages

-----------------------------------------------------------------------------
(* The composite, answered *)

\* A request of the composite that was answered.
Asked(done) ==
    /\ Asking /\ link = "connected"
    /\ registry' = done.reg
    /\ Answered(done.answer)
    /\ IF Registering(done.answer) THEN counts' = [counts EXCEPT !.echoed = Echo] ELSE UNCHANGED counts
    /\ UNCHANGED <<fs, host, link>>

\* Of the world, a request changes at most whether the registration was an echo.
LEMMA AskedWorld ==
  ASSUME OpenInv, NEW done, Asked(done)
  PROVE  /\ WorldTyped' /\ link' = "connected"
         /\ Registering(done.answer) => counts'.echoed = Echo
         /\ ~Registering(done.answer) => counts'.echoed = counts.echoed
<1>1. PICK b \in BOOLEAN : b = Echo
  BY DEF Echo
<1>2. DOMAIN counts = {"requests", "moves", "losses", "echoed"} /\ counts.echoed \in BOOLEAN
  BY DEF OpenInv, WorldTyped
<1>3. \/ Registering(done.answer) /\ counts' = [counts EXCEPT !.echoed = b]
      \/ ~Registering(done.answer) /\ counts' = counts
  BY <1>1 DEF Asked
<1>4. /\ DOMAIN counts' = DOMAIN counts /\ counts'.echoed \in BOOLEAN
      /\ Registering(done.answer) => counts'.echoed = b
      /\ ~Registering(done.answer) => counts'.echoed = counts.echoed
  BY <1>2, <1>3
<1>5. UNCHANGED <<fs, host, link>> /\ link = "connected"
  BY DEF Asked
<1>6. WorldTyped'
  BY <1>2, <1>4, <1>5 DEF OpenInv, WorldTyped
<1> QED
  BY <1>1, <1>4, <1>5, <1>6

\* What a composite is, asking.
LEMMA AskingIs ==
  ASSUME OpenInv, Asking
  PROVE  /\ op # Idle /\ op.at \in Stages \ {"auditing"}
         /\ DOMAIN op = {"at", "request", "inspected", "project", "claims"}
         /\ op.claims \in SUBSET Claims /\ op.request \in Requests
         /\ Backed(registry, op.inspected) /\ Backed(registry, op.project) /\ Backed(registry, current)
         /\ Retained(registry) /\ Grows(registry, registry)
         /\ \A p \in Projects : registry.projects[p].revision < MaxRevision
BY GrowsItself DEF OpenInv, OpTyped, StageInv, RevisionsFit, Asking

\* The composite ends with what the Host refused.
LEMMA Refusing ==
  ASSUME OpenInv, Asking, op.at # "resolving", registry' = registry,
         NEW answer, Refuses(answer), answer.code # "project_ready",
         WorldTyped', link = "connected", link' = "connected", counts'.echoed = counts.echoed,
         current' \in {current, NoProject}, op.at = "reinspecting" => current' = NoProject
  PROVE  OpenInv'
<1>1. /\ op # Idle /\ op.request \in Requests /\ Backed(registry, current)
      /\ Retained(registry) /\ Grows(registry, registry)
      /\ \A p \in Projects : registry.projects[p].revision <= MaxRevision
  BY AskingIs DEF OpenInv, RevisionsFit
<1>2. PICK slot : slot = Slot(op.request)
  OBVIOUS
<1>3. PICK o : o = Outcome(op.request, answer.code, NoProject, answer.found, {})
  OBVIOUS
<1>4. outcomes' = [outcomes EXCEPT ![slot] = o] /\ op' = Idle
  BY <1>2, <1>3 DEF Refuses, Keep
<1>5. Holds(registry, o)
  <2>1. o.request = op.request /\ o.code = answer.code /\ o.project = NoProject /\ o.claims = {}
    BY <1>3 DEF Outcome
  <2> QED
    BY <1>1, <2>1, NothingIsBacked DEF Holds
<1>6. Backed(registry, current') /\ (~counts.echoed => Seen(registry, current'))
  BY <1>1, NothingIsBacked DEF OpenInv, ViewInv
<1> QED
  BY <1>1, <1>4, <1>5, <1>6, Ends

\* The project that is prepared from here on.
LEMMA Adopts ==
  ASSUME OpenInv, Asking, op.at # "resolving", WorldTyped', link' = "connected",
         Grows(registry, registry'),
         NEW project, NEW claims \in SUBSET Claims, NEW harnessed \in BOOLEAN,
         Adopt(project, claims, harnessed),
         Backed(registry', project), project # NoProject,
         harnessed => Adapter \in registry'.harnesses,
         "harness" \in claims => registry'.harnesses # {},
         \A p \in Projects : /\ registry'.projects[p].revision <= MaxRevision
                             /\ ~(harnessed /\ project.harness = Adapter)
                                   => registry'.projects[p].revision < MaxRevision,
         ~counts'.echoed => Seen(registry', project)
  PROVE  OpenInv'
<1>1. PICK stage \in {"harness", "pinning", "auditing"} :
        /\ stage = "harness" <=> ~harnessed
        /\ stage = "auditing" <=> harnessed /\ project.harness = Adapter
        /\ op' = [op EXCEPT !.project = project, !.claims = claims, !.at = stage]
  <2>1. PICK stage : stage = CASE ~harnessed -> "harness"
                               [] harnessed /\ project.harness # Adapter -> "pinning"
                               [] OTHER -> "auditing"
    OBVIOUS
  <2>2. op' = [op EXCEPT !.project = project, !.claims = claims, !.at = stage]
    BY <2>1, Zenon DEF Adopt
  <2>3. /\ stage \in {"harness", "pinning", "auditing"}
        /\ stage = "harness" <=> ~harnessed
        /\ stage = "auditing" <=> harnessed /\ project.harness = Adapter
    BY <2>1
  <2> QED
    BY <2>2, <2>3
<1>2. /\ current' = project /\ outcomes' = outcomes
  BY DEF Adopt
<1>3. PICK inspected : inspected = op.inspected
  OBVIOUS
<1>4. /\ op # Idle /\ DOMAIN op = {"at", "request", "inspected", "project", "claims"}
      /\ Backed(registry, inspected) /\ Retained(registry)
  BY <1>3, AskingIs
<1>5. /\ DOMAIN op' = DOMAIN op /\ op'.at = stage /\ op'.request = op.request
      /\ op'.inspected = inspected /\ op'.project = project /\ op'.claims = claims
  BY <1>1, <1>3, <1>4
<1>6. Adapter' = Adapter
  BY <1>3, <1>5, AdapterStays
<1>7. Backed(registry', inspected)
  BY <1>4, BackedOn DEF Grows, Retained
<1>8. stage \in Stages \ {"resolving"} /\ stage \notin Before /\ stage \notin {"registering", "reinspecting"}
  BY <1>1 DEF Stages, Before
<1> QED
  BY <1>1, <1>2, <1>4, <1>5, <1>6, <1>7, <1>8, Continues

\* The Project is inspected.
LEMMA InspectedStep ==
  ASSUME OpenInv, op.at = "inspecting", NEW done, Asked(done), NEW fine, done = Performed(fine)
  PROVE  OpenInv'
<1> DEFINE answer == done.answer
<1>1. done = InspectProject(registry, fs, op.request.path, fine)
  BY DEF Performed
<1>2. Asking /\ link = "connected" /\ Inspected(answer) /\ registry' = done.reg
  BY DEF Asked, Answered
<1>3. /\ op # Idle /\ DOMAIN op = {"at", "request", "inspected", "project", "claims"}
      /\ Retained(registry) /\ Grows(registry, registry) /\ Backed(registry, current)
      /\ \A p \in Projects : registry.projects[p].revision < MaxRevision
  BY <1>2, AskingIs
<1>4. /\ WorldTyped' /\ link' = "connected" /\ counts'.echoed = counts.echoed
  BY AskedWorld DEF Registering
<1>5. /\ registry' = registry
      /\ \/ Declined(registry, done)
         \/ answer.code = "unregistered" /\ answer.project = NoProject
         \/ /\ answer.code = "registered"
            /\ \E p \in Projects : /\ registry.projects[p].status = "active"
                                   /\ answer.project = Shown(registry, p)
  BY <1>1, <1>2, <1>3, InspectSays
<1> DEFINE seen == IF answer.code = "registered" THEN answer.project ELSE NoProject
           adapter == CASE op.request.adapter # "any" -> op.request.adapter
                        [] op.request.adapter = "any" /\ seen.harness # "none" -> seen.harness
                        [] OTHER -> "sandcastle"
<1>6. Backed(registry, seen) /\ Seen(registry, seen)
  <2>1. CASE answer.code = "registered"
    <3>1. "registered" \notin Refusals
      BY DEF Refusals, Failures
    <3>2. PICK p \in Projects : registry.projects[p].status = "active" /\ seen = Shown(registry, p)
      BY <1>5, <2>1, <3>1 DEF Declined
    <3>3. Backed(registry, seen) /\ seen.id = p
      BY <1>3, <3>2, ShownIsBacked DEF Retained
    <3> HIDE DEF seen
    <3> QED
      BY <3>2, <3>3 DEF Seen
  <2>2. CASE answer.code # "registered"
    BY <2>2, NothingIsBacked
  <2> QED
    BY <2>1, <2>2
<1>7. CASE \E a : /\ Refuses(a) /\ a.code # "project_ready" /\ current' \in {current, NoProject}
  BY <1>2, <1>4, <1>5, <1>7, Refusing
<1>8. CASE /\ op' = [[op EXCEPT !.inspected = seen] EXCEPT !.at = IF adapter = "sandcastle"
                                                                   THEN "harness first" ELSE "registering"]
           /\ UNCHANGED <<current, outcomes>>
  <2>1. PICK stage \in {"harness first", "registering"} :
          /\ op' = [[op EXCEPT !.inspected = seen] EXCEPT !.at = stage]
          /\ adapter = "sandcastle" <=> stage = "harness first"
    BY <1>8
  <2>2. PICK project : project = op.project
    OBVIOUS
  <2>3. PICK claims : claims = op.claims
    OBVIOUS
  <2> HIDE DEF seen
  <2>4. /\ DOMAIN op' = DOMAIN op /\ op'.at = stage /\ op'.request = op.request
        /\ op'.inspected = seen /\ op'.project = project /\ op'.claims = claims
    BY <1>3, <2>1, <2>2, <2>3
  <2>5. /\ project = NoProject /\ claims \subseteq {"harness"} /\ Having(registry, "none") # {}
        /\ "harness" \in claims => registry.harnesses # {}
    BY <1>3, <2>2, <2>3 DEF OpenInv, StageInv, Before
  <2>6. Adapter' = adapter
    BY <2>4 DEF Adapter, seen
  <2>7. ~counts.echoed => Seen(registry, current)
    BY <1>2, <1>3 DEF OpenInv, ViewInv
  <2>8. /\ stage \in Stages \ {"resolving"} /\ stage \in Before /\ claims \in SUBSET Claims
        /\ stage \notin {"harness", "pinning", "auditing", "reinspecting"}
    BY <2>1, <2>5 DEF Stages, Before, Claims
  <2>9. \A p \in Projects : registry.projects[p].revision <= MaxRevision
    BY DEF OpenInv, RevisionsFit
  <2> HIDE DEF adapter, answer
  <2> QED
    <3>1. UNCHANGED <<current, outcomes, registry>> /\ op.at # "resolving" /\ op # Idle
      BY <1>3, <1>5, <1>8
    <3>2. /\ Backed(registry', current') /\ Backed(registry', seen) /\ Backed(registry', project)
          /\ Grows(registry, registry') /\ Having(registry', "none") # {} /\ Seen(registry', seen)
          /\ "harness" \in claims => registry'.harnesses # {}
          /\ \A p \in Projects : registry'.projects[p].revision <= MaxRevision
                                /\ registry'.projects[p].revision < MaxRevision
      BY <1>3, <1>6, <2>5, <2>9, <3>1, NothingIsBacked
    <3>3. ~(stage \in {"registering", "reinspecting"} /\ Adapter' = "sandcastle")
      BY <2>1, <2>6, <2>8
    <3>4. ~counts'.echoed => Seen(registry', project) /\ Seen(registry', current')
      BY <1>4, <2>5, <2>7, <3>1, NothingIsBacked
    <3> QED
      BY <1>4, <2>4, <2>5, <2>8, <3>1, <3>2, <3>3, <3>4, Continues
<1>9. \/ \E a : /\ Refuses(a) /\ a.code # "project_ready" /\ current' \in {current, NoProject}
      \/ /\ op' = [[op EXCEPT !.inspected = seen] EXCEPT !.at = IF adapter = "sandcastle"
                                                                THEN "harness first" ELSE "registering"]
         /\ UNCHANGED <<current, outcomes>>
  <2>1. ASSUME answer.code \notin {"registered", "unregistered"}
        PROVE  answer.code # "project_ready"
    BY <1>5, <2>1 DEF Declined, Refusals, Failures
  <2>2. \A code, found : ClearIf(code, found) => current' \in {current, NoProject}
    BY DEF ClearIf, Clear
  <2>3. Answer("bounded_configuration_invalid", NoProject, {}).code # "project_ready"
    BY DEF Answer
  <2>4. \/ Refuses(answer) /\ ClearIf(answer.code, answer.found)
           /\ answer.code \notin {"registered", "unregistered"}
        \/ Refuses(Answer("bounded_configuration_invalid", NoProject, {})) /\ UNCHANGED current
        \/ /\ op' = [[op EXCEPT !.inspected = seen] EXCEPT !.at = IF adapter = "sandcastle"
                                                                  THEN "harness first" ELSE "registering"]
           /\ UNCHANGED <<current, outcomes>>
    BY <1>2, Zenon DEF Inspected
  <2> QED
    BY <2>1, <2>2, <2>3, <2>4
<1> QED
  BY <1>7, <1>8, <1>9

\* A Harness that is there already.
LEMMA FoundSays ==
  ASSUME NEW reg, NEW done, done = [reg |-> reg, answer |-> Answer("found", NoProject, {})]
  PROVE  done.reg = reg /\ done.answer.code = "found"
BY DEF Answer

\* The Harness is there, or made: before the registration or after it.
LEMMA HarnessedStep ==
  ASSUME OpenInv, op.at \in {"harness first", "harness"}, NEW done, Asked(done),
         NEW fine, done = Performed(fine)
  PROVE  OpenInv'
<1> DEFINE answer == done.answer
<1>1. Asking /\ link = "connected" /\ Harnessed(answer) /\ registry' = done.reg /\ op.at # "resolving"
  BY DEF Asked, Answered
<1>2. /\ op # Idle /\ DOMAIN op = {"at", "request", "inspected", "project", "claims"}
      /\ Retained(registry) /\ Grows(registry, registry) /\ Backed(registry, current)
      /\ Backed(registry, op.inspected) /\ Backed(registry, op.project)
      /\ op.claims \in SUBSET Claims
      /\ \A p \in Projects : registry.projects[p].revision < MaxRevision
  BY <1>1, AskingIs
<1>3. /\ WorldTyped' /\ link' = "connected" /\ counts'.echoed = counts.echoed
  BY AskedWorld DEF Registering
<1>4. Adapter \in Adapters
  BY <1>1, <1>2, AdapterIs
<1>5. /\ Grows(registry, done.reg) /\ done.reg.projects = registry.projects
      /\ \/ Declined(registry, done)
         \/ answer.code \in {"found", "made"} /\ Adapter \in done.reg.harnesses
  <2>1. CASE Adapter \in registry.harnesses
    <3>1. done = [reg |-> registry, answer |-> Answer("found", NoProject, {})]
      BY <2>1 DEF Performed
    <3>2. done.reg = registry /\ answer.code = "found"
      BY <3>1, FoundSays
    <3> QED
      BY <1>2, <2>1, <3>2
  <2>2. CASE Adapter \notin registry.harnesses
    <3>1. done = RegisterHarness(registry, Adapter, op.request.key, fine)
      BY <2>2 DEF Performed
    <3>2. PICK adapter \in Adapters : adapter = Adapter
      BY <1>4
    <3>3. LET made == RegisterHarness(registry, adapter, op.request.key, fine)
          IN /\ Grows(registry, made.reg) /\ made.reg.projects = registry.projects
             /\ \/ Declined(registry, made)
                \/ made.answer.code = "made" /\ adapter \in made.reg.harnesses
      BY <1>2, HarnessSays
    <3> QED
      BY <3>1, <3>2, <3>3
  <2> QED
    BY <2>1, <2>2
<1>6. CASE answer.code \notin {"found", "made"}
  <2>1. Refuses(answer) /\ UNCHANGED current
    BY <1>1, <1>6 DEF Harnessed
  <2>2. registry' = registry /\ answer.code # "project_ready"
    BY <1>1, <1>5, <1>6 DEF Declined, Refusals, Failures
  <2> QED
    BY <1>1, <1>3, <2>1, <2>2, Refusing
<1>7. CASE answer.code \in {"found", "made"}
  <2>1. "found" \notin Refusals /\ "made" \notin Refusals
    BY DEF Refusals, Failures
  <2>2. Adapter \in registry'.harnesses /\ Grows(registry, registry') /\ registry'.projects = registry.projects
    BY <1>1, <1>5, <1>7, <2>1 DEF Declined
  <2>3. PICK project : project = op.project
    OBVIOUS
  <2>4. PICK claims : claims = IF op.at = "harness" THEN op.claims \cup Made(answer, "harness")
                               ELSE Made(answer, "harness")
    OBVIOUS
  <2>5. Made(answer, "harness") \subseteq {"harness"}
    BY DEF Made
  <2>6. claims \in SUBSET Claims
    BY <1>2, <2>4, <2>5 DEF Claims
  <2>7. \A p \in Projects : registry'.projects[p].revision <= MaxRevision
                            /\ registry'.projects[p].revision < MaxRevision
    BY <2>2, <1>2 DEF OpenInv, RevisionsFit
  <2>8. \A s : Backed(registry, s) => Backed(registry', s)
    BY <1>2, <2>2, BackedOn DEF Grows, Retained
  <2>9. \A s : Seen(registry, s) => Seen(registry', s)
    BY <2>2 DEF Seen, Shown
  <2>10. CASE op.at = "harness"
    <3>1. Adopt(project, claims, TRUE)
      BY <1>1, <1>7, <2>3, <2>4, <2>10, Zenon DEF Harnessed
    <3>2. project # NoProject
      BY <1>2, <2>3, <2>10 DEF OpenInv, StageInv, Before
    <3>3. ~counts'.echoed => Seen(registry', project)
      BY <1>1, <1>2, <1>3, <2>3, <2>9 DEF OpenInv, ViewInv
    <3>4. Backed(registry', project)
      BY <1>2, <2>3, <2>8
    <3> QED
      BY <1>1, <1>3, <2>2, <2>6, <2>7, <3>1, <3>2, <3>3, <3>4, Adopts
  <2>11. CASE op.at = "harness first"
    <3>1. /\ op' = [op EXCEPT !.at = "registering", !.claims = claims]
          /\ UNCHANGED <<current, outcomes>>
      BY <1>1, <1>7, <2>4, <2>11, Zenon DEF Harnessed
    <3>2. PICK inspected : inspected = op.inspected
      OBVIOUS
    <3>3. /\ DOMAIN op' = DOMAIN op /\ op'.at = "registering" /\ op'.request = op.request
          /\ op'.inspected = inspected /\ op'.project = project /\ op'.claims = claims
      BY <1>2, <2>3, <3>1, <3>2
    <3>4. Adapter' = Adapter
      BY <3>2, <3>3, AdapterStays
    <3>5. /\ project = NoProject /\ Having(registry, "none") # {} /\ Seen(registry, inspected)
          /\ ~counts.echoed => Seen(registry, current)
      BY <1>1, <1>2, <2>3, <2>11, <3>2 DEF OpenInv, StageInv, ViewInv, Before
    <3>6. Having(registry', "none") # {}
      BY <2>2, <3>5 DEF Having
    <3>7. claims \subseteq {"harness"}
      BY <2>4, <2>5, <2>11
    <3>8. /\ Backed(registry', current') /\ Backed(registry', inspected) /\ Backed(registry', project)
          /\ Seen(registry', inspected)
          /\ "harness" \in claims => registry'.harnesses # {}
      BY <1>2, <2>2, <2>3, <2>8, <2>9, <3>1, <3>2, <3>5
    <3>9. ~counts'.echoed => Seen(registry', project) /\ Seen(registry', current')
      BY <1>3, <2>9, <3>1, <3>5, NothingIsBacked
    <3>10. /\ "registering" \in Stages \ {"resolving"} /\ "registering" \in Before
      BY DEF Stages, Before
    <3>11. op.at # "resolving" /\ outcomes' = outcomes /\ Adapter' \in registry'.harnesses
      BY <1>1, <2>2, <3>1, <3>4
    <3> HIDE DEF answer
    <3> QED
      BY <1>2, <1>3, <2>2, <2>6, <2>7, <3>3, <3>5, <3>6, <3>7, <3>8, <3>9, <3>10, <3>11, Continues
  <2> QED
    BY <2>10, <2>11
<1> QED
  BY <1>6, <1>7

\* The Project is registered; what is prepared is what was inspected, or what
\* the registration answers.
LEMMA RegisteredStep ==
  ASSUME OpenInv, op.at = "registering", NEW done, Asked(done), NEW fine, done = Performed(fine)
  PROVE  OpenInv'
<1> DEFINE answer == done.answer
<1>1. Asking /\ link = "connected" /\ Registered(answer) /\ registry' = done.reg
  BY DEF Asked, Answered
<1>2. /\ op # Idle /\ DOMAIN op = {"at", "request", "inspected", "project", "claims"}
      /\ Retained(registry) /\ Grows(registry, registry) /\ Backed(registry, current)
      /\ Backed(registry, op.inspected) /\ op.claims \in SUBSET Claims
      /\ \A p \in Projects : registry.projects[p].revision < MaxRevision
  BY <1>1, AskingIs
<1>3. /\ WorldTyped' /\ link' = "connected"
      /\ answer.code \in {"made", "reused"} => counts'.echoed = Echo
      /\ answer.code \notin {"made", "reused"} => counts'.echoed = counts.echoed
  BY AskedWorld DEF Registering
<1> DEFINE kept == Kept(registry, "register", op.request.key)
<1>4. /\ Grows(registry, done.reg) /\ done.reg.harnesses = registry.harnesses
      /\ \A p \in Projects :
            /\ done.reg.projects[p].revision \in {registry.projects[p].revision, 1}
            /\ registry.projects[p].status # "none" => done.reg.projects[p] = registry.projects[p]
      /\ \/ Declined(registry, done)
         \/ /\ answer.code \in {"made", "reused"}
            /\ answer.project # NoProject /\ Backed(done.reg, answer.project)
            /\ kept = {} => /\ done.reg.projects[answer.project.id].status = "active"
                            /\ Shown(done.reg, answer.project.id) = answer.project
  <2> DEFINE request == [key |-> op.request.key, path |-> op.request.path, asNew |-> op.request.asNew,
                         expected |-> ExpectedRevision]
  <2>1. done = RegisterProject(registry, fs, request, fine)
    BY DEF Performed
  <2>2. op.request.path \in Paths
    BY <1>2, AdapterIs DEF Prepare
  <2>3. request.path \in Paths /\ fs[request.path] \in Dirs \cup {NoDir}
    BY <2>2 DEF OpenInv, WorldTyped
  <2>4. Having(registry, "none") # {}
    BY <1>2 DEF OpenInv, StageInv, Before
  <2>5. request.key = op.request.key
    OBVIOUS
  <2> HIDE DEF request
  <2>6. /\ Grows(registry, done.reg) /\ done.reg.harnesses = registry.harnesses
        /\ \A p \in Projects :
              /\ done.reg.projects[p].revision \in {registry.projects[p].revision, 1}
              /\ registry.projects[p].status # "none" => done.reg.projects[p] = registry.projects[p]
        /\ \/ Declined(registry, done)
           \/ /\ answer.code \in {"made", "reused"}
              /\ answer.project # NoProject /\ Backed(done.reg, answer.project)
              /\ Kept(registry, "register", request.key) = {} =>
                    /\ done.reg.projects[answer.project.id].status = "active"
                    /\ Shown(done.reg, answer.project.id) = answer.project
    BY <1>2, <2>1, <2>3, <2>4, RegisterSays
  <2> QED
    BY <2>5, <2>6
<1>5. CASE answer.code \notin {"made", "reused"}
  <2>1. Refuses(answer) /\ ClearIf(answer.code, answer.found)
    BY <1>1, <1>5, Zenon DEF Registered
  <2>2. registry' = registry /\ answer.code # "project_ready"
    BY <1>1, <1>4, <1>5 DEF Declined, Refusals, Failures
  <2>3. current' \in {current, NoProject}
    BY <2>1 DEF ClearIf, Clear
  <2> QED
    BY <1>1, <1>3, <1>5, <2>1, <2>2, <2>3, Refusing
<1>6. CASE answer.code \in {"made", "reused"}
  <2>1. "made" \notin Refusals /\ "reused" \notin Refusals
    BY DEF Refusals, Failures
  <2>2. /\ answer.project # NoProject /\ Backed(registry', answer.project)
        /\ kept = {} => Seen(registry', answer.project)
    BY <1>1, <1>4, <1>6, <2>1 DEF Declined, Seen
  <2>3. PICK inspected : inspected = op.inspected
    OBVIOUS
  <2>4. PICK project : project = IF op.inspected # NoProject THEN op.inspected ELSE answer.project
    OBVIOUS
  <2>5. PICK claims : claims = op.claims \cup Made(answer, "registered")
    OBVIOUS
  <2>6. Made(answer, "registered") \subseteq {"registered"}
    BY DEF Made
  <2>7. claims \in SUBSET Claims
    BY <1>2, <2>5, <2>6 DEF Claims
  <2>8. \A s : Backed(registry, s) => Backed(registry', s)
    BY <1>1, <1>2, <1>4, BackedOn DEF Grows, Retained
  <2>9. Backed(registry', project) /\ project # NoProject /\ Backed(registry', inspected)
    BY <1>2, <2>2, <2>3, <2>4, <2>8
  <2>10. Seen(registry, inspected)
    BY <1>1, <1>2, <2>3 DEF OpenInv, ViewInv, Before
  <2>11. Seen(registry', inspected)
    <3>1. inspected # NoProject => registry'.projects[inspected.id] = registry.projects[inspected.id]
      BY <1>1, <1>2, <1>4, <2>3 DEF Backed
    <3> QED
      BY <1>2, <2>3, <2>10, <3>1, SeenOn
  <2>12. ~counts'.echoed => Seen(registry', project)
    BY <1>3, <1>6, <2>2, <2>3, <2>4, <2>11 DEF Echo
  <2>13. \A p \in Projects : registry'.projects[p].revision <= MaxRevision
                             /\ registry'.projects[p].revision < MaxRevision
    <3>1. 1 < MaxRevision
      BY RegistryAssumption
    <3> QED
      BY <1>1, <1>2, <1>4, <3>1, RegistryAssumption DEF OpenInv, RevisionsFit
  <2>14. "harness" \in claims => registry'.harnesses # {}
    <3>1. "harness" \in claims => "harness" \in op.claims
      BY <2>5, <2>6
    <3> QED
      BY <1>1, <1>2, <1>4, <3>1 DEF OpenInv, StageInv
  <2>15. Adapter = "sandcastle" => Adapter \in registry'.harnesses
    BY <1>1, <1>2, <1>4 DEF OpenInv, StageInv
  <2>16. Grows(registry, registry')
    BY <1>1, <1>4
  <2>17. CASE op.request.asNew
    <3>1. /\ op' = [op EXCEPT !.at = "reinspecting", !.project = project, !.claims = claims]
          /\ UNCHANGED <<current, outcomes>>
      BY <1>1, <1>6, <2>4, <2>5, <2>17, Zenon DEF Registered
    <3>2. /\ DOMAIN op' = DOMAIN op /\ op'.at = "reinspecting" /\ op'.request = op.request
          /\ op'.inspected = inspected /\ op'.project = project /\ op'.claims = claims
      BY <1>2, <2>3, <3>1
    <3>3. Adapter' = Adapter
      BY <2>3, <3>2, AdapterStays
    <3>4. Backed(registry', current')
      BY <1>2, <2>8, <3>1
    <3>5. /\ "reinspecting" \in Stages \ {"resolving"} /\ "reinspecting" \notin Before
      BY DEF Stages, Before
    <3>6. op.at # "resolving"
      OBVIOUS
    <3> QED
      BY <1>2, <1>3, <2>7, <2>9, <2>12, <2>13, <2>14, <2>15, <2>16, <3>1, <3>2, <3>3, <3>4, <3>5, <3>6,
         Continues
  <2>18. CASE ~op.request.asNew
    <3>1. PICK harnessed \in BOOLEAN : harnessed = (Adapter = "sandcastle")
      OBVIOUS
    <3>2. Adopt(project, claims, harnessed)
      <4>1. Adopt(project, claims, Adapter = "sandcastle")
        BY <1>1, <1>6, <2>4, <2>5, <2>18, Zenon DEF Registered
      <4> QED
        BY <3>1, <4>1
    <3>3. harnessed => Adapter \in registry'.harnesses
      BY <2>15, <3>1
    <3>4. op.at # "resolving"
      OBVIOUS
    <3> QED
      BY <1>1, <1>3, <2>7, <2>9, <2>12, <2>13, <2>14, <2>16, <3>2, <3>3, <3>4, Adopts
  <2> QED
    BY <2>17, <2>18
<1> QED
  BY <1>5, <1>6

\* What was registered as new is inspected again.
LEMMA ReinspectedStep ==
  ASSUME OpenInv, op.at = "reinspecting", NEW done, Asked(done), NEW fine, done = Performed(fine)
  PROVE  OpenInv'
<1> DEFINE answer == done.answer
<1>1. Asking /\ link = "connected" /\ Reinspected(answer) /\ registry' = done.reg /\ op.at # "resolving"
  BY DEF Asked, Answered
<1>2. /\ op # Idle /\ Retained(registry) /\ Grows(registry, registry)
      /\ Backed(registry, op.project) /\ op.claims \in SUBSET Claims
      /\ \A p \in Projects : registry.projects[p].revision < MaxRevision
  BY <1>1, AskingIs
<1>3. /\ WorldTyped' /\ link' = "connected" /\ counts'.echoed = counts.echoed
  BY AskedWorld DEF Registering
<1>4. /\ done.reg = registry
      /\ Declined(registry, done) \/ answer.code \in {"registered", "unregistered"}
  <2>1. done = InspectProject(registry, fs, op.request.path, fine)
    BY DEF Performed
  <2> QED
    BY <1>2, <2>1, InspectSays
<1>5. CASE answer.code \notin {"registered", "unregistered"}
  <2>1. Refuses(answer) /\ current' = NoProject
    BY <1>1, <1>5 DEF Reinspected, Clear
  <2>2. registry' = registry /\ answer.code # "project_ready"
    BY <1>1, <1>4, <1>5 DEF Declined, Refusals, Failures
  <2> QED
    BY <1>1, <1>3, <2>1, <2>2, Refusing
<1>6. CASE answer.code \in {"registered", "unregistered"}
  <2>1. PICK project : project = op.project
    OBVIOUS
  <2>2. PICK claims : claims = op.claims
    OBVIOUS
  <2>3. PICK harnessed \in BOOLEAN : harnessed = (Adapter = "sandcastle")
    OBVIOUS
  <2>4. Adopt(project, claims, harnessed)
    <3>1. Adopt(op.project, op.claims, Adapter = "sandcastle")
      BY <1>1, <1>6, Zenon DEF Reinspected
    <3> QED
      BY <2>1, <2>2, <2>3, <3>1
  <2>5. /\ project # NoProject
        /\ harnessed => Adapter \in registry.harnesses
        /\ "harness" \in claims => registry.harnesses # {}
        /\ ~counts.echoed => Seen(registry, project)
    BY <1>1, <1>2, <2>1, <2>2, <2>3 DEF OpenInv, StageInv, ViewInv, Before
  <2>6. \A p \in Projects : registry.projects[p].revision <= MaxRevision
    BY DEF OpenInv, RevisionsFit
  <2>7. registry' = registry
    BY <1>1, <1>4
  <2>8. claims \in SUBSET Claims /\ Backed(registry, project)
    BY <1>2, <2>1, <2>2
  <2>9. /\ Grows(registry, registry') /\ Backed(registry', project)
        /\ harnessed => Adapter \in registry'.harnesses
        /\ "harness" \in claims => registry'.harnesses # {}
        /\ ~counts'.echoed => Seen(registry', project)
        /\ \A p \in Projects : /\ registry'.projects[p].revision <= MaxRevision
                              /\ registry'.projects[p].revision < MaxRevision
    BY <1>2, <1>3, <2>5, <2>6, <2>7, <2>8
  <2> QED
    BY <1>1, <1>3, <2>4, <2>5, <2>8, <2>9, Adopts
<1> QED
  BY <1>5, <1>6

\* The Project is pinned.
LEMMA PinnedStep ==
  ASSUME OpenInv, op.at = "pinning", NEW done, Asked(done), NEW fine, done = Performed(fine)
  PROVE  OpenInv'
<1> DEFINE answer == done.answer
<1>1. Asking /\ link = "connected" /\ Pinned(answer) /\ registry' = done.reg /\ op.at # "resolving"
  BY DEF Asked, Answered
<1>2. /\ op # Idle /\ Retained(registry) /\ Grows(registry, registry)
      /\ Backed(registry, op.project) /\ op.claims \in SUBSET Claims
      /\ \A p \in Projects : registry.projects[p].revision < MaxRevision
  BY <1>1, AskingIs
<1>3. /\ WorldTyped' /\ link' = "connected" /\ counts'.echoed = counts.echoed
  BY AskedWorld DEF Registering
<1>4. PICK p : p = op.project.id
  OBVIOUS
<1>5. /\ op.project # NoProject /\ op.project.harness # Adapter
      /\ Adapter \in registry.harnesses /\ Adapter \in Adapters
  BY <1>1, <1>2, AdapterIs DEF OpenInv, StageInv, Before
<1>6. p \in Projects /\ registry.projects[p].status # "none" /\ op.project.revision \in Nat
  BY <1>2, <1>4, <1>5 DEF Backed, Looks
<1>7. /\ Grows(registry, done.reg) /\ done.reg.harnesses = registry.harnesses
      /\ done.reg.projects[p].status = registry.projects[p].status
      /\ \/ Declined(registry, done)
         \/ /\ answer.code \in {"made", "reused"}
            /\ answer.project # NoProject /\ Backed(done.reg, answer.project)
            /\ answer.project.id = p /\ answer.project.harness = Adapter
            /\ op.project.revision = registry.projects[p].revision /\ registry.projects[p].harness # Adapter
                  => Shown(done.reg, p) = answer.project
  <2> DEFINE request == [key |-> op.request.key, project |-> op.project.id, adapter |-> Adapter,
                         expected |-> op.project.revision]
  <2>1. done = PinHarness(registry, fs, request, fine)
    BY DEF Performed
  <2>2. /\ request.project = p /\ request.adapter = Adapter /\ request.expected = op.project.revision
    BY <1>4
  <2> HIDE DEF request
  <2>3. /\ request.project \in Projects /\ registry.projects[request.project].status # "none"
        /\ request.adapter \in Adapters /\ request.expected \in Nat
    BY <1>5, <1>6, <2>2
  <2>4. /\ Grows(registry, done.reg) /\ done.reg.harnesses = registry.harnesses
        /\ done.reg.projects[request.project].status = registry.projects[request.project].status
        /\ \/ Declined(registry, done)
           \/ /\ answer.code \in {"made", "reused"}
              /\ answer.project # NoProject /\ Backed(done.reg, answer.project)
              /\ answer.project.id = request.project /\ answer.project.harness = request.adapter
              /\ request.expected = registry.projects[request.project].revision
                 /\ registry.projects[request.project].harness # request.adapter
                    => Shown(done.reg, request.project) = answer.project
    BY <1>2, <2>1, <2>3, PinSays
  <2> QED
    BY <2>2, <2>4
<1>8. CASE answer.code \notin {"made", "reused"}
  <2>1. Refuses(answer) /\ UNCHANGED current
    BY <1>1, <1>8 DEF Pinned
  <2>2. registry' = registry /\ answer.code # "project_ready"
    BY <1>1, <1>7, <1>8 DEF Declined, Refusals, Failures
  <2> QED
    BY <1>1, <1>3, <2>1, <2>2, Refusing
<1>9. CASE answer.code \in {"made", "reused"}
  <2>1. "made" \notin Refusals /\ "reused" \notin Refusals
    BY DEF Refusals, Failures
  <2>2. PICK project : project = answer.project
    OBVIOUS
  <2>3. PICK claims : claims = op.claims \cup Made(answer, "pinned")
    OBVIOUS
  <2>4. Made(answer, "pinned") \subseteq {"pinned"}
    BY DEF Made
  <2>5. claims \in SUBSET Claims /\ ("harness" \in claims => "harness" \in op.claims)
    BY <1>2, <2>3, <2>4 DEF Claims
  <2>6. /\ project # NoProject /\ Backed(registry', project) /\ project.id = p /\ project.harness = Adapter
        /\ op.project.revision = registry.projects[p].revision /\ registry.projects[p].harness # Adapter
              => Shown(registry', p) = project
    BY <1>1, <1>7, <1>9, <2>1, <2>2 DEF Declined
  <2>7. ~counts'.echoed => Seen(registry', project)
    <3> SUFFICES ASSUME ~counts'.echoed PROVE Seen(registry', project)
      OBVIOUS
    <3>1. Seen(registry, op.project)
      BY <1>1, <1>2, <1>3 DEF OpenInv, ViewInv
    <3>2. /\ registry.projects[p].status = "active"
          /\ Shown(registry, p) = op.project
      BY <1>4, <1>5, <3>1 DEF Seen
    <3>3. op.project.revision = registry.projects[p].revision /\ op.project.harness = registry.projects[p].harness
      BY <3>2 DEF Shown
    <3> QED
      BY <1>1, <1>5, <1>7, <2>6, <3>2, <3>3 DEF Seen
  <2>8. Adopt(project, claims, TRUE)
    BY <1>1, <1>9, <2>2, <2>3, Zenon DEF Pinned
  <2>9. "harness" \in claims => registry'.harnesses # {}
    BY <1>1, <1>5, <1>7
  <2>10. \A q \in Projects : registry'.projects[q].revision <= MaxRevision
    BY <1>1, <1>2, <1>7, RevisionsOn
  <2> QED
    BY <1>1, <1>3, <1>5, <1>7, <2>5, <2>6, <2>7, <2>8, <2>9, <2>10, Adopts
<1> QED
  BY <1>8, <1>9

\* A resolution: what the runtime shows is cleared whenever the file changes.
LEMMA ResolvedStep ==
  ASSUME OpenInv, op.at = "resolving", NEW done, Asked(done), NEW fine, done = Performed(fine)
  PROVE  OpenInv'
<1> DEFINE answer == done.answer
<1>1. Asking /\ link = "connected" /\ Resolved(answer) /\ registry' = done.reg
  BY DEF Asked, Answered
<1>2. /\ op # Idle /\ Retained(registry) /\ Grows(registry, registry) /\ Backed(registry, current)
      /\ op.request \in Requests
      /\ \A p \in Projects : registry.projects[p].revision < MaxRevision
  BY <1>1, AskingIs
<1>3. /\ WorldTyped' /\ link' = "connected" /\ counts'.echoed = counts.echoed
  BY AskedWorld DEF Registering
<1>4. ResolvedBy(registry, done)
  <2>1. done = ResolveRegistration(registry, fs, op.request)
    BY DEF Performed
  <2>2. op.request \in Resolution /\ registry.projects[op.request.project].status # "none"
    BY <1>2 DEF OpenInv, OpTyped, Requests, Prepare
  <2>3. op.request.project \in Projects /\ op.request.path \in Paths \cup {NoDir}
    BY <2>2 DEF Resolution
  <2> QED
    BY <1>2, <2>1, <2>2, <2>3, ResolveSays
<1>5. /\ Grows(registry, registry')
      /\ \/ registry' = registry
         \/ answer.code \in {"resolved", "conflict"}
  BY <1>1, <1>4 DEF ResolvedBy, Declined
<1>6. /\ op' = Idle /\ outcomes' = outcomes
      /\ current' \in {current, NoProject}
      /\ answer.code \in {"resolved", "conflict"} => current' = NoProject
  BY <1>1 DEF Resolved, ClearIf, Clear, Invalidates
<1>7. \A p \in Projects : registry'.projects[p].revision <= MaxRevision
  BY <1>2, <1>5, RevisionsOn
<1>8. Backed(registry', current')
  BY <1>2, <1>5, <1>6, BackedOn, NothingIsBacked DEF Grows, Retained
<1>9. ~counts'.echoed => Seen(registry', current')
  BY <1>1, <1>2, <1>3, <1>5, <1>6, NothingIsBacked DEF OpenInv, ViewInv
<1> QED
  BY <1>3, <1>5, <1>6, <1>7, <1>8, <1>9, Ends


\* A request that is answered, by the stage of the composite.
LEMMA AskStep == ASSUME OpenInv, Ask PROVE OpenInv'
<1>1. PICK fine \in BOOLEAN : Asked(Performed(fine))
  BY Zenon DEF Ask, Asked
<1>2. PICK done : done = Performed(fine)
  OBVIOUS
<1>3. Asked(done)
  BY <1>1, <1>2
<1>4. op.at \in Stages \ {"auditing"}
  BY <1>3, AskingIs DEF Asked
<1>5. \/ op.at = "inspecting" \/ op.at \in {"harness first", "harness"} \/ op.at = "registering"
      \/ op.at = "reinspecting" \/ op.at = "pinning" \/ op.at = "resolving"
  BY <1>4 DEF Stages
<1> QED
  BY <1>2, <1>3, <1>5, InspectedStep, HarnessedStep, RegisteredStep, ReinspectedStep, PinnedStep,
     ResolvedStep

-----------------------------------------------------------------------------
(* Requests *)

\* The latest revision is one of them.
LEMMA LatestFits ==
  ASSUME NEW reg, \A p \in Projects : reg.projects[p].revision \in 0..MaxRevision,
         NEW found \in SUBSET Projects
  PROVE  Latest(reg, found) \in 0..MaxRevision
<1> DEFINE Revisions == {reg.projects[p].revision : p \in found}
<1>1. CASE found = {}
  BY <1>1, RegistryAssumption DEF Latest
<1>2. CASE found # {}
  <2>1. Revisions # {} /\ Revisions \in SUBSET (0..MaxRevision)
    BY <1>2
  <2>2. PICK under : under = {MaxRevision - r : r \in Revisions}
    OBVIOUS
  <2>3. under \in SUBSET Nat /\ under # {}
    BY <2>1, <2>2, RegistryAssumption
  <2>4. PICK least \in under : \A u \in under : least <= u
    BY <2>3, LeastIs
  <2>5. PICK r \in Revisions : least = MaxRevision - r
    BY <2>2
  <2>6. \A q \in Revisions : q <= r
    <3> TAKE q \in Revisions
    <3>1. MaxRevision - q \in under
      BY <2>2
    <3>2. MaxRevision - r <= MaxRevision - q
      BY <2>4, <2>5, <3>1
    <3>3. q \in 0..MaxRevision /\ r \in 0..MaxRevision
      BY <2>1
    <3> QED
      BY <3>2, <3>3, RegistryAssumption
  <2>7. \E x \in Revisions : \A p \in found : reg.projects[p].revision <= x
    BY <2>6
  <2>8. Latest(reg, found) \in Revisions
    BY <1>2, <2>7, Zenon DEF Latest
  <2> QED
    BY <2>1, <2>8
<1> QED
  BY <1>1, <1>2

\* The revision a path is answered with is the latest of what is found.
LEMMA RevisionOfPlace ==
  ASSUME NEW reg, \A p \in Projects : reg.projects[p].revision \in 0..MaxRevision,
         NEW f, NEW path
  PROVE  Resolve(reg, f, path).rev \in 0..MaxRevision
<1>1. /\ Resolve(reg, f, path).found \in SUBSET Projects
      /\ Resolve(reg, f, path).rev = Latest(reg, Resolve(reg, f, path).found)
  BY PlaceIs
<1>2. \A found \in SUBSET Projects : Latest(reg, found) \in 0..MaxRevision
  BY LatestFits
<1> QED
  BY <1>1, <1>2

\* The bounds are counted, and nothing else.
LEMMA CountIs ==
  ASSUME WorldTyped, NEW what \in {"requests", "moves", "losses"}, Count(what)
  PROVE  /\ DOMAIN counts' = {"requests", "moves", "losses", "echoed"}
         /\ counts'.echoed = counts.echoed /\ counts'.echoed \in BOOLEAN
BY DEF WorldTyped, Count

\* A request is replayed, fails for want of a Host, or begins a composite.
LEMMA BeginStep ==
  ASSUME OpenInv, op = Idle, link # "down", NEW request \in Requests, Begin(request),
         \A p \in Projects : registry.projects[p].revision < MaxRevision,
         request.kind = "prepare" => Having(registry, "none") # {},
         request.kind = "resolve" => registry.projects[request.project].status # "none"
  PROVE  OpenInv'
<1>1. UNCHANGED <<fs, registry, host, link>> /\ WorldTyped' /\ counts'.echoed = counts.echoed
  <2>1. Count("requests") /\ UNCHANGED <<fs, registry, host, link>>
    BY DEF Begin
  <2> QED
    BY <2>1, CountIs DEF OpenInv, WorldTyped
<1>2. /\ Retained(registry) /\ Grows(registry, registry) /\ Backed(registry, current)
      /\ \A p \in Projects : registry.projects[p].revision <= MaxRevision
      /\ link = "connected" /\ ~counts.echoed => Seen(registry, current)
  BY GrowsItself DEF OpenInv, RevisionsFit, ViewInv
<1>3. \A s \in {current, NoProject} :
        Backed(registry, s) /\ (link = "connected" /\ ~counts.echoed => Seen(registry, s))
  BY <1>2, NothingIsBacked
<1>4. \/ Replayed(request, outcomes[Slot(request)])
      \/ HostFailure(request, NoProject, {}) /\ UNCHANGED op
      \/ /\ op' = [at |-> IF request.kind = "prepare" THEN "inspecting" ELSE "resolving",
                   request |-> request, inspected |-> NoProject, project |-> NoProject, claims |-> {}]
         /\ UNCHANGED <<current, outcomes>>
  BY Zenon DEF Begin
<1>5. CASE Replayed(request, outcomes[Slot(request)])
  <2>1. op' = Idle /\ outcomes' = outcomes /\ current' \in {current, NoProject}
    BY <1>5 DEF Replayed, ClearIf, Clear
  <2> QED
    BY <1>1, <1>2, <1>3, <2>1, Ends
<1>6. CASE HostFailure(request, NoProject, {}) /\ UNCHANGED op
  <2>1. PICK slot : slot = Slot(request)
    OBVIOUS
  <2>2. PICK o : o = Outcome(request, "host_disconnected", NoProject, {}, {})
    OBVIOUS
  <2>3. /\ op' = Idle /\ current' = current
        /\ outcomes' = outcomes \/ outcomes' = [outcomes EXCEPT ![slot] = o]
    BY <1>6, <2>1, <2>2 DEF HostFailure, Keep
  <2>4. Holds(registry, o)
    BY <2>2, NothingIsBacked DEF Holds, Outcome
  <2> QED
    BY <1>1, <1>2, <1>3, <2>3, <2>4, Ends
<1>7. CASE /\ op' = [at |-> IF request.kind = "prepare" THEN "inspecting" ELSE "resolving",
                     request |-> request, inspected |-> NoProject, project |-> NoProject, claims |-> {}]
           /\ UNCHANGED <<current, outcomes>>
  <2>1. request.kind \in {"prepare", "resolve"}
    BY DEF Requests, Prepare, Resolution
  <2>2. PICK stage : stage = IF request.kind = "prepare" THEN "inspecting" ELSE "resolving"
    OBVIOUS
  <2>3. /\ DOMAIN op' = {"at", "request", "inspected", "project", "claims"}
        /\ op'.at = stage /\ op'.request = request /\ op'.inspected = NoProject
        /\ op'.project = NoProject /\ op'.claims = {}
    BY <1>7, <2>2
  <2>4. op' # Idle
    BY <2>2, <2>3 DEF Idle
  <2>5. stage \in Stages /\ stage \in {"inspecting", "resolving"}
    BY <2>2 DEF Stages
  <2>6. OpTyped'
    BY <1>1, <2>1, <2>2, <2>3, <2>5 DEF OpTyped
  <2>7. StageInv'
    BY <1>1, <2>1, <2>2, <2>3, <2>5, NothingIsBacked DEF StageInv, Before
  <2>8. RevisionsFit'
    BY <1>1, <1>2 DEF RevisionsFit
  <2>9. ViewInv'
    BY <1>1, <1>2, <1>7, <2>3, NothingIsBacked DEF ViewInv
  <2>10. OutcomesHold'
    BY <1>1, <1>7 DEF OpenInv, OutcomesHold
  <2> QED
    BY <1>1, <1>2, <1>7, <2>6, <2>7, <2>8, <2>9, <2>10 DEF OpenInv
<1> QED
  BY <1>4, <1>5, <1>6, <1>7

\* What the loss of the Host makes of a composite.
LEMMA LostStep ==
  ASSUME OpenInv, Asking, Lost, Grows(registry, registry'), WorldTyped',
         link' \in {"disconnected", "unmarked", "unsaved"}
  PROVE  OpenInv'
<1>1. /\ op # Idle /\ op.claims \in SUBSET Claims /\ op.request \in Requests
      /\ Retained(registry) /\ Backed(registry, current)
      /\ \A p \in Projects : registry.projects[p].revision < MaxRevision
  BY AskingIs
<1>2. \A p \in Projects : registry'.projects[p].revision <= MaxRevision
  BY <1>1, RevisionsOn
<1>3. \A s : Backed(registry, s) => Backed(registry', s)
  BY <1>1, BackedOn DEF Grows, Retained
<1>4. /\ op.at \in {"harness", "pinning"} => current # NoProject
      /\ "harness" \in op.claims => registry'.harnesses # {}
  BY <1>1 DEF OpenInv, StageInv, Before, Grows
<1>5. op' = Idle /\ current' = current
  BY DEF Lost, HostFailure
<1>6. PICK slot : slot = Slot(op.request)
  OBVIOUS
<1>7. PICK project, claims :
        /\ \/ project = current /\ claims = op.claims /\ op.at \in {"harness", "pinning"}
           \/ project \in {current, NoProject} /\ claims = {}
        /\ outcomes' = outcomes \/ HostFailure(op.request, project, claims)
  BY Zenon DEF Lost
<1>8. PICK o : o = Outcome(op.request, "host_disconnected", project, {}, claims)
  OBVIOUS
<1>9. outcomes' = outcomes \/ outcomes' = [outcomes EXCEPT ![slot] = o]
  BY <1>6, <1>7, <1>8 DEF HostFailure, Keep
<1>10. Holds(registry', o)
  <2>1. /\ o.request = op.request /\ o.code = "host_disconnected" /\ o.project = project
        /\ o.claims = claims
    BY <1>8 DEF Outcome
  <2>2. Backed(registry', project)
    BY <1>1, <1>3, <1>7, NothingIsBacked
  <2> QED
    BY <1>1, <1>4, <1>7, <2>1, <2>2 DEF Holds
<1> QED
  BY <1>1, <1>2, <1>3, <1>5, <1>9, <1>10, Ends

\* What a page sends is a request.
LEMMA RequestStep ==
  ASSUME OpenInv, CanAsk, AsksToPrepare \/ AsksToResolve
  PROVE  OpenInv'
<1>1. /\ link # "down" /\ op = Idle
      /\ \A p \in Projects : registry.projects[p].revision < MaxRevision
  BY DEF CanAsk
<1>2. \A p \in Projects : registry.projects[p].revision \in 0..MaxRevision
  BY RegistryAssumption DEF OpenInv, RevisionsFit, Retained, Registrable, Entries
<1>3. 0 \in 0..MaxRevision /\ 1 \in 0..MaxRevision
  BY RegistryAssumption
<1>4. current.revision \in 0..MaxRevision
  <2>1. Backed(registry, current)
    BY DEF OpenInv
  <2> QED
    BY <1>2, <1>3, <2>1, RegistryAssumption DEF Backed, Looks, NoProject
<1>5. CASE AsksToPrepare
  <2>1. PICK key \in Keys, path \in Paths, adapter \in Wanted, asNew \in BOOLEAN :
          /\ Having(registry, "none") # {}
          /\ \E expected \in IF asNew THEN {Resolve(registry, fs, path).rev} ELSE {0, current.revision} :
                Begin([kind |-> "prepare", key |-> key, path |-> path, adapter |-> adapter,
                       asNew |-> asNew, expected |-> expected])
    BY <1>5, Zenon DEF AsksToPrepare
  <2>2. Resolve(registry, fs, path).rev \in 0..MaxRevision
    BY <1>2, RevisionOfPlace
  <2>3. PICK expected \in 0..MaxRevision :
          Begin([kind |-> "prepare", key |-> key, path |-> path, adapter |-> adapter,
                 asNew |-> asNew, expected |-> expected])
    BY <1>3, <1>4, <2>1, <2>2
  <2>4. PICK request : request = [kind |-> "prepare", key |-> key, path |-> path, adapter |-> adapter,
                                  asNew |-> asNew, expected |-> expected]
    OBVIOUS
  <2>5. request \in Requests /\ request.kind = "prepare"
    BY <2>4 DEF Requests, Prepare
  <2> QED
    BY <1>1, <2>1, <2>3, <2>4, <2>5, BeginStep
<1>6. CASE AsksToResolve
  <2>1. PICK key \in Keys, project \in Projects, action \in Resolutions, path \in Paths \cup {NoDir} :
          /\ registry.projects[project].status # "none"
          /\ \E expected \in {1, registry.projects[project].revision} :
                Begin([kind |-> "resolve", key |-> key, action |-> action, project |-> project,
                       path |-> path, expected |-> expected])
    BY <1>6, Zenon DEF AsksToResolve
  <2>2. PICK expected \in 0..MaxRevision :
          Begin([kind |-> "resolve", key |-> key, action |-> action, project |-> project,
                 path |-> path, expected |-> expected])
    BY <1>2, <1>3, <2>1
  <2>3. PICK request : request = [kind |-> "resolve", key |-> key, action |-> action, project |-> project,
                                  path |-> path, expected |-> expected]
    OBVIOUS
  <2>4. request \in Requests /\ request.kind = "resolve" /\ request.project = project
    BY <2>3 DEF Requests, Resolution
  <2> QED
    BY <1>1, <2>1, <2>2, <2>3, <2>4, BeginStep
<1> QED
  BY <1>5, <1>6

-----------------------------------------------------------------------------
(* The Host and the runtime, lost and started; the directories             *)

\* What happens around the composite and changes nothing of it.
LEMMA AroundStep ==
  ASSUME OpenInv, UNCHANGED <<registry, current, outcomes, op>>, WorldTyped',
         counts'.echoed = counts.echoed,
         link' = "connected" => link \in {"connected", "down"}, link' = "down" => link = "down"
  PROVE  OpenInv'
<1>1. RevisionsFit' /\ OpTyped' /\ OutcomesHold' /\ Retained(registry') /\ Backed(registry', current')
  BY DEF OpenInv, RevisionsFit, Asking, OpTyped, OutcomesHold
<1>2. StageInv'
  <2>1. op' = op /\ registry' = registry /\ current' = current
    OBVIOUS
  <2>2. Adapter' = Adapter
    BY <2>1, AdapterStays
  <2> QED
    BY <2>1, <2>2 DEF OpenInv, StageInv
<1>3. ViewInv'
  BY NothingIsBacked DEF OpenInv, ViewInv
<1> QED
  BY <1>1, <1>2, <1>3 DEF OpenInv

\* The audit of an open ends its composite.
LEMMA AuditStep == ASSUME OpenInv, Audited PROVE OpenInv'
<1>1. /\ op # Idle /\ op.at = "auditing" /\ op.request \in Requests /\ op.claims \subseteq Claims
      /\ Retained(registry) /\ Grows(registry, registry) /\ Backed(registry, op.project)
      /\ op.project # NoProject /\ op.project.harness \in registry.harnesses
      /\ "harness" \in op.claims => registry.harnesses # {}
      /\ \A p \in Projects : registry.projects[p].revision <= MaxRevision
      /\ link = "connected" /\ ~counts.echoed => Seen(registry, op.project)
      /\ link # "down"
  BY GrowsItself DEF Audited, OpenInv, OpTyped, StageInv, RevisionsFit, ViewInv, Before
<1>2. /\ current' = op.project /\ op' = Idle /\ UNCHANGED <<fs, registry, host, link, counts>>
  BY DEF Audited
<1>3. PICK slot : slot = Slot(op.request)
  OBVIOUS
<1>4. PICK o : o = Outcome(op.request, "project_ready", op.project, {}, op.claims)
  OBVIOUS
<1>5. outcomes' = outcomes \/ outcomes' = [outcomes EXCEPT ![slot] = o]
  BY <1>3, <1>4 DEF Audited, Keep
<1>6. Holds(registry, o)
  <2>1. /\ o.request = op.request /\ o.code = "project_ready" /\ o.project = op.project
        /\ o.claims = op.claims
    BY <1>4 DEF Outcome
  <2> QED
    BY <1>1, <2>1 DEF Holds
<1>7. WorldTyped'
  BY <1>2 DEF OpenInv, WorldTyped
<1>8. PICK project : project = op.project
  OBVIOUS
<1>9. /\ Backed(registry', current') /\ registry' = registry /\ link' # "down"
      /\ link' = "connected" /\ ~counts'.echoed => Seen(registry', current')
  BY <1>1, <1>2, <1>8
<1> QED
  BY <1>1, <1>2, <1>5, <1>6, <1>7, <1>9, Ends

\* The runtime keeps nothing.
LEMMA RuntimeDiesStep == ASSUME OpenInv, RuntimeDies PROVE OpenInv'
<1>1. /\ Count("losses") /\ link' = "down" /\ host' = "down"
      /\ current' = NoProject /\ outcomes' = NothingKept /\ op' = Idle
      /\ UNCHANGED <<fs, registry>>
  BY DEF RuntimeDies
<1>2. WorldTyped'
  BY <1>1, CountIs DEF OpenInv, WorldTyped
<1>3. OutcomesHold'
  BY <1>1 DEF OutcomesHold, NothingKept
<1>4. RevisionsFit' /\ OpTyped' /\ StageInv' /\ ViewInv'
  BY <1>1 DEF OpenInv, RevisionsFit, OpTyped, StageInv, ViewInv, Asking
<1> QED
  BY <1>1, <1>2, <1>3, <1>4, NothingIsBacked DEF OpenInv

\* A directory is at one path, wherever it is moved.
LEMMA MoveStep == ASSUME OpenInv, Move PROVE OpenInv'
<1>1. Count("moves") /\ UNCHANGED <<registry, host, link, current, outcomes, op>>
  BY DEF Move, runtimeVars
<1>2. PICK a \in Paths, dir \in Dirs \cup {NoDir} :
        fs' = [b \in Paths |-> CASE b = a -> dir
                                 [] b # a /\ b \in {x \in Paths : fs[x] = dir /\ dir # NoDir} -> NoDir
                                 [] OTHER -> fs[b]]
  BY Zenon DEF Move
<1>3. \A b \in Paths : /\ b = a => fs'[b] = dir
                       /\ b # a /\ fs[b] = dir /\ dir # NoDir => fs'[b] = NoDir
                       /\ b # a /\ ~(fs[b] = dir /\ dir # NoDir) => fs'[b] = fs[b]
  BY <1>2
<1>4. fs' \in [Paths -> Dirs \cup {NoDir}]
  BY <1>2, <1>3 DEF OpenInv, WorldTyped
<1>5. \A x, y \in Paths : fs'[x] = fs'[y] => x = y \/ fs'[x] = NoDir
  BY <1>3 DEF OpenInv, WorldTyped
<1>6. WorldTyped' /\ counts'.echoed = counts.echoed
  BY <1>1, <1>4, <1>5, CountIs DEF OpenInv, WorldTyped
<1> QED
  BY <1>1, <1>6, AroundStep

-----------------------------------------------------------------------------
(* The invariant holds                                                     *)

\* With nothing registered and nothing shown the invariant holds.
LEMMA OpenInit == ASSUME Init PROVE OpenInv
<1>1. /\ registry = EmptyRegistry /\ host = "up" /\ link = "connected"
      /\ current = NoProject /\ outcomes = NothingKept /\ op = Idle
      /\ counts = [requests |-> 0, moves |-> 0, losses |-> 0, echoed |-> FALSE]
      /\ fs \in [Paths -> Dirs \cup {NoDir}]
      /\ \A a, b \in Paths : fs[a] = fs[b] => a = b \/ fs[a] = NoDir
  BY DEF Init
<1>2. /\ DOMAIN registry = {"projects", "harnesses", "kept"}
      /\ registry.projects = [p \in Projects |-> Unregistered]
      /\ registry.harnesses = {} /\ registry.kept = {}
  BY <1>1 DEF EmptyRegistry
<1>3. Unregistered \in Entries /\ Unregistered.status = "none" /\ Unregistered.revision = 0
  BY DEF Unregistered, Entries, Statuses
<1>4. Registrable(registry.projects)
  BY <1>2, <1>3 DEF Registrable
<1>5. Retained(registry)
  BY <1>2, <1>4 DEF Retained
<1>6. WorldTyped
  BY <1>1 DEF WorldTyped
<1>7. RevisionsFit
  BY <1>1, <1>2, <1>3, RegistryAssumption DEF RevisionsFit, Asking
<1>8. OutcomesHold
  BY <1>1 DEF OutcomesHold, NothingKept
<1>9. OpTyped /\ StageInv /\ ViewInv /\ Backed(registry, current)
  BY <1>1, NothingIsBacked DEF OpTyped, StageInv, ViewInv
<1> QED
  BY <1>5, <1>6, <1>7, <1>8, <1>9 DEF OpenInv

\* Every step of the composite, the Host, the runtime and the person keeps the invariant.
LEMMA OpenStep == OpenInv /\ [Next]_vars => OpenInv'
<1> SUFFICES ASSUME OpenInv, [Next]_vars PROVE OpenInv'
  OBVIOUS
<1>1. CASE CanAsk /\ (AsksToPrepare \/ AsksToResolve)
  BY <1>1, RequestStep
<1>2. CASE Ask
  BY <1>2, AskStep
<1>3. CASE Audited
  BY <1>3, AuditStep
<1>4. CASE AskDies
  <2>1. /\ Asking /\ Lost /\ Marked /\ Count("losses") /\ host' = "down" /\ UNCHANGED fs
        /\ registry' = registry \/ \E fine \in BOOLEAN : registry' = Performed(fine).reg
    BY <1>4 DEF AskDies
  <2>2. Grows(registry, registry')
    BY <2>1, PerformedGrows, AskingIs
  <2>3. WorldTyped'
    BY <2>1, CountIs DEF OpenInv, WorldTyped, Marked
  <2> QED
    BY <2>1, <2>2, <2>3, LostStep DEF Marked
<1>5. CASE AskNobody
  <2>1. /\ Asking /\ Lost /\ UNCHANGED <<fs, registry, host, counts>>
        /\ IF link = "connected" THEN Marked ELSE UNCHANGED link
    BY <1>5 DEF AskNobody
  <2>2. Grows(registry, registry') /\ op # Idle
    BY <2>1, AskingIs
  <2>3. link # "down" /\ link' \in {"disconnected", "unmarked", "unsaved"}
    BY <2>1, <2>2 DEF OpenInv, ViewInv, WorldTyped, Marked
  <2>4. WorldTyped'
    BY <2>1, <2>3 DEF OpenInv, WorldTyped
  <2> QED
    BY <2>1, <2>2, <2>3, <2>4, LostStep
<1>6. CASE HostDies
  <2>1. Count("losses") /\ host' = "down" /\ UNCHANGED <<fs, registry, link, current, outcomes, op>>
    BY <1>6 DEF HostDies, runtimeVars
  <2>2. WorldTyped' /\ counts'.echoed = counts.echoed
    BY <2>1, CountIs DEF OpenInv, WorldTyped
  <2> QED
    BY <2>1, <2>2, AroundStep
<1>7. CASE LossNoticed
  <2>1. WorldTyped' /\ link' # "connected" /\ link' # "down"
    BY <1>7 DEF LossNoticed, Marked, OpenInv, WorldTyped
  <2>2. UNCHANGED <<registry, current, outcomes, op, counts>>
    BY <1>7 DEF LossNoticed
  <2> QED
    BY <2>1, <2>2, AroundStep
<1>8. CASE RuntimeDies
  BY <1>8, RuntimeDiesStep
<1>9. CASE RuntimeStarts
  <2>1. WorldTyped' /\ link = "down" /\ link' # "down"
    BY <1>9 DEF RuntimeStarts, OpenInv, WorldTyped
  <2>2. UNCHANGED <<registry, current, outcomes, op, counts>>
    BY <1>9 DEF RuntimeStarts
  <2> QED
    BY <2>1, <2>2, AroundStep
<1>10. CASE Move
  BY <1>10, MoveStep
<1>11. CASE UNCHANGED vars
  <2>1. UNCHANGED <<fs, registry, host, link, current, outcomes, op, counts>>
    BY <1>11 DEF vars
  <2>2. WorldTyped'
    BY <2>1 DEF OpenInv, WorldTyped
  <2> QED
    BY <2>1, <2>2, AroundStep DEF OpenInv, WorldTyped
<1> QED
  BY <1>1, <1>2, <1>3, <1>4, <1>5, <1>6, <1>7, <1>8, <1>9, <1>10, <1>11 DEF Next

-----------------------------------------------------------------------------
(* What it says                                                            *)

\* A path leads to the one registration that is at it and has its directory.
LEMMA InvLeadsHome == OpenInv => PathsLeadHome
<1> SUFFICES ASSUME OpenInv PROVE PathsLeadHome
  OBVIOUS
<1>1. \A p \in Projects : registry.projects[p].status # "none" => registry.projects[p].dir \in Dirs
  BY DEF OpenInv, Retained, Registrable
<1> QED
  BY <1>1, LeadsHome DEF OpenInv, WorldTyped

\* Outcomes that hold say what was done.
LEMMA InvClaims == OpenInv => ClaimsHappened
<1> SUFFICES ASSUME OpenInv, NEW k \in Kinds \X Keys, outcomes[k] # None
             PROVE  LET o == outcomes[k]
                        p == o.project.id
                    IN /\ p # 0 => /\ registry.projects[p].revision >= o.project.revision
                                   /\ registry.projects[p].revision = o.project.revision
                                         => registry.projects[p].harness = o.project.harness
                       /\ o.code = "project_ready" => o.project.harness \in registry.harnesses
                       /\ o.claims \cap {"registered", "pinned"} # {} => p # 0
                       /\ "harness" \in o.claims => registry.harnesses # {}
  BY Zenon DEF ClaimsHappened
<1>1. Holds(registry, outcomes[k]) /\ Retained(registry)
  BY DEF OpenInv, OutcomesHold
<1>2. PICK o : o = outcomes[k]
  OBVIOUS
<1>3. Holds(registry, o)
  BY <1>1, <1>2
<1>4. o.project.id # 0 =>
        /\ registry.projects[o.project.id].revision >= o.project.revision
        /\ registry.projects[o.project.id].revision = o.project.revision
              => registry.projects[o.project.id].harness = o.project.harness
  BY <1>1, <1>3 DEF Holds, Backed, NoProject, Retained, Registrable, Entries, Looks
<1>5. o.claims \cap {"registered", "pinned"} # {} => o.project.id # 0
  BY <1>3, RegistryAssumption DEF Holds, Backed, Projects
<1> QED
  BY <1>2, <1>3, <1>4, <1>5 DEF Holds

\* What is seen as the Host has it is what the runtime shows.
LEMMA InvView == OpenInv => ViewIsHosts
BY DEF OpenInv, ViewInv, Seen, ViewIsHosts

\* Revisions that fit make everything of its type.
LEMMA InvTyped == OpenInv => TypeOK
<1> SUFFICES ASSUME OpenInv PROVE TypeOK
  OBVIOUS
<1>1. \A p \in Projects : registry.projects[p].revision \in 0..MaxRevision
  BY RegistryAssumption DEF OpenInv, RevisionsFit, Retained, Registrable, Entries
<1>2. registry.projects \in [Projects -> Registrations]
  BY <1>1 DEF OpenInv, Retained, Registrable, Entries, Registrations
<1>3. \A s : Backed(registry, s) => s \in Snapshots
  <2> TAKE s
  <2> SUFFICES ASSUME Backed(registry, s) PROVE s \in Snapshots
    OBVIOUS
  <2>1. s.revision \in 0..MaxRevision
    BY <1>1, RegistryAssumption DEF Backed, Looks, NoProject
  <2> QED
    BY <2>1 DEF Backed, Looks, Snapshots
<1>4. \A k \in Kinds \X Keys : outcomes[k] # None =>
        /\ outcomes[k].request \in Requests
        /\ outcomes[k].project \in Snapshots
        /\ outcomes[k].claims \subseteq Claims
  BY <1>3 DEF OpenInv, OutcomesHold, Holds
<1>5. op # Idle => /\ op.at \in Stages /\ op.request \in Requests
                   /\ op.inspected \in Snapshots /\ op.project \in Snapshots
                   /\ op.claims \subseteq Claims
  BY <1>3 DEF OpenInv, OpTyped, StageInv
<1>6. /\ registry.harnesses \subseteq Adapters
      /\ \A a, b \in registry.kept : a.op = b.op /\ a.key = b.key => a = b
      /\ current \in Snapshots
  BY <1>3 DEF OpenInv, Retained
<1> QED
  BY <1>2, <1>4, <1>5, <1>6 DEF TypeOK, OpenInv, WorldTyped

\* The invariant, of every behaviour.
THEOREM OpeningsStayConsistent == Spec => []OpenInv
BY OpenInit, OpenStep, PTL DEF Spec

\* A path leads to a Project exactly when one active registration is at it,
\* and that one alone claims the directory that is there (resolveProjectLocation).
THEOREM EveryPathLeadsHome == Spec => []PathsLeadHome
BY OpeningsStayConsistent, InvLeadsHome, PTL

\* What an outcome kept for a key says was done was done: answers that are
\* lost, keys that are repeated, Hosts that die and Projects that are
\* forgotten or restored in between make none of it false
\* (retainHostMutationOutcome, hostMutationFailure).
THEOREM OutcomesTellTheTruth == Spec => []ClaimsHappened
BY OpeningsStayConsistent, InvClaims, PTL

\* What the runtime shows as prepared is as the Host has it, unless the last
\* registration was an echo (currentProjectPreparation).
THEOREM TheViewIsTheHosts == Spec => []ViewIsHosts
BY OpeningsStayConsistent, InvView, PTL

\* The Host's file, what the runtime keeps of it and the composite are what
\* they are meant to be.
THEOREM OpeningIsTyped == Spec => []TypeOK
BY OpeningsStayConsistent, InvTyped, PTL
===============================================================================

--------------------------- MODULE ProviderPreparation ---------------------------
(***************************************************************************)
(* The temporary selector of the production provider in a Project: a       *)
(* manifest file and the Git exclude block that hides it                   *)
(* (production-provider-preparation.mjs), the journal that owns them       *)
(* (harness-runs/provider-preparation-store.mjs) and the lease that the    *)
(* launches of a Project share (harness-runs/operations/launch.mjs).       *)
(*                                                                         *)
(* A launch prepares under the mutation lock, its adapter reads the        *)
(* selector afterwards, and the last reader cleans up; so a Project has    *)
(* one of these at work at a time, and beside it the reconciliation of the *)
(* journal, at start-up and by timer.  The journal and the timer are those *)
(* of all Projects, of which this is one.  The manifest is captured,       *)
(* compared and released like the exclude file, in coarser steps.          *)
(***************************************************************************)
EXTENDS GitExclusion

CONSTANTS MaxEdits,    \* bound: openings and savings of the user
          MaxLaunches, \* bound: launches
          MaxCrashes,  \* bound: crashes of the Host
          MaxOthers    \* bound: failed cleanups of other Projects

VARIABLES manifest, \* at its public name: "none", of the "host", of the
                    \* "user", or the Host's "edited" by the user
          staged,   \* at its temporary name
          seized,   \* in its capture directory
          journal,  \* the preparation retained, and whether with an identity
          lease,    \* of the running Host
          armed,    \* the reconciliation timer
          booting,  \* the start-up's reconciliation is under way
          counts    \* of what is bounded; bare: there was no exclude file at
                    \* first; beside: the timer has fired beside a launch or lease

manifests == <<manifest, staged, seized>>
host == <<journal, lease, armed, booting>>
vars == <<files, user, calls, manifests, host, counts>>

ASSUME PreparationAssumption == Procs = {"launch", "reconcile"} /\ "manifest" \notin Lines

\* There is nothing of a preparation in the Project.
Unprepared ==
    /\ \A n \in Names \ {Public} : names[n] = 0
    /\ staged = "none" /\ seized = "none" /\ manifest # "host"
    /\ names[Public] # 0 => text[names[Public]].blocks = 0

NoJournal == [held |-> FALSE, known |-> FALSE]
\* count: the launches that hold it; written and added: what its rollback has
\* still to undo.
NoLease == [live |-> FALSE, count |-> 0, written |-> FALSE, added |-> FALSE, retry |-> FALSE]

\* There is a file with a line of the user's, or none.
Init ==
    /\ \E lines \in {{}} \cup {{line} : line \in Lines} :
          /\ names = [n \in Names |-> IF n = Public /\ lines # {} THEN 1 ELSE 0]
          /\ text = [i \in Inodes |-> IF i = 1 THEN [lines |-> lines, blocks |-> 0] ELSE Empty]
          /\ written = lines
    /\ manifest = "none"
    /\ dirs = [x \in Levels \X Areas |-> "none"]
    /\ fds = {} /\ late = {}
    /\ stack = [p \in Procs |-> <<>>] /\ res = [p \in Procs |-> Nothing]
    /\ staged = "none" /\ seized = "none"
    /\ journal = NoJournal /\ lease = NoLease
    /\ armed = FALSE /\ booting = FALSE
    /\ counts = [edits |-> 0, launches |-> 0, crashes |-> 0, others |-> 0, bare |-> written = {}, beside |-> FALSE]

Count(what) == counts' = [counts EXCEPT ![what] = @ + 1]
Rests(p) == stack[p] = <<>>

\* withMutationLock of the store: the reconciliation holds it throughout.
StoreIsFree == Rests("reconcile")

Begin(p, frame) == stack' = [stack EXCEPT ![p] = <<frame>>] /\ UNCHANGED res

-----------------------------------------------------------------------------
(* removeStaleProductionProviderManifest, of a known generation *)

Clear == Frame("clear", "take", 0)

ClearTakes(p) ==
    /\ At(p, "clear", "take")
    /\ CASE seized # "none" -> Go(p, "judge") /\ UNCHANGED manifests
         [] seized = "none" /\ manifest # "none" ->
              /\ seized' = manifest /\ manifest' = "none"
              /\ Go(p, "judge") /\ UNCHANGED staged
         [] OTHER -> Return(p, "ok") /\ UNCHANGED manifests
    /\ UNCHANGED <<files, host>>

\* Anything but the exact generation goes back, unless its name is taken.
ClearJudges(p) ==
    /\ At(p, "clear", "judge")
    /\ CASE seized \in {"none", "host"} -> seized' = "none" /\ Return(p, "ok") /\ UNCHANGED manifest
         [] seized \notin {"none", "host"} /\ manifest = "none" ->
              /\ manifest' = seized /\ seized' = "none" /\ Return(p, "ok")
         [] OTHER -> Return(p, "collision") /\ UNCHANGED <<manifest, seized>>
    /\ UNCHANGED <<staged, files, host>>

-----------------------------------------------------------------------------
(* cleanupProductionProviderPreparation; other: 1 where the generation is   *)
(* known                                                                   *)

CleanUp(known) == [Frame("cleanup", "derive", 0) EXCEPT !.other = IF known THEN 1 ELSE 0]

CleanUpDerives(p) ==
    /\ At(p, "cleanup", "derive")
    /\ LET known == F(p).other = 1 IN
       IF ~known /\ staged # "none" /\ (staged = "edited" \/ manifest = "user") THEN Return(p, "collision")
       ELSE IF known \/ staged # "none" THEN Enter(p, F(p), "cleared", Clear)
       ELSE Continue(p, [F(p) EXCEPT !.at = "unstage"])
    /\ UNCHANGED <<files, manifests, host>>

CleanUpCleared(p) ==
    /\ At(p, "cleanup", "cleared")
    /\ IF R(p).r = "ok" THEN Go(p, "unstage") ELSE Return(p, R(p).r)
    /\ UNCHANGED <<files, manifests, host>>

CleanUpUnstages(p) ==
    /\ At(p, "cleanup", "unstage")
    /\ staged' = "none"
    /\ Enter(p, F(p), "ruled", RemoveRules)
    /\ UNCHANGED <<files, manifest, seized, host>>

CleanUpRuled(p) ==
    /\ At(p, "cleanup", "ruled")
    /\ Return(p, IF R(p).r \in Errors THEN R(p).r ELSE "ok")
    /\ UNCHANGED <<files, manifests, host>>

-----------------------------------------------------------------------------
(* The rollback of a lease, or of a preparation that fails: lease.rollback  *)

RollBack == Frame("rollback", "start", 0)

RollBackStarts(p) ==
    /\ At(p, "rollback", "start")
    /\ IF lease.written THEN Enter(p, F(p), "cleared", Clear) ELSE Go(p, "finalize")
    /\ UNCHANGED <<files, manifests, host>>

RollBackCleared(p) ==
    /\ At(p, "rollback", "cleared")
    /\ IF R(p).r = "ok" THEN lease' = [lease EXCEPT !.written = FALSE] /\ Go(p, "finalize")
       ELSE UNCHANGED lease /\ Return(p, R(p).r)
    /\ UNCHANGED <<files, manifests, journal, armed, booting>>

RollBackFinalizes(p) ==
    /\ At(p, "rollback", "finalize")
    /\ staged' = "none"
    /\ IF lease.added THEN Enter(p, F(p), "ruled", RemoveRules) ELSE Return(p, "ok")
    /\ UNCHANGED <<files, manifest, seized, host>>

RollBackRuled(p) ==
    /\ At(p, "rollback", "ruled")
    /\ IF R(p).r \in Errors THEN UNCHANGED lease /\ Return(p, R(p).r)
       ELSE lease' = [lease EXCEPT !.added = FALSE] /\ Return(p, "ok")
    /\ UNCHANGED <<files, manifests, journal, armed, booting>>

-----------------------------------------------------------------------------
(* acquireProductionProvider.  other: 1 where it shares a live lease, 2      *)
(* where it has the identity of a manifest it published                      *)

Shares(p) == F(p).other = 1
Identified(p) == F(p).other = 2

\* Bound: the names are those of one preparation, so that none begins where a
\* file of another has been forgotten.
LaunchRetains(p) ==
    /\ At(p, "launch", "start")
    /\ lease.live \/ journal.held \/ Unprepared
    /\ IF lease.live THEN /\ lease' = [lease EXCEPT !.count = @ + 1]
                          /\ Continue(p, [F(p) EXCEPT !.at = "inspect", !.other = 1])
                          /\ UNCHANGED journal
       ELSE /\ StoreIsFree
            /\ IF journal.held THEN Return(p, "collision") /\ UNCHANGED <<journal, lease>>
               ELSE /\ journal' = [held |-> TRUE, known |-> FALSE]
                    /\ Go(p, "inspect") /\ UNCHANGED lease
    /\ UNCHANGED <<files, manifests, armed, booting>>

\* prepareProductionProviderManifest: the Project is as expected, or not, or
\* Git fails.
LaunchInspects(p) ==
    /\ At(p, "launch", "inspect")
    /\ IF manifest = (IF Shares(p) THEN "host" ELSE "none")
       THEN Enter(p, F(p), "excluded", AppendRules) \/ Throw(p, "fail", "failed")
       ELSE Throw(p, "fail", "collision")
    /\ UNCHANGED <<files, manifests, host>>

LaunchExcluded(p) ==
    /\ At(p, "launch", "excluded")
    /\ IF R(p).r \in Errors THEN Throw(p, "fail", R(p).r) /\ UNCHANGED lease
       ELSE IF Shares(p) THEN Go(p, "check") /\ UNCHANGED lease
       ELSE /\ lease' = [lease EXCEPT !.added = R(p).r = "added"]
            /\ Go(p, "stage")
    /\ UNCHANGED <<files, manifests, journal, armed, booting>>

LaunchStages(p) ==
    /\ At(p, "launch", "stage")
    /\ staged' = "host"
    /\ Go(p, "publish")
    /\ UNCHANGED <<files, manifest, seized, host>>

LaunchPublishes(p) ==
    /\ At(p, "launch", "publish")
    /\ IF manifest = "none" /\ staged # "none"
       THEN /\ manifest' = "host" /\ UNCHANGED staged
            /\ lease' = [lease EXCEPT !.written = TRUE]
            /\ Go(p, "identify")
       ELSE /\ staged' = "none" /\ UNCHANGED <<manifest, lease>>
            /\ Throw(p, "undo", IF manifest = "none" THEN "failed" ELSE "collision")
    /\ UNCHANGED <<files, seized, journal, armed, booting>>

Mutant_LaunchIdentifies(p) ==
    /\ At(p, "launch", "identify")
    /\ StoreIsFree
    /\ Continue(p, [F(p) EXCEPT !.at = "finalize", !.other = 2])
    /\ UNCHANGED <<files, manifests, host>>

\* retainProductionProviderManifestIdentity: there is no journal where another
\* Project's timer has had this one cleaned up.
LaunchIdentifies(p) ==
    /\ At(p, "launch", "identify")
    /\ StoreIsFree
    /\ IF journal.held
       THEN /\ journal' = [journal EXCEPT !.known = TRUE]
            /\ Continue(p, [F(p) EXCEPT !.at = "finalize", !.other = 2])
       ELSE /\ Continue(p, [F(p) EXCEPT !.at = "undo", !.other = 2, !.code = "failed"])
            /\ UNCHANGED journal
    /\ UNCHANGED <<files, manifests, lease, armed, booting>>

LaunchFinalizes(p) ==
    /\ At(p, "launch", "finalize")
    /\ IF staged = "none" THEN Throw(p, "undo", "collision") ELSE Go(p, "check")
    /\ staged' = "none"
    /\ UNCHANGED <<files, manifest, seized, host>>

\* git check-ignore, and nothing else has changed in the work tree.
LaunchChecks(p) ==
    /\ At(p, "launch", "check")
    /\ \/ /\ names[Public] # 0 /\ text[names[Public]].blocks > 0
          /\ lease' = IF Shares(p) THEN lease ELSE [lease EXCEPT !.live = TRUE, !.count = 1]
          /\ Return(p, "ok")
       \/ Throw(p, IF Shares(p) THEN "fail" ELSE "undo", "failed") /\ UNCHANGED lease
    /\ UNCHANGED <<files, manifests, journal, armed, booting>>

LaunchUndoes(p) ==
    /\ At(p, "launch", "undo")
    /\ Enter(p, F(p), "fail", RollBack)
    /\ UNCHANGED <<files, manifests, host>>

\* The error path of the acquisition: the shared lease is given back; or the
\* preparation is cleaned up, whatever the rollback came to.
LaunchFails(p) ==
    /\ At(p, "launch", "fail")
    /\ IF Shares(p)
       THEN /\ lease' = [lease EXCEPT !.count = @ - 1]
            /\ IF lease.count = 1 THEN Continue(p, Frame("release", "lease", 0)) ELSE Return(p, F(p).code)
       ELSE lease' = NoLease /\ Enter(p, F(p), "cleaned", CleanUp(Identified(p)))
    /\ UNCHANGED <<files, manifests, journal, armed, booting>>

LaunchCleaned(p) ==
    /\ At(p, "launch", "cleaned")
    /\ IF R(p).r \in Errors THEN armed' = TRUE /\ UNCHANGED journal
       ELSE StoreIsFree /\ journal' = NoJournal /\ UNCHANGED armed
    /\ Return(p, F(p).code)
    /\ UNCHANGED <<files, manifests, lease, booting>>

-----------------------------------------------------------------------------
(* cleanupProductionProviderLease *)

ReleasesLease(p) ==
    /\ At(p, "release", "lease")
    /\ Enter(p, F(p), "lease done", RollBack)
    /\ UNCHANGED <<files, manifests, host>>

\* Only a failure is tried again, a collision by the next launch.
LeaseReleased(p) ==
    /\ At(p, "release", "lease done")
    /\ IF R(p).r \in Errors
       THEN /\ lease' = [lease EXCEPT !.retry = R(p).r = "failed"]
            /\ UNCHANGED journal
       ELSE /\ StoreIsFree
            /\ lease' = NoLease /\ journal' = NoJournal
    /\ Return(p, R(p).r)
    /\ UNCHANGED <<files, manifests, armed, booting>>

Mutant_HolderLeaves ==
    /\ Rests("launch") /\ lease.count > 0
    /\ lease' = [lease EXCEPT !.count = @ - 1]
    /\ Begin("launch", Frame("release", "lease", 0))
    /\ UNCHANGED <<files, user, manifests, journal, armed, booting, counts>>

\* An adapter has read the selector, or will not: the launch's hold ends.
HolderLeaves ==
    /\ Rests("launch") /\ lease.count > 0
    /\ lease' = [lease EXCEPT !.count = @ - 1]
    /\ IF lease.count = 1 THEN Begin("launch", Frame("release", "lease", 0)) ELSE UNCHANGED calls
    /\ UNCHANGED <<files, user, manifests, journal, armed, booting, counts>>

LeaseRetries ==
    /\ Rests("launch") /\ lease.retry
    /\ lease' = [lease EXCEPT !.retry = FALSE]
    /\ Begin("launch", Frame("release", "lease", 0))
    /\ UNCHANGED <<files, user, manifests, journal, armed, booting, counts>>

\* A launch.  A lease nobody holds is cleaned up first.
Launch ==
    /\ Rests("launch") /\ ~booting /\ counts.launches < MaxLaunches
    /\ Count("launches")
    /\ IF lease.live /\ lease.count = 0
       THEN Begin("launch", Frame("release", "lease", 0)) /\ lease' = [lease EXCEPT !.retry = FALSE]
       ELSE Begin("launch", Frame("launch", "start", 0)) /\ UNCHANGED lease
    /\ UNCHANGED <<files, user, manifests, journal, armed, booting>>

-----------------------------------------------------------------------------
(* reconcile *)

ReconcileStarts(p) ==
    /\ At(p, "reconcile", "start")
    /\ \/ journal.held /\ Enter(p, F(p), "cleaned", CleanUp(journal.known)) /\ UNCHANGED booting
       \/ Return(p, "ok") /\ booting' = FALSE   \* nothing retained, or its Project is away
    /\ UNCHANGED <<files, manifests, journal, lease, armed>>

ReconcileCleaned(p) ==
    /\ At(p, "reconcile", "cleaned")
    /\ armed' = (armed \/ R(p).r = "failed")
    /\ journal' = IF R(p).r \in Errors THEN journal ELSE NoJournal
    /\ booting' = FALSE
    /\ Return(p, R(p).r)
    /\ UNCHANGED <<files, manifests, lease>>

\* The cleanup of another Project's preparation fails, which arms the one timer.
OtherFails ==
    /\ counts.others < MaxOthers /\ Count("others")
    /\ ~booting /\ armed' = TRUE
    /\ UNCHANGED <<files, user, calls, manifests, journal, lease, booting>>

TimerFires ==
    /\ armed /\ StoreIsFree /\ ~booting
    /\ armed' = FALSE
    /\ Begin("reconcile", Frame("reconcile", "start", 0))
    /\ counts' = [counts EXCEPT !.beside = @ \/ lease.live \/ ~(Rests("launch") \/ At("launch", "launch", "start"))]
    /\ UNCHANGED <<files, user, manifests, journal, lease, booting>>

\* The Host dies; its next start reconciles the journal before it serves.
Crash ==
    /\ counts.crashes < MaxCrashes /\ Count("crashes")
    /\ stack' = [p \in Procs |-> IF p = "reconcile" THEN <<Frame("reconcile", "start", 0)>> ELSE <<>>]
    /\ res' = [p \in Procs |-> Nothing]
    /\ lease' = NoLease /\ armed' = FALSE /\ booting' = TRUE
    /\ UNCHANGED <<files, user, manifests, journal>>

-----------------------------------------------------------------------------
(* The user: programs that open a file and append to it, editors that save  *)
(* a new file in its place                                                   *)

Edit == counts.edits < MaxEdits /\ Count("edits")

UserOpens ==
    /\ Edit
    /\ names[Public] # 0 /\ names[Public] \notin fds
    /\ fds' = fds \cup {names[Public]}
    /\ UNCHANGED <<files, written, late, calls, manifests, host>>

\* A line written to a file that no longer has a name is the loss of the
\* programs, not the Host's.
UserAppends ==
    \E i \in fds, line \in Lines \ (written \cup late) :
        /\ text' = [text EXCEPT ![i].lines = @ \cup {line}]
        /\ written' = IF names[Public] = i THEN written \cup {line} ELSE written
        /\ late' = IF names[Public] # i /\ Links(i) > 0 THEN late \cup {line} ELSE late
        /\ fds' = fds \ {i}
        /\ UNCHANGED <<names, dirs, calls, manifests, host, counts>>

UserSaves ==
    /\ Edit
    /\ Fresh # {}
    /\ \E line \in Lines \ (written \cup late) :
          /\ NewFile(Public, IF names[Public] = 0 THEN [lines |-> {line}, blocks |-> 0]
                             ELSE [text[names[Public]] EXCEPT !.lines = @ \cup {line}])
          /\ written' = written \cup {line}
    /\ UNCHANGED <<fds, late, calls, manifests, host>>

UserMakesManifest ==
    /\ Edit
    /\ manifest' = IF manifest = "host" THEN "edited" ELSE "user"
    /\ staged' = IF staged = "host" /\ manifest = "host" THEN "edited" ELSE staged
    /\ manifest \in {"none", "host"}
    /\ written' = written \cup {"manifest"}
    /\ UNCHANGED <<files, fds, late, calls, seized, host>>

-----------------------------------------------------------------------------

Step(p) ==
    /\ \/ FileStep(p) /\ UNCHANGED <<manifests, host>>
       \/ ClearTakes(p) \/ ClearJudges(p)
       \/ CleanUpDerives(p) \/ CleanUpCleared(p) \/ CleanUpUnstages(p) \/ CleanUpRuled(p)
       \/ RollBackStarts(p) \/ RollBackCleared(p) \/ RollBackFinalizes(p) \/ RollBackRuled(p)
       \/ LaunchRetains(p) \/ LaunchInspects(p) \/ LaunchExcluded(p) \/ LaunchStages(p)
       \/ LaunchPublishes(p) \/ LaunchIdentifies(p) \/ LaunchFinalizes(p) \/ LaunchChecks(p)
       \/ LaunchUndoes(p) \/ LaunchFails(p) \/ LaunchCleaned(p)
       \/ ReleasesLease(p) \/ LeaseReleased(p)
       \/ ReconcileStarts(p) \/ ReconcileCleaned(p)
    /\ UNCHANGED <<user, counts>>

Next ==
    \/ \E p \in Procs : Step(p)
    \/ Launch \/ HolderLeaves \/ LeaseRetries \/ OtherFails \/ TimerFires \/ Crash
    \/ UserOpens \/ UserAppends \/ UserSaves \/ UserMakesManifest

Spec == Init /\ [][Next]_vars

\* Constraint of a run: it does not follow what comes after a timer that fired
\* beside a launch or a lease, and of what comes after a late write only so much
\* as takes every path of a rollback.  No property speaks of either.
Followed == ~counts.beside /\ (late # {} => counts.edits = 1 /\ counts.launches = 1)

-----------------------------------------------------------------------------
(* Properties *)

(***************************************************************************)
(* Nothing the user wrote is lost: each line written to the file at its    *)
(* name is in a file that has a name, and a manifest of the user's has     *)
(* one, whatever the Host was replacing, releasing, rolling back or        *)
(* recovering, and wherever it died.  Unless a program wrote to a          *)
(* generation that the Host had captured (late); or the timer has fired    *)
(* beside a launch or its lease (beside); or the Project had no exclude    *)
(* file, where every candidate is taken back (bare): in each of these the  *)
(* code can lose a line.                                                   *)
(***************************************************************************)
Kept(work) ==
    \/ \E n \in Names : names[n] # 0 /\ work \in text[names[n]].lines
    \/ work = "manifest" /\ {manifest, staged, seized} \cap {"user", "edited"} # {}

SavedWorkSurvives == late = {} /\ ~counts.beside /\ ~counts.bare => \A work \in written : Kept(work)


(***************************************************************************)
(* The Host's files in the Project are owned: whoever is at work, crashed  *)
(* or failed, what there is of a preparation, files on their way to the    *)
(* exclude file, its block or the manifest, is there under a preparation   *)
(* that is retained.  Unless a program wrote to a captured generation, or  *)
(* the timer has fired beside a launch or its lease, where the             *)
(* reconciliation drops the journal of what the launch still makes.        *)
(***************************************************************************)
OwnedUntilClean == late = {} /\ ~counts.beside => journal.held \/ Unprepared

(***************************************************************************)
(* While an adapter may still read the selector there is one: of the       *)
(* launches that share a lease one may come, fail or leave while others    *)
(* hold it, a cleanup may fail half-way and be tried again, and a launch   *)
(* may come after that.  What reads as a selector may by then be the       *)
(* user's.  Unless a program wrote to a captured generation, or the timer  *)
(* has fired beside the lease: the reconciliation takes the selector away. *)
(***************************************************************************)
ReadersHaveSelector == late = {} /\ ~counts.beside => (lease.count > 0 => manifest # "none")
=============================================================================

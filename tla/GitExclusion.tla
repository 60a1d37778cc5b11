------------------------------ MODULE GitExclusion ------------------------------
(***************************************************************************)
(* The Host's block in the Git exclude file of a Project                   *)
(* (project-git-exclusion.mjs): appended, removed, and recovered after an  *)
(* interruption, over a file that its user edits at the same time.         *)
(*                                                                         *)
(* A replacement at level l works under the temporary id of that level;    *)
(* what is left to reconcile of it is published at level l + 1.            *)
(***************************************************************************)
EXTENDS ProjectFile

Capture(l, d, max) == [Frame("capture", "open", l) EXCEPT !.dir = d, !.max = max]
Restore(l, d) == [Frame("restore", "link", l) EXCEPT !.dir = d]
Remove(l, d, max, i, t) ==
    [Frame("remove", "link", l) EXCEPT !.dir = d, !.max = max, !.inode = i, !.text = t]
\* releaseCapturedProjectGitExclude
ReleaseAll(l, d, max, i, t, req) == [Remove(l, d, max, i, t) EXCEPT !.fn = "release", !.at = "try", !.req = req]
\* mergeCapturedProjectGitExcludeLines
Merge(l, d, req) == [Frame("merge", "read", l) EXCEPT !.dir = d, !.req = req]
Replace(l, i, t, next) == [Frame("replace", "write", l) EXCEPT !.inode = i, !.text = t, !.next = next]
RecoverRollback(l) == Frame("unroll", "start", l)
Recover(l) == Frame("recover", "start", l)

\* removeProjectPreparationTemporaryFile: it may be linked to the public name,
\* and open.
Untemp(p, l, at) ==
    IF names[Temp(l)] # 0 /\ names[Temp(l)] \in fds
    THEN Return(p, "failed") /\ UNCHANGED files
    ELSE Drop(Temp(l)) /\ Go(p, at)

-----------------------------------------------------------------------------
(* releaseCapturedProjectGitExclude: l, dir, inode, text, req *)

ReleaseTries(p) ==
    /\ At(p, "release", "try")
    /\ Enter(p, F(p), "tried", Remove(F(p).l, F(p).dir, F(p).max, F(p).inode, F(p).text))
    /\ UNCHANGED files

ReleaseTried(p) ==
    /\ At(p, "release", "tried")
    /\ LET i == names[Captured(F(p).l, F(p).dir)]
           changed == [F(p) EXCEPT !.inode = R(p).inode, !.text = R(p).text, !.req = @ \cup {text[i]}]
       IN CASE R(p).r # "changed" -> Return(p, R(p).r)
            [] R(p).r = "changed" /\ i = 0 -> Return(p, "failed")
            [] OTHER -> Enter(p, changed, "merged", Merge(F(p).l, F(p).dir, changed.req))
    /\ UNCHANGED files

ReleaseMerged(p) ==
    /\ At(p, "release", "merged")
    /\ IF R(p).r \in Errors THEN Return(p, R(p).r) ELSE Go(p, "try")
    /\ UNCHANGED files

-----------------------------------------------------------------------------
(* mergeCapturedProjectGitExcludeLines: l and dir of the capture, req *)

MergeReads(p) ==
    /\ At(p, "merge", "read")
    /\ LET i == names[Public]
           captured == names[Captured(F(p).l, F(p).dir)]
           merging == [F(p) EXCEPT !.req = @ \cup {text[i]}]
           missing == {t \in F(p).req : ~Preserved(t, text[i])}
       IN CASE i = 0 /\ captured # 0 -> SetNames([names EXCEPT ![Public] = captured]) /\ UNCHANGED calls
            [] i = 0 /\ captured = 0 -> Return(p, "failed") /\ UNCHANGED files
            [] i # 0 /\ Links(i) > 2 -> Return(p, "collision") /\ UNCHANGED files
            [] i # 0 /\ Links(i) <= 2 /\ missing = {} -> Return(p, "ok") /\ UNCHANGED files
            [] OTHER -> /\ Enter(p, merging, "replaced",
                                 Replace(F(p).l + 1, i, text[i], Concatenated(text[i], missing)))
                        /\ UNCHANGED files

MergeReplaced(p) ==
    /\ At(p, "merge", "replaced")
    /\ LET merged == IF names[Public] = 0 THEN Empty ELSE text[names[Public]] IN
       CASE R(p).r \in Errors -> Return(p, R(p).r)
         [] R(p).r = "yes" /\ \A t \in F(p).req : Preserved(t, merged) -> Return(p, "ok")
         [] OTHER -> Go(p, "read")
    /\ UNCHANGED files

-----------------------------------------------------------------------------
(* replaceProjectPreparationFile: inode and text expected, next.  "yes" for *)
(* committed, "no", or an error                                             *)

ReplaceWrites(p) ==
    /\ At(p, "replace", "write")
    /\ IF names[Temp(F(p).l)] # 0 THEN Return(p, "collision") /\ UNCHANGED files
       ELSE /\ Fresh # {}
            /\ NewFile(Temp(F(p).l), F(p).next)
            /\ Enter(p, F(p), "captured", Capture(F(p).l, "replace", 1))

ReplaceCaptured(p) ==
    /\ At(p, "replace", "captured")
    /\ LET held == [F(p) EXCEPT !.inode = R(p).inode] IN
       CASE R(p).r \in Errors -> Throw(p, "abandon", R(p).r)
         [] R(p).r = "ok" /\ (R(p).inode # F(p).inode \/ R(p).text # F(p).text) ->
              Enter(p, held, "restored", Restore(F(p).l, "replace"))
         [] R(p).r = "absent" /\ F(p).inode # 0 -> Go(p, "withdraw")
         [] OTHER -> Go(p, "publish")
    /\ UNCHANGED files

ReplaceRestored(p) ==
    /\ At(p, "replace", "restored")
    /\ IF R(p).r = "ok" THEN Go(p, "withdraw") ELSE Throw(p, "catch", R(p).r)
    /\ UNCHANGED files

ReplaceWithdraws(p) ==
    /\ At(p, "replace", "withdraw")
    /\ Drop(Temp(F(p).l))
    /\ Return(p, IF names[Temp(F(p).l)] # 0 THEN "no" ELSE "failed")

ReplacePublishes(p) ==
    /\ At(p, "replace", "publish")
    /\ LET temp == names[Temp(F(p).l)] IN
       CASE names[Public] # 0 -> Throw(p, "catch", "collision") /\ UNCHANGED files
         [] names[Public] = 0 /\ temp = 0 -> Throw(p, "catch", "failed") /\ UNCHANGED files
         [] OTHER -> SetNames([names EXCEPT ![Public] = temp]) /\ Go(p, "refresh")

\* Something was written to the old generation: the candidate is taken back.
Roll(p, i, t) ==
    Enter(p, [F(p) EXCEPT !.other = i, !.otherText = t], "rolled", Capture(F(p).l, "rollback", 2))

\* No two identities that are missing match (projectPreparationFileIdentityMatches),
\* so where there was no file the candidate is always taken back.
ReplaceRefreshes(p) ==
    /\ At(p, "replace", "refresh")
    /\ LET i == names[Captured(F(p).l, "replace")]
           t == IF i = 0 THEN Empty ELSE text[i]
       IN CASE F(p).inode = 0 -> Roll(p, 0, Empty)
            [] F(p).inode # 0 /\ i = F(p).inode /\ t = F(p).text ->
                 Enter(p, F(p), "removed", Remove(F(p).l, "replace", 1, i, t))
            [] OTHER -> Roll(p, i, t)
    /\ UNCHANGED files

ReplaceRemoved(p) ==
    /\ At(p, "replace", "removed")
    /\ CASE R(p).r = "ok" -> Go(p, "finish")
         [] R(p).r = "changed" -> Roll(p, R(p).inode, R(p).text)
         [] OTHER -> Return(p, R(p).r)
    /\ UNCHANGED files

\* The old generation, where there was one, is to go back to its name.  Only
\* what is written to the candidate from here on is merged into it.
ReplaceRolled(p) ==
    /\ At(p, "replace", "rolled")
    /\ CASE R(p).r \in Errors \cup {"absent"} -> Return(p, IF R(p).r = "failed" THEN "failed" ELSE "collision")
         [] R(p).r = "ok" /\ R(p).inode = names[Temp(F(p).l)] ->
              IF F(p).inode = 0
              THEN Enter(p, F(p), "released",
                         ReleaseAll(F(p).l, "rollback", 2, R(p).inode, R(p).text, {R(p).text, Empty}))
              ELSE Enter(p, [F(p) EXCEPT !.inode = R(p).inode, !.text = R(p).text], "returned",
                         Restore(F(p).l, "replace"))
         [] OTHER -> Enter(p, [F(p) EXCEPT !.code = "collision"], "mistaken", Restore(F(p).l, "rollback"))
    /\ UNCHANGED files

ReplaceMistaken(p) ==
    /\ At(p, "replace", "mistaken")
    /\ IF R(p).r = "ok" THEN Return(p, F(p).code)
       ELSE Enter(p, F(p), "unrolled", RecoverRollback(F(p).l))
    /\ UNCHANGED files

ReplaceReturned(p) ==
    /\ At(p, "replace", "returned")
    /\ IF R(p).r = "ok"
       THEN Enter(p, F(p), "released",
                  ReleaseAll(F(p).l, "rollback", 2, F(p).inode, F(p).text, {F(p).text, F(p).otherText}))
       ELSE Enter(p, [F(p) EXCEPT !.code = R(p).r], "unrolled", RecoverRollback(F(p).l))
    /\ UNCHANGED files

ReplaceReleased(p) ==
    /\ At(p, "replace", "released")
    /\ IF R(p).r = "ok" THEN Go(p, "withdraw")
       ELSE Enter(p, [F(p) EXCEPT !.code = R(p).r], "unrolled", RecoverRollback(F(p).l))
    /\ UNCHANGED files

ReplaceFinishes(p) ==
    /\ At(p, "replace", "finish")
    /\ Drop(Temp(F(p).l))
    /\ Return(p, IF names[Temp(F(p).l)] # 0 THEN "yes" ELSE "failed")

\* The error paths.  Nothing was published: the capture is restored, or what
\* became of the name is recovered.
ReplaceCatches(p) ==
    /\ At(p, "replace", "catch")
    /\ IF F(p).inode = 0 THEN Go(p, "abandon")
       ELSE Enter(p, F(p), "caught", Restore(F(p).l, "replace"))
    /\ UNCHANGED files

ReplaceCaught(p) ==
    /\ At(p, "replace", "caught")
    /\ IF R(p).r = "ok" THEN Go(p, "abandon")
       ELSE Enter(p, F(p), "recovered", Recover(F(p).l))
    /\ UNCHANGED files

ReplaceRecovered(p) ==
    /\ At(p, "replace", "recovered")
    /\ IF R(p).r = "ok" /\ names[Temp(F(p).l)] \notin fds THEN Drop(Temp(F(p).l)) ELSE UNCHANGED files
    /\ Return(p, F(p).code)

ReplaceAbandons(p) ==
    /\ At(p, "replace", "abandon")
    /\ Drop(Temp(F(p).l))
    /\ Return(p, F(p).code)

ReplaceUnrolled(p) ==
    /\ At(p, "replace", "unrolled")
    /\ Return(p, F(p).code)
    /\ UNCHANGED files

-----------------------------------------------------------------------------
(* recoverProjectPreparationFileRollback: l.  "ok" or an error *)

UnrollStarts(p) ==
    /\ At(p, "unroll", "start")
    /\ CASE dirs[<<F(p).l, "rollback">>] = "released" -> FinishReleased(p, F(p).l, "rollback", "ok")
         [] dirs[<<F(p).l, "rollback">>] = "none" -> Return(p, "ok") /\ UNCHANGED files
         [] OTHER -> Enter(p, F(p), "got", Capture(F(p).l, "rollback", 2)) /\ UNCHANGED files

UnrollGot(p) ==
    /\ At(p, "unroll", "got")
    /\ LET got == [F(p) EXCEPT !.inode = R(p).inode, !.text = R(p).text] IN
       CASE R(p).r \in Errors -> Return(p, R(p).r)
         [] R(p).r = "ok" /\ R(p).inode = names[Temp(F(p).l)] ->
              IF dirs[<<F(p).l, "replace">>] = "open"
              THEN Enter(p, got, "other", Capture(F(p).l, "replace", 2))
              ELSE Continue(p, [got EXCEPT !.at = "place"])
         [] OTHER -> IF R(p).r = "ok" /\ names[Public] = 0
                     THEN Enter(p, F(p), "refused", Restore(F(p).l, "rollback"))
                     ELSE Return(p, "collision")
    /\ UNCHANGED files

UnrollRefused(p) ==
    /\ At(p, "unroll", "refused")
    /\ Return(p, "collision")
    /\ UNCHANGED files

UnrollOther(p) ==
    /\ At(p, "unroll", "other")
    /\ IF R(p).r = "ok" /\ names[Public] \in {0, R(p).inode}
       THEN Enter(p, F(p), "put", Restore(F(p).l, "replace"))
       ELSE Return(p, "collision")
    /\ UNCHANGED files

UnrollPut(p) ==
    /\ At(p, "unroll", "put")
    /\ IF R(p).r = "ok" THEN Go(p, "place") ELSE Return(p, R(p).r)
    /\ UNCHANGED files

UnrollPlaces(p) ==
    /\ At(p, "unroll", "place")
    /\ IF names[Public] \in {0, F(p).inode}
       THEN Enter(p, F(p), "done", Restore(F(p).l, "rollback"))
       ELSE Enter(p, F(p), "done", ReleaseAll(F(p).l, "rollback", 2, F(p).inode, F(p).text,
                                              {F(p).text, text[names[Public]]}))
    /\ UNCHANGED files

UnrollDone(p) ==
    /\ At(p, "unroll", "done")
    /\ Return(p, R(p).r)
    /\ UNCHANGED files

-----------------------------------------------------------------------------
(* recoverProjectPreparationFileReplacement: l.  "ok" or an error *)

RecoverStarts(p) ==
    /\ At(p, "recover", "start")
    /\ Enter(p, F(p), "unrolled", RecoverRollback(F(p).l))
    /\ UNCHANGED files

RecoverUnrolled(p) ==
    /\ At(p, "recover", "unrolled")
    /\ LET l == F(p).l IN
       CASE R(p).r \in Errors -> Return(p, R(p).r) /\ UNCHANGED files
         [] R(p).r = "ok" /\ dirs[<<l, "replace">>] = "released" -> FinishReleased(p, l, "replace", "ok")
         [] R(p).r = "ok" /\ dirs[<<l, "replace">>] = "none" -> Return(p, "ok") /\ UNCHANGED files
         [] OTHER -> IF l = Depth THEN Return(p, "collision") /\ UNCHANGED files
                     ELSE Enter(p, F(p), "reconciled", Recover(l + 1)) /\ UNCHANGED files

RecoverReconciled(p) ==
    /\ At(p, "recover", "reconciled")
    /\ IF R(p).r \in Errors THEN Return(p, R(p).r) /\ UNCHANGED files
       ELSE Untemp(p, F(p).l + 1, "capture")

RecoverCaptures(p) ==
    /\ At(p, "recover", "capture")
    /\ Enter(p, F(p), "got", Capture(F(p).l, "replace", 2))
    /\ UNCHANGED files

Mutant_RecoverGot(p) ==
    /\ At(p, "recover", "got")
    /\ LET got == [F(p) EXCEPT !.inode = R(p).inode, !.text = R(p).text] IN
       CASE R(p).r # "ok" -> Return(p, IF R(p).r = "absent" THEN "failed" ELSE R(p).r)
         [] R(p).r = "ok" /\ names[Public] \in {0, R(p).inode} -> Enter(p, got, "done", Restore(F(p).l, "replace"))
         [] OTHER -> Continue(p, [got EXCEPT !.at = "release"])
    /\ UNCHANGED files

RecoverGot(p) ==
    /\ At(p, "recover", "got")
    /\ LET l == F(p).l
           public == names[Public]
           got == [F(p) EXCEPT !.inode = R(p).inode, !.text = R(p).text,
                               !.req = {R(p).text} \cup (IF public = 0 THEN {} ELSE {text[public]})]
       IN CASE R(p).r # "ok" -> Return(p, IF R(p).r = "absent" THEN "failed" ELSE R(p).r)
            [] R(p).r = "ok" /\ public # 0 /\ public = names[Temp(l)] -> Continue(p, [got EXCEPT !.at = "release"])
            [] R(p).r = "ok" /\ public \in {0, R(p).inode} /\ (public = 0 \/ public # names[Temp(l)]) ->
                 Enter(p, got, "done", Restore(l, "replace"))
            [] OTHER -> Enter(p, got, "merged", Merge(l, "replace", got.req))
    /\ UNCHANGED files

RecoverMerged(p) ==
    /\ At(p, "recover", "merged")
    /\ IF R(p).r \in Errors THEN Return(p, R(p).r) ELSE Go(p, "release")
    /\ UNCHANGED files

RecoverReleases(p) ==
    /\ At(p, "recover", "release")
    /\ Enter(p, F(p), "done", ReleaseAll(F(p).l, "replace", 2, F(p).inode, F(p).text, F(p).req))
    /\ UNCHANGED files

RecoverDone(p) ==
    /\ At(p, "recover", "done")
    /\ Return(p, R(p).r)
    /\ UNCHANGED files

-----------------------------------------------------------------------------
(* appendProjectGitExcludeRules and removeProjectGitExcludeRulesAtPath:     *)
(* "added", "removed", "unchanged" or an error.  A replacement that removes *)
(* the file (removeFileWhenEmpty) is left out: it is for rules committed to *)
(* a missing file, and none ever are.                                       *)

AppendRules == Frame("rules", "append", 0)
RemoveRules == Frame("rules", "remove", 0)

RulesStart(p) ==
    /\ At(p, "rules", "append") \/ At(p, "rules", "remove")
    /\ Enter(p, [F(p) EXCEPT !.dir = F(p).at], "ready", Recover(0))
    /\ UNCHANGED files

RulesReady(p) ==
    /\ At(p, "rules", "ready")
    /\ IF R(p).r \in Errors THEN Return(p, R(p).r) /\ UNCHANGED files
       ELSE Untemp(p, 0, "look")

RulesLook(p) ==
    /\ At(p, "rules", "look")
    /\ LET i == names[Public]
           t == IF i = 0 THEN Empty ELSE text[i]
       IN CASE i # 0 /\ Links(i) > 1 -> Return(p, "collision")
            [] F(p).dir = "append" /\ t.blocks > 0 /\ (i = 0 \/ Links(i) = 1) -> Return(p, "unchanged")
            [] F(p).dir = "append" /\ t.blocks = 0 /\ (i = 0 \/ Links(i) = 1) ->
                 Enter(p, F(p), "tried", Replace(0, i, t, [t EXCEPT !.blocks = 1]))
            [] F(p).dir = "remove" /\ t.blocks = 0 /\ (i = 0 \/ Links(i) = 1) -> Return(p, "unchanged")
            [] OTHER -> IF t.blocks > 1 THEN Return(p, "collision")
                        ELSE Enter(p, F(p), "tried", Replace(0, i, t, [t EXCEPT !.blocks = 0]))
    /\ UNCHANGED files

\* What is not committed is tried again, up to an eighth time: here up to any.
RulesTried(p) ==
    /\ At(p, "rules", "tried")
    /\ CASE R(p).r \in Errors -> Return(p, R(p).r)
         [] R(p).r = "yes" -> Return(p, IF F(p).dir = "append" THEN "added" ELSE "removed")
         [] OTHER -> Go(p, "look") \/ Return(p, "collision")
    /\ UNCHANGED files

-----------------------------------------------------------------------------

FileStep(p) ==
    \/ CaptureOpens(p) \/ CaptureClaims(p) \/ CaptureTakes(p) \/ CaptureReads(p) \/ CaptureRefused(p)
    \/ RestoreLinks(p) \/ RestoreDrops(p) \/ RestoreCloses(p)
    \/ RemoveLinks(p) \/ RemoveDrops(p) \/ RemoveWaits(p) \/ RemoveCompares(p) \/ RemoveKeeps(p)
    \/ RemoveFinishes(p) \/ RemoveUndoes(p)
    \/ ReleaseTries(p) \/ ReleaseTried(p) \/ ReleaseMerged(p)
    \/ MergeReads(p) \/ MergeReplaced(p)
    \/ ReplaceWrites(p) \/ ReplaceCaptured(p) \/ ReplaceRestored(p) \/ ReplaceWithdraws(p)
    \/ ReplacePublishes(p) \/ ReplaceRefreshes(p) \/ ReplaceRemoved(p) \/ ReplaceRolled(p)
    \/ ReplaceMistaken(p) \/ ReplaceReturned(p) \/ ReplaceReleased(p)
    \/ ReplaceFinishes(p) \/ ReplaceCatches(p) \/ ReplaceCaught(p) \/ ReplaceRecovered(p)
    \/ ReplaceAbandons(p) \/ ReplaceUnrolled(p)
    \/ UnrollStarts(p) \/ UnrollGot(p) \/ UnrollRefused(p) \/ UnrollOther(p) \/ UnrollPut(p)
    \/ UnrollPlaces(p) \/ UnrollDone(p)
    \/ RecoverStarts(p) \/ RecoverUnrolled(p) \/ RecoverReconciled(p) \/ RecoverCaptures(p)
    \/ RecoverGot(p) \/ RecoverMerged(p) \/ RecoverReleases(p) \/ RecoverDone(p)
    \/ RulesStart(p) \/ RulesReady(p) \/ RulesLook(p) \/ RulesTried(p)
=============================================================================

------------------------------ MODULE ProjectFile ------------------------------
(***************************************************************************)
(* How the Host changes a file of the Project that its user edits too: the *)
(* local Git exclude file (project-git-exclusion.mjs,                      *)
(* project-preparation-file.mjs, project-preparation-ownership.mjs).       *)
(*                                                                         *)
(* The public name is never overwritten.  The old generation is captured   *)
(* in a private directory, the new one linked to the name, and the old one *)
(* released once nobody holds it open; what was written to it meanwhile is *)
(* rolled back to, or merged.  A crash may come between any two of these   *)
(* links, renames and removals, and leaves names for a retry to read.      *)
(*                                                                         *)
(* Functions that call each other are frames on a stack per process, as in *)
(* the code; a step is one operation on the file system.  A text is the    *)
(* set of the lines of the user and the number of Host blocks (a marker    *)
(* and its rule) in it; the order of lines is left out.                    *)
(***************************************************************************)
EXTENDS Naturals, Sequences, FiniteSets

CONSTANTS Procs,    \* who may be at the file: a launch, the reconciliation
          Lines,    \* what the user writes, each line once
          MaxFiles, \* bound: inodes in use together
          Depth     \* bound: MAX_PROJECT_PREPARATION_RECONCILIATION_DEPTH

ASSUME ProjectFileAssumption == MaxFiles \in Nat \ {0} /\ Depth \in Nat \ {0}

VARIABLES names,   \* the inode at each name, 0 for none
          dirs,    \* the capture directories
          text,    \* what each inode holds
          fds,     \* the inodes a program of the user has open
          written, \* the lines the user has written to the file at its name
          late,    \* and those to a generation the Host had captured
          stack,   \* of each process
          res      \* what the last call of each process gave

files == <<names, dirs, text>>
user == <<fds, written, late>>
calls == <<stack, res>>

Levels == 0..Depth     \* of the reconciliation: each has its temporary id
Areas == {"replace", "rollback"}
Inodes == 1..MaxFiles

Public == <<0, "project", "exclude">>
Temp(l) == <<l, "project", "temp">>
Captured(l, d) == <<l, d, "captured">>
Release(l, d) == <<l, d, "release">>
Names == {Public} \cup {Temp(l) : l \in Levels}
         \cup {Captured(l, d) : l \in Levels, d \in Areas} \cup {Release(l, d) : l \in Levels, d \in Areas}

Texts == [lines : SUBSET Lines, blocks : 0..2]   \* 2: two blocks or more
Empty == [lines |-> {}, blocks |-> 0]

Links(i) == Cardinality({n \in Names : names[n] = i})
\* A file with more names than a private one ever needs is not read.
Crowded(n) == names[n] # 0 /\ Links(names[n]) > 2

\* projectGitExcludeSourceIsPreserved
Preserved(t, candidate) == t.lines \subseteq candidate.lines /\ t.blocks <= candidate.blocks

\* concatenateProjectGitExcludeSources of the current text, the missing ones
\* and the current one again.
Concatenated(t, missing) ==
    LET twice == \/ t.blocks > 0
                 \/ \E m \in missing : m.blocks > 1 \/ \E o \in missing \ {m} : m.blocks > 0 /\ o.blocks > 0
    IN [lines |-> t.lines \cup UNION {m.lines : m \in missing},
        blocks |-> IF twice THEN 2 ELSE IF \E m \in missing : m.blocks > 0 THEN 1 ELSE 0]

-----------------------------------------------------------------------------
(* Frames *)

\* inode and text: of the generation expected, or of the capture; other: of
\* the one rolled back; next: what is to be published; req: texts to preserve.
Frame(fn, at, l) ==
    [fn |-> fn, at |-> at, l |-> l, dir |-> "replace", max |-> 1, inode |-> 0, text |-> Empty,
     next |-> Empty, other |-> 0, otherText |-> Empty, req |-> {}, code |-> "ok"]

Result(r, i, t) == [r |-> r, inode |-> i, text |-> t]
Nothing == Result("ok", 0, Empty)
Errors == {"failed", "collision"}

At(p, fn, at) == stack[p] # <<>> /\ Head(stack[p]).fn = fn /\ Head(stack[p]).at = at
F(p) == Head(stack[p])
R(p) == res[p]

Frames(p, f) == stack' = [stack EXCEPT ![p] = f \o Tail(@)]
Continue(p, f) == Frames(p, <<f>>) /\ UNCHANGED res
Go(p, at) == Continue(p, [F(p) EXCEPT !.at = at])
Throw(p, at, code) == Continue(p, [F(p) EXCEPT !.at = at, !.code = code])
Enter(p, f, at, callee) == Frames(p, <<callee, [f EXCEPT !.at = at]>>) /\ UNCHANGED res
Give(p, r, i, t) == Frames(p, <<>>) /\ res' = [res EXCEPT ![p] = Result(r, i, t)]
Return(p, r) == Give(p, r, 0, Empty)

SetNames(f) == names' = f /\ UNCHANGED <<dirs, text>>
Drop(n) == SetNames([names EXCEPT ![n] = 0])
SetDir(l, d, s) == dirs' = [dirs EXCEPT ![<<l, d>>] = s] /\ UNCHANGED <<names, text>>
Rename(n, m) == SetNames([names EXCEPT ![n] = 0, ![m] = names[n]])

\* Numbers are taken again once nobody means the old file by them: an identity
\* has a birth time.
Meant == {names[n] : n \in Names} \cup fds
         \cup UNION {UNION {{stack[p][k].inode, stack[p][k].other} : k \in DOMAIN stack[p]} : p \in Procs}
         \cup {res[p].inode : p \in Procs}
Fresh == Inodes \ Meant
NewFile(n, t) ==
    LET i == CHOOSE i \in Fresh : TRUE IN
    /\ names' = [names EXCEPT ![n] = i] /\ text' = [text EXCEPT ![i] = t]
    /\ UNCHANGED dirs

-----------------------------------------------------------------------------
(* captureProjectPreparationFile: l, dir, max.  "ok", "absent" or an error *)

\* finishReleasedProjectPreparationCapture, resumed.
FinishReleased(p, l, d, r) ==
    CASE Crowded(Release(l, d)) -> Return(p, "collision") /\ UNCHANGED files
      [] names[Release(l, d)] # 0 /\ ~Crowded(Release(l, d)) -> Drop(Release(l, d)) /\ UNCHANGED calls
      [] OTHER -> SetDir(l, d, "none") /\ Return(p, r)

CaptureOpens(p) ==
    /\ At(p, "capture", "open")
    /\ LET l == F(p).l  d == F(p).dir IN
       CASE dirs[<<l, d>>] = "released" -> FinishReleased(p, l, d, "absent")
         [] dirs[<<l, d>>] = "open" -> Go(p, "claim") /\ UNCHANGED files
         [] OTHER -> SetDir(l, d, "open") /\ Go(p, "take")

\* A directory that was there: a release that was under way is taken back.
CaptureClaims(p) ==
    /\ At(p, "capture", "claim")
    /\ LET captured == Captured(F(p).l, F(p).dir)
           release == Release(F(p).l, F(p).dir)
       IN CASE names[release] # 0 /\ names[captured] = 0 -> Rename(release, captured) /\ UNCHANGED calls
            [] names[release] # 0 /\ names[captured] # 0 ->
                 IF names[release] = names[captured] /\ ~Crowded(captured) THEN Drop(release) /\ UNCHANGED calls
                 ELSE Return(p, "collision") /\ UNCHANGED files
            [] OTHER -> Go(p, IF names[captured] = 0 THEN "take" ELSE "read") /\ UNCHANGED files

CaptureTakes(p) ==
    /\ At(p, "capture", "take")
    /\ LET l == F(p).l  d == F(p).dir IN
       IF names[Public] # 0 /\ dirs[<<l, d>>] = "open" THEN Rename(Public, Captured(l, d)) /\ Go(p, "read")
       ELSE /\ IF dirs[<<l, d>>] = "open" /\ names[Captured(l, d)] = 0 /\ names[Release(l, d)] = 0
               THEN SetDir(l, d, "none")
               ELSE UNCHANGED files
            /\ Return(p, "absent")

CaptureReads(p) ==
    /\ At(p, "capture", "read")
    /\ LET i == names[Captured(F(p).l, F(p).dir)] IN
       IF i = 0 THEN Return(p, "failed")
       ELSE IF Links(i) <= F(p).max THEN Give(p, "ok", i, text[i])
       ELSE Enter(p, F(p), "refused", [Frame("restore", "link", F(p).l) EXCEPT !.dir = F(p).dir])
    /\ UNCHANGED files

CaptureRefused(p) ==
    /\ At(p, "capture", "refused")
    /\ Return(p, "collision")
    /\ UNCHANGED files

-----------------------------------------------------------------------------
(* restore of a capture: "ok" or "collision" *)

RestoreLinks(p) ==
    /\ At(p, "restore", "link")
    /\ LET i == names[Captured(F(p).l, F(p).dir)] IN
       CASE i # 0 /\ names[Public] = 0 -> SetNames([names EXCEPT ![Public] = i]) /\ Go(p, "drop")
         [] i # 0 /\ names[Public] = i /\ Links(i) <= 2 -> Go(p, "drop") /\ UNCHANGED files
         [] OTHER -> Return(p, "collision") /\ UNCHANGED files

RestoreDrops(p) ==
    /\ At(p, "restore", "drop")
    /\ IF names[Captured(F(p).l, F(p).dir)] # 0 THEN Drop(Captured(F(p).l, F(p).dir)) /\ Go(p, "close")
       ELSE Return(p, "collision") /\ UNCHANGED files

RestoreCloses(p) ==
    /\ At(p, "restore", "close")
    /\ LET l == F(p).l  d == F(p).dir IN
       IF dirs[<<l, d>>] = "open" /\ names[Captured(l, d)] = 0 /\ names[Release(l, d)] = 0
       THEN SetDir(l, d, "none") /\ Return(p, "ok")
       ELSE Return(p, "failed") /\ UNCHANGED files

-----------------------------------------------------------------------------
(* remove of a capture: "ok", "changed" (it is captured again, with what   *)
(* was written to it), or an error                                         *)

RemoveLinks(p) ==
    /\ At(p, "remove", "link")
    /\ LET i == names[Captured(F(p).l, F(p).dir)]  release == Release(F(p).l, F(p).dir) IN
       CASE i = 0 -> Throw(p, "undo", "failed") /\ UNCHANGED files
         [] i # 0 /\ names[release] # 0 -> Throw(p, "undo", "collision") /\ UNCHANGED files
         [] OTHER -> SetNames([names EXCEPT ![release] = i]) /\ Go(p, "drop")

RemoveDrops(p) ==
    /\ At(p, "remove", "drop")
    /\ IF names[Captured(F(p).l, F(p).dir)] # 0 THEN Drop(Captured(F(p).l, F(p).dir)) /\ Go(p, "wait")
       ELSE Throw(p, "undo", "failed") /\ UNCHANGED files

\* waitForProjectPreparationOwnershipRelease: nobody has it open, or that lasts
\* too long.
RemoveWaits(p) ==
    /\ At(p, "remove", "wait")
    /\ IF F(p).inode \in fds THEN Throw(p, "undo", "failed") ELSE Go(p, "compare")
    /\ UNCHANGED files

RemoveCompares(p) ==
    /\ At(p, "remove", "compare")
    /\ LET l == F(p).l  d == F(p).dir  i == names[Release(F(p).l, F(p).dir)] IN
       CASE i = 0 \/ dirs[<<l, d>>] # "open" -> Throw(p, "undo", "failed") /\ UNCHANGED files
         [] i # 0 /\ dirs[<<l, d>>] = "open" /\ Links(i) > F(p).max -> Throw(p, "undo", "collision") /\ UNCHANGED files
         [] i # 0 /\ dirs[<<l, d>>] = "open" /\ Links(i) <= F(p).max /\ i = F(p).inode
            /\ text[i] = F(p).text ->
              SetDir(l, d, "released") /\ Go(p, "finish")
         [] OTHER -> /\ SetNames([names EXCEPT ![Captured(l, d)] = i])
                     /\ Continue(p, [F(p) EXCEPT !.at = "keep", !.inode = i, !.text = text[i]])

RemoveKeeps(p) ==
    /\ At(p, "remove", "keep")
    /\ IF names[Release(F(p).l, F(p).dir)] # 0
       THEN Drop(Release(F(p).l, F(p).dir)) /\ Give(p, "changed", F(p).inode, F(p).text)
       ELSE Throw(p, "undo", "failed") /\ UNCHANGED files

RemoveFinishes(p) ==
    /\ At(p, "remove", "finish")
    /\ IF dirs[<<F(p).l, F(p).dir>>] = "released" THEN FinishReleased(p, F(p).l, F(p).dir, "ok")
       ELSE Throw(p, "undo", "failed") /\ UNCHANGED files

\* restoreReleasePath
RemoveUndoes(p) ==
    /\ At(p, "remove", "undo")
    /\ LET captured == Captured(F(p).l, F(p).dir)  release == Release(F(p).l, F(p).dir) IN
       CASE dirs[<<F(p).l, F(p).dir>>] # "open" -> UNCHANGED files
         [] dirs[<<F(p).l, F(p).dir>>] = "open" /\ names[release] # 0 /\ names[captured] = 0 ->
              Rename(release, captured)
         [] dirs[<<F(p).l, F(p).dir>>] = "open" /\ names[release] # 0 /\ names[captured] = names[release]
            /\ ~Crowded(captured) -> Drop(release)
         [] OTHER -> UNCHANGED files
    /\ Return(p, F(p).code)
=============================================================================

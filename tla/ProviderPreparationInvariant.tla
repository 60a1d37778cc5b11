-------------------- MODULE ProviderPreparationInvariant ---------------------
(***************************************************************************)
(* The inductive invariant of ProviderPreparation, as long as the Project  *)
(* is Undisturbed: it had an exclude file, no program has written to a     *)
(* generation that the Host had captured (such a write, while a            *)
(* replacement is being released, is rolled back at one level and leaves   *)
(* the next one behind), and the timer has not fired beside a launch.      *)
(*                                                                         *)
(* IInv has three parts.  Framework: the files are where the directories   *)
(* say, everything the user wrote is in one that a recovery looks at, and  *)
(* the frames on the stacks are of functions that call each other.  TopAt: *)
(* what the function on top of a stack has done of its work, and which     *)
(* results it may be given.  HostOK: the launch and the reconciliation     *)
(* exclude each other at the Project's files.                              *)
(*                                                                         *)
(* AllOwned, inductive beside it, says of every frame and every call where *)
(* the Host's rules may be, and of the Host's records when they and the    *)
(* manifest may be there at all.                                           *)
(***************************************************************************)
EXTENDS ProviderPreparation, Integers

Undisturbed == late = {} /\ ~counts.bare /\ ~counts.beside
CountsOK ==
    counts \in [edits : Nat, launches : Nat, crashes : Nat, others : Nat, bare : BOOLEAN, beside : BOOLEAN]

-----------------------------------------------------------------------------
(* Words for the files and for the frames                                   *)

\* The directory, the captured, the released and the temporary file of level l.
Dir(l) == dirs[<<l, "replace">>]
Cap(l) == names[Captured(l, "replace")]
Rel(l) == names[Release(l, "replace")]
Tmp(l) == names[Temp(l)]
\* What a text says that the public file says too is not lost with it.
PublicLines == IF names[Public] = 0 THEN {} ELSE text[names[Public]].lines
Safe(t) == t.lines \subseteq PublicLines

\* The frame has the text among those it requires.
Covered(f) == \E t \in f.req : f.text.lines \subseteq t.lines
\* The points of a lease's release, and the one that awaits the rollback.
LeaseWork == {"lease", "lease done"}
LeaseDone == "lease done"

\* The names of functions, of the points in them and of results.
Words ==
    {"abandon", "absent", "added", "append", "capture", "captured", "catch", "caught", "changed", "check",
     "claim", "cleaned", "cleanup", "clear", "cleared", "close", "collision", "compare", "derive", "done",
     "drop", "excluded", "fail", "failed", "finalize", "finish", "got", "identify", "inspect",
     "judge", "keep", "launch", "lease", "lease done", "link", "look", "merge", "merged", "mistaken", "no",
     "ok", "open", "other", "place", "publish", "put", "read", "ready", "reconcile", "reconciled", "recover",
     "recovered", "refresh", "refused", "release", "released", "remove", "removed", "replace", "replaced",
     "restore", "restored", "returned", "rollback", "rolled", "ruled", "rules", "stage", "start", "take",
     "tried", "try", "unchanged", "undo", "unroll", "unrolled", "unstage", "wait", "withdraw", "write", "yes"}

FrameType ==
    [fn : Words, at : Words, l : Nat, dir : Words, max : Nat, inode : Nat, text : Texts,
     next : Texts, other : Nat, otherText : Texts, req : SUBSET Texts, code : Words]

-----------------------------------------------------------------------------
(* The frames: where a function may be, with which arguments                *)

OKCapture(f) ==
    f.fn = "capture" => /\ f.at \in {"open", "claim", "take", "read", "refused"}
                        /\ f.dir = "replace" /\ f.max \in {1, 2}
OKRestore(f) ==
    f.fn = "restore" => f.at \in {"link", "drop", "close"} /\ f.dir = "replace"
OKRemove(f) ==
    f.fn = "remove" => /\ f.at \in {"link", "drop", "wait", "compare", "keep", "finish", "undo"}
                       /\ f.dir = "replace" /\ f.max \in {1, 2}
                       /\ f.at = "undo" => f.code \in Errors
                       /\ f.at = "keep" => f.max = 2
OKRelease(f) ==
    f.fn = "release" /\ f.at \notin LeaseWork =>
        f.at \in {"try", "tried", "merged"} /\ f.dir = "replace" /\ f.l < Depth /\ f.max = 2 /\ Covered(f)
OKMerge(f) ==
    f.fn = "merge" => f.at \in {"read", "replaced"} /\ f.dir = "replace" /\ f.l < Depth
OKReplace(f) ==
    f.fn = "replace" => /\ f.at \in {"write", "captured", "restored", "withdraw", "publish", "refresh", "removed",
                                     "finish", "catch", "caught", "recovered", "abandon"}
                        /\ f.inode # 0 /\ f.text.lines \subseteq f.next.lines
                        /\ f.at \in {"catch", "caught", "recovered", "abandon"} => f.code \in Errors
OKUnroll(f) == f.fn = "unroll" => f.at = "start"
OKRecover(f) ==
    f.fn = "recover" => /\ f.at \in {"start", "unrolled", "reconciled", "capture", "got", "merged", "release", "done"}
                        /\ f.at \notin {"start", "unrolled"} => f.l < Depth
                        /\ f.at \in {"merged", "release"} => Covered(f)
OKRules(f) == f.fn = "rules" => f.at \in {"append", "remove", "ready", "look", "tried"}
FunctionNames == {"capture", "restore", "remove", "release", "merge", "replace", "unroll", "recover", "rules",
               "clear", "cleanup", "rollback", "launch", "reconcile"}
FrameOK(f) ==
    /\ f \in FrameType /\ f.l \in Levels /\ f.fn \in FunctionNames
    /\ OKCapture(f) /\ OKRestore(f) /\ OKRemove(f) /\ OKRelease(f) /\ OKMerge(f) /\ OKReplace(f)
    /\ OKUnroll(f) /\ OKRecover(f) /\ OKRules(f)

\* f is the frame of a caller, at the point where it awaits g.
Within(f, g) == f.req \subseteq g.req
CallsOfHost(f, g) ==
    \/ f.fn = "launch" /\ f.at = "excluded" /\ g.fn = "rules"
    \/ f.fn = "launch" /\ f.at = "fail" /\ g.fn = "rollback"
    \/ f.fn = "launch" /\ f.at = "cleaned" /\ g.fn = "cleanup"
    \/ f.fn = "release" /\ f.at = "lease done" /\ g.fn = "rollback"
    \/ f.fn = "reconcile" /\ f.at = "cleaned" /\ g.fn = "cleanup"
    \/ f.fn \in {"cleanup", "rollback"} /\ f.at = "cleared" /\ g.fn = "clear"
    \/ f.fn \in {"cleanup", "rollback"} /\ f.at = "ruled" /\ g.fn = "rules"
    \/ f.fn = "rules" /\ f.at = "ready" /\ g.fn = "recover" /\ g.l = 0
    \/ f.fn = "rules" /\ f.at = "tried" /\ g.fn = "replace" /\ g.l = 0
CallsOfRecovery(f, g) ==
    \/ f.fn = "recover" /\ f.at = "unrolled" /\ g.fn = "unroll" /\ g.l = f.l
    \/ f.fn = "recover" /\ f.at = "reconciled" /\ g.fn = "recover" /\ g.l = f.l + 1
    \/ f.fn = "recover" /\ f.at = "got" /\ g.fn = "capture" /\ g.l = f.l /\ g.max = 2
    \/ f.fn = "recover" /\ f.at = "done" /\ g.fn = "restore" /\ g.l = f.l
    \/ f.fn = "recover" /\ f.at = "done" /\ g.fn = "release" /\ g.at \notin LeaseWork /\ g.l = f.l
    \/ f.fn = "recover" /\ f.at = "merged" /\ g.fn = "merge" /\ g.l = f.l /\ Within(f, g)
CallsOfChange(f, g) ==
    \/ f.fn = "merge" /\ f.at = "replaced" /\ g.fn = "replace" /\ g.l = f.l + 1
    \/ f.fn = "release" /\ f.at = "tried" /\ g.fn = "remove" /\ g.l = f.l /\ g.max = 2
    \/ f.fn = "release" /\ f.at = "merged" /\ g.fn = "merge" /\ g.l = f.l /\ Within(f, g)
    \/ f.fn = "replace" /\ f.at = "captured" /\ g.fn = "capture" /\ g.l = f.l /\ g.max = 1
    \/ f.fn = "replace" /\ f.at \in {"restored", "caught"} /\ g.fn = "restore" /\ g.l = f.l
    \/ f.fn = "replace" /\ f.at = "removed" /\ g.fn = "remove" /\ g.l = f.l /\ g.max = 1
    \/ f.fn = "replace" /\ f.at = "recovered" /\ g.fn = "recover" /\ g.l = f.l
    \/ f.fn = "capture" /\ f.at = "refused" /\ g.fn = "restore" /\ g.l = f.l
Legal(f, g) == CallsOfHost(f, g) \/ CallsOfRecovery(f, g) \/ CallsOfChange(f, g)

-----------------------------------------------------------------------------
(* What a function has found and done of the file when it is at a point of  *)
(* its own, with the result it has been given                               *)

\* The exact generation of a replacement is in its capture directory only.
Sole(l, i, t) ==
    /\ i # 0 /\ i # names[Public] /\ text[i] = t
    /\ Cap(l) \in {0, i} /\ Rel(l) \in {0, i} /\ (Cap(l) = i \/ Rel(l) = i)

\* The temporary file of a replacement is its own until it is published.
FrameTemp(f) ==
    f.fn = "replace" /\ f.at \in {"captured", "publish"} /\ Tmp(f.l) # 0 =>
        /\ f.next.lines \subseteq text[Tmp(f.l)].lines
        /\ \A n \in Names \ {Temp(f.l)} : names[n] # Tmp(f.l)

\* Levels: nothing is left of one; of those beyond; those beneath are at work.
Tidy(l) == Dir(l) = "none" /\ Tmp(l) = 0
Beyond(l) == \A m \in Levels : m > l => Tidy(m)
Beneath(l) == \A m \in Levels : m < l => Dir(m) = "open"

TopCapture(f) ==
    f.fn = "capture" =>
        /\ Beyond(f.l) /\ Beneath(f.l)
        /\ f.at = "claim" => Dir(f.l) = "open"
        /\ f.at = "take" => Dir(f.l) = "open" /\ Cap(f.l) = 0 /\ Rel(f.l) = 0
        /\ f.at = "read" => Rel(f.l) = 0
TopRestore(f) ==
    f.fn = "restore" =>
        /\ Beyond(f.l) /\ Beneath(f.l)
        /\ f.at = "drop" /\ Cap(f.l) # 0 => names[Public] # 0 /\ Safe(text[Cap(f.l)])
TopRemove(f) ==
    f.fn = "remove" =>
        /\ Beyond(f.l) /\ Beneath(f.l)
        /\ f.at \in {"link", "drop", "wait", "compare"} =>
             Safe(f.text) /\ (f.max = 1 => Sole(f.l, f.inode, f.text))
        /\ f.at = "drop" /\ Cap(f.l) # 0 => Rel(f.l) = Cap(f.l)
        /\ f.at \in {"wait", "compare"} => Cap(f.l) = 0
        /\ f.at = "keep" => Cap(f.l) = f.inode /\ Rel(f.l) \in {0, f.inode} /\ f.inode # 0
                            /\ f.text.lines \subseteq text[f.inode].lines
TopRelease(f, r) ==
    f.fn = "release" /\ f.at \notin LeaseWork =>
        /\ Beneath(f.l)
        /\ f.at = "try" => Beyond(f.l) /\ Safe(f.text)
        /\ f.at = "tried" =>
             /\ Beyond(f.l) /\ r.r \in {"ok", "changed"} \cup Errors
             /\ r.r = "ok" => Dir(f.l) = "none"
             /\ r.r = "changed" /\ Cap(f.l) # 0 => r.text.lines \subseteq text[Cap(f.l)].lines
        /\ f.at = "merged" =>
             /\ r.r \in {"ok"} \cup Errors
             /\ r.r = "ok" => Beyond(f.l) /\ \A t \in f.req : Safe(t)
TopMerge(f, r) ==
    f.fn = "merge" =>
        /\ Dir(f.l) = "open" /\ Beneath(f.l)
        /\ f.at = "read" => Beyond(f.l)
        /\ f.at = "replaced" =>
             /\ r.r \in {"yes", "no"} \cup Errors
             /\ r.r \notin Errors => Beyond(f.l)
\* A capture has given the generation that is in the directory.
Got(l, r) == Cap(l) = r.inode /\ Rel(l) = 0 /\ r.inode # 0 /\ r.text.lines \subseteq text[r.inode].lines
TopReplace(f, r) ==
    f.fn = "replace" =>
        /\ Beneath(f.l)
        /\ f.at # "recovered" => Beyond(f.l)
        /\ f.at = "write" => Tidy(f.l)
        /\ f.at = "captured" =>
             /\ r.r \in {"ok", "absent"} \cup Errors
             /\ r.r = "ok" => Sole(f.l, r.inode, r.text) /\ Rel(f.l) = 0
             /\ r.r = "absent" => Dir(f.l) = "none"
        /\ f.at \in {"restored", "caught"} => r.r \in {"ok"} \cup Errors /\ (r.r = "ok" => Dir(f.l) = "none")
        /\ f.at \in {"withdraw", "finish"} => Dir(f.l) = "none"
        /\ f.at \in {"publish", "refresh"} => Sole(f.l, f.inode, f.text) /\ Rel(f.l) = 0
        /\ f.at = "refresh" => Safe(f.text)
        /\ f.at = "removed" => r.r \in {"ok"} \cup Errors /\ (r.r = "ok" => Dir(f.l) = "none")
TopRecover(f, r) ==
    f.fn = "recover" =>
        /\ Beneath(f.l)
        /\ f.at = "unrolled" => r.r = "ok"
        /\ f.at = "reconciled" =>
             /\ Dir(f.l) = "open"
             /\ r.r \in {"ok"} \cup Errors
             /\ r.r = "ok" => Dir(f.l + 1) = "none" /\ Beyond(f.l + 1)
        /\ f.at = "capture" => Beyond(f.l)
        /\ f.at = "got" =>
             /\ Beyond(f.l) /\ r.r \in {"ok", "absent"} \cup Errors
             /\ r.r = "ok" => Got(f.l, r)
        /\ f.at = "merged" =>
             /\ r.r \in {"ok"} \cup Errors
             /\ r.r = "ok" => Beyond(f.l) /\ \A t \in f.req : Safe(t)
        /\ f.at = "release" => Beyond(f.l) /\ Safe(f.text)
        /\ f.at = "done" =>
             /\ r.r \in {"ok"} \cup Errors
             /\ r.r = "ok" => Dir(f.l) = "none" /\ Beyond(f.l)
TopUnroll(f) == f.fn = "unroll" => Beneath(f.l)
AllTidy == \A l \in Levels : Tidy(l)
TopRules(f, r) ==
    f.fn = "rules" =>
        /\ f.at = "ready" =>
             /\ r.r \in {"ok"} \cup Errors
             /\ r.r = "ok" => Dir(0) = "none" /\ Beyond(0)
        /\ f.at = "look" => AllTidy
        /\ f.at = "tried" => r.r \in {"yes", "no"} \cup Errors /\ (r.r \notin Errors => AllTidy)

Top(f, r) ==
    /\ TopCapture(f) /\ TopRestore(f) /\ TopRemove(f) /\ TopRelease(f, r) /\ TopMerge(f, r)
    /\ TopReplace(f, r) /\ TopUnroll(f) /\ TopRecover(f, r) /\ TopRules(f, r)

-----------------------------------------------------------------------------
(* The files                                                                *)

\* The names that a replacement at level l, or one beyond it, publishes to.
Upper(l) == {Public} \cup {Captured(m, "replace") : m \in (l+1)..Depth} \cup {Release(m, "replace") : m \in (l+1)..Depth}
\* A rollback has nothing of its own while no late write calls for one.
NoRoll == \A l \in Levels : /\ dirs[<<l, "rollback">>] = "none"
                            /\ names[Captured(l, "rollback")] = 0 /\ names[Release(l, "rollback")] = 0
\* What a directory holds in each of its states.
DirFiles(l) ==
    /\ Dir(l) = "none" => Cap(l) = 0 /\ Rel(l) = 0
    /\ Dir(l) = "released" => Cap(l) = 0
    /\ Cap(l) # 0 /\ Rel(l) # 0 => Cap(l) = Rel(l)
    /\ Dir(l) # "open" => Beyond(l)
\* A replacement's temporary file is at no other level.
Temps == \A l, m \in Levels : Tmp(l) # 0 /\ Tmp(l) = Tmp(m) => l = m
\* A replacement that is published supersedes the generation it captured.
Exposed(l) == Tmp(l) # 0 /\ \E n \in Upper(l) : names[n] = Tmp(l)
Superseded(l) ==
    Exposed(l) => \A c \in {Captured(l, "replace"), Release(l, "replace")} :
        names[c] # 0 /\ names[c] # Tmp(l) =>
            /\ text[names[c]].lines \subseteq text[Tmp(l)].lines
            /\ \A n \in Upper(l) : names[n] # names[c]
\* Where what the user wrote is: never in a temporary file only.
Places == {Public} \cup {Captured(l, "replace") : l \in Levels}
          \cup {Release(l, "replace") : l \in {m \in Levels : Dir(m) = "open"}}
InPlace(work) == \E n \in Places : names[n] # 0 /\ work \in text[names[n]].lines
Mine(work) == work = "manifest" /\ {manifest, seized} \cap {"user", "edited"} # {}
KeptInv == \A work \in written : InPlace(work) \/ Mine(work)
\* The exclude file has had a line from the first.
Wrote == \E line \in Lines : line \in written
AllDirs == \A l \in Levels : DirFiles(l) /\ Superseded(l)

FileTypes ==
    /\ names \in [Names -> {0} \cup Inodes]
    /\ dirs \in [Levels \X Areas -> {"none", "open", "released"}]
    /\ text \in [Inodes -> Texts]
Placed == FileTypes /\ NoRoll /\ AllDirs /\ Temps
FilesOK == Placed /\ KeptInv

-----------------------------------------------------------------------------
(* The calls and the Host                                                   *)

\* The process is at the Project, or has the journal in its hands.
Busy(p) ==
    stack[p] # <<>> /\ <<Head(stack[p]).fn, Head(stack[p]).at>> \notin {<<"launch", "start">>, <<"reconcile", "start">>}

(***************************************************************************)
(* The reconciliation works where there is neither a lease nor a launch    *)
(* under way, and whoever works, or holds a lease, does so under a journal.*)
(***************************************************************************)
Exclusive ==
    /\ Busy("reconcile") => journal.held
    /\ stack["reconcile"] # <<>> => ~lease.live /\ ~Busy("launch")
    /\ Busy("launch") \/ lease.live => journal.held
    /\ lease.count > 0 \/ lease.retry => lease.live

\* What a process is called with, and the frames above it.
IsBottom(f) == f.fn \in {"launch", "reconcile"} \/ (f.fn = "release" /\ f.at \in LeaseWork)
Linked(s) ==
    \A k \in 1..Len(s) :
        /\ FrameOK(s[k])
        /\ k < Len(s) => Legal(s[k + 1], s[k])
        /\ k = Len(s) => IsBottom(s[k])
ResultType == [r : Words, inode : Nat, text : Texts]
CallTypes == stack \in [Procs -> Seq(FrameType)] /\ res \in [Procs -> ResultType]
FrameTemps == \A p \in Procs : \A k \in 1..Len(stack[p]) : FrameTemp(stack[p][k])

CallsOK == CallTypes /\ \A p \in Procs : Linked(stack[p])
Framework == FilesOK /\ CallsOK /\ FrameTemps
TopAt(p) == stack[p] # <<>> => Top(F(p), R(p))

Bottom(p) == stack[p][Len(stack[p])]
Rooted(p) ==
    stack[p] # <<>> =>
        /\ p = "reconcile" <=> Bottom(p).fn = "reconcile"
        /\ Bottom(p).fn = "release" => lease.live
        /\ Bottom(p).fn = "launch" /\ Bottom(p).at = "cleaned" => lease = NoLease
HostTypes ==
    /\ lease \in [live : BOOLEAN, count : Int, written : BOOLEAN, added : BOOLEAN, retry : BOOLEAN]
    /\ journal \in [held : BOOLEAN, known : BOOLEAN] /\ armed \in BOOLEAN
HostOK == HostTypes /\ Exclusive /\ \A p \in Procs : Rooted(p)

IInv == Framework /\ HostOK /\ \A p \in Procs : TopAt(p)

-----------------------------------------------------------------------------
(* Ownership: which of the Host's rules and manifests may be in the Project  *)

PublicBlocks == IF names[Public] = 0 THEN 0 ELSE text[names[Public]].blocks

NonTemps == Names \ {Temp(l) : l \in Levels}
Blockless == \A n \in NonTemps : names[n] # 0 => text[names[n]].blocks = 0
\* The Project is clean of the rules, of the manifest, of both.
NoRules == AllTidy /\ PublicBlocks = 0
NoManifest == manifest # "host" /\ seized = "none"
Clean == NoRules /\ NoManifest /\ staged = "none"
\* Whether a change of the rules appends or removes them.
Way(f) == IF f.at \in {"append", "remove"} THEN f.at ELSE f.dir
\* The points of a replacement whose text is not the public one.
Unpublished == {"write", "captured", "restored", "withdraw", "publish", "catch", "caught"}

\* What a frame says, wherever it is on its stack.
FileFrame(f) ==
    /\ f.fn = "replace" /\ f.at \in {"captured", "publish"} /\ Tmp(f.l) # 0 => text[Tmp(f.l)].blocks <= f.next.blocks
    /\ f.fn = "replace" /\ f.at \in {"refresh", "removed", "finish"} => PublicBlocks <= f.next.blocks
    /\ f.fn = "rules" =>
         /\ Way(f) \in {"append", "remove"}
         /\ Way(f) = "append" /\ ~lease.live =>
              /\ f.at \in {"append", "ready", "look"} => Blockless
              /\ f.at = "append" => AllTidy
CallFrame(f) ==
    /\ f.fn = "clear" => journal.known \/ staged # "none"
    /\ f.fn = "clear" /\ f.at = "judge" => seized # "none"
    /\ f.fn = "cleanup" => ~lease.live
    /\ f.fn = "cleanup" /\ f.at = "derive" => (f.other = 1 <=> journal.known)
    /\ f.fn = "rollback" /\ f.at = "cleared" => lease.written
    /\ f.fn = "cleanup" /\ f.at = "unstage" => NoManifest
    /\ f.fn = "rollback" /\ f.at = "start" /\ ~lease.written => NoManifest
    /\ f.fn = "rollback" /\ f.at = "finalize" => NoManifest
    /\ f.fn \in {"cleanup", "rollback"} /\ f.at = "ruled" => NoManifest /\ staged = "none"
LaunchFrame(f) ==
    /\ f.fn = "launch" /\ f.at \in {"start", "stage", "publish", "identify", "finalize", "undo"} => f.other # 1
    /\ f.fn = "launch" /\ f.at = "start" => f.other # 2
    /\ f.fn = "launch" /\ f.at # "start" =>
        /\ f.other = 1 <=> lease.live
        /\ f.other # 1 =>
           /\ f.other = 2 <=> journal.known
           /\ f.at \in {"inspect", "excluded", "stage", "publish"} => NoManifest /\ ~lease.written
           /\ f.at = "inspect" => NoRules
           /\ f.at \in {"stage", "publish", "identify", "finalize", "check"} => lease.added
           /\ f.at \in {"identify", "finalize", "check"} => lease.written
           /\ f.at \in {"finalize", "check"} => journal.known
           /\ f.at = "undo" /\ ~lease.written => NoManifest
FrameOwned(f) == FileFrame(f) /\ CallFrame(f) /\ LaunchFrame(f)

\* What a caller f and its callee g say.
LinkOwned(f, g) ==
    /\ f.fn \in {"cleanup", "rollback"} /\ g.fn = "rules" => Way(g) = "remove"
    /\ f.fn = "launch" /\ g.fn = "rules" => Way(g) = "append"
    /\ f.fn = "launch" /\ g.fn = "rollback" => f.other # 1
    /\ f.fn = "rules" /\ g.fn = "replace" => g.next.blocks = IF Way(f) = "append" THEN 1 ELSE 0
    /\ f.fn = "rules" /\ Way(f) = "append" /\ ~lease.live =>
         /\ g.fn = "recover" => AllTidy /\ g.at \in {"start", "unrolled"}
         /\ g.fn = "replace" /\ g.at \in Unpublished => Blockless

\* What the frame on top of its stack says, with the result it has been given.
TopOwned(f, r) ==
    /\ f.fn = "capture" /\ f.max = 1 =>
         /\ f.at = "open" => Dir(f.l) = "none"
         /\ f.at # "claim" /\ (f.at = "read" => PublicBlocks = 0)
    /\ f.fn = "replace" /\ f.at = "captured" /\ r.r \in {"ok", "absent"} => PublicBlocks = 0
    /\ f.fn = "replace" /\ f.at = "publish" => PublicBlocks = 0
    /\ f.fn = "rules" /\ f.at = "tried" /\ Way(f) = "remove" /\ r.r = "yes" => PublicBlocks = 0
    /\ f.fn = "rules" /\ f.at = "tried" /\ Way(f) = "append" /\ ~lease.live /\ r.r = "no" => Blockless
    /\ f.fn \in {"cleanup", "rollback"} /\ f.at = "cleared" => r.r \in {"ok"} \cup Errors /\ (r.r = "ok" => NoManifest)
    /\ f.fn \in {"cleanup", "rollback"} /\ f.at = "ruled" /\ r.r \notin Errors => NoRules
    /\ f.fn \in {"launch", "reconcile"} /\ f.at = "cleaned" /\ r.r \notin Errors => Clean
    /\ f.fn = "release" /\ f.at = LeaseDone /\ r.r \notin Errors => Clean
    /\ f.fn = "launch" /\ f.at = "excluded" /\ ~lease.live => r.r \in Errors \cup {"added"}

\* What the Host retains says what there may be to clean up.
Released == At("launch", "release", "lease done") /\ R("launch").r \notin Errors
HostOwned ==
    /\ journal.held /\ ~journal.known /\ staged = "none" => NoManifest
    /\ seized # "none" => manifest # "host"
    /\ lease.written => journal.known \/ At("launch", "launch", "identify")
    /\ lease.live => journal.known /\ (lease.added \/ Released)
    /\ lease.live /\ ~lease.written => NoManifest
    /\ ~Busy("launch") /\ ~lease.live => ~lease.written
    /\ ~journal.held => Clean
Owned(p) ==
    /\ \A k \in 1..Len(stack[p]) : FrameOwned(stack[p][k])
    /\ \A k \in 1..(Len(stack[p]) - 1) : LinkOwned(stack[p][k + 1], stack[p][k])
    /\ stack[p] # <<>> => TopOwned(F(p), R(p))
AllOwned == (\A p \in Procs : Owned(p)) /\ HostOwned
=============================================================================

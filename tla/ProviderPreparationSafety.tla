---------------------- MODULE ProviderPreparationSafety ----------------------
(***************************************************************************)
(* Theorems of ProviderPreparation, for every depth of directories and any *)
(* number of files, edits, launches and crashes.                           *)
(*                                                                         *)
(* The functions that change the file come first, an action at a time:     *)
(* each keeps Framework and TopAt of its own process (...Keeps), by        *)
(* lemmas on what an operation does to the files and on what a call, a     *)
(* return and a step do to a stack.  Then the two processes beside each    *)
(* other, the actions of the Host (...Holds), and what the user writes.    *)
(***************************************************************************)
EXTENDS ProviderPreparationInvariant, FiniteSetTheorems, SequenceTheorems, TLAPS

LEMMA NameFacts ==
  /\ Public \in Names
  /\ \A l \in Levels : Temp(l) \in Names /\ Temp(l) # Public
  /\ \A l \in Levels, d \in Areas :
       /\ Captured(l, d) \in Names /\ Release(l, d) \in Names
       /\ Captured(l, d) # Public /\ Release(l, d) # Public
       /\ \A m \in Levels : Captured(l, d) # Temp(m) /\ Release(l, d) # Temp(m)
       /\ \A m \in Levels, e \in Areas : Captured(l, d) # Release(m, e)
       /\ \A m \in Levels, e \in Areas : Captured(l, d) = Captured(m, e) => l = m /\ d = e
       /\ \A m \in Levels, e \in Areas : Release(l, d) = Release(m, e) => l = m /\ d = e
  /\ \A l, m \in Levels : Temp(l) = Temp(m) => l = m
  /\ "replace" \in Areas /\ "rollback" \in Areas
  /\ \A n \in Names : \/ n = Public \/ \E l \in Levels : n = Temp(l)
                      \/ \E l \in Levels, d \in Areas : n = Captured(l, d) \/ n = Release(l, d)
  BY DEF Names, Public, Temp, Captured, Release, Areas

LEMMA WordFacts ==
  /\ "abandon" \in Words /\ "absent" \in Words /\ "added" \in Words /\ "append" \in Words
  /\ "capture" \in Words /\ "captured" \in Words /\ "catch" \in Words /\ "caught" \in Words
  /\ "changed" \in Words /\ "check" \in Words /\ "claim" \in Words /\ "cleaned" \in Words
  /\ "cleanup" \in Words /\ "clear" \in Words /\ "cleared" \in Words /\ "close" \in Words
  /\ "collision" \in Words /\ "compare" \in Words /\ "derive" \in Words /\ "done" \in Words
  /\ "drop" \in Words /\ "excluded" \in Words /\ "fail" \in Words /\ "failed" \in Words
  /\ "finalize" \in Words /\ "finish" \in Words /\ "got" \in Words
  /\ "identify" \in Words /\ "inspect" \in Words /\ "judge" \in Words /\ "keep" \in Words
  /\ "launch" \in Words /\ "lease" \in Words /\ "lease done" \in Words /\ "link" \in Words
  /\ "look" \in Words /\ "merge" \in Words /\ "merged" \in Words /\ "mistaken" \in Words
  /\ "no" \in Words /\ "ok" \in Words /\ "open" \in Words /\ "other" \in Words
  /\ "place" \in Words /\ "publish" \in Words /\ "put" \in Words /\ "read" \in Words
  /\ "ready" \in Words /\ "reconcile" \in Words /\ "reconciled" \in Words /\ "recover" \in Words
  /\ "recovered" \in Words /\ "refresh" \in Words /\ "refused" \in Words /\ "release" \in Words
  /\ "released" \in Words /\ "remove" \in Words /\ "removed" \in Words /\ "replace" \in Words
  /\ "replaced" \in Words /\ "restore" \in Words /\ "restored" \in Words /\ "returned" \in Words
  /\ "rollback" \in Words /\ "rolled" \in Words /\ "ruled" \in Words /\ "rules" \in Words
  /\ "stage" \in Words /\ "start" \in Words /\ "take" \in Words /\ "tried" \in Words
  /\ "try" \in Words /\ "unchanged" \in Words /\ "undo" \in Words /\ "unroll" \in Words
  /\ "unrolled" \in Words /\ "unstage" \in Words /\ "wait" \in Words /\ "withdraw" \in Words
  /\ "write" \in Words /\ "yes" \in Words
<1>1. /\ "abandon" \in Words /\ "absent" \in Words /\ "added" \in Words /\ "append" \in Words
      /\ "capture" \in Words /\ "captured" \in Words /\ "catch" \in Words /\ "caught" \in Words
      /\ "changed" \in Words /\ "check" \in Words /\ "claim" \in Words /\ "cleaned" \in Words
      /\ "cleanup" \in Words /\ "clear" \in Words /\ "cleared" \in Words /\ "close" \in Words
  BY DEF Words
<1>2. /\ "collision" \in Words /\ "compare" \in Words /\ "derive" \in Words /\ "done" \in Words
      /\ "drop" \in Words /\ "excluded" \in Words /\ "fail" \in Words /\ "failed" \in Words
      /\ "finalize" \in Words /\ "finish" \in Words /\ "got" \in Words
      /\ "identify" \in Words /\ "inspect" \in Words /\ "judge" \in Words /\ "keep" \in Words
  BY DEF Words
<1>3. /\ "launch" \in Words /\ "lease" \in Words /\ "lease done" \in Words /\ "link" \in Words
      /\ "look" \in Words /\ "merge" \in Words /\ "merged" \in Words /\ "mistaken" \in Words
      /\ "no" \in Words /\ "ok" \in Words /\ "open" \in Words /\ "other" \in Words
      /\ "place" \in Words /\ "publish" \in Words /\ "put" \in Words /\ "read" \in Words
  BY DEF Words
<1>4. /\ "ready" \in Words /\ "reconcile" \in Words /\ "reconciled" \in Words /\ "recover" \in Words
      /\ "recovered" \in Words /\ "refresh" \in Words /\ "refused" \in Words /\ "release" \in Words
      /\ "released" \in Words /\ "remove" \in Words /\ "removed" \in Words /\ "replace" \in Words
      /\ "replaced" \in Words /\ "restore" \in Words /\ "restored" \in Words /\ "returned" \in Words
  BY DEF Words
<1>5. /\ "rollback" \in Words /\ "rolled" \in Words /\ "ruled" \in Words /\ "rules" \in Words
      /\ "stage" \in Words /\ "start" \in Words /\ "take" \in Words /\ "tried" \in Words
      /\ "try" \in Words /\ "unchanged" \in Words /\ "undo" \in Words /\ "unroll" \in Words
      /\ "unrolled" \in Words /\ "unstage" \in Words /\ "wait" \in Words /\ "withdraw" \in Words
  BY DEF Words
<1>6. /\ "write" \in Words /\ "yes" \in Words
  BY DEF Words
<1> QED
  BY <1>1, <1>2, <1>3, <1>4, <1>5, <1>6

LEMMA FrameFacts ==
  ASSUME NEW f \in FrameType, NEW a \in Words
  PROVE  LET g == [f EXCEPT !.at = a] IN
         /\ g \in FrameType /\ g.at = a /\ g.fn = f.fn /\ g.l = f.l /\ g.dir = f.dir /\ g.max = f.max
         /\ g.inode = f.inode /\ g.text = f.text /\ g.next = f.next /\ g.req = f.req /\ g.code = f.code
  BY DEF FrameType

Resumes(f, g) ==
    /\ g.fn = f.fn /\ g.l = f.l /\ g.max = f.max /\ (f.fn = "merge" => Within(f, g))
    /\ f.fn = "release" => (g.at \in LeaseWork <=> f.at \in LeaseWork)

LEMMA ResumedLink ==
  ASSUME NEW c, NEW f, NEW g, Resumes(f, g), Legal(c, f)
  PROVE  Legal(c, g)
<1>1. f.fn = "merge" /\ Within(c, f) => Within(c, g)
  BY DEF Resumes, Within
<1>2. g.fn = f.fn /\ g.l = f.l /\ g.max = f.max /\ (f.fn = "release" /\ f.at \notin LeaseWork => g.at \notin LeaseWork)
  BY DEF Resumes
<1>3. CASE CallsOfHost(c, f)
  BY <1>2, <1>3 DEF CallsOfHost, Legal
<1>4. CASE CallsOfRecovery(c, f)
  BY <1>1, <1>2, <1>4 DEF CallsOfRecovery, Legal
<1>5. CASE CallsOfChange(c, f)
  BY <1>1, <1>2, <1>5 DEF CallsOfChange, Legal
<1> QED
  BY <1>3, <1>4, <1>5 DEF Legal

LEMMA ContinuedLink ==
  ASSUME NEW s \in Seq(FrameType), s # <<>>, Linked(s), NEW g \in FrameType, FrameOK(g), Resumes(Head(s), g)
  PROVE  LET t == <<g>> \o Tail(s) IN
         /\ t \in Seq(FrameType) /\ Linked(t) /\ t # <<>> /\ Head(t) = g /\ Len(t) = Len(s)
         /\ \A k \in 2..Len(t) : t[k] = s[k]
<1> DEFINE t == <<g>> \o Tail(s)
<1>1. /\ t \in Seq(FrameType) /\ Len(t) = Len(s) /\ t[1] = g /\ Len(s) \in Nat /\ Len(s) > 0
      /\ \A k \in 2..Len(t) : t[k] = s[k]
      /\ s[1] = Head(s)
  OBVIOUS
<1>2. ASSUME NEW k \in 1..Len(t)
      PROVE  /\ FrameOK(t[k])
             /\ k < Len(t) => Legal(t[k + 1], t[k])
             /\ k = Len(t) => IsBottom(t[k])
  <2> HIDE DEF t
  <2>1. CASE k = 1
    <3>1. Len(t) > 1 => t[2] = s[2] /\ Legal(s[2], s[1])
      BY <1>1 DEF Linked
    <3>2. Len(t) = 1 => IsBottom(g)
      BY <1>1 DEF Linked, IsBottom, Resumes
    <3> QED
      BY <2>1, <1>1, <3>1, <3>2, ResumedLink
  <2>2. CASE k > 1
    BY <2>2, <1>1 DEF Linked
  <2> QED
    BY <2>1, <2>2
<1>3. Linked(t)
  <2> HIDE DEF t
  <2> QED
    BY <1>2 DEF Linked
<1> QED
  BY <1>1, <1>3

LEMMA EnteredLink ==
  ASSUME NEW s \in Seq(FrameType), s # <<>>, Linked(s), NEW f \in FrameType, FrameOK(f), Resumes(Head(s), f),
         NEW g \in FrameType, FrameOK(g), Legal(f, g)
  PROVE  LET t == <<g, f>> \o Tail(s) IN
         /\ t \in Seq(FrameType) /\ Linked(t) /\ t # <<>> /\ Head(t) = g /\ Len(t) = Len(s) + 1
         /\ t[2] = f /\ \A k \in 3..Len(t) : t[k] = s[k - 1]
<1> DEFINE t == <<g, f>> \o Tail(s)
           u == <<f>> \o Tail(s)
<1>1. /\ t \in Seq(FrameType) /\ Len(t) = Len(s) + 1 /\ t[1] = g /\ t[2] = f /\ Len(s) \in Nat /\ Len(s) > 0
      /\ \A k \in 3..Len(t) : t[k] = s[k - 1]
      /\ \A k \in 2..Len(t) : t[k] = u[k - 1]
  OBVIOUS
<1>2. Linked(u) /\ Len(u) = Len(s)
  BY ContinuedLink
<1>3. ASSUME NEW k \in 1..Len(t)
      PROVE  /\ FrameOK(t[k])
             /\ k < Len(t) => Legal(t[k + 1], t[k])
             /\ k = Len(t) => IsBottom(t[k])
  <2> HIDE DEF t, u
  <2>1. CASE k = 1
    BY <2>1, <1>1
  <2>2. CASE k > 1
    <3> DEFINE j == k - 1
    <3>1. j \in 1..Len(u) /\ t[k] = u[j] /\ (k < Len(t) => t[k + 1] = u[j + 1] /\ j < Len(u))
          /\ (k = Len(t) => j = Len(u))
      BY <2>2, <1>1, <1>2
    <3> HIDE DEF j
    <3> QED
      BY <3>1, <1>2 DEF Linked
  <2> QED
    BY <2>1, <2>2
<1>4. Linked(t)
  <2> HIDE DEF t
  <2> QED
    BY <1>3 DEF Linked
<1> QED
  BY <1>1, <1>4

LEMMA ReturnedLink ==
  ASSUME NEW s \in Seq(FrameType), s # <<>>, Linked(s)
  PROVE  LET t == <<>> \o Tail(s) IN
         /\ t \in Seq(FrameType) /\ Linked(t) /\ Len(t) = Len(s) - 1
         /\ \A k \in 1..Len(t) : t[k] = s[k + 1]
         /\ ~IsBottom(Head(s)) => t # <<>> /\ Head(t) = s[2] /\ Head(t) \in FrameType
                                  /\ FrameOK(Head(t)) /\ Legal(Head(t), Head(s))
<1> DEFINE t == <<>> \o Tail(s)
<1>1. /\ t \in Seq(FrameType) /\ Len(t) = Len(s) - 1 /\ Len(s) \in Nat /\ Len(s) > 0
      /\ \A k \in 1..Len(t) : t[k] = s[k + 1]
      /\ Head(s) = s[1]
  OBVIOUS
<1>2. Linked(t)
  <2> HIDE DEF t
  <2> QED
    BY <1>1 DEF Linked
<1>3. FrameOK(s[1]) /\ (Len(s) = 1 => IsBottom(s[1])) /\ (Len(s) > 1 => Legal(s[2], s[1]) /\ FrameOK(s[2]))
  <2>1. 1 \in 1..Len(s) /\ (Len(s) > 1 => 2 \in 1..Len(s) /\ 1 + 1 = 2)
    BY <1>1
  <2> HIDE DEF t
  <2> QED
    BY <2>1 DEF Linked
<1>4. Len(s) > 1 => t # <<>> /\ Head(t) = s[2] /\ s[2] \in FrameType
  <2> SUFFICES ASSUME Len(s) > 1
               PROVE  t # <<>> /\ Head(t) = s[2] /\ s[2] \in FrameType
    OBVIOUS
  <2>1. Len(t) > 0 /\ t[1] = s[2]
    BY <1>1
  <2>2. t # <<>> /\ Head(t) = t[1]
    <3> HIDE DEF t
    <3> QED
      BY <2>1, <1>1
  <2> QED
    BY <1>1, <2>1, <2>2
<1>5. ~IsBottom(Head(s)) => Len(s) > 1
  BY <1>1, <1>3
<1> HIDE DEF t
<1>6. ~IsBottom(Head(s)) => t # <<>> /\ Head(t) = s[2] /\ Head(t) \in FrameType
                            /\ FrameOK(Head(t)) /\ Legal(Head(t), Head(s))
  BY <1>1, <1>3, <1>4, <1>5
<1> QED
  BY <1>1, <1>2, <1>6 DEF t

-----------------------------------------------------------------------------
(* What the operations on the files keep *)

\* No temporary name and no new file is made.
Shuffled ==
    /\ text' = text
    /\ \A l \in Levels : Tmp(l)' \in {0, Tmp(l)}
    /\ \A n \in Names : names'[n] = 0 \/ names'[n] = names[n] \/ \E m \in NonTemps : names'[n] = names[m]

LEMMA InodeFacts == 0 \notin Inodes /\ Inodes \subseteq Nat
  BY ProjectFileAssumption DEF Inodes

LEMMA ShuffledTemps ==
  ASSUME FileTypes, Shuffled, NEW f, f.l \in Levels, FrameTemp(f), Temps
  PROVE  FrameTemp(f)'
<1> SUFFICES ASSUME f.fn = "replace", f.at \in {"captured", "publish"}, Tmp(f.l)' # 0
             PROVE  /\ f.next.lines \subseteq text'[Tmp(f.l)'].lines
                    /\ \A n \in Names \ {Temp(f.l)} : names'[n] # Tmp(f.l)'
  BY DEF FrameTemp, Tmp
<1>1. Tmp(f.l)' = Tmp(f.l) /\ Tmp(f.l) # 0
  BY DEF Shuffled
<1>2. f.next.lines \subseteq text[Tmp(f.l)].lines /\ \A n \in Names \ {Temp(f.l)} : names[n] # Tmp(f.l)
  BY <1>1 DEF FrameTemp
<1>3. ASSUME NEW n \in Names \ {Temp(f.l)}
      PROVE  names'[n] # Tmp(f.l)'
  BY <1>1, <1>2 DEF Shuffled, NonTemps
<1> QED
  BY <1>1, <1>2, <1>3 DEF Shuffled

LEMMA KeptMoves ==
  ASSUME KeptInv, UNCHANGED <<text, written, manifest, seized>>,
         \A n \in Places : names[n] # 0 /\ text[names[n]].lines # {} =>
             \E m \in Places' : names'[m] # 0 /\ text[names[n]].lines \subseteq text[names'[m]].lines
  PROVE  KeptInv'
<1> SUFFICES ASSUME NEW work \in written, InPlace(work)
             PROVE  InPlace(work)'
  BY DEF KeptInv, Mine
<1>1. PICK n \in Places : names[n] # 0 /\ work \in text[names[n]].lines
  BY DEF InPlace
<1>2. PICK m \in Places' : names'[m] # 0 /\ text[names[n]].lines \subseteq text[names'[m]].lines
  BY <1>1
<1> QED
  BY <1>1, <1>2 DEF InPlace

LEMMA SupersededMoves ==
  ASSUME NEW l \in Levels, Superseded(l), text' = text, Tmp(l)' = Tmp(l),
         Cap(l)' \in {0, Cap(l), Rel(l)}, Rel(l)' \in {0, Cap(l), Rel(l)},
         \A n \in Upper(l) : names'[n] = 0 \/ \E o \in Upper(l) : names'[n] = names[o]
  PROVE  Superseded(l)'
<1> SUFFICES ASSUME Exposed(l)', NEW c \in {Captured(l, "replace"), Release(l, "replace")},
                    names'[c] # 0, names'[c] # Tmp(l)'
             PROVE  /\ text'[names'[c]].lines \subseteq text'[Tmp(l)'].lines
                    /\ \A n \in Upper(l) : names'[n] # names'[c]
  BY DEF Superseded, Upper
<1>1. Exposed(l)
  BY DEF Exposed, Upper, Tmp
<1>2. PICK b \in {Captured(l, "replace"), Release(l, "replace")} : names'[c] = names[b]
  BY DEF Cap, Rel
<1>3. /\ text[names[b]].lines \subseteq text[Tmp(l)].lines
      /\ \A n \in Upper(l) : names[n] # names[b]
  BY <1>1, <1>2 DEF Superseded
<1> QED
  BY <1>2, <1>3

Aside == UNCHANGED <<written, manifest, seized>>

LEMMA SetNameFacts ==
  ASSUME FileTypes, NEW n \in Names, NEW i \in {0} \cup Inodes, SetNames([names EXCEPT ![n] = i])
  PROVE  /\ FileTypes' /\ dirs' = dirs /\ text' = text
         /\ names'[n] = i /\ \A m \in Names : m # n => names'[m] = names[m]
  BY DEF FileTypes, SetNames

LEMMA LevelView ==
  ASSUME NEW n \in Names, \A m \in Names : m # n => names'[m] = names[m]
  PROVE  /\ n # Public => names'[Public] = names[Public]
         /\ \A l \in Levels : /\ n # Temp(l) => Tmp(l)' = Tmp(l)
                              /\ n # Captured(l, "replace") => Cap(l)' = Cap(l)
                              /\ n # Release(l, "replace") => Rel(l)' = Rel(l)
                              /\ n # Captured(l, "rollback") => names'[Captured(l, "rollback")] = names[Captured(l, "rollback")]
                              /\ n # Release(l, "rollback") => names'[Release(l, "rollback")] = names[Release(l, "rollback")]
  BY NameFacts DEF Tmp, Cap, Rel

LEMMA DirView == dirs' = dirs => \A l \in Levels : Dir(l)' = Dir(l)
  BY DEF Dir

LEMMA PlacesFacts ==
  /\ \A n \in Places : n \in Names /\ \A l \in Levels : n # Temp(l)
  /\ (\A l \in Levels : Dir(l)' = Dir(l)) => Places' = Places
<1>1. ASSUME NEW n \in Places
      PROVE  n \in Names /\ \A l \in Levels : n # Temp(l)
  BY NameFacts DEF Places
<1>2. ASSUME \A l \in Levels : Dir(l)' = Dir(l)
      PROVE  Places' = Places
  <2>1. {m \in Levels : Dir(m)' = "open"} = {m \in Levels : Dir(m) = "open"}
    BY <1>2
  <2> QED
    BY <2>1 DEF Places
<1> QED
  BY <1>1, <1>2

LEMMA BeyondKept ==
  ASSUME NEW l, Beyond(l), \A m \in Levels : m > l => Dir(m)' = Dir(m) /\ Tmp(m)' \in {0, Tmp(m)}
  PROVE  Beyond(l)'
  BY DEF Beyond, Tidy

LEMMA DropTemp ==
  ASSUME FilesOK, NEW l \in Levels, Drop(Temp(l)), Aside
  PROVE  /\ FilesOK' /\ Shuffled /\ dirs' = dirs /\ text' = text
         /\ Tmp(l)' = 0 /\ \A m \in Levels : m # l => Tmp(m)' = Tmp(m)
         /\ names'[Public] = names[Public]
         /\ \A m \in Levels : Cap(m)' = Cap(m) /\ Rel(m)' = Rel(m)
<1> USE NameFacts
<1>1. /\ FileTypes' /\ dirs' = dirs /\ text' = text
      /\ names'[Temp(l)] = 0 /\ \A m \in Names : m # Temp(l) => names'[m] = names[m]
  BY SetNameFacts DEF FilesOK, Placed, Drop
<1>2. /\ Tmp(l)' = 0 /\ \A m \in Levels : m # l => Tmp(m)' = Tmp(m)
      /\ names'[Public] = names[Public]
      /\ \A m \in Levels : Cap(m)' = Cap(m) /\ Rel(m)' = Rel(m)
      /\ \A m \in Levels : names'[Captured(m, "rollback")] = names[Captured(m, "rollback")]
                           /\ names'[Release(m, "rollback")] = names[Release(m, "rollback")]
  BY <1>1, LevelView DEF Tmp
<1>3. Shuffled
  BY <1>1, <1>2 DEF Shuffled, NonTemps
<1>4. NoRoll' /\ Temps'
  BY <1>1, <1>2 DEF FilesOK, Placed, NoRoll, Temps
<1>5. ASSUME NEW m \in Levels
      PROVE  DirFiles(m)'
  <2>1. Beyond(m) => Beyond(m)'
    BY <1>1, <1>2, BeyondKept, DirView
  <2> QED
    BY <2>1, <1>1, <1>2, DirView DEF FilesOK, Placed, AllDirs, DirFiles
<1>6. ASSUME NEW m \in Levels
      PROVE  Superseded(m)'
  <2>1. CASE m = l
    BY <2>1, <1>2 DEF Superseded, Exposed
  <2>2. CASE m # l
    <3>1. \A n \in Upper(m) : names'[n] = names[n]
      BY <1>1, <1>2 DEF Upper, Levels
    <3> QED
      BY <2>2, <3>1, <1>1, <1>2, SupersededMoves DEF FilesOK, Placed, AllDirs
  <2> QED
    BY <2>1, <2>2
<1>7. KeptInv'
  <2>1. \A n \in Places : n \in Places' /\ names'[n] = names[n]
    BY <1>1, PlacesFacts, DirView
  <2> QED
    BY <2>1, <1>1, KeptMoves DEF FilesOK, Aside
<1> QED
  BY <1>1, <1>2, <1>3, <1>4, <1>5, <1>6, <1>7 DEF FilesOK, Placed, AllDirs

\* An operation on the public name and the two names of a capture at level l.
LEMMA LevelOperation ==
  ASSUME FilesOK, Aside, NEW l \in Levels, FileTypes', dirs' = dirs, text' = text,
         \A n \in Names \ {Public, Captured(l, "replace"), Release(l, "replace")} : names'[n] = names[n],
         names'[Public] \in {0, names[Public], Cap(l), Rel(l)},
         Cap(l)' \in {0, names[Public], Cap(l), Rel(l)}, Rel(l)' \in {0, names[Public], Cap(l), Rel(l)},
         names'[Public] \in {0, names[Public]} \/ Beyond(l),
         Dir(l) = "none" => Cap(l)' = 0 /\ Rel(l)' = 0,
         Dir(l) = "released" => Cap(l)' = 0,
         Cap(l)' # 0 /\ Rel(l)' # 0 => Cap(l)' = Rel(l)',
         Superseded(l)',
         \A i \in {names[Public], Cap(l)} \cup (IF Dir(l) = "open" THEN {Rel(l)} ELSE {}) : i # 0 =>
             \E j \in {names'[Public], Cap(l)'} \cup (IF Dir(l) = "open" THEN {Rel(l)'} ELSE {}) :
                 j # 0 /\ text[i].lines \subseteq text[j].lines
  PROVE  /\ FilesOK' /\ Shuffled
         /\ \A m \in Levels : Tmp(m)' = Tmp(m) /\ Dir(m)' = Dir(m)
         /\ \A m \in Levels : m # l => Cap(m)' = Cap(m) /\ Rel(m)' = Rel(m)
<1> USE NameFacts
<1>1. /\ \A m \in Levels : Tmp(m)' = Tmp(m) /\ Dir(m)' = Dir(m)
      /\ \A m \in Levels : m # l => Cap(m)' = Cap(m) /\ Rel(m)' = Rel(m)
  BY DirView DEF Tmp, Cap, Rel
<1>2. Shuffled
  <2>1. ASSUME NEW n \in Names
        PROVE  names'[n] = 0 \/ names'[n] = names[n] \/ \E m \in NonTemps : names'[n] = names[m]
    <3>1. {Public, Captured(l, "replace"), Release(l, "replace")} \subseteq NonTemps
      BY DEF NonTemps
    <3> QED
      BY <3>1 DEF Cap, Rel
  <2> QED
    BY <2>1, <1>1 DEF Shuffled
<1>3. NoRoll' /\ Temps'
  BY <1>1 DEF FilesOK, Placed, NoRoll, Temps
<1>4. ASSUME NEW m \in Levels
      PROVE  DirFiles(m)'
  <2>1. Beyond(m) => Beyond(m)'
    BY <1>1, BeyondKept
  <2> QED
    BY <2>1, <1>1 DEF FilesOK, Placed, AllDirs, DirFiles
<1>5. ASSUME NEW m \in Levels
      PROVE  Superseded(m)'
  <2>1. CASE m < l
    <3>1. Public \in Upper(m) /\ Captured(l, "replace") \in Upper(m) /\ Release(l, "replace") \in Upper(m)
          /\ \A n \in Upper(m) : n \in Names
      BY <2>1 DEF Upper, Levels
    <3>2. \A n \in Upper(m) : names'[n] = 0 \/ \E o \in Upper(m) : names'[n] = names[o]
      BY <3>1 DEF Cap, Rel
    <3> QED
      BY <2>1, <3>2, <1>1, SupersededMoves DEF FilesOK, Placed, AllDirs, Levels
  <2>2. CASE m > l
    <3>1. CASE names'[Public] \in {0, names[Public]}
      <4>1. \A n \in Upper(m) : n \in Names /\ n # Captured(l, "replace") /\ n # Release(l, "replace")
        BY <2>2 DEF Upper, Levels
      <4>2. \A n \in Upper(m) : names'[n] = 0 \/ names'[n] = names[n]
        BY <4>1, <3>1
      <4>3. m # l
        BY <2>2 DEF Levels
      <4> QED
        BY <4>2, <4>3, <1>1, SupersededMoves DEF FilesOK, Placed, AllDirs
    <3>2. CASE Beyond(l)
      BY <3>2, <2>2, <1>1 DEF Beyond, Tidy, Superseded, Exposed
    <3> QED
      BY <3>1, <3>2
  <2> QED
    BY <2>1, <2>2 DEF Levels
<1>6. KeptInv'
  <2>1. Places' = Places /\ \A n \in Places : n \in Names
    BY <1>1, PlacesFacts
  <2>2. /\ Public \in Places /\ Captured(l, "replace") \in Places
        /\ Dir(l) = "open" => Release(l, "replace") \in Places
        /\ Dir(l) # "open" => Release(l, "replace") \notin Places
    BY DEF Places
  <2>3. ASSUME NEW n \in Places, names[n] # 0
        PROVE  \E m \in Places : names'[m] # 0 /\ text[names[n]].lines \subseteq text[names'[m]].lines
    <3>1. CASE n \notin {Public, Captured(l, "replace"), Release(l, "replace")}
      BY <3>1, <2>1, <2>3
    <3>2. CASE n \in {Public, Captured(l, "replace"), Release(l, "replace")}
      <4>1. names[n] \in {names[Public], Cap(l)} \cup (IF Dir(l) = "open" THEN {Rel(l)} ELSE {})
        BY <3>2, <2>2 DEF Cap, Rel
      <4>2. PICK j \in {names'[Public], Cap(l)'} \cup (IF Dir(l) = "open" THEN {Rel(l)'} ELSE {}) :
                 j # 0 /\ text[names[n]].lines \subseteq text[j].lines
        BY <4>1, <2>3
      <4> QED
        BY <4>2, <2>2 DEF Cap, Rel
    <3> QED
      BY <3>1, <3>2
  <2> QED
    BY <2>1, <2>3, KeptMoves DEF FilesOK, Aside
<1> QED
  BY <1>1, <1>2, <1>3, <1>4, <1>5, <1>6 DEF FilesOK, Placed, AllDirs

\* What every operation at level l leaves: the other levels.
Elsewhere(l) ==
    /\ FilesOK' /\ Shuffled /\ FileTypes' /\ text' = text
    /\ \A m \in Levels : Tmp(m)' = Tmp(m) /\ Dir(m)' = Dir(m)
    /\ \A m \in Levels : m # l => Cap(m)' = Cap(m) /\ Rel(m)' = Rel(m)

LEMMA UpperNames ==
  ASSUME NEW l \in Levels
  PROVE  \A n \in Upper(l) : n \in Names /\ n # Captured(l, "replace") /\ n # Release(l, "replace")
                             /\ \A m \in Levels : n # Temp(m)
  BY NameFacts DEF Upper, Levels

LEMMA PrivateOperation ==
  ASSUME FilesOK, NEW l \in Levels, text' = text, Tmp(l)' = Tmp(l),
         Cap(l)' \in {0, Cap(l), Rel(l)}, Rel(l)' \in {0, Cap(l), Rel(l)},
         \A n \in Names \ {Captured(l, "replace"), Release(l, "replace")} : names'[n] = names[n]
  PROVE  Superseded(l)'
<1>1. \A n \in Upper(l) : names'[n] = names[n]
  BY UpperNames
<1> QED
  BY <1>1, SupersededMoves DEF FilesOK, Placed, AllDirs

LEMMA DropRelease ==
  ASSUME FilesOK, Aside, NEW l \in Levels, Drop(Release(l, "replace")), Dir(l) # "open" \/ Cap(l) = Rel(l)
  PROVE  Elsewhere(l) /\ Rel(l)' = 0 /\ Cap(l)' = Cap(l) /\ names'[Public] = names[Public]
<1> USE NameFacts
<1>1. /\ FileTypes' /\ dirs' = dirs /\ text' = text
      /\ names'[Release(l, "replace")] = 0 /\ \A m \in Names : m # Release(l, "replace") => names'[m] = names[m]
  BY SetNameFacts DEF FilesOK, Placed, Drop
<1>2. Rel(l)' = 0 /\ Cap(l)' = Cap(l) /\ names'[Public] = names[Public] /\ Tmp(l)' = Tmp(l)
  BY <1>1, LevelView DEF Rel
<1>3. Superseded(l)'
  BY <1>1, <1>2, PrivateOperation
<1>4. DirFiles(l)
  BY DEF FilesOK, Placed, AllDirs
<1>5. \A i \in {names[Public], Cap(l)} \cup (IF Dir(l) = "open" THEN {Rel(l)} ELSE {}) : i # 0 =>
             \E j \in {names'[Public], Cap(l)'} \cup (IF Dir(l) = "open" THEN {Rel(l)'} ELSE {}) :
                 j # 0 /\ text[i].lines \subseteq text[j].lines
  BY <1>2
<1> QED
  BY <1>1, <1>2, <1>3, <1>4, <1>5, LevelOperation DEF Elsewhere, DirFiles

LEMMA DropCaptured ==
  ASSUME FilesOK, Aside, NEW l \in Levels, Drop(Captured(l, "replace")), Cap(l) # 0,
         Rel(l) = Cap(l) \/ (names[Public] # 0 /\ Safe(text[Cap(l)]))
  PROVE  Elsewhere(l) /\ Cap(l)' = 0 /\ Rel(l)' = Rel(l) /\ names'[Public] = names[Public] /\ Dir(l) = "open"
<1> USE NameFacts
<1>1. /\ FileTypes' /\ dirs' = dirs /\ text' = text
      /\ names'[Captured(l, "replace")] = 0 /\ \A m \in Names : m # Captured(l, "replace") => names'[m] = names[m]
  BY SetNameFacts DEF FilesOK, Placed, Drop
<1>2. Cap(l)' = 0 /\ Rel(l)' = Rel(l) /\ names'[Public] = names[Public] /\ Tmp(l)' = Tmp(l)
  BY <1>1, LevelView DEF Cap
<1>3. Superseded(l)'
  BY <1>1, <1>2, PrivateOperation
<1>4. DirFiles(l) /\ Dir(l) = "open"
  BY DEF FilesOK, Placed, AllDirs, DirFiles, FileTypes, Dir, Areas
<1>5. \A i \in {names[Public], Cap(l)} \cup (IF Dir(l) = "open" THEN {Rel(l)} ELSE {}) : i # 0 =>
             \E j \in {names'[Public], Cap(l)'} \cup (IF Dir(l) = "open" THEN {Rel(l)'} ELSE {}) :
                 j # 0 /\ text[i].lines \subseteq text[j].lines
  BY <1>2, <1>4 DEF Safe, PublicLines
<1> QED
  BY <1>1, <1>2, <1>3, <1>4, <1>5, LevelOperation DEF Elsewhere, DirFiles

LEMMA TakeBack ==
  ASSUME FilesOK, Aside, NEW l \in Levels, Rename(Release(l, "replace"), Captured(l, "replace")),
         Rel(l) # 0, Cap(l) = 0, Dir(l) = "open"
  PROVE  Elsewhere(l) /\ Cap(l)' = Rel(l) /\ Rel(l)' = 0 /\ names'[Public] = names[Public]
<1> USE NameFacts
<1>1. /\ FileTypes' /\ dirs' = dirs /\ text' = text
      /\ names'[Captured(l, "replace")] = Rel(l) /\ names'[Release(l, "replace")] = 0
      /\ \A m \in Names \ {Captured(l, "replace"), Release(l, "replace")} : names'[m] = names[m]
  BY DEF FilesOK, Placed, Rename, SetNames, FileTypes, Rel
<1>2. Cap(l)' = Rel(l) /\ Rel(l)' = 0 /\ names'[Public] = names[Public] /\ Tmp(l)' = Tmp(l)
  BY <1>1 DEF Cap, Rel, Tmp
<1>3. Superseded(l)'
  BY <1>1, <1>2, PrivateOperation
<1>5. \A i \in {names[Public], Cap(l)} \cup (IF Dir(l) = "open" THEN {Rel(l)} ELSE {}) : i # 0 =>
             \E j \in {names'[Public], Cap(l)'} \cup (IF Dir(l) = "open" THEN {Rel(l)'} ELSE {}) :
                 j # 0 /\ text[i].lines \subseteq text[j].lines
  BY <1>2
<1> QED
  BY <1>1, <1>2, <1>3, <1>5, LevelOperation DEF Elsewhere

LEMMA LinkRelease ==
  ASSUME FilesOK, Aside, NEW l \in Levels, SetNames([names EXCEPT ![Release(l, "replace")] = Cap(l)]),
         Cap(l) # 0, Rel(l) = 0
  PROVE  Elsewhere(l) /\ Rel(l)' = Cap(l) /\ Cap(l)' = Cap(l) /\ names'[Public] = names[Public]
<1> USE NameFacts
<1>0. Cap(l) \in {0} \cup Inodes
  BY DEF FilesOK, Placed, FileTypes, Cap
<1>1. /\ FileTypes' /\ dirs' = dirs /\ text' = text
      /\ names'[Release(l, "replace")] = Cap(l) /\ \A m \in Names : m # Release(l, "replace") => names'[m] = names[m]
  BY <1>0, SetNameFacts DEF FilesOK, Placed
<1>2. Rel(l)' = Cap(l) /\ Cap(l)' = Cap(l) /\ names'[Public] = names[Public] /\ Tmp(l)' = Tmp(l)
  BY <1>1, LevelView DEF Rel
<1>3. Superseded(l)'
  BY <1>1, <1>2, PrivateOperation
<1>4. DirFiles(l)
  BY DEF FilesOK, Placed, AllDirs
<1>5. \A i \in {names[Public], Cap(l)} \cup (IF Dir(l) = "open" THEN {Rel(l)} ELSE {}) : i # 0 =>
             \E j \in {names'[Public], Cap(l)'} \cup (IF Dir(l) = "open" THEN {Rel(l)'} ELSE {}) :
                 j # 0 /\ text[i].lines \subseteq text[j].lines
  BY <1>2
<1> QED
  BY <1>1, <1>2, <1>3, <1>4, <1>5, LevelOperation DEF Elsewhere, DirFiles

LEMMA LinkCaptured ==
  ASSUME FilesOK, Aside, NEW l \in Levels, SetNames([names EXCEPT ![Captured(l, "replace")] = Rel(l)]),
         Rel(l) # 0, Cap(l) = 0, Dir(l) = "open"
  PROVE  Elsewhere(l) /\ Rel(l)' = Rel(l) /\ Cap(l)' = Rel(l) /\ names'[Public] = names[Public]
<1> USE NameFacts
<1>0. Rel(l) \in {0} \cup Inodes
  BY DEF FilesOK, Placed, FileTypes, Rel
<1>1. /\ FileTypes' /\ dirs' = dirs /\ text' = text
      /\ names'[Captured(l, "replace")] = Rel(l) /\ \A m \in Names : m # Captured(l, "replace") => names'[m] = names[m]
  <2>1. FileTypes /\ Captured(l, "replace") \in Names
    BY DEF FilesOK, Placed
  <2> QED
    BY <1>0, <2>1, SetNameFacts
<1>2. Rel(l)' = Rel(l) /\ Cap(l)' = Rel(l) /\ names'[Public] = names[Public] /\ Tmp(l)' = Tmp(l)
  BY <1>1, LevelView DEF Cap
<1>3. Superseded(l)'
  BY <1>1, <1>2, PrivateOperation
<1>5. \A i \in {names[Public], Cap(l)} \cup (IF Dir(l) = "open" THEN {Rel(l)} ELSE {}) : i # 0 =>
             \E j \in {names'[Public], Cap(l)'} \cup (IF Dir(l) = "open" THEN {Rel(l)'} ELSE {}) :
                 j # 0 /\ text[i].lines \subseteq text[j].lines
  BY <1>2
<1> QED
  BY <1>1, <1>2, <1>3, <1>5, LevelOperation DEF Elsewhere

LEMMA BeyondUnexposed ==
  ASSUME FilesOK, NEW l \in Levels, Beyond(l)
  PROVE  \A n \in Upper(l) : n = Public \/ names[n] = 0
<1>1. ASSUME NEW m \in Levels, m > l
      PROVE  Cap(m) = 0 /\ Rel(m) = 0
  BY <1>1 DEF Beyond, Tidy, FilesOK, Placed, AllDirs, DirFiles
<1> QED
  BY <1>1 DEF Upper, Cap, Rel, Levels

LEMMA TakePublic ==
  ASSUME FilesOK, Aside, NEW l \in Levels, Rename(Public, Captured(l, "replace")),
         names[Public] # 0, Cap(l) = 0, Rel(l) = 0, Dir(l) = "open", Beyond(l)
  PROVE  Elsewhere(l) /\ Cap(l)' = names[Public] /\ Rel(l)' = 0 /\ names'[Public] = 0
<1> USE NameFacts
<1>1. /\ FileTypes' /\ dirs' = dirs /\ text' = text
      /\ names'[Captured(l, "replace")] = names[Public] /\ names'[Public] = 0
      /\ \A m \in Names \ {Captured(l, "replace"), Public} : names'[m] = names[m]
  BY DEF FilesOK, Placed, Rename, SetNames, FileTypes
<1>2. Cap(l)' = names[Public] /\ Rel(l)' = 0 /\ Tmp(l)' = Tmp(l)
  BY <1>1 DEF Cap, Rel, Tmp
<1>3. Superseded(l)'
  <2>1. \A n \in Upper(l) : names'[n] = 0
    BY <1>1, UpperNames, BeyondUnexposed
  <2> QED
    BY <2>1 DEF Superseded, Exposed, Upper
<1>5. \A i \in {names[Public], Cap(l)} \cup (IF Dir(l) = "open" THEN {Rel(l)} ELSE {}) : i # 0 =>
             \E j \in {names'[Public], Cap(l)'} \cup (IF Dir(l) = "open" THEN {Rel(l)'} ELSE {}) :
                 j # 0 /\ text[i].lines \subseteq text[j].lines
  BY <1>2
<1> QED
  BY <1>1, <1>2, <1>3, <1>5, LevelOperation DEF Elsewhere

LEMMA PutBack ==
  ASSUME FilesOK, Aside, NEW l \in Levels, SetNames([names EXCEPT ![Public] = Cap(l)]),
         Cap(l) # 0, names[Public] = 0, Beyond(l)
  PROVE  Elsewhere(l) /\ Cap(l)' = Cap(l) /\ Rel(l)' = Rel(l) /\ names'[Public] = Cap(l)
<1> USE NameFacts
<1>0. Cap(l) \in {0} \cup Inodes
  BY DEF FilesOK, Placed, FileTypes, Cap
<1>1. /\ FileTypes' /\ dirs' = dirs /\ text' = text
      /\ names'[Public] = Cap(l) /\ \A m \in Names : m # Public => names'[m] = names[m]
  BY <1>0, SetNameFacts DEF FilesOK, Placed
<1>2. Cap(l)' = Cap(l) /\ Rel(l)' = Rel(l) /\ Tmp(l)' = Tmp(l)
  BY <1>1, LevelView
<1>3. Superseded(l)'
  <2> SUFFICES ASSUME Exposed(l)', NEW c \in {Captured(l, "replace"), Release(l, "replace")},
                    names'[c] # 0, names'[c] # Tmp(l)'
               PROVE  FALSE
    BY DEF Superseded
  <2>1. \A n \in Upper(l) : n = Public \/ names'[n] = 0
    BY <1>1, UpperNames, BeyondUnexposed
  <2>2. Tmp(l)' = Cap(l)
    BY <2>1, <1>1 DEF Exposed, Upper
  <2>3. Rel(l) \in {0, Cap(l)}
    BY DEF FilesOK, Placed, AllDirs, DirFiles
  <2> QED
    BY <2>2, <2>3, <1>2 DEF Cap, Rel
<1>4. DirFiles(l)
  BY DEF FilesOK, Placed, AllDirs
<1>5. \A i \in {names[Public], Cap(l)} \cup (IF Dir(l) = "open" THEN {Rel(l)} ELSE {}) : i # 0 =>
             \E j \in {names'[Public], Cap(l)'} \cup (IF Dir(l) = "open" THEN {Rel(l)'} ELSE {}) :
                 j # 0 /\ text[i].lines \subseteq text[j].lines
  BY <1>2
<1> QED
  BY <1>1, <1>2, <1>3, <1>4, <1>5, LevelOperation DEF Elsewhere, DirFiles

LEMMA QuietFiles ==
  ASSUME FilesOK, Aside, UNCHANGED files
  PROVE  FilesOK' /\ Shuffled
<1> USE DEF files
<1>1. FileTypes' /\ NoRoll' /\ Temps'
  BY DEF FilesOK, Placed, FileTypes, NoRoll, Temps, Tmp
<1>3. \A l \in Levels : DirFiles(l)'
  BY DEF FilesOK, Placed, AllDirs, DirFiles, Beyond, Tidy, Dir, Cap, Rel, Tmp
<1>4. \A l \in Levels : Superseded(l)'
  BY DEF FilesOK, Placed, AllDirs, Superseded, Exposed, Upper, Tmp
<1>5. KeptInv'
  BY DEF FilesOK, KeptInv, InPlace, Mine, Places, Dir, Aside
<1>2. Shuffled
  BY DEF Shuffled, Tmp
<1> QED
  BY <1>1, <1>2, <1>3, <1>4, <1>5 DEF FilesOK, Placed, AllDirs

LEMMA ChangeDirectory ==
  ASSUME FilesOK, Aside, NEW l \in Levels, NEW s \in {"none", "open", "released"}, SetDir(l, "replace", s),
         Beneath(l), s = "none" => Cap(l) = 0 /\ Rel(l) = 0,
         s # "open" => Cap(l) = 0 /\ Beyond(l) /\ (Rel(l) # 0 => Safe(text[Rel(l)]))
  PROVE  /\ FilesOK' /\ Shuffled /\ names' = names /\ text' = text
         /\ Dir(l)' = s /\ \A m \in Levels : m # l => Dir(m)' = Dir(m)
<1> USE NameFacts
<1>1. /\ FileTypes' /\ names' = names /\ text' = text
      /\ Dir(l)' = s /\ \A m \in Levels : m # l => Dir(m)' = Dir(m)
      /\ \A m \in Levels : dirs'[<<m, "rollback">>] = dirs[<<m, "rollback">>]
  BY DEF FilesOK, Placed, FileTypes, SetDir, Dir, Areas
<1>2. Shuffled
  BY <1>1 DEF Shuffled, Tmp
<1>3. NoRoll' /\ Temps'
  BY <1>1 DEF FilesOK, Placed, NoRoll, Temps, Tmp
<1>4. ASSUME NEW m \in Levels
      PROVE  DirFiles(m)'
  <2>1. DirFiles(m) /\ Cap(m)' = Cap(m) /\ Rel(m)' = Rel(m) /\ \A k \in Levels : Tmp(k)' = Tmp(k)
    BY <1>1 DEF FilesOK, Placed, AllDirs, Cap, Rel, Tmp
  <2>2. CASE m = l
    <3>1. Beyond(l) => Beyond(l)'
      BY <1>1, <2>1, BeyondKept DEF Levels
    <3> QED
      BY <2>1, <2>2, <3>1, <1>1 DEF DirFiles
  <2>3. CASE m < l
    BY <2>1, <2>3, <1>1 DEF DirFiles, Beneath, Levels
  <2>4. CASE m > l
    <3>1. Beyond(m) => Beyond(m)'
      BY <1>1, <2>1, <2>4, BeyondKept DEF Levels
    <3> QED
      BY <2>1, <2>4, <3>1, <1>1 DEF DirFiles, Levels
  <2> QED
    BY <2>2, <2>3, <2>4 DEF Levels
<1>5. ASSUME NEW m \in Levels
      PROVE  Superseded(m)'
  <2>1. Superseded(m)
    BY DEF FilesOK, Placed, AllDirs
  <2>2. Upper(m)' = Upper(m)
    BY DEF Upper
  <2>3. Exposed(m)' <=> Exposed(m)
    BY <1>1, <2>2 DEF Exposed, Tmp
  <2> QED
    BY <1>1, <2>1, <2>2, <2>3 DEF Superseded, Tmp
<1>6. KeptInv'
  <2>1. ASSUME NEW n \in Places, names[n] # 0, text[names[n]].lines # {}
        PROVE  \E m \in Places' : names'[m] # 0 /\ text[names[n]].lines \subseteq text[names'[m]].lines
    <3>1. CASE n = Release(l, "replace") /\ s # "open"
      <4>1. Public \in Places'
        BY DEF Places
      <4>2. names[Public] # 0 /\ text[names[n]].lines \subseteq text[names[Public]].lines
        BY <3>1, <2>1 DEF Safe, PublicLines, Rel
      <4> QED
        BY <4>1, <4>2, <1>1
    <3>2. CASE n # Release(l, "replace") \/ s = "open"
      <4>1. n \in Places'
        BY <3>2, <1>1 DEF Places
      <4> QED
        BY <4>1, <1>1, <2>1
    <3> QED
      BY <3>1, <3>2
  <2> QED
    BY <2>1, <1>1, KeptMoves DEF FilesOK, Aside
<1> QED
  BY <1>1, <1>2, <1>3, <1>4, <1>5, <1>6 DEF FilesOK, Placed, AllDirs

\* A new file is none that has a name.
LEMMA FreshFile ==
  ASSUME FileTypes, NEW n \in Names, NEW t \in Texts, Fresh # {}, NewFile(n, t)
  PROVE  /\ FileTypes' /\ dirs' = dirs /\ names'[n] # 0 /\ text'[names'[n]] = t
         /\ \A m \in Names : names[m] # names'[n] /\ (m # n => names'[m] = names[m])
         /\ \A m \in Names : names[m] # 0 => text'[names[m]] = text[names[m]]
         /\ names'[n] \notin fds
         /\ \A i \in Inodes : i # names'[n] => text'[i] = text[i]
<1> DEFINE i == CHOOSE i \in Fresh : TRUE
<1>1. i \in Fresh
  OBVIOUS
<1>2. names' = [names EXCEPT ![n] = i] /\ text' = [text EXCEPT ![i] = t] /\ dirs' = dirs
  BY DEF NewFile
<1> HIDE DEF i
<1>3. i \in Inodes /\ i \notin fds /\ \A m \in Names : names[m] # i
  BY <1>1 DEF Fresh, Meant
<1>4. i # 0
  BY <1>3, InodeFacts
<1> QED
  BY <1>2, <1>3, <1>4 DEF FileTypes

LEMMA WriteTemp ==
  ASSUME FilesOK, Aside, NEW l \in Levels, NEW t \in Texts, Fresh # {}, NewFile(Temp(l), t), Tmp(l) = 0, Beneath(l)
  PROVE  /\ FilesOK' /\ FileTypes' /\ dirs' = dirs /\ Tmp(l)' # 0 /\ text'[Tmp(l)'] = t
         /\ \A n \in Names \ {Temp(l)} : names'[n] = names[n] /\ names[n] # Tmp(l)'
         /\ \A m \in Names : names[m] # 0 => text'[names[m]] = text[names[m]]
<1> USE NameFacts
<1>1. /\ FileTypes' /\ dirs' = dirs /\ Tmp(l)' # 0 /\ text'[Tmp(l)'] = t
      /\ \A n \in Names : names[n] # Tmp(l)' /\ (n # Temp(l) => names'[n] = names[n])
      /\ \A m \in Names : names[m] # 0 => text'[names[m]] = text[names[m]]
  BY FreshFile DEF FilesOK, Placed, Tmp
<1>2. /\ \A m \in Levels : m # l => Tmp(m)' = Tmp(m)
      /\ names'[Public] = names[Public]
      /\ \A m \in Levels : Cap(m)' = Cap(m) /\ Rel(m)' = Rel(m) /\ Dir(m)' = Dir(m)
      /\ \A m \in Levels : names'[Captured(m, "rollback")] = names[Captured(m, "rollback")]
                           /\ names'[Release(m, "rollback")] = names[Release(m, "rollback")]
  BY <1>1, LevelView, DirView
<1>3. NoRoll'
  BY <1>1, <1>2 DEF FilesOK, Placed, NoRoll
<1>4. Temps'
  BY <1>1, <1>2 DEF FilesOK, Placed, Temps, Tmp
<1>5. ASSUME NEW m \in Levels
      PROVE  DirFiles(m)'
  <2>1. CASE m < l
    BY <2>1, <1>2 DEF FilesOK, Placed, AllDirs, DirFiles, Beneath
  <2>2. CASE m >= l
    <3>1. Beyond(m) => Beyond(m)'
      BY <2>2, <1>2, BeyondKept DEF Levels
    <3> QED
      BY <3>1, <1>2 DEF FilesOK, Placed, AllDirs, DirFiles
  <2> QED
    BY <2>1, <2>2 DEF Levels
<1>6. ASSUME NEW m \in Levels
      PROVE  Superseded(m)'
  <2>1. \A n \in Upper(m) : names'[n] = names[n] /\ n \in Names
    BY <1>1, UpperNames
  <2>2. CASE m = l
    <3>1. ~Exposed(m)'
      BY <2>1, <2>2, <1>1 DEF Exposed, Upper
    <3> QED
      BY <3>1 DEF Superseded
  <2>3. CASE m # l
    <3>1. Exposed(m)' => Exposed(m)
      BY <2>1, <2>3, <1>2 DEF Exposed, Upper
    <3>2. ASSUME Exposed(m), NEW c \in {Captured(m, "replace"), Release(m, "replace")}, names[c] # 0, names[c] # Tmp(m)
          PROVE  /\ text'[names[c]].lines \subseteq text'[Tmp(m)].lines
                 /\ \A n \in Upper(m) : names[n] # names[c]
      <4>1. /\ text[names[c]].lines \subseteq text[Tmp(m)].lines
            /\ \A n \in Upper(m) : names[n] # names[c]
        BY <3>2 DEF FilesOK, Placed, AllDirs, Superseded
      <4>2. text'[names[c]] = text[names[c]] /\ text'[Tmp(m)] = text[Tmp(m)]
        BY <1>1, <3>2 DEF Tmp, Exposed
      <4> QED
        BY <4>1, <4>2
    <3>3. Upper(m)' = Upper(m) /\ Tmp(m)' = Tmp(m)
          /\ \A c \in {Captured(m, "replace"), Release(m, "replace")} : names'[c] = names[c]
      BY <1>1, <1>2, <2>3 DEF Upper
    <3> QED
      BY <3>1, <3>2, <3>3, <2>1 DEF Superseded
  <2> QED
    BY <2>2, <2>3
<1>7. KeptInv'
  <2>1. Places' = Places /\ \A n \in Places : n \in Names /\ n # Temp(l)
    BY <1>2, PlacesFacts
  <2> SUFFICES ASSUME NEW work \in written, InPlace(work)
               PROVE  InPlace(work)'
    BY DEF FilesOK, KeptInv, Mine, Aside
  <2>2. PICK n \in Places : names[n] # 0 /\ work \in text[names[n]].lines
    BY DEF InPlace
  <2> QED
    BY <2>1, <2>2, <1>1 DEF InPlace
<1> QED
  BY <1>1, <1>2, <1>3, <1>4, <1>5, <1>6, <1>7 DEF FilesOK, Placed, AllDirs

LEMMA PublishTemp ==
  ASSUME FilesOK, Aside, NEW l \in Levels, SetNames([names EXCEPT ![Public] = Tmp(l)]),
         names[Public] = 0, Tmp(l) # 0, \A n \in Names \ {Temp(l)} : names[n] # Tmp(l), Beyond(l),
         \A i \in {Cap(l), Rel(l)} : i # 0 => text[i].lines \subseteq text[Tmp(l)].lines
  PROVE  /\ FilesOK' /\ FileTypes' /\ dirs' = dirs /\ text' = text
         /\ names'[Public] = Tmp(l)
         /\ \A n \in Names \ {Public} : names'[n] = names[n]
<1> USE NameFacts
<1>0. Tmp(l) \in {0} \cup Inodes /\ FileTypes
  BY DEF FilesOK, Placed, FileTypes, Tmp
<1>1. /\ FileTypes' /\ dirs' = dirs /\ text' = text
      /\ names'[Public] = Tmp(l) /\ \A m \in Names : m # Public => names'[m] = names[m]
  BY <1>0, SetNameFacts
<1>2. /\ \A m \in Levels : Tmp(m)' = Tmp(m) /\ Cap(m)' = Cap(m) /\ Rel(m)' = Rel(m) /\ Dir(m)' = Dir(m)
      /\ \A m \in Levels : names'[Captured(m, "rollback")] = names[Captured(m, "rollback")]
                           /\ names'[Release(m, "rollback")] = names[Release(m, "rollback")]
  BY <1>1, LevelView, DirView
<1>3. NoRoll' /\ Temps'
  BY <1>1, <1>2 DEF FilesOK, Placed, NoRoll, Temps
<1>5. ASSUME NEW m \in Levels
      PROVE  DirFiles(m)'
  <2>1. Beyond(m) => Beyond(m)'
    BY <1>2, BeyondKept
  <2> QED
    BY <2>1, <1>2 DEF FilesOK, Placed, AllDirs, DirFiles
<1>6. ASSUME NEW m \in Levels
      PROVE  Superseded(m)'
  <2>1. CASE m = l
    <3>1. ASSUME NEW i \in {Cap(l), Rel(l)}, i # 0, i # Tmp(l)
          PROVE  \A n \in Upper(l) : names'[n] # i
      <4>1. \A n \in Upper(l) : n = Public \/ names[n] = 0
        BY BeyondUnexposed
      <4> QED
        BY <4>1, <3>1, <1>1, UpperNames
    <3> QED
      BY <2>1, <3>1, <1>1, <1>2 DEF Superseded, Exposed, Upper, Cap, Rel
  <2>2. CASE m # l
    <3>1. Exposed(m)' => Exposed(m)
      <4> SUFFICES ASSUME Exposed(m)'
                   PROVE  Exposed(m)
        OBVIOUS
      <4>1. PICK n \in Upper(m) : names'[n] = Tmp(m)
        BY <1>2 DEF Exposed, Upper
      <4>2. Tmp(m) # 0 /\ Tmp(m) # Tmp(l)
        BY <2>2, <1>2 DEF Exposed, FilesOK, Placed, Temps
      <4> QED
        BY <4>1, <4>2, <1>1, UpperNames DEF Exposed
    <3>2. ASSUME Exposed(m), NEW c \in {Captured(m, "replace"), Release(m, "replace")}, names[c] # 0, names[c] # Tmp(m)
          PROVE  /\ text[names[c]].lines \subseteq text[Tmp(m)].lines
                 /\ \A n \in Upper(m) : names'[n] # names[c]
      <4>1. /\ text[names[c]].lines \subseteq text[Tmp(m)].lines
            /\ \A n \in Upper(m) : names[n] # names[c]
        BY <3>2 DEF FilesOK, Placed, AllDirs, Superseded
      <4>2. names[c] # Tmp(l)
        OBVIOUS
      <4> QED
        BY <4>1, <4>2, <1>1, UpperNames
    <3>3. Upper(m)' = Upper(m) /\ \A c \in {Captured(m, "replace"), Release(m, "replace")} : names'[c] = names[c]
      BY <1>1 DEF Upper
    <3> QED
      BY <3>1, <3>2, <3>3, <1>1, <1>2 DEF Superseded
  <2> QED
    BY <2>1, <2>2
<1>7. KeptInv'
  <2>1. Places' = Places /\ \A n \in Places : n \in Names
    BY <1>2, PlacesFacts
  <2> QED
    BY <2>1, <1>1, KeptMoves DEF FilesOK, Aside
<1> QED
  BY <1>1, <1>2, <1>3, <1>5, <1>6, <1>7 DEF FilesOK, Placed, AllDirs

-----------------------------------------------------------------------------
(* What the calls keep *)

BottomKept(p) == Len(stack[p]) > 1 => Bottom(p)' = Bottom(p)
OtherCalls(p) == (\A q \in Procs : q # p => stack'[q] = stack[q] /\ res'[q] = res[q]) /\ BottomKept(p)
Good(p) == Framework' /\ TopAt(p)' /\ OtherCalls(p) /\ stack'[p] # <<>>

OldFrames(p, new) ==
    \A k \in 1..Len(stack'[p]) : stack'[p][k] \in new \/ \E j \in 2..Len(stack[p]) : stack'[p][k] = stack[p][j]

LEMMA ContinueCall ==
  ASSUME CallsOK, NEW p \in Procs, stack[p] # <<>>, NEW g \in FrameType, FrameOK(g), Resumes(F(p), g), Continue(p, g)
  PROVE  CallsOK' /\ stack'[p] # <<>> /\ F(p)' = g /\ R(p)' = R(p) /\ OtherCalls(p) /\ OldFrames(p, {g})
<1>1. stack[p] \in Seq(FrameType) /\ Linked(stack[p])
  BY DEF CallsOK, CallTypes
<1> DEFINE t == <<g>> \o Tail(stack[p])
<1>2. /\ t \in Seq(FrameType) /\ Linked(t) /\ t # <<>> /\ Head(t) = g /\ Len(t) = Len(stack[p])
      /\ \A k \in 2..Len(t) : t[k] = stack[p][k]
  BY <1>1, ContinuedLink DEF F
<1>3. t[1] = g
  OBVIOUS
<1>4. stack' = [stack EXCEPT ![p] = t] /\ res' = res
  BY DEF Continue, Frames
<1> HIDE DEF t
<1>5. stack'[p] = t /\ \A q \in Procs : q # p => stack'[q] = stack[q]
  BY <1>4 DEF CallsOK, CallTypes
<1>6. CallsOK'
  BY <1>2, <1>4, <1>5 DEF CallsOK, CallTypes
<1>7. OldFrames(p, {g})
  BY <1>1, <1>2, <1>3, <1>5 DEF OldFrames
<1>8. BottomKept(p)
  BY <1>1, <1>2, <1>5 DEF BottomKept, Bottom
<1> QED
  BY <1>2, <1>4, <1>5, <1>6, <1>7, <1>8 DEF F, R, OtherCalls

LEMMA EnterCall ==
  ASSUME CallsOK, NEW p \in Procs, stack[p] # <<>>, NEW f \in FrameType, FrameOK(f), Resumes(F(p), f),
         NEW g \in FrameType, FrameOK(g), Legal(f, g), Frames(p, <<g, f>>), UNCHANGED res
  PROVE  CallsOK' /\ stack'[p] # <<>> /\ F(p)' = g /\ R(p)' = R(p) /\ OtherCalls(p) /\ OldFrames(p, {f, g})
<1>1. stack[p] \in Seq(FrameType) /\ Linked(stack[p])
  BY DEF CallsOK, CallTypes
<1> DEFINE t == <<g, f>> \o Tail(stack[p])
<1>2. /\ t \in Seq(FrameType) /\ Linked(t) /\ t # <<>> /\ Head(t) = g /\ Len(t) = Len(stack[p]) + 1
      /\ t[2] = f /\ \A k \in 3..Len(t) : t[k] = stack[p][k - 1]
  BY <1>1, EnteredLink DEF F
<1>3. t[1] = g
  OBVIOUS
<1>4. stack' = [stack EXCEPT ![p] = t] /\ res' = res
  BY DEF Frames
<1> HIDE DEF t
<1>5. stack'[p] = t /\ \A q \in Procs : q # p => stack'[q] = stack[q]
  BY <1>4 DEF CallsOK, CallTypes
<1>6. CallsOK'
  BY <1>2, <1>4, <1>5 DEF CallsOK, CallTypes
<1>7. OldFrames(p, {f, g})
  <2> SUFFICES ASSUME NEW k \in 1..Len(t), k > 2
               PROVE  \E j \in 2..Len(stack[p]) : t[k] = stack[p][j]
    BY <1>2, <1>3, <1>5 DEF OldFrames
  <2>1. k - 1 \in 2..Len(stack[p]) /\ t[k] = stack[p][k - 1]
    BY <1>1, <1>2
  <2> QED
    BY <2>1
<1>8. BottomKept(p)
  <2> SUFFICES ASSUME Len(stack[p]) > 1
               PROVE  t[Len(t)] = stack[p][Len(stack[p])]
    BY <1>5 DEF BottomKept, Bottom
  <2>1. Len(t) \in 3..Len(t) /\ Len(t) - 1 = Len(stack[p])
    BY <1>1, <1>2
  <2> QED
    BY <1>2, <2>1
<1> QED
  BY <1>2, <1>4, <1>5, <1>6, <1>7, <1>8 DEF F, R, OtherCalls

LEMMA GiveCall ==
  ASSUME CallsOK, NEW p \in Procs, stack[p] # <<>>, ~IsBottom(F(p)),
         NEW r \in Words, NEW i \in Nat, NEW t \in Texts, Give(p, r, i, t)
  PROVE  /\ CallsOK' /\ stack'[p] # <<>> /\ OtherCalls(p) /\ OldFrames(p, {})
         /\ F(p)' \in FrameType /\ FrameOK(F(p)') /\ Legal(F(p)', F(p))
         /\ R(p)' = Result(r, i, t)
<1>1. stack[p] \in Seq(FrameType) /\ Linked(stack[p])
  BY DEF CallsOK, CallTypes
<1> DEFINE u == <<>> \o Tail(stack[p])
<1>2. /\ u \in Seq(FrameType) /\ Linked(u) /\ Len(u) = Len(stack[p]) - 1
      /\ \A k \in 1..Len(u) : u[k] = stack[p][k + 1]
      /\ u # <<>> /\ Head(u) \in FrameType /\ FrameOK(Head(u)) /\ Legal(Head(u), F(p))
  BY <1>1, ReturnedLink DEF F
<1>4. stack' = [stack EXCEPT ![p] = u] /\ res' = [res EXCEPT ![p] = Result(r, i, t)]
  BY DEF Give, Frames
<1> HIDE DEF u
<1>5. stack'[p] = u /\ \A q \in Procs : q # p => stack'[q] = stack[q]
  BY <1>4 DEF CallsOK, CallTypes
<1>6. Result(r, i, t) \in ResultType
  BY DEF Result, ResultType
<1>7. CallsOK' /\ res'[p] = Result(r, i, t) /\ \A q \in Procs : q # p => res'[q] = res[q]
  BY <1>2, <1>4, <1>5, <1>6 DEF CallsOK, CallTypes
<1>8. OldFrames(p, {})
  <2> SUFFICES ASSUME NEW k \in 1..Len(u)
               PROVE  \E j \in 2..Len(stack[p]) : u[k] = stack[p][j]
    BY <1>5 DEF OldFrames
  <2>1. k + 1 \in 2..Len(stack[p]) /\ u[k] = stack[p][k + 1]
    BY <1>1, <1>2
  <2> QED
    BY <2>1
<1>9. BottomKept(p)
  <2> SUFFICES ASSUME Len(stack[p]) > 1
               PROVE  u[Len(u)] = stack[p][Len(stack[p])]
    BY <1>5 DEF BottomKept, Bottom
  <2>1. Len(u) \in 1..Len(u) /\ Len(u) + 1 = Len(stack[p])
    BY <1>1, <1>2
  <2> QED
    BY <1>2, <2>1
<1> QED
  BY <1>2, <1>5, <1>7, <1>8, <1>9 DEF F, R, OtherCalls
LEMMA FramesShuffled ==
  ASSUME Framework, Shuffled, CallsOK', NEW p \in Procs, OtherCalls(p), NEW new, OldFrames(p, new),
         \A g \in new : FrameTemp(g)'
  PROVE  FrameTemps'
<1>1. FileTypes /\ Temps
  BY DEF Framework, FilesOK, Placed
<1>2. ASSUME NEW f, NEW q \in Procs, NEW j \in 1..Len(stack[q]), f = stack[q][j]
      PROVE  FrameTemp(f)'
  <2>1. FrameTemp(f) /\ FrameOK(f)
    BY <1>2 DEF Framework, FrameTemps, CallsOK, Linked
  <2> QED
    BY <1>1, <2>1, ShuffledTemps DEF FrameOK
<1>3. ASSUME NEW q \in Procs, NEW k \in 1..Len(stack'[q])
      PROVE  FrameTemp(stack[q][k])'
  <2>1. PICK f : f = stack'[q][k]
    OBVIOUS
  <2>2. FrameTemp(f)'
    <3>1. CASE q = p
      <4>1. stack[p] \in Seq(FrameType)
        BY DEF Framework, CallsOK, CallTypes
      <4>2. f \in new \/ \E j \in 1..Len(stack[p]) : f = stack[p][j]
        BY <3>1, <2>1, <4>1 DEF OldFrames
      <4> QED
        BY <4>2, <1>2
    <3>2. CASE q # p
      BY <3>2, <2>1, <1>2 DEF OtherCalls
    <3> QED
      BY <3>1, <3>2
  <2> QED
    BY <2>1, <2>2
<1> QED
  BY <1>3 DEF FrameTemps

Settled(g) == g.fn # "replace" \/ g.at \notin {"captured", "publish"}
LEMMA SettledTemp ==
  ASSUME NEW g, Settled(g)
  PROVE  FrameTemp(g)'
  BY DEF Settled, FrameTemp

(* A step that goes on, calls or returns over files that are only shuffled. *)

LEMMA Continues ==
  ASSUME Framework, FilesOK', Shuffled, NEW p \in Procs, stack[p] # <<>>, NEW g \in FrameType, FrameOK(g),
         Resumes(F(p), g), Continue(p, g), Settled(g) \/ FrameTemp(g)'
  PROVE  Framework' /\ OtherCalls(p) /\ stack'[p] # <<>> /\ F(p)' = g /\ R(p)' = R(p)
<1>1. CallsOK' /\ stack'[p] # <<>> /\ F(p)' = g /\ R(p)' = R(p) /\ OtherCalls(p) /\ OldFrames(p, {g})
  BY ContinueCall DEF Framework
<1>2. FrameTemp(g)'
  BY SettledTemp
<1>3. FrameTemps'
  BY <1>1, <1>2, FramesShuffled
<1> QED
  BY <1>1, <1>3 DEF Framework

LEMMA Enters ==
  ASSUME Framework, FilesOK', Shuffled, NEW p \in Procs, stack[p] # <<>>, NEW f \in FrameType, FrameOK(f),
         Resumes(F(p), f), NEW g \in FrameType, FrameOK(g), Legal(f, g), Frames(p, <<g, f>>), UNCHANGED res,
         Settled(f) \/ FrameTemp(f)', Settled(g)
  PROVE  Framework' /\ OtherCalls(p) /\ stack'[p] # <<>> /\ F(p)' = g /\ R(p)' = R(p)
<1>1. CallsOK' /\ stack'[p] # <<>> /\ F(p)' = g /\ R(p)' = R(p) /\ OtherCalls(p) /\ OldFrames(p, {f, g})
  BY EnterCall DEF Framework
<1>2. FrameTemp(f)' /\ FrameTemp(g)'
  BY SettledTemp
<1>3. FrameTemps'
  BY <1>1, <1>2, FramesShuffled
<1> QED
  BY <1>1, <1>3 DEF Framework

LEMMA Gives ==
  ASSUME Framework, FilesOK', Shuffled, NEW p \in Procs, stack[p] # <<>>, ~IsBottom(F(p)),
         NEW r \in Words, NEW i \in Nat, NEW t \in Texts, Give(p, r, i, t)
  PROVE  /\ Framework' /\ OtherCalls(p) /\ stack'[p] # <<>>
         /\ F(p)' \in FrameType /\ FrameOK(F(p)') /\ Legal(F(p)', F(p))
         /\ R(p)' = Result(r, i, t)
<1>1. /\ CallsOK' /\ stack'[p] # <<>> /\ OtherCalls(p) /\ OldFrames(p, {})
      /\ F(p)' \in FrameType /\ FrameOK(F(p)') /\ Legal(F(p)', F(p))
      /\ R(p)' = Result(r, i, t)
  BY GiveCall DEF Framework
<1>3. FrameTemps'
  BY <1>1, FramesShuffled
<1> QED
  BY <1>1, <1>3 DEF Framework

LEMMA Stays ==
  ASSUME Framework, FilesOK', Shuffled, NEW p \in Procs, stack[p] # <<>>, UNCHANGED calls
  PROVE  Framework' /\ OtherCalls(p) /\ stack'[p] # <<>> /\ F(p)' = F(p) /\ R(p)' = R(p)
<1>1. stack' = stack /\ res' = res
  BY DEF calls
<1>2. CallsOK' /\ OtherCalls(p) /\ F(p)' = F(p) /\ R(p)' = R(p)
  BY <1>1 DEF Framework, CallsOK, CallTypes, OtherCalls, BottomKept, Bottom, F, R
<1>3. OldFrames(p, {F(p)})
  <2>1. stack[p] \in Seq(FrameType)
    BY DEF Framework, CallsOK, CallTypes
  <2> QED
    BY <1>1, <2>1 DEF OldFrames, F
<1>4. PICK f : f = F(p)
  OBVIOUS
<1>5. FrameTemp(f)'
  <2>1. stack[p] \in Seq(FrameType) /\ 1 \in 1..Len(stack[p]) /\ stack[p][1] = f
    BY <1>4 DEF Framework, CallsOK, CallTypes, F
  <2>2. FrameTemp(f) /\ FrameOK(f) /\ FileTypes /\ Temps
    BY <2>1 DEF Framework, FrameTemps, CallsOK, Linked, FilesOK, Placed
  <2> QED
    BY <2>2, ShuffledTemps DEF FrameOK
<1>6. FrameTemps'
  BY <1>2, <1>3, <1>4, <1>5, FramesShuffled
<1> QED
  BY <1>1, <1>2, <1>6 DEF Framework

LEMMA TopIntro ==
  ASSUME NEW p, NEW g, NEW r, stack'[p] # <<>>, F(p)' = g, R(p)' = r
  PROVE  /\ g.fn = "capture" /\ TopCapture(g)' => TopAt(p)'
         /\ g.fn = "restore" /\ TopRestore(g)' => TopAt(p)'
         /\ g.fn = "remove" /\ TopRemove(g)' => TopAt(p)'
         /\ g.fn = "release" /\ TopRelease(g, r)' => TopAt(p)'
         /\ g.fn = "merge" /\ TopMerge(g, r)' => TopAt(p)'
         /\ g.fn = "replace" /\ TopReplace(g, r)' => TopAt(p)'
         /\ g.fn = "unroll" /\ TopUnroll(g)' => TopAt(p)'
         /\ g.fn = "recover" /\ TopRecover(g, r)' => TopAt(p)'
         /\ g.fn = "rules" /\ TopRules(g, r)' => TopAt(p)'
         /\ g.fn \in {"launch", "reconcile", "cleanup", "rollback", "clear"} => TopAt(p)'
<1>1. Top(g, r)' => TopAt(p)'
  BY DEF TopAt
<1> QED
  BY <1>1 DEF Top, TopCapture, TopRestore, TopRemove, TopRelease, TopMerge, TopReplace, TopUnroll, TopRecover, TopRules

(* What each function promises its callers when it returns. *)

Back(p, f, r, i, t) ==
    /\ stack[p] # <<>> /\ F(p) = f /\ Framework /\ FilesOK' /\ Shuffled
    /\ r \in Words /\ i \in Nat /\ t \in Texts /\ Give(p, r, i, t)

LEMMA Returns ==
  ASSUME NEW p \in Procs, NEW f, NEW r, NEW i, NEW t, Back(p, f, r, i, t), ~IsBottom(f)
  PROVE  /\ Framework' /\ OtherCalls(p) /\ stack'[p] # <<>> /\ R(p)' = Result(r, i, t)
         /\ R(p)'.r = r /\ R(p)'.inode = i /\ R(p)'.text = t
         /\ \E c \in FrameType : F(p)' = c /\ FrameOK(c) /\ Legal(c, f)
<1>1. /\ Framework' /\ OtherCalls(p) /\ stack'[p] # <<>>
      /\ F(p)' \in FrameType /\ FrameOK(F(p)') /\ Legal(F(p)', F(p))
      /\ R(p)' = Result(r, i, t)
  BY Gives DEF Back
<1> QED
  BY <1>1 DEF Back, Result

LEMMA CaptureReturns ==
  ASSUME NEW p \in Procs, NEW f, NEW r, NEW i, NEW t, Back(p, f, r, i, t), f.fn = "capture",
         r \in {"ok", "absent"} \cup Errors, Beyond(f.l)', Beneath(f.l)',
         r = "ok" => /\ i # 0 /\ Cap(f.l)' = i /\ Rel(f.l)' = 0 /\ text'[i] = t
                     /\ f.max = 1 => i # names'[Public],
         r = "absent" => Dir(f.l)' = "none"
  PROVE  Good(p)
<1>1. /\ Framework' /\ OtherCalls(p) /\ stack'[p] # <<>> /\ R(p)' = Result(r, i, t)
      /\ R(p)'.r = r /\ R(p)'.inode = i /\ R(p)'.text = t
      /\ \E c \in FrameType : F(p)' = c /\ FrameOK(c) /\ Legal(c, f)
  BY Returns DEF IsBottom
<1>2. PICK c \in FrameType : F(p)' = c /\ FrameOK(c) /\ Legal(c, f)
  BY <1>1
<1>3. PICK v : v = R(p)' /\ v.r = r /\ v.inode = i /\ v.text = t
  BY <1>1
<1>4. CASE c.fn = "recover" /\ c.at = "got" /\ f.l = c.l
  <2>1. TopRecover(c, v)'
    BY <1>3, <1>4 DEF TopRecover, Got
  <2> QED
    BY <1>1, <1>2, <1>3, <1>4, <2>1, TopIntro DEF Good
<1>5. CASE c.fn = "replace" /\ c.at = "captured" /\ f.l = c.l /\ f.max = 1
  <2>1. TopReplace(c, v)'
    BY <1>3, <1>5 DEF TopReplace, Sole
  <2> QED
    BY <1>1, <1>2, <1>3, <1>5, <2>1, TopIntro DEF Good
<1> QED
  BY <1>2, <1>4, <1>5 DEF Legal, CallsOfHost, CallsOfRecovery, CallsOfChange

LEMMA RestoreReturns ==
  ASSUME NEW p \in Procs, NEW f, NEW r, NEW i, NEW t, Back(p, f, r, i, t), f.fn = "restore",
         r \in {"ok"} \cup Errors, Beyond(f.l)', Beneath(f.l)', r = "ok" => Dir(f.l)' = "none"
  PROVE  Good(p)
<1>1. /\ Framework' /\ OtherCalls(p) /\ stack'[p] # <<>> /\ R(p)' = Result(r, i, t)
      /\ R(p)'.r = r /\ R(p)'.inode = i /\ R(p)'.text = t
      /\ \E c \in FrameType : F(p)' = c /\ FrameOK(c) /\ Legal(c, f)
  BY Returns DEF IsBottom
<1>2. PICK c \in FrameType : F(p)' = c /\ FrameOK(c) /\ Legal(c, f)
  BY <1>1
<1>3. PICK v : v = R(p)' /\ v.r = r
  BY <1>1
<1>4. CASE c.fn = "recover" /\ c.at = "done" /\ f.l = c.l
  <2>1. TopRecover(c, v)'
    BY <1>3, <1>4 DEF TopRecover
  <2> QED
    BY <1>1, <1>2, <1>3, <1>4, <2>1, TopIntro DEF Good
<1>5. CASE c.fn = "replace" /\ c.at \in {"restored", "caught"} /\ f.l = c.l
  <2>1. TopReplace(c, v)'
    BY <1>3, <1>5 DEF TopReplace
  <2> QED
    BY <1>1, <1>2, <1>3, <1>5, <2>1, TopIntro DEF Good
<1>6. CASE c.fn = "capture" /\ c.at = "refused" /\ f.l = c.l
  <2>1. TopCapture(c)'
    BY <1>6 DEF TopCapture
  <2> QED
    BY <1>1, <1>2, <1>3, <1>6, <2>1, TopIntro DEF Good
<1> QED
  BY <1>2, <1>4, <1>5, <1>6 DEF Legal, CallsOfHost, CallsOfRecovery, CallsOfChange

LEMMA RemoveReturns ==
  ASSUME NEW p \in Procs, NEW f, NEW r, NEW i, NEW t, Back(p, f, r, i, t), f.fn = "remove",
         r \in {"ok", "changed"} \cup Errors, Beyond(f.l)', Beneath(f.l)', r = "ok" => Dir(f.l)' = "none",
         r = "changed" => f.max = 2 /\ (Cap(f.l)' # 0 => t.lines \subseteq text'[Cap(f.l)'].lines)
  PROVE  Good(p)
<1>1. /\ Framework' /\ OtherCalls(p) /\ stack'[p] # <<>> /\ R(p)' = Result(r, i, t)
      /\ R(p)'.r = r /\ R(p)'.inode = i /\ R(p)'.text = t
      /\ \E c \in FrameType : F(p)' = c /\ FrameOK(c) /\ Legal(c, f)
  BY Returns DEF IsBottom
<1>2. PICK c \in FrameType : F(p)' = c /\ FrameOK(c) /\ Legal(c, f)
  BY <1>1
<1>3. PICK v : v = R(p)' /\ v.r = r /\ v.inode = i /\ v.text = t
  BY <1>1
<1>4. CASE c.fn = "release" /\ c.at = "tried" /\ f.l = c.l
  <2>1. TopRelease(c, v)'
    BY <1>3, <1>4 DEF TopRelease
  <2> QED
    BY <1>1, <1>2, <1>3, <1>4, <2>1, TopIntro DEF Good
<1>5. CASE c.fn = "replace" /\ c.at = "removed" /\ f.l = c.l /\ f.max = 1
  <2>1. TopReplace(c, v)'
    BY <1>3, <1>5 DEF TopReplace
  <2> QED
    BY <1>1, <1>2, <1>3, <1>5, <2>1, TopIntro DEF Good
<1> QED
  BY <1>2, <1>4, <1>5 DEF Legal, CallsOfHost, CallsOfRecovery, CallsOfChange

LEMMA ReleaseReturns ==
  ASSUME NEW p \in Procs, NEW f, NEW r, NEW i, NEW t, Back(p, f, r, i, t), f.fn = "release", f.at \notin LeaseWork,
         r \in {"ok"} \cup Errors, Beneath(f.l)', r = "ok" => Dir(f.l)' = "none" /\ Beyond(f.l)'
  PROVE  Good(p)
<1>1. /\ Framework' /\ OtherCalls(p) /\ stack'[p] # <<>> /\ R(p)' = Result(r, i, t)
      /\ R(p)'.r = r /\ R(p)'.inode = i /\ R(p)'.text = t
      /\ \E c \in FrameType : F(p)' = c /\ FrameOK(c) /\ Legal(c, f)
  BY Returns DEF IsBottom
<1>2. PICK c \in FrameType : F(p)' = c /\ FrameOK(c) /\ Legal(c, f)
  BY <1>1
<1>3. PICK v : v = R(p)' /\ v.r = r
  BY <1>1
<1>4. c.fn = "recover" /\ c.at = "done" /\ f.l = c.l
  BY <1>2 DEF Legal, CallsOfHost, CallsOfRecovery, CallsOfChange
<1>5. TopRecover(c, v)'
  BY <1>3, <1>4 DEF TopRecover
<1> QED
  BY <1>1, <1>2, <1>3, <1>4, <1>5, TopIntro DEF Good

LEMMA MergeReturns ==
  ASSUME NEW p \in Procs, NEW f, NEW r, NEW i, NEW t, Back(p, f, r, i, t), f.fn = "merge",
         r \in {"ok"} \cup Errors, Beneath(f.l)', r = "ok" => Beyond(f.l)' /\ \A u \in f.req : Safe(u)'
  PROVE  Good(p)
<1>1. /\ Framework' /\ OtherCalls(p) /\ stack'[p] # <<>> /\ R(p)' = Result(r, i, t)
      /\ R(p)'.r = r /\ R(p)'.inode = i /\ R(p)'.text = t
      /\ \E c \in FrameType : F(p)' = c /\ FrameOK(c) /\ Legal(c, f)
  BY Returns DEF IsBottom
<1>2. PICK c \in FrameType : F(p)' = c /\ FrameOK(c) /\ Legal(c, f)
  BY <1>1
<1>3. PICK v : v = R(p)' /\ v.r = r
  BY <1>1
<1>4. CASE c.fn = "recover" /\ c.at = "merged" /\ f.l = c.l /\ Within(c, f)
  <2>1. r = "ok" => \A u \in c.req : Safe(u)'
    BY <1>4 DEF Within
  <2>2. TopRecover(c, v)'
    BY <1>3, <1>4, <2>1 DEF TopRecover
  <2> QED
    BY <1>1, <1>2, <1>3, <1>4, <2>2, TopIntro DEF Good
<1>5. CASE c.fn = "release" /\ c.at = "merged" /\ f.l = c.l /\ Within(c, f)
  <2>1. r = "ok" => \A u \in c.req : Safe(u)'
    BY <1>5 DEF Within
  <2>2. TopRelease(c, v)'
    BY <1>3, <1>5, <2>1 DEF TopRelease
  <2> QED
    BY <1>1, <1>2, <1>3, <1>5, <2>2, TopIntro DEF Good
<1> QED
  BY <1>2, <1>4, <1>5 DEF Legal, CallsOfHost, CallsOfRecovery, CallsOfChange

LEMMA ReplaceReturns ==
  ASSUME NEW p \in Procs, NEW f, NEW r, NEW i, NEW t, Back(p, f, r, i, t), f.fn = "replace",
         r \in {"yes", "no"} \cup Errors, Beneath(f.l)', r \notin Errors => Tidy(f.l)' /\ Beyond(f.l)'
  PROVE  Good(p)
<1>1. /\ Framework' /\ OtherCalls(p) /\ stack'[p] # <<>> /\ R(p)' = Result(r, i, t)
      /\ R(p)'.r = r /\ R(p)'.inode = i /\ R(p)'.text = t
      /\ \E c \in FrameType : F(p)' = c /\ FrameOK(c) /\ Legal(c, f)
  BY Returns DEF IsBottom
<1>2. PICK c \in FrameType : F(p)' = c /\ FrameOK(c) /\ Legal(c, f)
  BY <1>1
<1>3. PICK v : v = R(p)' /\ v.r = r
  BY <1>1
<1>4. CASE c.fn = "merge" /\ c.at = "replaced" /\ f.l = c.l + 1
  <2>1. c.l \in Levels
    BY <1>2 DEF FrameOK
  <2>2. Dir(c.l)' = "open" /\ Beneath(c.l)'
    BY <1>4, <2>1 DEF Beneath, Levels
  <2>3. r \notin Errors => Beyond(c.l)'
    BY <1>4, <2>1 DEF Beyond, Levels
  <2>4. TopMerge(c, v)'
    BY <1>3, <1>4, <2>2, <2>3 DEF TopMerge
  <2> QED
    BY <1>1, <1>2, <1>3, <1>4, <2>4, TopIntro DEF Good
<1>5. CASE c.fn = "rules" /\ c.at = "tried" /\ f.l = 0
  <2>1. r \notin Errors => AllTidy'
    BY <1>5 DEF AllTidy, Beyond, Levels
  <2>2. TopRules(c, v)'
    BY <1>3, <1>5, <2>1 DEF TopRules
  <2> QED
    BY <1>1, <1>2, <1>3, <1>5, <2>2, TopIntro DEF Good
<1> QED
  BY <1>2, <1>4, <1>5 DEF Legal, CallsOfHost, CallsOfRecovery, CallsOfChange

LEMMA UnrollReturns ==
  ASSUME NEW p \in Procs, NEW f, NEW i, NEW t, Back(p, f, "ok", i, t), f.fn = "unroll", Beneath(f.l)'
  PROVE  Good(p)
<1>1. /\ Framework' /\ OtherCalls(p) /\ stack'[p] # <<>> /\ R(p)' = Result("ok", i, t)
      /\ R(p)'.r = "ok" /\ R(p)'.inode = i /\ R(p)'.text = t
      /\ \E c \in FrameType : F(p)' = c /\ FrameOK(c) /\ Legal(c, f)
  BY Returns DEF IsBottom
<1>2. PICK c \in FrameType : F(p)' = c /\ FrameOK(c) /\ Legal(c, f)
  BY <1>1
<1>3. PICK v : v = R(p)' /\ v.r = "ok"
  BY <1>1
<1>4. c.fn = "recover" /\ c.at = "unrolled" /\ f.l = c.l
  BY <1>2 DEF Legal, CallsOfHost, CallsOfRecovery, CallsOfChange
<1>5. TopRecover(c, v)'
  BY <1>3, <1>4 DEF TopRecover
<1> QED
  BY <1>1, <1>2, <1>3, <1>4, <1>5, TopIntro DEF Good

LEMMA RecoverReturns ==
  ASSUME NEW p \in Procs, NEW f, NEW r, NEW i, NEW t, Back(p, f, r, i, t), f.fn = "recover",
         r \in {"ok"} \cup Errors, Beneath(f.l)', r = "ok" => Dir(f.l)' = "none" /\ Beyond(f.l)'
  PROVE  Good(p)
<1>1. /\ Framework' /\ OtherCalls(p) /\ stack'[p] # <<>> /\ R(p)' = Result(r, i, t)
      /\ R(p)'.r = r /\ R(p)'.inode = i /\ R(p)'.text = t
      /\ \E c \in FrameType : F(p)' = c /\ FrameOK(c) /\ Legal(c, f)
  BY Returns DEF IsBottom
<1>2. PICK c \in FrameType : F(p)' = c /\ FrameOK(c) /\ Legal(c, f)
  BY <1>1
<1>3. PICK v : v = R(p)' /\ v.r = r
  BY <1>1
<1>4. CASE c.fn = "recover" /\ c.at = "reconciled" /\ f.l = c.l + 1
  <2>1. c.l \in Levels
    BY <1>2 DEF FrameOK
  <2>2. Dir(c.l)' = "open" /\ Beneath(c.l)'
    BY <1>4, <2>1 DEF Beneath, Levels
  <2>4. TopRecover(c, v)'
    BY <1>3, <1>4, <2>2 DEF TopRecover
  <2> QED
    BY <1>1, <1>2, <1>3, <1>4, <2>4, TopIntro DEF Good
<1>5. CASE c.fn = "replace" /\ c.at = "recovered" /\ f.l = c.l
  <2>1. TopReplace(c, v)'
    BY <1>3, <1>5 DEF TopReplace
  <2> QED
    BY <1>1, <1>2, <1>3, <1>5, <2>1, TopIntro DEF Good
<1>6. CASE c.fn = "rules" /\ c.at = "ready" /\ f.l = 0
  <2>1. TopRules(c, v)'
    BY <1>3, <1>6 DEF TopRules
  <2> QED
    BY <1>1, <1>2, <1>3, <1>6, <2>1, TopIntro DEF Good
<1> QED
  BY <1>2, <1>4, <1>5, <1>6 DEF Legal, CallsOfHost, CallsOfRecovery, CallsOfChange

LEMMA HostReturns ==
  ASSUME NEW p \in Procs, NEW f, NEW r, NEW i, NEW t, Back(p, f, r, i, t),
         f.fn \in {"rules", "clear", "cleanup", "rollback"}
  PROVE  Good(p)
<1>1. /\ Framework' /\ OtherCalls(p) /\ stack'[p] # <<>> /\ R(p)' = Result(r, i, t)
      /\ R(p)'.r = r /\ R(p)'.inode = i /\ R(p)'.text = t
      /\ \E c \in FrameType : F(p)' = c /\ FrameOK(c) /\ Legal(c, f)
  BY Returns DEF IsBottom
<1>2. PICK c \in FrameType : F(p)' = c /\ FrameOK(c) /\ Legal(c, f)
  BY <1>1
<1>3. PICK v : v = R(p)'
  BY <1>1
<1>4. c.fn \in {"launch", "reconcile", "cleanup", "rollback"} \/ (c.fn = "release" /\ c.at \in LeaseWork)
  <2>1. ~CallsOfRecovery(c, f)
    BY DEF CallsOfRecovery
  <2>2. ~CallsOfChange(c, f)
    BY DEF CallsOfChange
  <2>3. CallsOfHost(c, f) /\ "lease done" \in LeaseWork
    BY <1>2, <2>1, <2>2 DEF Legal, LeaseWork
  <2>4. CASE f.fn = "rules"
    BY <2>3, <2>4 DEF CallsOfHost
  <2>5. CASE f.fn \in {"clear", "cleanup"}
    BY <2>3, <2>5 DEF CallsOfHost
  <2>6. CASE f.fn = "rollback"
    BY <2>3, <2>6 DEF CallsOfHost
  <2> QED
    BY <2>4, <2>5, <2>6
<1>5. c.fn = "release" /\ c.at \in LeaseWork => TopRelease(c, v)'
  BY DEF TopRelease
<1> QED
  BY <1>1, <1>2, <1>3, <1>4, <1>5, TopIntro DEF Good

-----------------------------------------------------------------------------
(* How a step is taken: the frame on top goes on, calls, or gives a result  *)

Now(p, f, r) ==
    /\ Framework /\ stack[p] # <<>> /\ F(p) = f /\ R(p) = r
    /\ f \in FrameType /\ r \in ResultType /\ FrameOK(f) /\ Top(f, r)
Moves(p, f, r) == Now(p, f, r) /\ FilesOK' /\ Shuffled

LEMMA NowFacts ==
  ASSUME Framework, NEW p \in Procs, TopAt(p), NEW fn, NEW a, At(p, fn, a)
  PROVE  \E f, r : Now(p, f, r) /\ f.fn = fn /\ f.at = a /\ f.l \in Levels
<1>1. stack[p] \in Seq(FrameType) /\ Linked(stack[p]) /\ R(p) \in ResultType
  BY DEF Framework, CallsOK, CallTypes, R
<1>2. stack[p] # <<>> /\ F(p).fn = fn /\ F(p).at = a
  BY DEF At, F
<1>3. F(p) = stack[p][1] /\ 1 \in 1..Len(stack[p]) /\ F(p) \in FrameType
  BY <1>1, <1>2 DEF F
<1>4. FrameOK(F(p))
  BY <1>1, <1>3 DEF Linked
<1>5. Now(p, F(p), R(p))
  BY <1>1, <1>2, <1>3, <1>4 DEF Now, TopAt
<1> QED
  BY <1>2, <1>4, <1>5 DEF FrameOK

LEMMA FrameIntro ==
  ASSUME NEW g \in FrameType, g.l \in Levels
  PROVE  /\ g.fn = "capture" /\ OKCapture(g) => FrameOK(g)
         /\ g.fn = "restore" /\ OKRestore(g) => FrameOK(g)
         /\ g.fn = "remove" /\ OKRemove(g) => FrameOK(g)
         /\ g.fn = "release" /\ OKRelease(g) => FrameOK(g)
         /\ g.fn = "merge" /\ OKMerge(g) => FrameOK(g)
         /\ g.fn = "replace" /\ OKReplace(g) => FrameOK(g)
         /\ g.fn = "unroll" /\ OKUnroll(g) => FrameOK(g)
         /\ g.fn = "recover" /\ OKRecover(g) => FrameOK(g)
         /\ g.fn = "rules" /\ OKRules(g) => FrameOK(g)
         /\ g.fn \in {"launch", "reconcile", "cleanup", "rollback", "clear"} => FrameOK(g)
  BY DEF FrameOK, FunctionNames, OKCapture, OKRestore, OKRemove, OKRelease, OKMerge, OKReplace, OKUnroll, OKRecover, OKRules

\* The frame f at another point.
As(g, f, a) ==
    /\ g \in FrameType /\ g.at = a /\ g.fn = f.fn /\ g.l = f.l /\ g.dir = f.dir /\ g.max = f.max
    /\ g.inode = f.inode /\ g.text = f.text /\ g.next = f.next /\ g.req = f.req /\ g.code = f.code

LEMMA GoFrame ==
  ASSUME NEW p \in Procs, NEW f, NEW r, Now(p, f, r), NEW a \in Words, f.fn # "release" \/ (a \in LeaseWork <=> f.at \in LeaseWork)
  PROVE  \E g \in FrameType : /\ g = [f EXCEPT !.at = a] /\ As(g, f, a) /\ Resumes(f, g)
                              /\ Go(p, a) => Continue(p, g)
<1>1. PICK g : g = [f EXCEPT !.at = a]
  OBVIOUS
<1>2. As(g, f, a) /\ g \in FrameType
  BY <1>1, FrameFacts DEF As, Now
<1>3. Resumes(f, g)
  BY <1>2 DEF As, Resumes, Within
<1>4. Go(p, a) => Continue(p, g)
  BY <1>1 DEF Go, Now
<1> QED
  BY <1>1, <1>2, <1>3, <1>4

LEMMA ThrowFrame ==
  ASSUME NEW p \in Procs, NEW f, NEW r, Now(p, f, r), NEW a \in Words, NEW code \in Words, f.fn # "release"
  PROVE  \E g \in FrameType : /\ g.at = a /\ g.code = code /\ g.fn = f.fn /\ g.l = f.l /\ g.dir = f.dir /\ g.max = f.max
                              /\ g.inode = f.inode /\ g.text = f.text /\ g.next = f.next /\ g.req = f.req
                              /\ Resumes(f, g)
                              /\ Throw(p, a, code) => Continue(p, g)
<1>1. PICK g : g = [f EXCEPT !.at = a, !.code = code]
  OBVIOUS
<1>2. /\ g \in FrameType /\ g.at = a /\ g.code = code /\ g.fn = f.fn /\ g.l = f.l /\ g.dir = f.dir /\ g.max = f.max
      /\ g.inode = f.inode /\ g.text = f.text /\ g.next = f.next /\ g.req = f.req
  BY <1>1 DEF FrameType, Now
<1>3. Resumes(f, g)
  BY <1>2 DEF Resumes, Within
<1>4. Throw(p, a, code) => Continue(p, g)
  BY <1>1 DEF Throw, Now
<1> QED
  BY <1>2, <1>3, <1>4

LEMMA Proceeds ==
  ASSUME NEW p \in Procs, NEW f, NEW r, Moves(p, f, r), NEW g \in FrameType, FrameOK(g), Resumes(f, g), Continue(p, g),
         Settled(g) \/ FrameTemp(g)'
  PROVE  Framework' /\ OtherCalls(p) /\ stack'[p] # <<>> /\ F(p)' = g /\ R(p)' = r
  BY Continues DEF Moves, Now

\* c is the frame on top, at the point where it calls.
Caller(p, f, r, c) ==
    Moves(p, f, r) /\ c \in FrameType /\ FrameOK(c) /\ Resumes(f, c) /\ (Settled(c) \/ FrameTemp(c)')

LEMMA Calls ==
  ASSUME NEW p \in Procs, NEW f, NEW r, NEW c, Caller(p, f, r, c), NEW g \in FrameType, FrameOK(g), Legal(c, g), Settled(g),
         Frames(p, <<g, c>>), UNCHANGED res
  PROVE  Framework' /\ OtherCalls(p) /\ stack'[p] # <<>> /\ F(p)' = g /\ R(p)' = r
  BY Enters DEF Caller, Moves, Now

(* What the steps leave of the view that the other levels have. *)

LEMMA AroundView ==
  ASSUME NEW l \in Levels, \A m \in Levels : m # l => Dir(m)' = Dir(m) /\ Tmp(m)' = Tmp(m)
  PROVE  (Beyond(l)' <=> Beyond(l)) /\ (Beneath(l)' <=> Beneath(l))
<1>1. \A m \in Levels : m > l \/ m < l => m # l
  BY DEF Levels
<1>2. Beyond(l)' <=> Beyond(l)
  BY <1>1 DEF Beyond, Tidy
<1>3. Beneath(l)' <=> Beneath(l)
  BY <1>1 DEF Beneath
<1> QED
  BY <1>2, <1>3

LEMMA SafeView ==
  ASSUME names'[Public] = names[Public], text' = text
  PROVE  \A t : Safe(t)' <=> Safe(t)
  BY DEF Safe, PublicLines

LEMMA NamesView ==
  ASSUME names' = names
  PROVE  \A l \in Levels : Tmp(l)' = Tmp(l) /\ Cap(l)' = Cap(l) /\ Rel(l)' = Rel(l)
  BY DEF Tmp, Cap, Rel

LEMMA QuietView ==
  ASSUME UNCHANGED files
  PROVE  /\ names' = names /\ dirs' = dirs /\ text' = text
         /\ \A l \in Levels : /\ Dir(l)' = Dir(l) /\ Tmp(l)' = Tmp(l) /\ Cap(l)' = Cap(l) /\ Rel(l)' = Rel(l)
                              /\ (Beyond(l)' <=> Beyond(l)) /\ (Beneath(l)' <=> Beneath(l)) /\ (Tidy(l)' <=> Tidy(l))
         /\ \A t : Safe(t)' <=> Safe(t)
         /\ \A l \in Levels : \A i, t : Sole(l, i, t)' <=> Sole(l, i, t)
<1>1. names' = names /\ dirs' = dirs /\ text' = text
  BY DEF files
<1>2. \A l \in Levels : Dir(l)' = Dir(l) /\ Tmp(l)' = Tmp(l) /\ Cap(l)' = Cap(l) /\ Rel(l)' = Rel(l)
  BY <1>1, NamesView, DirView
<1>3. \A l \in Levels : (Beyond(l)' <=> Beyond(l)) /\ (Beneath(l)' <=> Beneath(l))
  BY <1>2, AroundView
<1>4. \A l \in Levels : Tidy(l)' <=> Tidy(l)
  BY <1>2 DEF Tidy
<1>5. \A t : Safe(t)' <=> Safe(t)
  BY <1>1, SafeView
<1>6. \A l \in Levels : \A i, t : Sole(l, i, t)' <=> Sole(l, i, t)
  BY <1>1, <1>2 DEF Sole
<1> QED
  BY <1>1, <1>2, <1>3, <1>4, <1>5, <1>6

LEMMA QuietMove ==
  ASSUME NEW p, NEW f, NEW r, Now(p, f, r), Aside, UNCHANGED files
  PROVE  Moves(p, f, r)
  BY QuietFiles DEF Now, Moves, Framework

LEMMA BackFrom ==
  ASSUME NEW p, NEW f, NEW r, Moves(p, f, r), NEW q \in Words, NEW i \in Nat, NEW t \in Texts, Give(p, q, i, t)
  PROVE  Back(p, f, q, i, t)
  BY DEF Moves, Now, Back

LEMMA BackEmpty ==
  ASSUME NEW p, NEW f, NEW r, Moves(p, f, r), NEW q \in Words, Return(p, q)
  PROVE  Back(p, f, q, 0, Empty)
<1>1. Empty \in Texts
  BY DEF Empty, Texts
<1> QED
  BY <1>1, BackFrom DEF Return

LEMMA FrameMade ==
  ASSUME NEW fn \in Words, NEW at \in Words, NEW l \in Nat
  PROVE  /\ Frame(fn, at, l) \in FrameType /\ Frame(fn, at, l).fn = fn /\ Frame(fn, at, l).at = at
         /\ Frame(fn, at, l).l = l /\ Frame(fn, at, l).dir = "replace" /\ Frame(fn, at, l).max = 1
         /\ Frame(fn, at, l).text = Empty /\ Frame(fn, at, l).next = Empty /\ Frame(fn, at, l).inode = 0
<1>1. Empty \in Texts
  BY DEF Empty, Texts
<1>2. {} \in SUBSET Texts /\ "replace" \in Words /\ "ok" \in Words /\ 0 \in Nat /\ 1 \in Nat
  BY WordFacts
<1> QED
  BY <1>1, <1>2 DEF Frame, FrameType

LEMMA Finishes ==
  ASSUME FilesOK, Aside, NEW l \in Levels, Dir(l) = "released", Beneath(l), NEW p, NEW r, FinishReleased(p, l, "replace", r)
  PROVE  /\ FilesOK' /\ Shuffled /\ Beyond(l)' /\ Beneath(l)'
         /\ \/ UNCHANGED calls
            \/ Return(p, r) /\ Dir(l)' = "none"
            \/ Return(p, "collision")
<1>1. Cap(l) = 0 /\ Beyond(l)
  BY DEF FilesOK, Placed, AllDirs, DirFiles
<1>4. CASE Crowded(Release(l, "replace"))
  <2>1. Return(p, "collision") /\ UNCHANGED files
    BY <1>4 DEF FinishReleased
  <2> QED
    BY <1>1, <2>1, QuietFiles, QuietView
<1>2. CASE Rel(l) # 0 /\ ~Crowded(Release(l, "replace"))
  <2>1. Drop(Release(l, "replace")) /\ UNCHANGED calls
    BY <1>2 DEF FinishReleased, Rel
  <2>2. Elsewhere(l)
    BY <2>1, DropRelease
  <2>3. Beyond(l)' /\ Beneath(l)'
    BY <2>2, <1>1, AroundView DEF Elsewhere
  <2> QED
    BY <2>1, <2>2, <2>3 DEF Elsewhere
<1>3. CASE Rel(l) = 0
  <2>1. SetDir(l, "replace", "none") /\ Return(p, r)
    BY <1>3 DEF FinishReleased, Rel, Crowded
  <2>2. /\ FilesOK' /\ Shuffled /\ names' = names /\ text' = text
        /\ Dir(l)' = "none" /\ \A m \in Levels : m # l => Dir(m)' = Dir(m)
    BY <1>1, <1>3, <2>1, ChangeDirectory
  <2>3. Beyond(l)' /\ Beneath(l)'
    BY <2>2, <1>1, AroundView, NamesView
  <2> QED
    BY <2>1, <2>2, <2>3
<1> QED
  BY <1>2, <1>3, <1>4

-----------------------------------------------------------------------------
(* captureProjectPreparationFile *)

LEMMA CaptureGoes ==
  ASSUME NEW p \in Procs, NEW f, NEW r, Moves(p, f, r), f.fn = "capture",
         NEW a \in {"claim", "take", "read"}, Go(p, a), Beyond(f.l)', Beneath(f.l)',
         a = "claim" => Dir(f.l)' = "open",
         a = "take" => Dir(f.l)' = "open" /\ Cap(f.l)' = 0 /\ Rel(f.l)' = 0,
         a = "read" => Rel(f.l)' = 0
  PROVE  Good(p)
<1>1. PICK g \in FrameType : As(g, f, a) /\ Resumes(f, g) /\ Continue(p, g)
  <2>1. a \in Words /\ f.fn # "release"
    BY WordFacts
  <2> QED
    BY <2>1, GoFrame DEF Moves
<1>2. FrameOK(g) /\ Settled(g)
  <2>1. OKCapture(f) /\ f.l \in Levels
    BY DEF Moves, Now, FrameOK
  <2> QED
    BY <2>1, <1>1, FrameIntro DEF As, OKCapture, Settled
<1>3. Framework' /\ OtherCalls(p) /\ stack'[p] # <<>> /\ F(p)' = g /\ R(p)' = r
  BY <1>1, <1>2, Proceeds
<1>4. TopCapture(g)'
  BY <1>1 DEF As, TopCapture
<1> QED
  BY <1>1, <1>3, <1>4, TopIntro DEF As, Good

LEMMA EntersRestore ==
  ASSUME NEW p \in Procs, NEW f, NEW r, NEW c, Caller(p, f, r, c), NEW l \in Levels,
         Frames(p, <<Restore(l, "replace"), c>>), UNCHANGED res, c.l = l,
         \/ c.fn = "recover" /\ c.at = "done"
         \/ c.fn = "replace" /\ c.at \in {"restored", "caught"}
         \/ c.fn = "capture" /\ c.at = "refused",
         Beyond(l)', Beneath(l)'
  PROVE  Good(p)
<1>1. PICK g : g = Restore(l, "replace")
  OBVIOUS
<1>2. g \in FrameType /\ g.fn = "restore" /\ g.at = "link" /\ g.l = l /\ g.dir = "replace"
  <2>1. PICK e : e = Frame("restore", "link", l)
    OBVIOUS
  <2>5. l \in Nat
    BY DEF Levels
  <2>6. "restore" \in Words /\ "link" \in Words /\ "replace" \in Words
    BY WordFacts
  <2>4. l \in Nat /\ "restore" \in Words /\ "link" \in Words /\ "replace" \in Words
    BY <2>5, <2>6
  <2>2. e \in FrameType /\ e.fn = "restore" /\ e.at = "link" /\ e.l = l
    BY <2>1, <2>4, FrameMade
  <2>3. g = [e EXCEPT !.dir = "replace"]
    BY <1>1, <2>1 DEF Restore
  <2> QED
    BY <2>2, <2>3, <2>4 DEF FrameType
<1>3. FrameOK(g) /\ Settled(g)
  BY <1>2, FrameIntro DEF OKRestore, Settled
<1>4. Legal(c, g)
  BY <1>2 DEF Legal, CallsOfRecovery, CallsOfChange
<1>5. Framework' /\ OtherCalls(p) /\ stack'[p] # <<>> /\ F(p)' = g /\ R(p)' = r
  BY <1>1, <1>2, <1>3, <1>4, Calls
<1>6. TopRestore(g)'
  BY <1>2 DEF TopRestore
<1> QED
  BY <1>2, <1>5, <1>6, TopIntro DEF Good

LEMMA CaptureOpensKeeps ==
  ASSUME Framework, NEW p \in Procs, TopAt(p), Aside, CaptureOpens(p)
  PROVE  Good(p)
<1>1. PICK f, r : Now(p, f, r) /\ f.fn = "capture" /\ f.at = "open" /\ f.l \in Levels
  BY NowFacts DEF CaptureOpens
<1>2. F(p) = f /\ FilesOK /\ f.dir = "replace" /\ Beyond(f.l) /\ Beneath(f.l)
  BY <1>1 DEF Now, Framework, FrameOK, OKCapture, Top, TopCapture
<1>3. CASE Dir(f.l) = "released"
  <2>1. FinishReleased(p, f.l, "replace", "absent")
    BY <1>2, <1>3 DEF CaptureOpens, Dir
  <2>2. /\ FilesOK' /\ Shuffled /\ Beyond(f.l)' /\ Beneath(f.l)'
        /\ UNCHANGED calls \/ (Return(p, "absent") /\ Dir(f.l)' = "none") \/ Return(p, "collision")
    BY <1>1, <1>2, <1>3, <2>1, Finishes
  <2>3. Moves(p, f, r)
    BY <1>1, <2>2 DEF Moves
  <2>4. CASE UNCHANGED calls
    <3>1. Framework' /\ OtherCalls(p) /\ stack'[p] # <<>> /\ F(p)' = f /\ R(p)' = r
      BY <1>1, <2>2, <2>4, Stays DEF Now
    <3>2. TopCapture(f)'
      BY <1>1, <2>2 DEF TopCapture
    <3> QED
      BY <1>1, <3>1, <3>2, TopIntro DEF Good
  <2>5. CASE Return(p, "absent") /\ Dir(f.l)' = "none"
    <3>1. Back(p, f, "absent", 0, Empty)
      BY <2>3, <2>5, BackEmpty, WordFacts
    <3> QED
      BY <1>1, <2>2, <2>5, <3>1, CaptureReturns
  <2>6. CASE Return(p, "collision")
    <3>1. Back(p, f, "collision", 0, Empty)
      BY <2>3, <2>6, BackEmpty, WordFacts
    <3> QED
      BY <1>1, <2>2, <3>1, CaptureReturns DEF Errors
  <2> QED
    BY <2>2, <2>4, <2>5, <2>6
<1>4. CASE Dir(f.l) = "open"
  <2>1. Go(p, "claim") /\ UNCHANGED files
    BY <1>2, <1>4 DEF CaptureOpens, Dir
  <2>2. Moves(p, f, r)
    BY <1>1, <2>1, QuietMove
  <2> QED
    BY <1>1, <1>2, <1>4, <2>1, <2>2, QuietView, CaptureGoes
<1>5. CASE Dir(f.l) = "none"
  <2>1. SetDir(f.l, "replace", "open") /\ Go(p, "take")
    BY <1>2, <1>5 DEF CaptureOpens, Dir
  <2>2. /\ FilesOK' /\ Shuffled /\ names' = names /\ text' = text
        /\ Dir(f.l)' = "open" /\ \A m \in Levels : m # f.l => Dir(m)' = Dir(m)
    BY <1>1, <1>2, <2>1, ChangeDirectory
  <2>3. Beyond(f.l)' /\ Beneath(f.l)' /\ Cap(f.l)' = 0 /\ Rel(f.l)' = 0
    <3>1. Cap(f.l) = 0 /\ Rel(f.l) = 0
      BY <1>1, <1>2, <1>5 DEF FilesOK, Placed, AllDirs, DirFiles
    <3> QED
      BY <1>1, <1>2, <2>2, <3>1, AroundView, NamesView
  <2>4. Moves(p, f, r)
    BY <1>1, <2>2 DEF Moves
  <2> QED
    BY <1>1, <2>1, <2>2, <2>3, <2>4, CaptureGoes
<1>6. Dir(f.l) \in {"none", "open", "released"}
  BY <1>1, <1>2 DEF FilesOK, Placed, FileTypes, Dir, Areas
<1> QED
  BY <1>3, <1>4, <1>5, <1>6

(* The hard links to a file are counted over finitely many names. *)

LEMMA NamesFinite == IsFiniteSet(Names)
<1>1. IsFiniteSet(Levels)
  BY FS_Interval, ProjectFileAssumption DEF Levels
<1>2. IsFiniteSet(Areas)
  <2>1. IsFiniteSet({"replace"})
    BY FS_Singleton
  <2>2. IsFiniteSet({"replace"} \cup {"rollback"})
    BY <2>1, FS_AddElement
  <2>3. Areas = {"replace"} \cup {"rollback"}
    BY DEF Areas
  <2> QED
    BY <2>2, <2>3
<1>3. IsFiniteSet(Levels \X Areas)
  BY <1>1, <1>2, FS_Product
<1> DEFINE T == {Temp(l) : l \in Levels}
           C == {Captured(l, d) : l \in Levels, d \in Areas}
           Q == {Release(l, d) : l \in Levels, d \in Areas}
           t == [l \in Levels |-> Temp(l)]
           c == [x \in Levels \X Areas |-> Captured(x[1], x[2])]
           q == [x \in Levels \X Areas |-> Release(x[1], x[2])]
<1>4. t \in Surjection(Levels, T)
  BY DEF Surjection
<1>5. c \in Surjection(Levels \X Areas, C)
  <2>1. c \in [Levels \X Areas -> C]
    OBVIOUS
  <2>2. ASSUME NEW y \in C
        PROVE  \E x \in Levels \X Areas : c[x] = y
    <3>1. PICK l \in Levels, d \in Areas : y = Captured(l, d)
      OBVIOUS
    <3>2. <<l, d>> \in Levels \X Areas /\ c[<<l, d>>] = y
      BY <3>1
    <3> QED
      BY <3>2
  <2> QED
    BY <2>1, <2>2 DEF Surjection
<1>6. q \in Surjection(Levels \X Areas, Q)
  <2>1. q \in [Levels \X Areas -> Q]
    OBVIOUS
  <2>2. ASSUME NEW y \in Q
        PROVE  \E x \in Levels \X Areas : q[x] = y
    <3>1. PICK l \in Levels, d \in Areas : y = Release(l, d)
      OBVIOUS
    <3>2. <<l, d>> \in Levels \X Areas /\ q[<<l, d>>] = y
      BY <3>1
    <3> QED
      BY <3>2
  <2> QED
    BY <2>1, <2>2 DEF Surjection
<1>7. IsFiniteSet(T) /\ IsFiniteSet(C) /\ IsFiniteSet(Q)
  <2> HIDE DEF T, C, Q, t, c, q
  <2> QED
    BY <1>1, <1>3, <1>4, <1>5, <1>6, FS_Surjection
<1>8. Names = (({Public} \cup T) \cup C) \cup Q
  BY DEF Names
<1> HIDE DEF T, C, Q
<1>9. IsFiniteSet({Public})
  BY FS_Singleton
<1>10. IsFiniteSet({Public} \cup T)
  BY <1>7, <1>9, FS_Union
<1>11. IsFiniteSet(({Public} \cup T) \cup C)
  BY <1>7, <1>10, FS_Union
<1> QED
  BY <1>7, <1>8, <1>11, FS_Union

LEMMA LinkCount ==
  ASSUME NEW n \in Names, NEW i, names[n] = i
  PROVE  /\ Links(i) \in Nat /\ Links(i) > 0
         /\ \A m \in Names : m # n /\ names[m] = i => Links(i) > 1
<1> DEFINE S == {k \in Names : names[k] = i}
<1>1. IsFiniteSet(S) /\ n \in S
  BY NamesFinite, FS_Subset
<1>2. Links(i) = Cardinality(S)
  BY DEF Links
<1> HIDE DEF S
<1>3. /\ Cardinality(S) \in Nat /\ IsFiniteSet(S \ {n}) /\ Cardinality(S \ {n}) \in Nat
      /\ Cardinality(S \ {n}) = Cardinality(S) - 1
  BY <1>1, FS_RemoveElement, FS_CardinalityType
<1>4. ASSUME NEW m \in Names, m # n, names[m] = i
      PROVE  Cardinality(S) > 1
  <2>1. m \in S \ {n}
    BY <1>4 DEF S
  <2>2. Cardinality((S \ {n}) \ {m}) = Cardinality(S \ {n}) - 1 /\ Cardinality((S \ {n}) \ {m}) \in Nat
    BY <1>3, <2>1, FS_RemoveElement, FS_CardinalityType
  <2> QED
    BY <1>3, <2>2
<1> QED
  BY <1>2, <1>3, <1>4

LEMMA CaptureClaimsKeeps ==
  ASSUME Framework, NEW p \in Procs, TopAt(p), Aside, CaptureClaims(p)
  PROVE  Good(p)
<1>1. PICK f, r : Now(p, f, r) /\ f.fn = "capture" /\ f.at = "claim" /\ f.l \in Levels
  BY NowFacts DEF CaptureClaims
<1>2. F(p) = f /\ FilesOK /\ f.dir = "replace" /\ Beyond(f.l) /\ Beneath(f.l) /\ Dir(f.l) = "open"
  BY <1>1 DEF Now, Framework, FrameOK, OKCapture, Top, TopCapture
<1>3. Cap(f.l) # 0 /\ Rel(f.l) # 0 => Cap(f.l) = Rel(f.l)
  BY <1>1, <1>2 DEF FilesOK, Placed, AllDirs, DirFiles
<1>6. CASE Rel(f.l) # 0 /\ Cap(f.l) # 0 /\ Crowded(Captured(f.l, "replace"))
  <2>1. Return(p, "collision") /\ UNCHANGED files
    BY <1>2, <1>3, <1>6 DEF CaptureClaims, Cap, Rel
  <2>2. Moves(p, f, r)
    BY <1>1, <2>1, QuietMove
  <2>3. Back(p, f, "collision", 0, Empty)
    BY <2>1, <2>2, BackEmpty, WordFacts
  <2> QED
    BY <1>1, <1>2, <2>1, <2>3, QuietView, CaptureReturns DEF Errors
<1>4. CASE Rel(f.l) # 0 /\ ~(Cap(f.l) # 0 /\ Crowded(Captured(f.l, "replace")))
  <2>1. \/ Cap(f.l) = 0 /\ Rename(Release(f.l, "replace"), Captured(f.l, "replace")) /\ UNCHANGED calls
        \/ Cap(f.l) = Rel(f.l) /\ Drop(Release(f.l, "replace")) /\ UNCHANGED calls
    BY <1>2, <1>3, <1>4 DEF CaptureClaims, Cap, Rel
  <2>2. Elsewhere(f.l) /\ UNCHANGED calls
    BY <1>1, <1>2, <1>4, <2>1, TakeBack, DropRelease
  <2>3. Beyond(f.l)' /\ Beneath(f.l)' /\ Dir(f.l)' = "open"
    BY <1>1, <1>2, <2>2, AroundView DEF Elsewhere
  <2>4. Framework' /\ OtherCalls(p) /\ stack'[p] # <<>> /\ F(p)' = f /\ R(p)' = r
    BY <1>1, <2>2, Stays DEF Now, Elsewhere
  <2>5. TopCapture(f)'
    BY <1>1, <2>3 DEF TopCapture
  <2> QED
    BY <1>1, <2>4, <2>5, TopIntro DEF Good
<1>5. CASE Rel(f.l) = 0
  <2>1. UNCHANGED files /\ \/ Go(p, "take") /\ Cap(f.l) = 0
                           \/ Go(p, "read") /\ Cap(f.l) # 0
    BY <1>2, <1>5 DEF CaptureClaims, Cap, Rel
  <2>2. Moves(p, f, r)
    BY <1>1, <2>1, QuietMove
  <2>3. CASE Go(p, "take") /\ Cap(f.l) = 0
    BY <1>1, <1>2, <1>5, <2>1, <2>2, <2>3, QuietView, CaptureGoes
  <2>4. CASE Go(p, "read")
    BY <1>1, <1>2, <1>5, <2>1, <2>2, <2>4, QuietView, CaptureGoes
  <2> QED
    BY <2>1, <2>3, <2>4
<1> QED
  BY <1>4, <1>5, <1>6

LEMMA CaptureTakesKeeps ==
  ASSUME Framework, NEW p \in Procs, TopAt(p), Aside, CaptureTakes(p)
  PROVE  Good(p)
<1>1. PICK f, r : Now(p, f, r) /\ f.fn = "capture" /\ f.at = "take" /\ f.l \in Levels
  BY NowFacts DEF CaptureTakes
<1>2. F(p) = f /\ FilesOK /\ f.dir = "replace" /\ Beyond(f.l) /\ Beneath(f.l) /\ Dir(f.l) = "open" /\ Cap(f.l) = 0 /\ Rel(f.l) = 0
  BY <1>1 DEF Now, Framework, FrameOK, OKCapture, Top, TopCapture
<1>3. CASE names[Public] # 0
  <2>1. Rename(Public, Captured(f.l, "replace")) /\ Go(p, "read")
    BY <1>2, <1>3 DEF CaptureTakes, Dir
  <2>2. Elsewhere(f.l) /\ Rel(f.l)' = 0
    BY <1>1, <1>2, <1>3, <2>1, TakePublic
  <2>3. Beyond(f.l)' /\ Beneath(f.l)'
    BY <1>1, <1>2, <2>2, AroundView DEF Elsewhere
  <2>4. Moves(p, f, r)
    BY <1>1, <2>2 DEF Moves, Elsewhere
  <2> QED
    BY <1>1, <2>1, <2>2, <2>3, <2>4, CaptureGoes
<1>4. CASE names[Public] = 0
  <2>1. SetDir(f.l, "replace", "none") /\ Return(p, "absent")
    BY <1>2, <1>4 DEF CaptureTakes, Dir, Cap, Rel
  <2>2. /\ FilesOK' /\ Shuffled /\ names' = names /\ text' = text
        /\ Dir(f.l)' = "none" /\ \A m \in Levels : m # f.l => Dir(m)' = Dir(m)
    BY <1>1, <1>2, <2>1, ChangeDirectory
  <2>3. Beyond(f.l)' /\ Beneath(f.l)'
    BY <1>1, <1>2, <2>2, AroundView, NamesView
  <2>4. Back(p, f, "absent", 0, Empty)
    BY <1>1, <2>1, <2>2, BackEmpty, WordFacts DEF Moves
  <2> QED
    BY <1>1, <2>2, <2>3, <2>4, CaptureReturns
<1> QED
  BY <1>3, <1>4

LEMMA CaptureReadsKeeps ==
  ASSUME Framework, NEW p \in Procs, TopAt(p), Aside, CaptureReads(p)
  PROVE  Good(p)
<1>1. PICK f, r : Now(p, f, r) /\ f.fn = "capture" /\ f.at = "read" /\ f.l \in Levels
  BY NowFacts DEF CaptureReads
<1>2. F(p) = f /\ FilesOK /\ f.dir = "replace" /\ f.max \in {1, 2} /\ Beyond(f.l) /\ Beneath(f.l) /\ Rel(f.l) = 0
  BY <1>1 DEF Now, Framework, FrameOK, OKCapture, Top, TopCapture
<1>3. UNCHANGED files
  BY DEF CaptureReads
<1>4. Moves(p, f, r) /\ Beyond(f.l)' /\ Beneath(f.l)' /\ Rel(f.l)' = 0 /\ Cap(f.l)' = Cap(f.l) /\ names' = names /\ text' = text
  BY <1>1, <1>2, <1>3, QuietMove, QuietView
<1>5. PICK i : i = Cap(f.l)
  OBVIOUS
<1>6. CASE i = 0
  <2>1. Return(p, "failed")
    BY <1>2, <1>5, <1>6 DEF CaptureReads, Cap
  <2>2. Back(p, f, "failed", 0, Empty)
    BY <1>4, <2>1, BackEmpty, WordFacts
  <2> QED
    BY <1>1, <1>4, <2>2, CaptureReturns DEF Errors
<1>7. CASE i # 0 /\ Links(i) <= f.max
  <2>1. Give(p, "ok", i, text[i])
    BY <1>2, <1>5, <1>7 DEF CaptureReads, Cap
  <2>2. i \in Inodes /\ Captured(f.l, "replace") \in Names
    BY <1>1, <1>2, <1>5, <1>7, NameFacts DEF FilesOK, Placed, FileTypes, Cap
  <2>3. PICK t : t = text[i]
    OBVIOUS
  <2>7. text[i] \in Texts
    BY <1>2, <2>2 DEF FilesOK, Placed, FileTypes
  <2>8. t \in Texts
    BY <2>3, <2>7 DEF Texts
  <2>9. "ok" \in Words
    BY WordFacts
  <2>4. t \in Texts /\ i \in Nat /\ "ok" \in Words
    BY <2>2, <2>8, <2>9, InodeFacts
  <2>5. Back(p, f, "ok", i, t)
    BY <1>4, <2>1, <2>3, <2>4, BackFrom
  <2>6. f.max = 1 => i # names[Public]
    <3>1. i = names[Public] => Links(i) > 1 /\ Links(i) \in Nat
      BY <1>1, <1>5, <2>2, LinkCount, NameFacts DEF Cap
    <3> QED
      BY <3>1, <1>7
  <2> QED
    BY <1>1, <1>4, <1>5, <1>7, <2>3, <2>5, <2>6, CaptureReturns
<1>8. CASE i # 0 /\ ~(Links(i) <= f.max)
  <2>1. PICK c \in FrameType : /\ c = [f EXCEPT !.at = "refused"] /\ As(c, f, "refused") /\ Resumes(f, c)
    BY <1>1, GoFrame, WordFacts
  <2>2. Frames(p, <<Restore(f.l, "replace"), c>>) /\ UNCHANGED res
    BY <1>2, <1>5, <1>8, <2>1 DEF CaptureReads, Cap, Enter, Restore
  <2>3. FrameOK(c) /\ Settled(c)
    BY <1>1, <1>2, <2>1, FrameIntro DEF As, OKCapture, Settled
  <2>4. Caller(p, f, r, c)
    BY <1>4, <2>1, <2>3 DEF Caller
  <2> QED
    BY <1>1, <1>4, <2>1, <2>2, <2>4, EntersRestore DEF As
<1> QED
  BY <1>6, <1>7, <1>8

LEMMA CaptureRefusedKeeps ==
  ASSUME Framework, NEW p \in Procs, TopAt(p), Aside, CaptureRefused(p)
  PROVE  Good(p)
<1>1. PICK f, r : Now(p, f, r) /\ f.fn = "capture" /\ f.at = "refused" /\ f.l \in Levels
  BY NowFacts DEF CaptureRefused
<1>2. Beyond(f.l) /\ Beneath(f.l)
  BY <1>1 DEF Now, Top, TopCapture
<1>3. Moves(p, f, r) /\ Beyond(f.l)' /\ Beneath(f.l)'
  BY <1>1, <1>2, QuietMove, QuietView DEF CaptureRefused
<1>4. Back(p, f, "collision", 0, Empty)
  BY <1>3, BackEmpty, WordFacts DEF CaptureRefused
<1> QED
  BY <1>1, <1>3, <1>4, CaptureReturns DEF Errors

-----------------------------------------------------------------------------
(* The restore of a capture *)

LEMMA RestoreGoes ==
  ASSUME NEW p \in Procs, NEW f, NEW r, Moves(p, f, r), f.fn = "restore",
         NEW a \in {"drop", "close"}, Go(p, a), Beyond(f.l)', Beneath(f.l)',
         a = "drop" => (Cap(f.l)' # 0 => names'[Public] # 0 /\ text'[Cap(f.l)'].lines \subseteq PublicLines')
  PROVE  Good(p)
<1>1. PICK g \in FrameType : As(g, f, a) /\ Resumes(f, g) /\ Continue(p, g)
  <2>1. a \in Words /\ f.fn # "release"
    BY WordFacts
  <2> QED
    BY <2>1, GoFrame DEF Moves
<1>2. FrameOK(g) /\ Settled(g)
  <2>1. OKRestore(f) /\ f.l \in Levels
    BY DEF Moves, Now, FrameOK
  <2> QED
    BY <2>1, <1>1, FrameIntro DEF As, OKRestore, Settled
<1>3. Framework' /\ OtherCalls(p) /\ stack'[p] # <<>> /\ F(p)' = g /\ R(p)' = r
  BY <1>1, <1>2, Proceeds
<1>4. TopRestore(g)'
  BY <1>1 DEF As, TopRestore, Safe
<1> QED
  BY <1>1, <1>3, <1>4, TopIntro DEF As, Good

LEMMA RestoreFails ==
  ASSUME NEW p \in Procs, NEW f, NEW r, Now(p, f, r), f.fn = "restore", f.l \in Levels, Aside,
         UNCHANGED files, NEW e \in Errors, Return(p, e)
  PROVE  Good(p)
<1>1. Beyond(f.l) /\ Beneath(f.l)
  BY DEF Now, Top, TopRestore
<1>2. Moves(p, f, r) /\ Beyond(f.l)' /\ Beneath(f.l)'
  BY <1>1, QuietMove, QuietView
<1>3. Back(p, f, e, 0, Empty) /\ e # "ok"
  BY <1>2, BackEmpty, WordFacts DEF Errors
<1> QED
  BY <1>2, <1>3, RestoreReturns

LEMMA RestoreLinksKeeps ==
  ASSUME Framework, NEW p \in Procs, TopAt(p), Aside, RestoreLinks(p)
  PROVE  Good(p)
<1>1. PICK f, r : Now(p, f, r) /\ f.fn = "restore" /\ f.at = "link" /\ f.l \in Levels
  BY NowFacts DEF RestoreLinks
<1>2. F(p) = f /\ FilesOK /\ f.dir = "replace" /\ Beyond(f.l) /\ Beneath(f.l)
  BY <1>1 DEF Now, Framework, FrameOK, OKRestore, Top, TopRestore
<1>3. PICK i : i = Cap(f.l)
  OBVIOUS
<1>4. CASE i # 0 /\ names[Public] = 0
  <2>1. SetNames([names EXCEPT ![Public] = i]) /\ Go(p, "drop")
    BY <1>2, <1>3, <1>4 DEF RestoreLinks, Cap
  <2>2. Elsewhere(f.l) /\ Cap(f.l)' = i /\ names'[Public] = i
    BY <1>1, <1>2, <1>3, <1>4, <2>1, PutBack
  <2>3. Beyond(f.l)' /\ Beneath(f.l)'
    BY <1>1, <1>2, <2>2, AroundView DEF Elsewhere
  <2>4. Moves(p, f, r)
    BY <1>1, <2>2 DEF Moves, Elsewhere
  <2>5. names'[Public] # 0 /\ text'[Cap(f.l)'].lines \subseteq PublicLines'
    BY <1>4, <2>2 DEF PublicLines
  <2> QED
    BY <1>1, <2>1, <2>3, <2>4, <2>5, RestoreGoes
<1>5. CASE i # 0 /\ names[Public] = i /\ Links(i) <= 2
  <2>1. UNCHANGED files /\ Go(p, "drop")
    BY <1>2, <1>3, <1>5 DEF RestoreLinks, Cap
  <2>2. Moves(p, f, r) /\ Beyond(f.l)' /\ Beneath(f.l)' /\ names' = names /\ text' = text /\ Cap(f.l)' = i
    BY <1>1, <1>2, <1>3, <2>1, QuietMove, QuietView
  <2>3. names'[Public] # 0 /\ text'[Cap(f.l)'].lines \subseteq PublicLines'
    BY <1>5, <2>2 DEF PublicLines
  <2> QED
    BY <1>1, <2>1, <2>2, <2>3, RestoreGoes
<1>6. CASE ~(i # 0 /\ names[Public] = 0) /\ ~(i # 0 /\ names[Public] = i /\ Links(i) <= 2)
  <2>1. UNCHANGED files /\ Return(p, "collision")
    BY <1>2, <1>3, <1>6 DEF RestoreLinks, Cap
  <2> QED
    BY <1>1, <2>1, RestoreFails DEF Errors
<1> QED
  BY <1>4, <1>5, <1>6

LEMMA RestoreDropsKeeps ==
  ASSUME Framework, NEW p \in Procs, TopAt(p), Aside, RestoreDrops(p)
  PROVE  Good(p)
<1>1. PICK f, r : Now(p, f, r) /\ f.fn = "restore" /\ f.at = "drop" /\ f.l \in Levels
  BY NowFacts DEF RestoreDrops
<1>2. /\ F(p) = f /\ FilesOK /\ f.dir = "replace" /\ Beyond(f.l) /\ Beneath(f.l)
      /\ Cap(f.l) # 0 => names[Public] # 0 /\ Safe(text[Cap(f.l)])
  BY <1>1 DEF Now, Framework, FrameOK, OKRestore, Top, TopRestore
<1>3. CASE Cap(f.l) # 0
  <2>1. Drop(Captured(f.l, "replace")) /\ Go(p, "close")
    BY <1>2, <1>3 DEF RestoreDrops, Cap
  <2>2. Elsewhere(f.l)
    BY <1>1, <1>2, <1>3, <2>1, DropCaptured
  <2>3. Beyond(f.l)' /\ Beneath(f.l)'
    BY <1>1, <1>2, <2>2, AroundView DEF Elsewhere
  <2>4. Moves(p, f, r)
    BY <1>1, <2>2 DEF Moves, Elsewhere
  <2> QED
    BY <1>1, <2>1, <2>3, <2>4, RestoreGoes
<1>4. CASE Cap(f.l) = 0
  <2>1. UNCHANGED files /\ Return(p, "collision")
    BY <1>2, <1>4 DEF RestoreDrops, Cap
  <2> QED
    BY <1>1, <2>1, RestoreFails DEF Errors
<1> QED
  BY <1>3, <1>4

LEMMA RestoreClosesKeeps ==
  ASSUME Framework, NEW p \in Procs, TopAt(p), Aside, RestoreCloses(p)
  PROVE  Good(p)
<1>1. PICK f, r : Now(p, f, r) /\ f.fn = "restore" /\ f.at = "close" /\ f.l \in Levels
  BY NowFacts DEF RestoreCloses
<1>2. F(p) = f /\ FilesOK /\ f.dir = "replace" /\ Beyond(f.l) /\ Beneath(f.l)
  BY <1>1 DEF Now, Framework, FrameOK, OKRestore, Top, TopRestore
<1>3. CASE Dir(f.l) = "open" /\ Cap(f.l) = 0 /\ Rel(f.l) = 0
  <2>1. SetDir(f.l, "replace", "none") /\ Return(p, "ok")
    BY <1>2, <1>3 DEF RestoreCloses, Dir, Cap, Rel
  <2>2. /\ FilesOK' /\ Shuffled /\ names' = names /\ text' = text
        /\ Dir(f.l)' = "none" /\ \A m \in Levels : m # f.l => Dir(m)' = Dir(m)
    BY <1>1, <1>2, <1>3, <2>1, ChangeDirectory
  <2>3. Beyond(f.l)' /\ Beneath(f.l)'
    BY <1>1, <1>2, <2>2, AroundView, NamesView
  <2>4. Back(p, f, "ok", 0, Empty)
    BY <1>1, <2>1, <2>2, BackEmpty, WordFacts DEF Moves
  <2> QED
    BY <1>1, <2>2, <2>3, <2>4, RestoreReturns
<1>4. CASE ~(Dir(f.l) = "open" /\ Cap(f.l) = 0 /\ Rel(f.l) = 0)
  <2>1. UNCHANGED files /\ Return(p, "failed")
    BY <1>2, <1>4 DEF RestoreCloses, Dir, Cap, Rel
  <2> QED
    BY <1>1, <2>1, RestoreFails DEF Errors
<1> QED
  BY <1>3, <1>4

-----------------------------------------------------------------------------
(* The removal of a capture *)

LEMMA RemoveGoes ==
  ASSUME NEW p \in Procs, NEW f, NEW r, Moves(p, f, r), f.fn = "remove", NEW g \in FrameType, Continue(p, g),
         g.fn = "remove", g.l = f.l, g.dir = f.dir, g.max = f.max, g.req = f.req, OKRemove(g), TopRemove(g)'
  PROVE  Good(p)
<1>1. Resumes(f, g)
  BY DEF Resumes, Within
<1>2. FrameOK(g) /\ Settled(g)
  <2>1. f.l \in Levels
    BY DEF Moves, Now, FrameOK
  <2> QED
    BY <2>1, FrameIntro DEF Settled
<1>3. Framework' /\ OtherCalls(p) /\ stack'[p] # <<>> /\ F(p)' = g /\ R(p)' = r
  BY <1>1, <1>2, Proceeds
<1> QED
  BY <1>3, TopIntro DEF Good

LEMMA RemoveTurns ==
  ASSUME NEW p \in Procs, NEW f, NEW r, Moves(p, f, r), f.fn = "remove",
         NEW e \in Errors, Throw(p, "undo", e), Beyond(f.l)', Beneath(f.l)'
  PROVE  Good(p)
<1>1. PICK g \in FrameType : /\ g.at = "undo" /\ g.code = e /\ g.fn = f.fn /\ g.l = f.l /\ g.dir = f.dir /\ g.max = f.max
                             /\ g.req = f.req /\ Continue(p, g)
  <2>1. "undo" \in Words /\ e \in Words /\ f.fn # "release"
    BY WordFacts DEF Errors
  <2> QED
    BY <2>1, ThrowFrame DEF Moves
<1>2. OKRemove(g) /\ TopRemove(g)'
  <2>1. OKRemove(f)
    BY DEF Moves, Now, FrameOK
  <2> QED
    BY <2>1, <1>1 DEF OKRemove, TopRemove
<1> QED
  BY <1>1, <1>2, RemoveGoes

LEMMA RemoveTurnsBack ==
  ASSUME NEW p \in Procs, NEW f, NEW r, Now(p, f, r), f.fn = "remove", f.l \in Levels, Aside,
         UNCHANGED files, NEW e \in Errors, Throw(p, "undo", e)
  PROVE  Good(p)
<1>1. Beyond(f.l) /\ Beneath(f.l)
  BY DEF Now, Top, TopRemove
<1>2. Moves(p, f, r) /\ Beyond(f.l)' /\ Beneath(f.l)'
  BY <1>1, QuietMove, QuietView
<1> QED
  BY <1>2, RemoveTurns

LEMMA RemoveGoesTo ==
  ASSUME NEW p \in Procs, NEW f, NEW r, Moves(p, f, r), f.fn = "remove", Beyond(f.l)', Beneath(f.l)',
         NEW a \in {"drop", "wait", "compare", "finish"}, Go(p, a),
         a # "finish" => Safe(f.text)' /\ (f.max = 1 => Sole(f.l, f.inode, f.text)'),
         a = "drop" /\ Cap(f.l)' # 0 => Rel(f.l)' = Cap(f.l)',
         a \in {"wait", "compare"} => Cap(f.l)' = 0
  PROVE  Good(p)
<1>1. PICK g \in FrameType : As(g, f, a) /\ Resumes(f, g) /\ Continue(p, g)
  <2>1. a \in Words /\ f.fn # "release"
    BY WordFacts
  <2> QED
    BY <2>1, GoFrame DEF Moves
<1>2. OKRemove(g)
  <2>1. OKRemove(f)
    BY DEF Moves, Now, FrameOK
  <2> QED
    BY <2>1, <1>1 DEF As, OKRemove
<1>3. TopRemove(g)'
  <2>1. g.fn = "remove" /\ g.at = a /\ g.l = f.l /\ g.max = f.max /\ g.inode = f.inode /\ g.text = f.text
    BY <1>1 DEF As
  <2> QED
    BY <2>1 DEF TopRemove
<1> QED
  BY <1>1, <1>2, <1>3, RemoveGoes DEF As

LEMMA RemoveFacts ==
  ASSUME NEW p \in Procs, NEW f, NEW r, Now(p, f, r), f.fn = "remove"
  PROVE  /\ F(p) = f /\ FilesOK /\ f.dir = "replace" /\ f.max \in {1, 2} /\ Beyond(f.l) /\ Beneath(f.l)
         /\ OKRemove(f) /\ TopRemove(f)
         /\ FileTypes /\ (f.l \in Levels => DirFiles(f.l))
  BY DEF Now, Framework, FrameOK, OKRemove, Top, TopRemove, FilesOK, Placed, AllDirs

LEMMA RemoveLinksKeeps ==
  ASSUME Framework, NEW p \in Procs, TopAt(p), Aside, RemoveLinks(p)
  PROVE  Good(p)
<1>1. PICK f, r : Now(p, f, r) /\ f.fn = "remove" /\ f.at = "link" /\ f.l \in Levels
  BY NowFacts DEF RemoveLinks
<1>2. F(p) = f /\ FilesOK /\ f.dir = "replace" /\ Beyond(f.l) /\ Beneath(f.l)
      /\ Safe(f.text) /\ (f.max = 1 => Sole(f.l, f.inode, f.text))
  BY <1>1, RemoveFacts DEF TopRemove
<1>3. CASE Cap(f.l) # 0 /\ Rel(f.l) = 0
  <2>1. SetNames([names EXCEPT ![Release(f.l, "replace")] = Cap(f.l)]) /\ Go(p, "drop")
    BY <1>2, <1>3 DEF RemoveLinks, Cap, Rel
  <2>2. Elsewhere(f.l) /\ Rel(f.l)' = Cap(f.l) /\ Cap(f.l)' = Cap(f.l) /\ names'[Public] = names[Public]
    BY <1>1, <1>2, <1>3, <2>1, LinkRelease
  <2>3. Beyond(f.l)' /\ Beneath(f.l)'
    BY <1>1, <1>2, <2>2, AroundView DEF Elsewhere
  <2>4. Moves(p, f, r)
    BY <1>1, <2>2 DEF Moves, Elsewhere
  <2>5. Safe(f.text)'
    BY <1>2, <2>2, SafeView DEF Elsewhere
  <2>6. f.max = 1 => Sole(f.l, f.inode, f.text)'
    BY <1>2, <1>3, <2>2 DEF Elsewhere, Sole
  <2> QED
    BY <1>1, <2>1, <2>2, <2>3, <2>4, <2>5, <2>6, RemoveGoesTo
<1>4. CASE ~(Cap(f.l) # 0 /\ Rel(f.l) = 0)
  <2>1. UNCHANGED files /\ \E e \in Errors : Throw(p, "undo", e)
    BY <1>2, <1>4 DEF RemoveLinks, Cap, Rel, Errors
  <2> QED
    BY <1>1, <2>1, RemoveTurnsBack
<1> QED
  BY <1>3, <1>4

LEMMA RemoveDropsKeeps ==
  ASSUME Framework, NEW p \in Procs, TopAt(p), Aside, RemoveDrops(p)
  PROVE  Good(p)
<1>1. PICK f, r : Now(p, f, r) /\ f.fn = "remove" /\ f.at = "drop" /\ f.l \in Levels
  BY NowFacts DEF RemoveDrops
<1>2. /\ F(p) = f /\ FilesOK /\ f.dir = "replace" /\ Beyond(f.l) /\ Beneath(f.l)
      /\ Safe(f.text) /\ (f.max = 1 => Sole(f.l, f.inode, f.text))
      /\ Cap(f.l) # 0 => Rel(f.l) = Cap(f.l)
  BY <1>1, RemoveFacts DEF TopRemove
<1>3. CASE Cap(f.l) # 0
  <2>1. Drop(Captured(f.l, "replace")) /\ Go(p, "wait")
    BY <1>2, <1>3 DEF RemoveDrops, Cap
  <2>2. Elsewhere(f.l) /\ Cap(f.l)' = 0 /\ Rel(f.l)' = Rel(f.l) /\ names'[Public] = names[Public]
    BY <1>1, <1>2, <1>3, <2>1, DropCaptured
  <2>3. Beyond(f.l)' /\ Beneath(f.l)'
    BY <1>1, <1>2, <2>2, AroundView DEF Elsewhere
  <2>4. Moves(p, f, r)
    BY <1>1, <2>2 DEF Moves, Elsewhere
  <2>5. Safe(f.text)'
    BY <1>2, <2>2, SafeView DEF Elsewhere
  <2>6. f.max = 1 => Sole(f.l, f.inode, f.text)'
    BY <1>2, <1>3, <2>2 DEF Elsewhere, Sole
  <2> QED
    BY <1>1, <2>1, <2>2, <2>3, <2>4, <2>5, <2>6, RemoveGoesTo
<1>4. CASE Cap(f.l) = 0
  <2>1. UNCHANGED files /\ Throw(p, "undo", "failed")
    BY <1>2, <1>4 DEF RemoveDrops, Cap
  <2> QED
    BY <1>1, <2>1, RemoveTurnsBack DEF Errors
<1> QED
  BY <1>3, <1>4

LEMMA RemoveWaitsKeeps ==
  ASSUME Framework, NEW p \in Procs, TopAt(p), Aside, RemoveWaits(p)
  PROVE  Good(p)
<1>1. PICK f, r : Now(p, f, r) /\ f.fn = "remove" /\ f.at = "wait" /\ f.l \in Levels
  BY NowFacts DEF RemoveWaits
<1>2. /\ F(p) = f /\ FilesOK /\ f.dir = "replace" /\ Beyond(f.l) /\ Beneath(f.l)
      /\ Safe(f.text) /\ (f.max = 1 => Sole(f.l, f.inode, f.text)) /\ Cap(f.l) = 0
  BY <1>1, RemoveFacts DEF TopRemove
<1>3. UNCHANGED files /\ (Throw(p, "undo", "failed") \/ Go(p, "compare"))
  BY DEF RemoveWaits
<1>4. CASE Throw(p, "undo", "failed")
  BY <1>1, <1>3, <1>4, RemoveTurnsBack DEF Errors
<1>5. CASE Go(p, "compare")
  <2>1. Moves(p, f, r) /\ Beyond(f.l)' /\ Beneath(f.l)' /\ Safe(f.text)' /\ Cap(f.l)' = 0
        /\ (f.max = 1 => Sole(f.l, f.inode, f.text)')
    BY <1>1, <1>2, <1>3, QuietMove, QuietView
  <2> QED
    BY <1>1, <1>5, <2>1, RemoveGoesTo
<1> QED
  BY <1>3, <1>4, <1>5

LEMMA RemoveComparesKeeps ==
  ASSUME Framework, NEW p \in Procs, TopAt(p), Aside, RemoveCompares(p)
  PROVE  Good(p)
<1>1. PICK f, r : Now(p, f, r) /\ f.fn = "remove" /\ f.at = "compare" /\ f.l \in Levels
  BY NowFacts DEF RemoveCompares
<1>2. /\ F(p) = f /\ FilesOK /\ f.dir = "replace" /\ f.max \in {1, 2} /\ Beyond(f.l) /\ Beneath(f.l)
      /\ Safe(f.text) /\ (f.max = 1 => Sole(f.l, f.inode, f.text)) /\ Cap(f.l) = 0
  BY <1>1, RemoveFacts DEF TopRemove
<1>3. PICK i : i = Rel(f.l)
  OBVIOUS
<1>4. CASE i = 0 \/ Dir(f.l) # "open" \/ Links(i) > f.max
  <2>2. CASE i = 0 \/ Dir(f.l) # "open"
    <3>1. UNCHANGED files /\ Throw(p, "undo", "failed")
      BY <1>2, <1>3, <2>2 DEF RemoveCompares, Dir, Rel
    <3> QED
      BY <1>1, <3>1, RemoveTurnsBack DEF Errors
  <2>3. CASE i # 0 /\ Dir(f.l) = "open" /\ Links(i) > f.max
    <3>1. Links(i) \in Nat
      BY <1>1, <1>3, NameFacts, LinkCount DEF Rel
    <3>2. ~(Links(i) <= f.max)
      BY <1>2, <2>3, <3>1
    <3>3. UNCHANGED files /\ Throw(p, "undo", "collision")
      BY <1>2, <1>3, <2>3, <3>2 DEF RemoveCompares, Dir, Rel
    <3> QED
      BY <1>1, <3>3, RemoveTurnsBack DEF Errors
  <2> QED
    BY <1>4, <2>2, <2>3
<1>5. ASSUME i # 0, Dir(f.l) = "open", ~(Links(i) > f.max)
      PROVE  i \in Inodes /\ Links(i) <= f.max /\ i \in Nat /\ text[i] \in Texts
  <2>1. i \in Inodes
    BY <1>1, <1>2, <1>3, <1>5, NameFacts DEF FilesOK, Placed, FileTypes, Rel
  <2>2. Links(i) \in Nat
    BY <1>1, <1>3, NameFacts, LinkCount DEF Rel
  <2>3. text[i] \in Texts
    BY <1>2, <2>1 DEF FilesOK, Placed, FileTypes, Texts
  <2> QED
    BY <1>2, <1>5, <2>1, <2>2, <2>3, InodeFacts
<1>6. CASE i # 0 /\ Dir(f.l) = "open" /\ ~(Links(i) > f.max) /\ i = f.inode /\ text[i] = f.text
  <2>1. SetDir(f.l, "replace", "released") /\ Go(p, "finish")
    BY <1>2, <1>3, <1>5, <1>6 DEF RemoveCompares, Dir, Rel
  <2>2. /\ FilesOK' /\ Shuffled /\ names' = names /\ text' = text
        /\ \A m \in Levels : m # f.l => Dir(m)' = Dir(m)
    BY <1>1, <1>2, <1>3, <1>6, <2>1, ChangeDirectory
  <2>3. Beyond(f.l)' /\ Beneath(f.l)'
    BY <1>1, <1>2, <2>2, AroundView, NamesView
  <2>4. Moves(p, f, r)
    BY <1>1, <2>2 DEF Moves
  <2> QED
    BY <1>1, <2>1, <2>3, <2>4, RemoveGoesTo
<1>7. CASE i # 0 /\ Dir(f.l) = "open" /\ ~(Links(i) > f.max) /\ ~(i = f.inode /\ text[i] = f.text)
  <2>1. PICK g : g = [f EXCEPT !.at = "keep", !.inode = i, !.text = text[i]]
    OBVIOUS
  <2>2. SetNames([names EXCEPT ![Captured(f.l, "replace")] = i]) /\ Continue(p, g)
    BY <1>2, <1>3, <1>5, <1>7, <2>1 DEF RemoveCompares, Dir, Rel
  <2>3. Elsewhere(f.l) /\ Rel(f.l)' = i /\ Cap(f.l)' = i
    BY <1>1, <1>2, <1>3, <1>7, <2>2, LinkCaptured
  <2>4. Beyond(f.l)' /\ Beneath(f.l)'
    BY <1>1, <1>2, <2>3, AroundView DEF Elsewhere
  <2>5. Moves(p, f, r)
    BY <1>1, <2>3 DEF Moves, Elsewhere
  <2>6. f.max = 2
    BY <1>2, <1>3, <1>7 DEF Sole
  <2>7. /\ g \in FrameType /\ g.fn = "remove" /\ g.l = f.l /\ g.dir = f.dir /\ g.max = f.max /\ g.req = f.req
        /\ g.at = "keep" /\ g.inode = i /\ g.text = text[i]
    <3>1. "keep" \in Words
      BY WordFacts
    <3> QED
      BY <1>1, <1>5, <1>7, <2>1, <3>1 DEF FrameType, Now
  <2>8. OKRemove(g)
    BY <1>2, <2>6, <2>7 DEF OKRemove
  <2>9. TopRemove(g)'
    BY <1>7, <2>3, <2>4, <2>7 DEF TopRemove, Elsewhere
  <2> QED
    BY <1>1, <2>2, <2>5, <2>7, <2>8, <2>9, RemoveGoes
<1> QED
  BY <1>4, <1>6, <1>7

LEMMA RemoveKeepsKeeps ==
  ASSUME Framework, NEW p \in Procs, TopAt(p), Aside, RemoveKeeps(p)
  PROVE  Good(p)
<1>1. PICK f, r : Now(p, f, r) /\ f.fn = "remove" /\ f.at = "keep" /\ f.l \in Levels
  BY NowFacts DEF RemoveKeeps
<1>2. /\ F(p) = f /\ FilesOK /\ f.dir = "replace" /\ f.max = 2 /\ Beyond(f.l) /\ Beneath(f.l)
      /\ Cap(f.l) = f.inode /\ Rel(f.l) \in {0, f.inode} /\ f.text.lines \subseteq text[f.inode].lines
  BY <1>1, RemoveFacts DEF TopRemove, OKRemove
<1>3. CASE Rel(f.l) # 0
  <2>1. Drop(Release(f.l, "replace")) /\ Give(p, "changed", f.inode, f.text)
    BY <1>2, <1>3 DEF RemoveKeeps, Rel
  <2>2. Elsewhere(f.l) /\ Cap(f.l)' = Cap(f.l)
    BY <1>1, <1>2, <1>3, <2>1, DropRelease
  <2>3. Beyond(f.l)' /\ Beneath(f.l)'
    BY <1>1, <1>2, <2>2, AroundView DEF Elsewhere
  <2>4. Moves(p, f, r)
    BY <1>1, <2>2 DEF Moves, Elsewhere
  <2>5. f.inode \in Nat /\ f.text \in Texts /\ "changed" \in Words
    BY <1>1, WordFacts DEF Now, FrameType
  <2>6. Back(p, f, "changed", f.inode, f.text)
    BY <2>1, <2>4, <2>5, BackFrom
  <2>7. f.text.lines \subseteq text'[Cap(f.l)'].lines
    BY <1>2, <2>2 DEF Elsewhere
  <2> QED
    BY <1>1, <1>2, <2>3, <2>6, <2>7, RemoveReturns
<1>4. CASE Rel(f.l) = 0
  <2>1. UNCHANGED files /\ Throw(p, "undo", "failed")
    BY <1>2, <1>4 DEF RemoveKeeps, Rel
  <2> QED
    BY <1>1, <2>1, RemoveTurnsBack DEF Errors
<1> QED
  BY <1>3, <1>4

LEMMA RemoveFinishesKeeps ==
  ASSUME Framework, NEW p \in Procs, TopAt(p), Aside, RemoveFinishes(p)
  PROVE  Good(p)
<1>1. PICK f, r : Now(p, f, r) /\ f.fn = "remove" /\ f.at = "finish" /\ f.l \in Levels
  BY NowFacts DEF RemoveFinishes
<1>2. F(p) = f /\ FilesOK /\ f.dir = "replace" /\ Beyond(f.l) /\ Beneath(f.l)
  BY <1>1, RemoveFacts
<1>3. CASE Dir(f.l) = "released"
  <2>1. FinishReleased(p, f.l, "replace", "ok")
    BY <1>2, <1>3 DEF RemoveFinishes, Dir
  <2>2. /\ FilesOK' /\ Shuffled /\ Beyond(f.l)' /\ Beneath(f.l)'
        /\ UNCHANGED calls \/ (Return(p, "ok") /\ Dir(f.l)' = "none") \/ Return(p, "collision")
    BY <1>1, <1>2, <1>3, <2>1, Finishes
  <2>3. Moves(p, f, r)
    BY <1>1, <2>2 DEF Moves
  <2>4. CASE UNCHANGED calls
    <3>1. Framework' /\ OtherCalls(p) /\ stack'[p] # <<>> /\ F(p)' = f /\ R(p)' = r
      BY <1>1, <2>2, <2>4, Stays DEF Now
    <3>2. TopRemove(f)'
      BY <1>1, <2>2 DEF TopRemove
    <3> QED
      BY <1>1, <3>1, <3>2, TopIntro DEF Good
  <2>5. CASE Return(p, "ok") /\ Dir(f.l)' = "none"
    <3>1. Back(p, f, "ok", 0, Empty)
      BY <2>3, <2>5, BackEmpty, WordFacts
    <3> QED
      BY <1>1, <2>2, <2>5, <3>1, RemoveReturns
  <2>6. CASE Return(p, "collision")
    <3>1. Back(p, f, "collision", 0, Empty)
      BY <2>3, <2>6, BackEmpty, WordFacts
    <3> QED
      BY <1>1, <2>2, <3>1, RemoveReturns DEF Errors
  <2> QED
    BY <2>2, <2>4, <2>5, <2>6
<1>4. CASE Dir(f.l) # "released"
  <2>1. UNCHANGED files /\ Throw(p, "undo", "failed")
    BY <1>2, <1>4 DEF RemoveFinishes, Dir
  <2> QED
    BY <1>1, <2>1, RemoveTurnsBack DEF Errors
<1> QED
  BY <1>3, <1>4

LEMMA RemoveUndoesKeeps ==
  ASSUME Framework, NEW p \in Procs, TopAt(p), Aside, RemoveUndoes(p)
  PROVE  Good(p)
<1>1. PICK f, r : Now(p, f, r) /\ f.fn = "remove" /\ f.at = "undo" /\ f.l \in Levels
  BY NowFacts DEF RemoveUndoes
<1>2. F(p) = f /\ FilesOK /\ f.dir = "replace" /\ Beyond(f.l) /\ Beneath(f.l) /\ f.code \in Errors
  BY <1>1, RemoveFacts DEF OKRemove
<1>3. Return(p, f.code)
  BY <1>2 DEF RemoveUndoes
<1>4. \/ UNCHANGED files
      \/ Dir(f.l) = "open" /\ Rel(f.l) # 0 /\ Cap(f.l) = 0 /\ Rename(Release(f.l, "replace"), Captured(f.l, "replace"))
      \/ Rel(f.l) # 0 /\ Cap(f.l) = Rel(f.l) /\ Drop(Release(f.l, "replace"))
  BY <1>2 DEF RemoveUndoes, Dir, Cap, Rel
<1>5. FilesOK' /\ Shuffled /\ Beyond(f.l)' /\ Beneath(f.l)'
  <2>1. CASE UNCHANGED files
    BY <1>1, <1>2, <2>1, QuietFiles, QuietView
  <2>2. CASE ~UNCHANGED files
    <3>1. Elsewhere(f.l)
      BY <1>1, <1>2, <1>4, <2>2, TakeBack, DropRelease
    <3> QED
      BY <1>1, <1>2, <3>1, AroundView DEF Elsewhere
  <2> QED
    BY <2>1, <2>2
<1>6. Back(p, f, f.code, 0, Empty)
  BY <1>1, <1>2, <1>3, <1>5, BackEmpty, WordFacts DEF Moves, Errors
<1>7. f.code # "ok" /\ f.code # "changed"
  BY <1>2 DEF Errors
<1> QED
  BY <1>1, <1>2, <1>5, <1>6, <1>7, RemoveReturns

-----------------------------------------------------------------------------
(* The frames that are made for a call *)

LEMMA CaptureMade ==
  ASSUME NEW l \in Levels, NEW max \in {1, 2}
  PROVE  \E g \in FrameType : /\ g = Capture(l, "replace", max) /\ g.fn = "capture" /\ g.at = "open"
                              /\ g.l = l /\ g.dir = "replace" /\ g.max = max
<1>1. PICK e : e = Frame("capture", "open", l)
  OBVIOUS
<1>2. l \in Nat /\ max \in Nat
  BY DEF Levels
<1>9. "capture" \in Words /\ "open" \in Words /\ "replace" \in Words
  BY WordFacts
<1>3. e \in FrameType /\ e.fn = "capture" /\ e.at = "open" /\ e.l = l
  BY <1>1, <1>2, <1>9, FrameMade
<1>4. PICK g : g = [e EXCEPT !.dir = "replace", !.max = max]
  OBVIOUS
<1>5. g = Capture(l, "replace", max)
  BY <1>1, <1>4 DEF Capture
<1>6. g \in FrameType
  BY <1>2, <1>9, <1>3, <1>4 DEF FrameType
<1> QED
  BY <1>2, <1>9, <1>3, <1>4, <1>5, <1>6 DEF FrameType

LEMMA RemoveMade ==
  ASSUME NEW l \in Levels, NEW max \in {1, 2}, NEW i \in Nat, NEW t \in Texts
  PROVE  \E g \in FrameType : /\ g = Remove(l, "replace", max, i, t) /\ g.fn = "remove" /\ g.at = "link"
                              /\ g.l = l /\ g.dir = "replace" /\ g.max = max /\ g.inode = i /\ g.text = t
<1>1. PICK e : e = Frame("remove", "link", l)
  OBVIOUS
<1>2. l \in Nat /\ max \in Nat
  BY DEF Levels
<1>9. "remove" \in Words /\ "link" \in Words /\ "replace" \in Words
  BY WordFacts
<1>3. e \in FrameType /\ e.fn = "remove" /\ e.at = "link" /\ e.l = l
  BY <1>1, <1>2, <1>9, FrameMade
<1>4. PICK g : g = [e EXCEPT !.dir = "replace", !.max = max, !.inode = i, !.text = t]
  OBVIOUS
<1>5. g = Remove(l, "replace", max, i, t)
  BY <1>1, <1>4 DEF Remove
<1>6. g \in FrameType
  BY <1>2, <1>9, <1>3, <1>4 DEF FrameType
<1> QED
  BY <1>2, <1>9, <1>3, <1>4, <1>5, <1>6 DEF FrameType

LEMMA ReleaseMade ==
  ASSUME NEW l \in Levels, NEW max \in {1, 2}, NEW i \in Nat, NEW t \in Texts, NEW q \in SUBSET Texts
  PROVE  \E g \in FrameType : /\ g = ReleaseAll(l, "replace", max, i, t, q) /\ g.fn = "release" /\ g.at = "try"
                              /\ g.l = l /\ g.dir = "replace" /\ g.max = max /\ g.inode = i /\ g.text = t /\ g.req = q
<1>1. PICK e \in FrameType : /\ e = Remove(l, "replace", max, i, t)
                             /\ e.l = l /\ e.dir = "replace" /\ e.max = max /\ e.inode = i /\ e.text = t
  BY RemoveMade
<1>2. PICK g : g = [e EXCEPT !.fn = "release", !.at = "try", !.req = q]
  OBVIOUS
<1>3. g = ReleaseAll(l, "replace", max, i, t, q)
  BY <1>1, <1>2 DEF ReleaseAll
<1>4. "release" \in Words /\ "try" \in Words
  BY WordFacts
<1>5. g \in FrameType
  BY <1>1, <1>2, <1>4 DEF FrameType
<1> QED
  BY <1>1, <1>2, <1>3, <1>5 DEF FrameType

LEMMA MergeMade ==
  ASSUME NEW l \in Levels, NEW q \in SUBSET Texts
  PROVE  \E g \in FrameType : /\ g = Merge(l, "replace", q) /\ g.fn = "merge" /\ g.at = "read"
                              /\ g.l = l /\ g.dir = "replace" /\ g.req = q
<1>1. PICK e : e = Frame("merge", "read", l)
  OBVIOUS
<1>2. l \in Nat
  BY DEF Levels
<1>9. "merge" \in Words /\ "read" \in Words /\ "replace" \in Words
  BY WordFacts
<1>3. e \in FrameType /\ e.fn = "merge" /\ e.at = "read" /\ e.l = l
  BY <1>1, <1>2, <1>9, FrameMade
<1>4. PICK g : g = [e EXCEPT !.dir = "replace", !.req = q]
  OBVIOUS
<1>5. g = Merge(l, "replace", q)
  BY <1>1, <1>4 DEF Merge
<1>6. g \in FrameType
  BY <1>2, <1>9, <1>3, <1>4 DEF FrameType
<1> QED
  BY <1>2, <1>9, <1>3, <1>4, <1>5, <1>6 DEF FrameType

LEMMA ReplaceMade ==
  ASSUME NEW l \in Levels, NEW i \in Nat, NEW t \in Texts, NEW n \in Texts
  PROVE  \E g \in FrameType : /\ g = Replace(l, i, t, n) /\ g.fn = "replace" /\ g.at = "write"
                              /\ g.l = l /\ g.inode = i /\ g.text = t /\ g.next = n
<1>1. PICK e : e = Frame("replace", "write", l)
  OBVIOUS
<1>2. l \in Nat
  BY DEF Levels
<1>9. "replace" \in Words /\ "write" \in Words /\ "replace" \in Words
  BY WordFacts
<1>3. e \in FrameType /\ e.fn = "replace" /\ e.at = "write" /\ e.l = l
  BY <1>1, <1>2, <1>9, FrameMade
<1>4. PICK g : g = [e EXCEPT !.inode = i, !.text = t, !.next = n]
  OBVIOUS
<1>5. g = Replace(l, i, t, n)
  BY <1>1, <1>4 DEF Replace
<1>6. g \in FrameType
  BY <1>2, <1>9, <1>3, <1>4 DEF FrameType
<1> QED
  BY <1>2, <1>9, <1>3, <1>4, <1>5, <1>6 DEF FrameType

LEMMA EntersCapture ==
  ASSUME NEW p \in Procs, NEW f, NEW r, NEW c, Caller(p, f, r, c), NEW l \in Levels, NEW max \in {1, 2},
         Frames(p, <<Capture(l, "replace", max), c>>), UNCHANGED res, c.l = l,
         \/ c.fn = "recover" /\ c.at = "got" /\ max = 2
         \/ c.fn = "replace" /\ c.at = "captured" /\ max = 1,
         Beyond(l)', Beneath(l)'
  PROVE  Good(p)
<1>1. PICK g \in FrameType : /\ g = Capture(l, "replace", max) /\ g.fn = "capture" /\ g.at = "open"
                             /\ g.l = l /\ g.dir = "replace" /\ g.max = max
  BY CaptureMade
<1>2. FrameOK(g) /\ Settled(g) /\ Legal(c, g)
  BY <1>1, FrameIntro DEF OKCapture, Settled, Legal, CallsOfRecovery, CallsOfChange
<1>3. Framework' /\ OtherCalls(p) /\ stack'[p] # <<>> /\ F(p)' = g /\ R(p)' = r
  BY <1>1, <1>2, Calls
<1>4. TopCapture(g)'
  BY <1>1 DEF TopCapture
<1> QED
  BY <1>1, <1>3, <1>4, TopIntro DEF Good

LEMMA EntersRemove ==
  ASSUME NEW p \in Procs, NEW f, NEW r, NEW c, Caller(p, f, r, c), NEW l \in Levels, NEW max \in {1, 2},
         NEW i \in Nat, NEW t \in Texts,
         Frames(p, <<Remove(l, "replace", max, i, t), c>>), UNCHANGED res, c.l = l,
         \/ c.fn = "release" /\ c.at = "tried" /\ max = 2
         \/ c.fn = "replace" /\ c.at = "removed" /\ max = 1,
         Beyond(l)', Beneath(l)', Safe(t)', max = 1 => Sole(l, i, t)'
  PROVE  Good(p)
<1>1. PICK g \in FrameType : /\ g = Remove(l, "replace", max, i, t) /\ g.fn = "remove" /\ g.at = "link"
                             /\ g.l = l /\ g.dir = "replace" /\ g.max = max /\ g.inode = i /\ g.text = t
  BY RemoveMade
<1>2. FrameOK(g) /\ Settled(g) /\ Legal(c, g)
  BY <1>1, FrameIntro DEF OKRemove, Settled, Legal, CallsOfChange
<1>3. Framework' /\ OtherCalls(p) /\ stack'[p] # <<>> /\ F(p)' = g /\ R(p)' = r
  BY <1>1, <1>2, Calls
<1>4. TopRemove(g)'
  BY <1>1 DEF TopRemove
<1> QED
  BY <1>1, <1>3, <1>4, TopIntro DEF Good

LEMMA EntersRelease ==
  ASSUME NEW p \in Procs, NEW f, NEW r, NEW c, Caller(p, f, r, c), NEW l \in Levels, l < Depth,
         NEW i \in Nat, NEW t \in Texts, NEW q \in SUBSET Texts, \E u \in q : t.lines \subseteq u.lines,
         Frames(p, <<ReleaseAll(l, "replace", 2, i, t, q), c>>), UNCHANGED res, c.l = l,
         c.fn = "recover", c.at = "done", Beyond(l)', Beneath(l)', Safe(t)'
  PROVE  Good(p)
<1>1. PICK g \in FrameType : /\ g = ReleaseAll(l, "replace", 2, i, t, q) /\ g.fn = "release" /\ g.at = "try"
                             /\ g.l = l /\ g.dir = "replace" /\ g.max = 2 /\ g.inode = i /\ g.text = t /\ g.req = q
  BY ReleaseMade
<1>2. FrameOK(g) /\ Settled(g) /\ Legal(c, g)
  BY <1>1, FrameIntro DEF OKRelease, Covered, Settled, LeaseWork, Legal, CallsOfRecovery
<1>3. Framework' /\ OtherCalls(p) /\ stack'[p] # <<>> /\ F(p)' = g /\ R(p)' = r
  BY <1>1, <1>2, Calls
<1>4. TopRelease(g, r)'
  BY <1>1 DEF TopRelease
<1> QED
  BY <1>1, <1>3, <1>4, TopIntro DEF Good

LEMMA EntersMerge ==
  ASSUME NEW p \in Procs, NEW f, NEW r, NEW c, Caller(p, f, r, c), NEW l \in Levels, l < Depth,
         Frames(p, <<Merge(l, "replace", c.req), c>>), UNCHANGED res, c.l = l,
         c.fn \in {"recover", "release"}, c.at = "merged", Beyond(l)', Beneath(l)', Dir(l)' = "open"
  PROVE  Good(p)
<1>0. c.req \in SUBSET Texts
  BY DEF Caller, FrameType
<1>1. PICK g \in FrameType : /\ g = Merge(l, "replace", c.req) /\ g.fn = "merge" /\ g.at = "read"
                             /\ g.l = l /\ g.dir = "replace" /\ g.req = c.req
  BY <1>0, MergeMade
<1>2. FrameOK(g) /\ Settled(g) /\ Legal(c, g)
  BY <1>1, FrameIntro DEF OKMerge, Settled, Legal, CallsOfRecovery, CallsOfChange, Within
<1>3. Framework' /\ OtherCalls(p) /\ stack'[p] # <<>> /\ F(p)' = g /\ R(p)' = r
  BY <1>1, <1>2, Calls
<1>4. TopMerge(g, r)'
  BY <1>1 DEF TopMerge
<1> QED
  BY <1>1, <1>3, <1>4, TopIntro DEF Good

LEMMA EntersReplace ==
  ASSUME NEW p \in Procs, NEW f, NEW r, NEW c, Caller(p, f, r, c), NEW l \in Levels,
         NEW i \in Nat, i # 0, NEW t \in Texts, NEW n \in Texts, t.lines \subseteq n.lines,
         Frames(p, <<Replace(l, i, t, n), c>>), UNCHANGED res,
         \/ c.fn = "merge" /\ c.at = "replaced" /\ l = c.l + 1
         \/ c.fn = "rules" /\ c.at = "tried" /\ l = 0,
         Beyond(l)', Beneath(l)', Tidy(l)'
  PROVE  Good(p)
<1>1. PICK g \in FrameType : /\ g = Replace(l, i, t, n) /\ g.fn = "replace" /\ g.at = "write"
                             /\ g.l = l /\ g.inode = i /\ g.text = t /\ g.next = n
  BY ReplaceMade
<1>2. FrameOK(g) /\ Settled(g) /\ Legal(c, g)
  BY <1>1, FrameIntro DEF OKReplace, Settled, Legal, CallsOfHost, CallsOfChange
<1>3. Framework' /\ OtherCalls(p) /\ stack'[p] # <<>> /\ F(p)' = g /\ R(p)' = r
  BY <1>1, <1>2, Calls
<1>4. TopReplace(g, r)'
  BY <1>1 DEF TopReplace
<1> QED
  BY <1>1, <1>3, <1>4, TopIntro DEF Good

LEMMA EntersUnroll ==
  ASSUME NEW p \in Procs, NEW f, NEW r, NEW c, Caller(p, f, r, c), NEW l \in Levels,
         Frames(p, <<RecoverRollback(l), c>>), UNCHANGED res, c.fn = "recover", c.at = "unrolled", c.l = l, Beneath(l)'
  PROVE  Good(p)
<1>1. PICK g : g = RecoverRollback(l)
  OBVIOUS
<1>0. l \in Nat
  BY DEF Levels
<1>9. "unroll" \in Words /\ "start" \in Words
  BY WordFacts
<1>2. g \in FrameType /\ g.fn = "unroll" /\ g.at = "start" /\ g.l = l
  BY <1>0, <1>9, <1>1, FrameMade DEF RecoverRollback
<1>3. FrameOK(g) /\ Settled(g) /\ Legal(c, g)
  BY <1>2, FrameIntro DEF OKUnroll, Settled, Legal, CallsOfRecovery
<1>4. Framework' /\ OtherCalls(p) /\ stack'[p] # <<>> /\ F(p)' = g /\ R(p)' = r
  BY <1>1, <1>2, <1>3, Calls
<1>5. TopUnroll(g)'
  BY <1>2 DEF TopUnroll
<1> QED
  BY <1>2, <1>4, <1>5, TopIntro DEF Good

LEMMA EntersRecover ==
  ASSUME NEW p \in Procs, NEW f, NEW r, NEW c, Caller(p, f, r, c), NEW l \in Levels,
         Frames(p, <<Recover(l), c>>), UNCHANGED res, Beneath(l)',
         \/ c.fn = "recover" /\ c.at = "reconciled" /\ l = c.l + 1
         \/ c.fn = "replace" /\ c.at = "recovered" /\ l = c.l
         \/ c.fn = "rules" /\ c.at = "ready" /\ l = 0
  PROVE  Good(p)
<1>1. PICK g : g = Recover(l)
  OBVIOUS
<1>0. l \in Nat
  BY DEF Levels
<1>9. "recover" \in Words /\ "start" \in Words
  BY WordFacts
<1>2. g \in FrameType /\ g.fn = "recover" /\ g.at = "start" /\ g.l = l
  BY <1>0, <1>9, <1>1, FrameMade DEF Recover
<1>3. FrameOK(g) /\ Settled(g) /\ Legal(c, g)
  BY <1>2, FrameIntro DEF OKRecover, Settled, Legal, CallsOfHost, CallsOfRecovery, CallsOfChange
<1>4. Framework' /\ OtherCalls(p) /\ stack'[p] # <<>> /\ F(p)' = g /\ R(p)' = r
  BY <1>1, <1>2, <1>3, Calls
<1>5. TopRecover(g, r)'
  BY <1>2 DEF TopRecover
<1> QED
  BY <1>2, <1>4, <1>5, TopIntro DEF Good

-----------------------------------------------------------------------------
(* releaseCapturedProjectGitExclude *)

LEMMA ReleaseFacts ==
  ASSUME NEW p \in Procs, NEW f, NEW r, Now(p, f, r), f.fn = "release", f.at \notin LeaseWork
  PROVE  /\ F(p) = f /\ R(p) = r /\ FilesOK /\ f.dir = "replace" /\ f.max = 2 /\ f.l < Depth /\ Covered(f)
         /\ Beneath(f.l) /\ OKRelease(f) /\ TopRelease(f, r) /\ f \in FrameType /\ r \in ResultType
  BY DEF Now, Framework, FrameOK, OKRelease, Top, TopRelease

LEMMA ReleaseGivesUp ==
  ASSUME NEW p \in Procs, NEW f, NEW r, Now(p, f, r), f.fn = "release", f.at \notin LeaseWork, f.l \in Levels, Aside,
         UNCHANGED files, NEW e \in Errors, Return(p, e)
  PROVE  Good(p)
<1>1. Moves(p, f, r) /\ Beneath(f.l)'
  BY ReleaseFacts, QuietMove, QuietView
<1>2. Back(p, f, e, 0, Empty) /\ e # "ok"
  BY <1>1, BackEmpty, WordFacts DEF Errors
<1> QED
  BY <1>1, <1>2, ReleaseReturns

LEMMA ReleaseTriesKeeps ==
  ASSUME Framework, NEW p \in Procs, TopAt(p), Aside, ReleaseTries(p)
  PROVE  Good(p)
<1>1. PICK f, r : Now(p, f, r) /\ f.fn = "release" /\ f.at = "try" /\ f.l \in Levels
  BY NowFacts DEF ReleaseTries
<1>2. "try" \notin LeaseWork /\ "tried" \notin LeaseWork
  BY DEF LeaseWork
<1>3. /\ F(p) = f /\ f.dir = "replace" /\ f.max = 2 /\ OKRelease(f) /\ f \in FrameType
      /\ Beyond(f.l) /\ Beneath(f.l) /\ Safe(f.text)
  BY <1>1, <1>2, ReleaseFacts DEF TopRelease
<1>4. Moves(p, f, r) /\ Beyond(f.l)' /\ Beneath(f.l)' /\ Safe(f.text)'
  BY <1>1, <1>3, QuietMove, QuietView DEF ReleaseTries
<1>5. PICK c \in FrameType : c = [f EXCEPT !.at = "tried"] /\ As(c, f, "tried") /\ Resumes(f, c)
  BY <1>1, <1>2, GoFrame, WordFacts
<1>6. FrameOK(c) /\ Settled(c)
  BY <1>1, <1>2, <1>3, <1>5, FrameIntro DEF As, OKRelease, Covered, Settled
<1>7. Frames(p, <<Remove(f.l, "replace", 2, f.inode, f.text), c>>) /\ UNCHANGED res
  BY <1>3, <1>5 DEF ReleaseTries, Enter
<1>8. f.inode \in Nat /\ f.text \in Texts
  BY <1>3 DEF FrameType
<1>9. Caller(p, f, r, c) /\ c.l = f.l /\ c.fn = "release" /\ c.at = "tried"
  BY <1>1, <1>4, <1>5, <1>6 DEF Caller, As
<1> QED
  BY <1>1, <1>4, <1>7, <1>8, <1>9, EntersRemove

LEMMA ReleaseTriedKeeps ==
  ASSUME Framework, NEW p \in Procs, TopAt(p), Aside, ReleaseTried(p)
  PROVE  Good(p)
<1>1. PICK f, r : Now(p, f, r) /\ f.fn = "release" /\ f.at = "tried" /\ f.l \in Levels
  BY NowFacts DEF ReleaseTried
<1>2. "tried" \notin LeaseWork /\ "merged" \notin LeaseWork
  BY DEF LeaseWork
<1>3. /\ F(p) = f /\ R(p) = r /\ FilesOK /\ f.dir = "replace" /\ f.max = 2 /\ f.l < Depth /\ f \in FrameType /\ r \in ResultType
      /\ Beneath(f.l) /\ Beyond(f.l) /\ r.r \in {"ok", "changed"} \cup Errors
      /\ r.r = "ok" => Dir(f.l) = "none"
      /\ r.r = "changed" /\ Cap(f.l) # 0 => r.text.lines \subseteq text[Cap(f.l)].lines
  BY <1>1, <1>2, ReleaseFacts DEF TopRelease
<1>4. UNCHANGED files
  BY DEF ReleaseTried
<1>5. Moves(p, f, r) /\ Beyond(f.l)' /\ Beneath(f.l)' /\ Dir(f.l)' = Dir(f.l)
  BY <1>1, <1>3, <1>4, QuietMove, QuietView
<1>6. CASE r.r \in Errors \/ (r.r = "changed" /\ Cap(f.l) = 0)
  <2>1. \E e \in Errors : Return(p, e)
    BY <1>3, <1>6 DEF ReleaseTried, Cap, Errors
  <2> QED
    BY <1>1, <1>2, <1>4, <2>1, ReleaseGivesUp
<1>7. CASE r.r = "ok"
  <2>1. Return(p, "ok")
    BY <1>3, <1>7 DEF ReleaseTried
  <2>2. Back(p, f, "ok", 0, Empty)
    BY <1>5, <2>1, BackEmpty, WordFacts
  <2> QED
    BY <1>1, <1>2, <1>3, <1>5, <1>7, <2>2, ReleaseReturns
<1>8. CASE r.r = "changed" /\ Cap(f.l) # 0
  <2>1. PICK i : i = Cap(f.l)
    OBVIOUS
  <2>2. i \in Inodes /\ text[i] \in Texts
    BY <1>1, <1>3, <1>8, <2>1, NameFacts DEF FilesOK, Placed, FileTypes, Cap, Texts
  <2>3. Dir(f.l) = "open"
    BY <1>1, <1>3, <1>8, NameFacts DEF FilesOK, Placed, AllDirs, DirFiles, FileTypes, Dir
  <2>4. PICK c : c = [f EXCEPT !.inode = r.inode, !.text = r.text, !.req = f.req \cup {text[i]}, !.at = "merged"]
    OBVIOUS
  <2>5. /\ c \in FrameType /\ c.fn = "release" /\ c.at = "merged" /\ c.l = f.l /\ c.dir = f.dir /\ c.max = f.max
        /\ c.text = r.text /\ c.req = f.req \cup {text[i]}
    <3>1. f.req \cup {text[i]} \in SUBSET Texts /\ r.inode \in Nat /\ r.text \in Texts
      BY <1>3, <2>2 DEF FrameType, ResultType
    <3>2. "merged" \in Words
      BY WordFacts
    <3>3. f \in FrameType /\ f.fn = "release"
      BY <1>1, <1>3
    <3>4. c \in FrameType
      BY <2>4, <3>1, <3>2, <3>3 DEF FrameType
    <3>5. /\ c.fn = f.fn /\ c.at = "merged" /\ c.l = f.l /\ c.dir = f.dir /\ c.max = f.max
          /\ c.text = r.text /\ c.req = f.req \cup {text[i]}
      BY <2>4, <3>3 DEF FrameType
    <3> QED
      BY <3>3, <3>4, <3>5
  <2>6. Resumes(f, c)
    BY <1>1, <1>2, <2>5 DEF Resumes, Within
  <2>7. OKRelease(c)
    <3>1. r.text.lines \subseteq text[i].lines /\ text[i] \in c.req
      BY <1>3, <1>8, <2>1, <2>5
    <3>2. Covered(c)
      BY <2>5, <3>1 DEF Covered
    <3> QED
      BY <1>3, <2>5, <3>2 DEF OKRelease
  <2>8. FrameOK(c) /\ Settled(c)
    BY <1>1, <2>5, <2>7, FrameIntro DEF Settled
  <2>9. Frames(p, <<Merge(f.l, "replace", c.req), c>>) /\ UNCHANGED res
    <3>1. [[F(p) EXCEPT !.inode = R(p).inode, !.text = R(p).text, !.req = @ \cup {text[i]}] EXCEPT !.at = "merged"] = c
      BY <1>3, <2>4 DEF FrameType
    <3>2. [F(p) EXCEPT !.inode = R(p).inode, !.text = R(p).text, !.req = @ \cup {text[i]}].req = c.req
      BY <1>3, <2>5 DEF FrameType
    <3>3. PICK h : h = [F(p) EXCEPT !.inode = R(p).inode, !.text = R(p).text, !.req = @ \cup {text[i]}]
      OBVIOUS
    <3>4. Enter(p, h, "merged", Merge(f.l, "replace", h.req))
      BY <1>3, <1>8, <2>1, <3>3 DEF ReleaseTried, Cap
    <3> QED
      BY <3>1, <3>2, <3>3, <3>4 DEF Enter
  <2> QED
    BY <1>1, <1>3, <1>5, <2>3, <2>5, <2>6, <2>8, <2>9, EntersMerge DEF Caller
<1> QED
  BY <1>3, <1>6, <1>7, <1>8

LEMMA ReleaseMergedKeeps ==
  ASSUME Framework, NEW p \in Procs, TopAt(p), Aside, ReleaseMerged(p)
  PROVE  Good(p)
<1>1. PICK f, r : Now(p, f, r) /\ f.fn = "release" /\ f.at = "merged" /\ f.l \in Levels
  BY NowFacts DEF ReleaseMerged
<1>2. "try" \notin LeaseWork /\ "merged" \notin LeaseWork
  BY DEF LeaseWork
<1>3. /\ F(p) = f /\ R(p) = r /\ f \in FrameType /\ OKRelease(f) /\ Covered(f)
      /\ Beneath(f.l) /\ r.r \in {"ok"} \cup Errors
      /\ r.r = "ok" => Beyond(f.l) /\ \A t \in f.req : Safe(t)
  BY <1>1, <1>2, ReleaseFacts DEF TopRelease
<1>4. UNCHANGED files
  BY DEF ReleaseMerged
<1>5. CASE r.r \in Errors
  <2>1. Return(p, r.r)
    BY <1>3, <1>5 DEF ReleaseMerged
  <2> QED
    BY <1>1, <1>2, <1>4, <1>5, <2>1, ReleaseGivesUp
<1>6. CASE r.r = "ok"
  <2>1. Go(p, "try")
    BY <1>3, <1>6 DEF ReleaseMerged, Errors
  <2>2. Safe(f.text)
    BY <1>3, <1>6 DEF Covered, Safe
  <2>3. Moves(p, f, r) /\ Beyond(f.l)' /\ Beneath(f.l)' /\ Safe(f.text)'
    BY <1>1, <1>3, <1>4, <1>6, <2>2, QuietMove, QuietView
  <2>8. "try" \in Words
    BY WordFacts
  <2>4. PICK g \in FrameType : As(g, f, "try") /\ Resumes(f, g) /\ Continue(p, g)
    BY <1>1, <1>2, <2>1, <2>8, GoFrame
  <2>5. FrameOK(g) /\ Settled(g)
    BY <1>1, <1>2, <1>3, <2>4, FrameIntro DEF As, OKRelease, Covered, Settled
  <2>6. Framework' /\ OtherCalls(p) /\ stack'[p] # <<>> /\ F(p)' = g /\ R(p)' = r
    BY <2>3, <2>4, <2>5, Proceeds
  <2>7. TopRelease(g, r)'
    BY <2>3, <2>4 DEF As, TopRelease
  <2> QED
    BY <1>1, <2>4, <2>6, <2>7, TopIntro DEF As, Good
<1> QED
  BY <1>3, <1>5, <1>6

-----------------------------------------------------------------------------
(* mergeCapturedProjectGitExcludeLines *)

LEMMA NextLevel ==
  ASSUME NEW l \in Levels, l < Depth
  PROVE  /\ l + 1 \in Levels
         /\ Beyond(l) => Beyond(l + 1) /\ Tidy(l + 1)
         /\ Beneath(l) /\ Dir(l) = "open" => Beneath(l + 1)
<1>1. l + 1 \in Levels /\ l + 1 > l /\ \A m \in Levels : (m > l + 1 => m > l) /\ (m < l + 1 => m < l \/ m = l)
  BY ProjectFileAssumption DEF Levels
<1> QED
  BY <1>1 DEF Beyond, Beneath

LEMMA ConcatenatedFacts ==
  ASSUME NEW t \in Texts, NEW missing \in SUBSET Texts
  PROVE  Concatenated(t, missing) \in Texts /\ t.lines \subseteq Concatenated(t, missing).lines
<1>1. PICK ls : ls = t.lines \cup UNION {m.lines : m \in missing}
  OBVIOUS
<1>2. ls \subseteq Lines
  BY <1>1 DEF Texts
<1> DEFINE some == \E m \in missing : m.blocks > 0
           twice == \/ t.blocks > 0
                    \/ \E m \in missing : m.blocks > 1 \/ \E o \in missing \ {m} : m.blocks > 0 /\ o.blocks > 0
<1>3. Concatenated(t, missing) = [lines |-> ls, blocks |-> IF twice THEN 2 ELSE IF some THEN 1 ELSE 0]
  BY <1>1 DEF Concatenated
<1> HIDE DEF some, twice
<1> QED
  BY <1>1, <1>2, <1>3 DEF Texts

LEMMA MergeFacts ==
  ASSUME NEW p \in Procs, NEW f, NEW r, Now(p, f, r), f.fn = "merge"
  PROVE  /\ F(p) = f /\ R(p) = r /\ FilesOK /\ f.dir = "replace" /\ f.l < Depth /\ Dir(f.l) = "open"
         /\ Beneath(f.l) /\ OKMerge(f) /\ TopMerge(f, r) /\ f \in FrameType /\ r \in ResultType
  BY DEF Now, Framework, FrameOK, OKMerge, Top, TopMerge

LEMMA MergeGivesUp ==
  ASSUME NEW p \in Procs, NEW f, NEW r, Now(p, f, r), f.fn = "merge", f.l \in Levels, Aside,
         UNCHANGED files, NEW e \in Errors, Return(p, e)
  PROVE  Good(p)
<1>1. Moves(p, f, r) /\ Beneath(f.l)'
  BY MergeFacts, QuietMove, QuietView
<1>2. Back(p, f, e, 0, Empty) /\ e # "ok"
  BY <1>1, BackEmpty, WordFacts DEF Errors
<1> QED
  BY <1>1, <1>2, MergeReturns

LEMMA MergeReadsKeeps ==
  ASSUME Framework, NEW p \in Procs, TopAt(p), Aside, MergeReads(p)
  PROVE  Good(p)
<1>1. PICK f, r : Now(p, f, r) /\ f.fn = "merge" /\ f.at = "read" /\ f.l \in Levels
  BY NowFacts DEF MergeReads
<1>2. /\ F(p) = f /\ FilesOK /\ f.dir = "replace" /\ f.l < Depth /\ f \in FrameType /\ Dir(f.l) = "open"
      /\ Beneath(f.l) /\ Beyond(f.l) /\ OKMerge(f)
  BY <1>1, MergeFacts DEF TopMerge
<1>3. PICK i : i = names[Public]
  OBVIOUS
<1>4. i # 0 => i \in Inodes /\ text[i] \in Texts /\ i \in Nat
  BY <1>2, <1>3, NameFacts, InodeFacts DEF FilesOK, Placed, FileTypes, Texts
<1>5. PICK missing : missing = {t \in f.req : ~Preserved(t, text[i])}
  OBVIOUS
<1>6. CASE i = 0 /\ Cap(f.l) # 0
  <2>1. SetNames([names EXCEPT ![Public] = Cap(f.l)]) /\ UNCHANGED calls
    BY <1>2, <1>3, <1>6 DEF MergeReads, Cap
  <2>2. Elsewhere(f.l)
    BY <1>1, <1>2, <1>3, <1>6, <2>1, PutBack
  <2>3. FilesOK' /\ Shuffled /\ Dir(f.l)' = "open" /\ Beyond(f.l)' /\ Beneath(f.l)'
    BY <1>1, <1>2, <2>2, AroundView DEF Elsewhere
  <2>4. Framework' /\ OtherCalls(p) /\ stack'[p] # <<>> /\ F(p)' = f /\ R(p)' = r
    BY <1>1, <2>1, <2>3, Stays DEF Now
  <2>5. TopMerge(f, r)'
    BY <1>1, <2>3 DEF TopMerge
  <2> QED
    BY <1>1, <2>4, <2>5, TopIntro DEF Good
<1>7. CASE (i = 0 /\ Cap(f.l) = 0) \/ (i # 0 /\ Links(i) > 2)
  <2>1. "failed" \in Errors /\ "collision" \in Errors
    BY DEF Errors
  <2>2. CASE i = 0 /\ Cap(f.l) = 0
    <3>1. UNCHANGED files /\ Return(p, "failed")
      BY <1>2, <1>3, <2>2 DEF MergeReads, Cap
    <3> QED
      BY <1>1, <2>1, <3>1, MergeGivesUp
  <2>3. CASE i # 0 /\ Links(i) > 2
    <3>0. Links(i) \in Nat
      BY <1>3, LinkCount, NameFacts
    <3>1. UNCHANGED files /\ Return(p, "collision")
      BY <1>2, <1>3, <2>3, <3>0 DEF MergeReads, Cap
    <3> QED
      BY <1>1, <2>1, <3>1, MergeGivesUp
  <2> QED
    BY <1>7, <2>2, <2>3
<1>8. CASE i # 0 /\ ~(Links(i) > 2) /\ missing = {}
  <2>0. Links(i) \in Nat
    BY <1>3, LinkCount, NameFacts
  <2>1. UNCHANGED files /\ Return(p, "ok")
    BY <1>2, <1>3, <1>5, <1>8, <2>0 DEF MergeReads
  <2>2. \A t \in f.req : Safe(t)
    BY <1>3, <1>5, <1>8 DEF Preserved, Safe, PublicLines
  <2>3. Moves(p, f, r) /\ Beyond(f.l)' /\ Beneath(f.l)' /\ \A t \in f.req : Safe(t)'
    BY <1>1, <1>2, <2>1, <2>2, QuietMove, QuietView
  <2>4. Back(p, f, "ok", 0, Empty)
    BY <2>1, <2>3, BackEmpty, WordFacts
  <2> QED
    BY <1>1, <2>3, <2>4, MergeReturns
<1>9. CASE i # 0 /\ ~(Links(i) > 2) /\ missing # {}
  <2>0. Links(i) \in Nat
    BY <1>3, LinkCount, NameFacts
  <2>1. PICK h : h = [F(p) EXCEPT !.req = @ \cup {text[i]}]
    OBVIOUS
  <2>2. /\ Enter(p, h, "replaced", Replace(f.l + 1, i, text[i], Concatenated(text[i], missing)))
        /\ UNCHANGED files
    BY <1>2, <1>3, <1>5, <1>9, <2>0, <2>1 DEF MergeReads
  <2>3. PICK c : c = [h EXCEPT !.at = "replaced"]
    OBVIOUS
  <2>4. "replaced" \in Words
    BY WordFacts
  <2>5. f.req \cup {text[i]} \in SUBSET Texts
    BY <1>2, <1>4, <1>9 DEF FrameType
  <2>6. h \in FrameType /\ h = [f EXCEPT !.req = f.req \cup {text[i]}]
    BY <1>2, <2>1, <2>5 DEF FrameType
  <2>7. /\ c \in FrameType /\ c.fn = "merge" /\ c.at = "replaced" /\ c.l = f.l /\ c.dir = f.dir /\ c.max = f.max
        /\ c.req = f.req \cup {text[i]}
    <3>1. /\ h.fn = f.fn /\ h.l = f.l /\ h.dir = f.dir /\ h.max = f.max
          /\ h.req = f.req \cup {text[i]}
      BY <1>2, <2>6 DEF FrameType
    <3>2. /\ c \in FrameType /\ c.fn = h.fn /\ c.at = "replaced" /\ c.l = h.l /\ c.dir = h.dir /\ c.max = h.max
          /\ c.req = h.req
      BY <2>3, <2>4, <2>6 DEF FrameType
    <3> QED
      BY <1>1, <3>1, <3>2
  <2>8. Resumes(f, c)
    BY <1>1, <2>7 DEF Resumes, Within
  <2>9. FrameOK(c) /\ Settled(c)
    BY <1>1, <1>2, <2>7, FrameIntro DEF OKMerge, Settled
  <2>10. PICK n : n = Concatenated(text[i], missing)
    OBVIOUS
  <2>11. n \in Texts /\ text[i].lines \subseteq n.lines
    <3>1. missing \in SUBSET Texts
      BY <1>2, <1>5 DEF FrameType
    <3> QED
      BY <1>4, <1>9, <2>10, <3>1, ConcatenatedFacts
  <2>12. Frames(p, <<Replace(f.l + 1, i, text[i], n), c>>) /\ UNCHANGED res
    BY <2>2, <2>3, <2>10 DEF Enter
  <2>13. /\ f.l + 1 \in Levels /\ Beyond(f.l + 1) /\ Tidy(f.l + 1) /\ Beneath(f.l + 1)
    BY <1>1, <1>2, NextLevel
  <2>14. Moves(p, f, r) /\ Beyond(f.l + 1)' /\ Tidy(f.l + 1)' /\ Beneath(f.l + 1)'
    BY <1>1, <2>2, <2>13, QuietMove, QuietView
  <2>15. Caller(p, f, r, c)
    BY <2>7, <2>8, <2>9, <2>14 DEF Caller
  <2> QED
    BY <1>4, <1>9, <2>7, <2>11, <2>12, <2>13, <2>14, <2>15, EntersReplace
<1> QED
  BY <1>6, <1>7, <1>8, <1>9

LEMMA MergeReplacedKeeps ==
  ASSUME Framework, NEW p \in Procs, TopAt(p), Aside, MergeReplaced(p)
  PROVE  Good(p)
<1>1. PICK f, r : Now(p, f, r) /\ f.fn = "merge" /\ f.at = "replaced" /\ f.l \in Levels
  BY NowFacts DEF MergeReplaced
<1>2. /\ F(p) = f /\ R(p) = r /\ f \in FrameType /\ Dir(f.l) = "open" /\ OKMerge(f)
      /\ Beneath(f.l) /\ r.r \in {"yes", "no"} \cup Errors
      /\ r.r \notin Errors => Beyond(f.l)
  BY <1>1, MergeFacts DEF TopMerge
<1>3. UNCHANGED files
  BY DEF MergeReplaced
<1>4. PICK merged : merged = IF names[Public] = 0 THEN Empty ELSE text[names[Public]]
  OBVIOUS
<1>5. CASE r.r \in Errors
  <2>1. Return(p, r.r)
    BY <1>2, <1>5 DEF MergeReplaced, Errors
  <2> QED
    BY <1>1, <1>3, <1>5, <2>1, MergeGivesUp
<1>6. CASE r.r = "yes" /\ \A t \in f.req : Preserved(t, merged)
  <2>1. Return(p, "ok")
    BY <1>2, <1>4, <1>6 DEF MergeReplaced, Errors
  <2>2. \A t \in f.req : Safe(t)
    BY <1>4, <1>6 DEF Preserved, Safe, PublicLines, Empty
  <2>3. r.r \notin Errors
    BY <1>6 DEF Errors
  <2>4. Moves(p, f, r) /\ Beyond(f.l)' /\ Beneath(f.l)' /\ \A t \in f.req : Safe(t)'
    BY <1>1, <1>2, <1>3, <2>2, <2>3, QuietMove, QuietView
  <2>5. Back(p, f, "ok", 0, Empty)
    BY <2>1, <2>4, BackEmpty, WordFacts
  <2> QED
    BY <1>1, <2>4, <2>5, MergeReturns
<1>7. CASE r.r \notin Errors /\ ~(r.r = "yes" /\ \A t \in f.req : Preserved(t, merged))
  <2>1. Go(p, "read")
    BY <1>2, <1>4, <1>7 DEF MergeReplaced
  <2>2. Moves(p, f, r) /\ Beyond(f.l)' /\ Beneath(f.l)' /\ Dir(f.l)' = "open"
    BY <1>1, <1>2, <1>3, <1>7, QuietMove, QuietView
  <2>3. "read" \in Words
    BY WordFacts
  <2>4. PICK g \in FrameType : As(g, f, "read") /\ Resumes(f, g) /\ Continue(p, g)
    BY <1>1, <2>1, <2>3, GoFrame
  <2>5. FrameOK(g) /\ Settled(g)
    BY <1>1, <1>2, <2>4, FrameIntro DEF As, OKMerge, Settled
  <2>6. Framework' /\ OtherCalls(p) /\ stack'[p] # <<>> /\ F(p)' = g /\ R(p)' = r
    BY <2>2, <2>4, <2>5, Proceeds
  <2>7. TopMerge(g, r)'
    BY <1>1, <2>2, <2>4 DEF As, TopMerge
  <2> QED
    BY <1>1, <2>4, <2>6, <2>7, TopIntro DEF As, Good
<1> QED
  BY <1>5, <1>6, <1>7

-----------------------------------------------------------------------------
(* recoverProjectPreparationFileRollback: there is none *)

LEMMA UnrollStartsKeeps ==
  ASSUME Framework, NEW p \in Procs, TopAt(p), Aside, UnrollStarts(p)
  PROVE  Good(p)
<1>1. PICK f, r : Now(p, f, r) /\ f.fn = "unroll" /\ f.at = "start" /\ f.l \in Levels
  BY NowFacts DEF UnrollStarts
<1>2. F(p) = f /\ Beneath(f.l) /\ dirs[<<f.l, "rollback">>] = "none"
  BY <1>1 DEF Now, Top, TopUnroll, Framework, FilesOK, Placed, NoRoll
<1>3. Return(p, "ok") /\ UNCHANGED files
  BY <1>2 DEF UnrollStarts
<1>4. Moves(p, f, r) /\ Beneath(f.l)'
  BY <1>1, <1>2, <1>3, QuietMove, QuietView
<1>5. Back(p, f, "ok", 0, Empty)
  BY <1>3, <1>4, BackEmpty, WordFacts
<1> QED
  BY <1>1, <1>4, <1>5, UnrollReturns

LEMMA UnrollElsewhere ==
  ASSUME Framework, NEW p \in Procs, TopAt(p)
  PROVE  ~ (UnrollGot(p) \/ UnrollRefused(p) \/ UnrollOther(p) \/ UnrollPut(p) \/ UnrollPlaces(p) \/ UnrollDone(p))
<1>1. ASSUME NEW a, At(p, "unroll", a)
      PROVE  a = "start"
  <2>1. PICK f, r : Now(p, f, r) /\ f.fn = "unroll" /\ f.at = a
    BY <1>1, NowFacts
  <2> QED
    BY <2>1 DEF Now, FrameOK, OKUnroll
<1> QED
  BY <1>1 DEF UnrollGot, UnrollRefused, UnrollOther, UnrollPut, UnrollPlaces, UnrollDone

LEMMA ReplaceSteps ==
  ASSUME Framework, NEW p \in Procs, TopAt(p), NEW a, At(p, "replace", a)
  PROVE  a \in {"write", "captured", "restored", "withdraw", "publish", "refresh", "removed", "finish", "catch", "caught",
                "recovered", "abandon"}
<1>1. PICK f, r : Now(p, f, r) /\ f.fn = "replace" /\ f.at = a
  BY NowFacts
<1>2. OKReplace(f)
  BY <1>1 DEF Now, FrameOK
<1> QED
  BY <1>1, <1>2 DEF OKReplace

LEMMA ReplaceElsewhere ==
  ASSUME Framework, NEW p \in Procs, TopAt(p)
  PROVE  ~ (ReplaceRolled(p) \/ ReplaceMistaken(p) \/ ReplaceReturned(p) \/ ReplaceReleased(p) \/ ReplaceUnrolled(p))
<1>1. ~At(p, "replace", "rolled") /\ ~At(p, "replace", "mistaken")
  BY ReplaceSteps
<1>2. ~At(p, "replace", "returned") /\ ~At(p, "replace", "released") /\ ~At(p, "replace", "unrolled")
  BY ReplaceSteps
<1> QED
  BY <1>1, <1>2 DEF ReplaceRolled, ReplaceMistaken, ReplaceReturned, ReplaceReleased, ReplaceUnrolled

-----------------------------------------------------------------------------
(* recoverProjectPreparationFileReplacement *)

LEMMA RecoverFacts ==
  ASSUME NEW p \in Procs, NEW f, NEW r, Now(p, f, r), f.fn = "recover"
  PROVE  /\ F(p) = f /\ R(p) = r /\ FilesOK /\ (f.at \notin {"start", "unrolled"} => f.l < Depth)
         /\ Beneath(f.l) /\ OKRecover(f) /\ TopRecover(f, r) /\ f \in FrameType /\ r \in ResultType
  BY DEF Now, Framework, FrameOK, OKRecover, Top, TopRecover

LEMMA RecoverGivesUp ==
  ASSUME NEW p \in Procs, NEW f, NEW r, Now(p, f, r), f.fn = "recover", f.l \in Levels, Aside,
         UNCHANGED files, NEW e \in Errors, Return(p, e)
  PROVE  Good(p)
<1>1. Moves(p, f, r) /\ Beneath(f.l)'
  BY RecoverFacts, QuietMove, QuietView
<1>2. Back(p, f, e, 0, Empty) /\ e # "ok"
  BY <1>1, BackEmpty, WordFacts DEF Errors
<1> QED
  BY <1>1, <1>2, RecoverReturns

LEMMA RecoverEnds ==
  ASSUME NEW p \in Procs, NEW f, NEW r, Now(p, f, r), f.fn = "recover", f.l \in Levels, Aside,
         UNCHANGED files, Dir(f.l) = "none", Beyond(f.l), Return(p, "ok")
  PROVE  Good(p)
<1>1. Moves(p, f, r) /\ Beneath(f.l)' /\ Beyond(f.l)' /\ Dir(f.l)' = "none"
  BY RecoverFacts, QuietMove, QuietView
<1>2. Back(p, f, "ok", 0, Empty)
  BY <1>1, BackEmpty, WordFacts
<1> QED
  BY <1>1, <1>2, RecoverReturns

LEMMA RecoverGoes ==
  ASSUME NEW p \in Procs, NEW f, NEW r, Moves(p, f, r), f.fn = "recover", f.l \in Levels, NEW g \in FrameType, Continue(p, g),
         g.fn = "recover", g.l = f.l, g.max = f.max, OKRecover(g), TopRecover(g, r)'
  PROVE  Good(p)
<1>1. FrameOK(g) /\ Settled(g) /\ Resumes(f, g)
  BY FrameIntro DEF Settled, Resumes
<1>2. Framework' /\ OtherCalls(p) /\ stack'[p] # <<>> /\ F(p)' = g /\ R(p)' = r
  BY <1>1, Proceeds
<1> QED
  BY <1>2, TopIntro DEF Good

LEMMA RecoverStartsKeeps ==
  ASSUME Framework, NEW p \in Procs, TopAt(p), Aside, RecoverStarts(p)
  PROVE  Good(p)
<1>1. PICK f, r : Now(p, f, r) /\ f.fn = "recover" /\ f.at = "start" /\ f.l \in Levels
  BY NowFacts DEF RecoverStarts
<1>2. F(p) = f /\ Beneath(f.l) /\ OKRecover(f)
  BY <1>1, RecoverFacts
<1>3. UNCHANGED files
  BY DEF RecoverStarts
<1>4. Moves(p, f, r) /\ Beneath(f.l)'
  BY <1>1, <1>2, <1>3, QuietMove, QuietView
<1>0. "unrolled" \in Words
  BY WordFacts
<1>5. PICK c \in FrameType : c = [f EXCEPT !.at = "unrolled"] /\ As(c, f, "unrolled") /\ Resumes(f, c)
  BY <1>0, <1>1, GoFrame
<1>6. FrameOK(c) /\ Settled(c)
  BY <1>1, <1>2, <1>5, FrameIntro DEF As, OKRecover, Settled
<1>7. Frames(p, <<RecoverRollback(f.l), c>>) /\ UNCHANGED res
  BY <1>2, <1>5 DEF RecoverStarts, Enter
<1>8. Caller(p, f, r, c) /\ c.l = f.l /\ c.fn = "recover" /\ c.at = "unrolled"
  BY <1>1, <1>4, <1>5, <1>6 DEF Caller, As
<1> QED
  BY <1>1, <1>4, <1>7, <1>8, EntersUnroll

LEMMA RecoverUnrolledKeeps ==
  ASSUME Framework, NEW p \in Procs, TopAt(p), Aside, RecoverUnrolled(p)
  PROVE  Good(p)
<1>1. PICK f, r : Now(p, f, r) /\ f.fn = "recover" /\ f.at = "unrolled" /\ f.l \in Levels
  BY NowFacts DEF RecoverUnrolled
<1>2. /\ F(p) = f /\ R(p) = r /\ FilesOK /\ Beneath(f.l) /\ OKRecover(f) /\ r.r = "ok" /\ DirFiles(f.l)
      /\ Dir(f.l) \in {"none", "open", "released"}
  BY <1>1, RecoverFacts DEF TopRecover, FilesOK, Placed, AllDirs, FileTypes, Dir, Areas
<1>3. CASE Dir(f.l) = "released"
  <2>1. FinishReleased(p, f.l, "replace", "ok")
    BY <1>2, <1>3 DEF RecoverUnrolled, Dir, Errors
  <2>2. /\ FilesOK' /\ Shuffled /\ Beyond(f.l)' /\ Beneath(f.l)'
        /\ UNCHANGED calls \/ (Return(p, "ok") /\ Dir(f.l)' = "none") \/ Return(p, "collision")
    BY <1>1, <1>2, <1>3, <2>1, Finishes
  <2>3. Moves(p, f, r)
    BY <1>1, <2>2 DEF Moves
  <2>4. CASE UNCHANGED calls
    <3>1. Framework' /\ OtherCalls(p) /\ stack'[p] # <<>> /\ F(p)' = f /\ R(p)' = r
      BY <1>1, <2>2, <2>4, Stays DEF Now
    <3>2. TopRecover(f, r)'
      BY <1>1, <1>2, <2>2 DEF TopRecover
    <3> QED
      BY <1>1, <3>1, <3>2, TopIntro DEF Good
  <2>5. CASE Return(p, "ok") /\ Dir(f.l)' = "none"
    <3>1. Back(p, f, "ok", 0, Empty)
      BY <2>3, <2>5, BackEmpty, WordFacts
    <3> QED
      BY <1>1, <2>2, <2>5, <3>1, RecoverReturns
  <2>6. CASE Return(p, "collision")
    <3>1. Back(p, f, "collision", 0, Empty)
      BY <2>3, <2>6, BackEmpty, WordFacts
    <3> QED
      BY <1>1, <2>2, <3>1, RecoverReturns DEF Errors
  <2> QED
    BY <2>2, <2>4, <2>5, <2>6
<1>4. CASE Dir(f.l) = "none"
  <2>1. Return(p, "ok") /\ UNCHANGED files
    BY <1>2, <1>4 DEF RecoverUnrolled, Dir, Errors
  <2>2. Beyond(f.l)
    BY <1>2, <1>4 DEF DirFiles
  <2> QED
    BY <1>1, <1>4, <2>1, <2>2, RecoverEnds
<1>5. CASE Dir(f.l) = "open" /\ f.l = Depth
  <2>1. Return(p, "collision") /\ UNCHANGED files /\ "collision" \in Errors
    BY <1>2, <1>5 DEF RecoverUnrolled, Dir, Errors
  <2> QED
    BY <1>1, <2>1, RecoverGivesUp
<1>6. CASE Dir(f.l) = "open" /\ f.l # Depth
  <2>1. Enter(p, f, "reconciled", Recover(f.l + 1)) /\ UNCHANGED files
    BY <1>2, <1>6 DEF RecoverUnrolled, Dir, Errors
  <2>2. f.l < Depth
    BY <1>1, <1>6, ProjectFileAssumption DEF Levels
  <2>3. f.l + 1 \in Levels /\ Beneath(f.l + 1)
    BY <1>1, <1>2, <1>6, <2>2, NextLevel
  <2>4. Moves(p, f, r) /\ Beneath(f.l + 1)'
    BY <1>1, <2>1, <2>3, QuietMove, QuietView
  <2>0. "reconciled" \in Words
    BY WordFacts
  <2>5. PICK c \in FrameType : c = [f EXCEPT !.at = "reconciled"] /\ As(c, f, "reconciled") /\ Resumes(f, c)
    BY <1>1, <2>0, GoFrame
  <2>6. FrameOK(c) /\ Settled(c)
    BY <1>1, <1>2, <2>2, <2>5, FrameIntro DEF As, OKRecover, Settled
  <2>7. Frames(p, <<Recover(f.l + 1), c>>) /\ UNCHANGED res
    BY <2>1, <2>5 DEF Enter
  <2>8. Caller(p, f, r, c) /\ c.l = f.l /\ c.fn = "recover" /\ c.at = "reconciled"
    BY <1>1, <2>4, <2>5, <2>6 DEF Caller, As
  <2> QED
    BY <2>3, <2>4, <2>7, <2>8, EntersRecover
<1> QED
  BY <1>2, <1>3, <1>4, <1>5, <1>6

LEMMA RecoverReconciledKeeps ==
  ASSUME Framework, NEW p \in Procs, TopAt(p), Aside, RecoverReconciled(p)
  PROVE  Good(p)
<1>1. PICK f, r : Now(p, f, r) /\ f.fn = "recover" /\ f.at = "reconciled" /\ f.l \in Levels
  BY NowFacts DEF RecoverReconciled
<1>2. /\ F(p) = f /\ R(p) = r /\ FilesOK /\ Beneath(f.l) /\ OKRecover(f) /\ f.l < Depth
      /\ r.r \in {"ok"} \cup Errors /\ (r.r = "ok" => Dir(f.l + 1) = "none" /\ Beyond(f.l + 1))
  BY <1>1, RecoverFacts DEF TopRecover
<1>3. "failed" \in Errors
  BY DEF Errors
<1>4. CASE r.r \in Errors
  <2>1. Return(p, r.r) /\ UNCHANGED files
    BY <1>2, <1>4 DEF RecoverReconciled
  <2> QED
    BY <1>1, <1>4, <2>1, RecoverGivesUp
<1>5. CASE r.r \notin Errors /\ Return(p, "failed") /\ UNCHANGED files
  BY <1>1, <1>3, <1>5, RecoverGivesUp
<1>6. CASE r.r = "ok" /\ Drop(Temp(f.l + 1)) /\ Go(p, "capture")
  <2>1. f.l + 1 \in Levels
    BY <1>1, <1>2, NextLevel
  <2>2. /\ FilesOK' /\ Shuffled /\ dirs' = dirs
        /\ Tmp(f.l + 1)' = 0 /\ \A m \in Levels : m # f.l + 1 => Tmp(m)' = Tmp(m)
    BY <1>2, <1>6, <2>1, DropTemp
  <2>3. \A m \in Levels : Dir(m)' = Dir(m)
    BY <2>2, DirView
  <2>4. Beneath(f.l)'
    BY <1>2, <2>3 DEF Beneath
  <2>5. \A m \in Levels : m > f.l => m = f.l + 1 \/ m > f.l + 1
    BY <1>1 DEF Levels
  <2>6. Beyond(f.l)'
    BY <1>2, <1>6, <2>2, <2>3, <2>5 DEF Beyond, Tidy
  <2>7. Moves(p, f, r)
    BY <1>1, <2>2 DEF Moves
  <2>8. "capture" \in Words
    BY WordFacts
  <2>9. PICK g \in FrameType : As(g, f, "capture") /\ Resumes(f, g) /\ Continue(p, g)
    BY <1>1, <1>6, <2>8, GoFrame
  <2>10. /\ g.fn = "recover" /\ g.l = f.l /\ g.max = f.max /\ Within(f, g) /\ OKRecover(g) /\ TopRecover(g, r)'
    BY <1>1, <1>2, <2>4, <2>6, <2>9 DEF As, Within, OKRecover, TopRecover
  <2> QED
    BY <1>1, <2>7, <2>9, <2>10, RecoverGoes
<1>7. \/ r.r \in Errors
      \/ r.r \notin Errors /\ Return(p, "failed") /\ UNCHANGED files
      \/ r.r = "ok" /\ Drop(Temp(f.l + 1)) /\ Go(p, "capture")
  <2>1. r.r \notin Errors => Untemp(p, f.l + 1, "capture")
    BY <1>2 DEF RecoverReconciled
  <2>2. Untemp(p, f.l + 1, "capture") =>
          (Return(p, "failed") /\ UNCHANGED files) \/ (Drop(Temp(f.l + 1)) /\ Go(p, "capture"))
    BY DEF Untemp
  <2>3. r.r \notin Errors => r.r = "ok"
    BY <1>2
  <2> HIDE DEF Errors
  <2> QED
    BY <2>1, <2>2, <2>3, Zenon
<1> QED
  BY <1>4, <1>5, <1>6, <1>7

LEMMA RecoverCapturesKeeps ==
  ASSUME Framework, NEW p \in Procs, TopAt(p), Aside, RecoverCaptures(p)
  PROVE  Good(p)
<1>1. PICK f, r : Now(p, f, r) /\ f.fn = "recover" /\ f.at = "capture" /\ f.l \in Levels
  BY NowFacts DEF RecoverCaptures
<1>2. F(p) = f /\ Beneath(f.l) /\ Beyond(f.l) /\ OKRecover(f)
  BY <1>1, RecoverFacts DEF TopRecover
<1>3. UNCHANGED files
  BY DEF RecoverCaptures
<1>4. Moves(p, f, r) /\ Beneath(f.l)' /\ Beyond(f.l)'
  BY <1>1, <1>2, <1>3, QuietMove, QuietView
<1>0. "got" \in Words
  BY WordFacts
<1>5. PICK c \in FrameType : c = [f EXCEPT !.at = "got"] /\ As(c, f, "got") /\ Resumes(f, c)
  BY <1>0, <1>1, GoFrame
<1>6. FrameOK(c) /\ Settled(c)
  BY <1>1, <1>2, <1>5, FrameIntro DEF As, OKRecover, Settled
<1>7. Frames(p, <<Capture(f.l, "replace", 2), c>>) /\ UNCHANGED res
  BY <1>2, <1>5 DEF RecoverCaptures, Enter
<1>8. Caller(p, f, r, c) /\ c.l = f.l /\ c.fn = "recover" /\ c.at = "got"
  BY <1>1, <1>4, <1>5, <1>6 DEF Caller, As
<1> QED
  BY <1>1, <1>4, <1>7, <1>8, EntersCapture

LEMMA RecoverGotKeeps ==
  ASSUME Framework, NEW p \in Procs, TopAt(p), Aside, RecoverGot(p)
  PROVE  Good(p)
<1>1. PICK f, r : Now(p, f, r) /\ f.fn = "recover" /\ f.at = "got" /\ f.l \in Levels
  BY NowFacts DEF RecoverGot
<1>2. /\ F(p) = f /\ R(p) = r /\ FilesOK /\ Beneath(f.l) /\ Beyond(f.l) /\ OKRecover(f) /\ f.l < Depth
      /\ f \in FrameType /\ r \in ResultType /\ r.r \in {"ok", "absent"} \cup Errors
      /\ r.r = "ok" => Got(f.l, r)
  BY <1>1, RecoverFacts DEF TopRecover
<1>3. UNCHANGED files
  BY DEF RecoverGot
<1>4. Moves(p, f, r) /\ Beneath(f.l)' /\ Beyond(f.l)' /\ Dir(f.l)' = Dir(f.l) /\ \A t : Safe(t)' <=> Safe(t)
  BY <1>1, <1>2, <1>3, QuietMove, QuietView
<1>5. CASE r.r # "ok"
  <2>1. \E e \in Errors : Return(p, e)
    BY <1>2, <1>5 DEF RecoverGot, Errors
  <2> QED
    BY <1>1, <1>3, <2>1, RecoverGivesUp
<1>6. PICK public : public = names[Public]
  OBVIOUS
<1>7. PICK q : q = {r.text} \cup (IF public = 0 THEN {} ELSE {text[public]})
  OBVIOUS
<1>8. q \in SUBSET Texts /\ r.inode \in Nat /\ r.text \in Texts
  <2>1. public # 0 => text[public] \in Texts
    BY <1>2, <1>6, NameFacts DEF FilesOK, Placed, FileTypes, Texts
  <2> QED
    BY <1>2, <1>7, <2>1 DEF ResultType
<1>9. PICK h : h = [f EXCEPT !.inode = r.inode, !.text = r.text, !.req = q]
  OBVIOUS
<1>10. ASSUME NEW a \in Words
       PROVE  \E g \in FrameType : /\ g = [h EXCEPT !.at = a] /\ g.fn = "recover" /\ g.l = f.l /\ g.max = f.max /\ g.at = a
                                   /\ g.inode = r.inode /\ g.text = r.text /\ g.req = q
  <2>1. h \in FrameType /\ h.fn = "recover" /\ h.l = f.l /\ h.max = f.max
        /\ h.inode = r.inode /\ h.text = r.text /\ h.req = q
    BY <1>1, <1>2, <1>8, <1>9 DEF FrameType
  <2>2. PICK g : g = [h EXCEPT !.at = a]
    OBVIOUS
  <2>3. g \in FrameType /\ g.fn = h.fn /\ g.l = h.l /\ g.max = h.max /\ g.at = a
        /\ g.inode = h.inode /\ g.text = h.text /\ g.req = h.req
    BY <2>1, <2>2 DEF FrameType
  <2> QED
    BY <2>1, <2>2, <2>3
<1>11. CASE r.r = "ok" /\ public # 0 /\ public = Tmp(f.l)
  <2>1. "release" \in Words
    BY WordFacts
  <2>2. PICK g \in FrameType : /\ g = [h EXCEPT !.at = "release"] /\ g.fn = "recover" /\ g.l = f.l /\ g.max = f.max
                               /\ g.at = "release" /\ g.inode = r.inode /\ g.text = r.text /\ g.req = q
    BY <1>10, <2>1
  <2>3. Continue(p, g)
    BY <1>2, <1>6, <1>7, <1>9, <1>11, <2>2 DEF RecoverGot, Tmp
  <2>4. Safe(r.text)
    <3>1. Superseded(f.l) /\ Exposed(f.l)
      BY <1>1, <1>2, <1>6, <1>11 DEF FilesOK, Placed, AllDirs, Exposed, Upper
    <3>2. r.inode # Tmp(f.l) => text[r.inode].lines \subseteq text[Tmp(f.l)].lines
      BY <1>2, <1>11, <3>1 DEF Superseded, Got, Cap
    <3>3. r.text.lines \subseteq text[r.inode].lines
      BY <1>2, <1>11 DEF Got
    <3> QED
      BY <1>6, <1>11, <3>2, <3>3 DEF Safe, PublicLines
  <2>5. OKRecover(g) /\ TopRecover(g, r)'
    BY <1>2, <1>4, <1>7, <2>2, <2>4 DEF OKRecover, Covered, TopRecover
  <2> QED
    BY <1>1, <1>4, <2>2, <2>3, <2>5, RecoverGoes
<1>12. CASE r.r = "ok" /\ ~(public # 0 /\ public = Tmp(f.l)) /\ public \in {0, r.inode}
  <2>1. "done" \in Words
    BY WordFacts
  <2>2. PICK c \in FrameType : /\ c = [h EXCEPT !.at = "done"] /\ c.fn = "recover" /\ c.l = f.l /\ c.max = f.max
                               /\ c.at = "done" /\ c.inode = r.inode /\ c.text = r.text /\ c.req = q
    BY <1>10, <2>1
  <2>3. Enter(p, h, "done", Restore(f.l, "replace"))
    BY <1>2, <1>6, <1>7, <1>9, <1>12 DEF RecoverGot, Tmp
  <2>4. Frames(p, <<Restore(f.l, "replace"), c>>) /\ UNCHANGED res
    BY <2>2, <2>3 DEF Enter
  <2>5. FrameOK(c) /\ Settled(c) /\ Resumes(f, c)
    BY <1>1, <1>2, <2>2, FrameIntro DEF OKRecover, Settled, Resumes
  <2>6. Caller(p, f, r, c)
    BY <1>4, <2>2, <2>5 DEF Caller
  <2> QED
    BY <1>1, <1>4, <2>2, <2>4, <2>6, EntersRestore
<1>13. CASE r.r = "ok" /\ public \notin {0, r.inode} /\ public # Tmp(f.l)
  <2>1. "merged" \in Words
    BY WordFacts
  <2>2. PICK c \in FrameType : /\ c = [h EXCEPT !.at = "merged"] /\ c.fn = "recover" /\ c.l = f.l /\ c.max = f.max
                               /\ c.at = "merged" /\ c.inode = r.inode /\ c.text = r.text /\ c.req = q
    BY <1>10, <2>1
  <2>3. Enter(p, h, "merged", Merge(f.l, "replace", q))
    <3>1. h.req = q
      BY <1>2, <1>9 DEF FrameType
    <3>2. Enter(p, h, "merged", Merge(f.l, "replace", h.req))
      BY <1>2, <1>6, <1>7, <1>9, <1>13 DEF RecoverGot, Tmp
    <3> QED
      BY <3>1, <3>2
  <2>4. Frames(p, <<Merge(f.l, "replace", c.req), c>>) /\ UNCHANGED res
    BY <2>2, <2>3 DEF Enter
  <2>5. OKRecover(c)
    BY <1>2, <1>7, <2>2 DEF OKRecover, Covered
  <2>6. FrameOK(c) /\ Settled(c) /\ Resumes(f, c)
    BY <1>1, <1>2, <2>2, <2>5, FrameIntro DEF Settled, Resumes
  <2>7. Caller(p, f, r, c)
    BY <1>4, <2>2, <2>6 DEF Caller
  <2>8. Dir(f.l) = "open"
    <3>1. Cap(f.l) # 0 /\ DirFiles(f.l) /\ Dir(f.l) \in {"none", "open", "released"}
      BY <1>1, <1>2, <1>13, NameFacts DEF Got, FilesOK, Placed, AllDirs, FileTypes, Dir
    <3> QED
      BY <3>1 DEF DirFiles
  <2>9. f.l \in Levels /\ f.l < Depth /\ Beyond(f.l)' /\ Beneath(f.l)' /\ Dir(f.l)' = "open"
    BY <1>1, <1>2, <1>4, <2>8
  <2> QED
    BY <2>2, <2>4, <2>7, <2>9, EntersMerge
<1> QED
  BY <1>5, <1>11, <1>12, <1>13

LEMMA RecoverMergedKeeps ==
  ASSUME Framework, NEW p \in Procs, TopAt(p), Aside, RecoverMerged(p)
  PROVE  Good(p)
<1>1. PICK f, r : Now(p, f, r) /\ f.fn = "recover" /\ f.at = "merged" /\ f.l \in Levels
  BY NowFacts DEF RecoverMerged
<1>2. /\ F(p) = f /\ R(p) = r /\ f \in FrameType /\ Beneath(f.l) /\ OKRecover(f) /\ f.l < Depth /\ Covered(f)
      /\ r.r \in {"ok"} \cup Errors
      /\ r.r = "ok" => Beyond(f.l) /\ \A t \in f.req : Safe(t)
  BY <1>1, RecoverFacts DEF TopRecover, OKRecover
<1>3. UNCHANGED files
  BY DEF RecoverMerged
<1>4. CASE r.r \in Errors
  <2>1. Return(p, r.r)
    BY <1>2, <1>4 DEF RecoverMerged
  <2> QED
    BY <1>1, <1>3, <1>4, <2>1, RecoverGivesUp
<1>5. CASE r.r = "ok"
  <2>1. Go(p, "release")
    BY <1>2, <1>5 DEF RecoverMerged, Errors
  <2>2. Safe(f.text)
    BY <1>2, <1>5 DEF Covered, Safe
  <2>3. Moves(p, f, r) /\ Beyond(f.l)' /\ Beneath(f.l)' /\ Safe(f.text)'
    BY <1>1, <1>2, <1>3, <1>5, <2>2, QuietMove, QuietView
  <2>4. "release" \in Words
    BY WordFacts
  <2>5. PICK g \in FrameType : As(g, f, "release") /\ Continue(p, g)
    BY <1>1, <2>1, <2>4, GoFrame
  <2>6. g.fn = "recover" /\ g.l = f.l /\ g.max = f.max /\ OKRecover(g) /\ TopRecover(g, r)'
    BY <1>1, <1>2, <2>3, <2>5 DEF As, OKRecover, Covered, TopRecover
  <2> QED
    BY <1>1, <2>3, <2>5, <2>6, RecoverGoes
<1> QED
  BY <1>2, <1>4, <1>5

LEMMA RecoverReleasesKeeps ==
  ASSUME Framework, NEW p \in Procs, TopAt(p), Aside, RecoverReleases(p)
  PROVE  Good(p)
<1>1. PICK f, r : Now(p, f, r) /\ f.fn = "recover" /\ f.at = "release" /\ f.l \in Levels
  BY NowFacts DEF RecoverReleases
<1>2. /\ F(p) = f /\ Beneath(f.l) /\ Beyond(f.l) /\ OKRecover(f) /\ f.l < Depth /\ f \in FrameType /\ Safe(f.text)
      /\ Covered(f)
  BY <1>1, RecoverFacts DEF TopRecover, OKRecover
<1>3. UNCHANGED files
  BY DEF RecoverReleases
<1>4. Moves(p, f, r) /\ Beneath(f.l)' /\ Beyond(f.l)' /\ Safe(f.text)'
  BY <1>1, <1>2, <1>3, QuietMove, QuietView
<1>0. "done" \in Words
  BY WordFacts
<1>5. PICK c \in FrameType : c = [f EXCEPT !.at = "done"] /\ As(c, f, "done") /\ Resumes(f, c)
  BY <1>0, <1>1, GoFrame
<1>6. FrameOK(c) /\ Settled(c)
  BY <1>1, <1>2, <1>5, FrameIntro DEF As, OKRecover, Settled
<1>7. Frames(p, <<ReleaseAll(f.l, "replace", 2, f.inode, f.text, f.req), c>>) /\ UNCHANGED res
  BY <1>2, <1>5 DEF RecoverReleases, Enter
<1>8. Caller(p, f, r, c) /\ c.l = f.l /\ c.fn = "recover" /\ c.at = "done"
  BY <1>1, <1>4, <1>5, <1>6 DEF Caller, As
<1>9. f.inode \in Nat /\ f.text \in Texts /\ f.req \in SUBSET Texts /\ \E u \in f.req : f.text.lines \subseteq u.lines
  BY <1>2 DEF FrameType, Covered
<1> QED
  BY <1>1, <1>2, <1>4, <1>7, <1>8, <1>9, EntersRelease

LEMMA RecoverDoneKeeps ==
  ASSUME Framework, NEW p \in Procs, TopAt(p), Aside, RecoverDone(p)
  PROVE  Good(p)
<1>1. PICK f, r : Now(p, f, r) /\ f.fn = "recover" /\ f.at = "done" /\ f.l \in Levels
  BY NowFacts DEF RecoverDone
<1>2. /\ F(p) = f /\ R(p) = r /\ r.r \in {"ok"} \cup Errors
      /\ r.r = "ok" => Dir(f.l) = "none" /\ Beyond(f.l)
  BY <1>1, RecoverFacts DEF TopRecover
<1>3. UNCHANGED files /\ Return(p, r.r)
  BY <1>2 DEF RecoverDone
<1>4. CASE r.r \in Errors
  BY <1>1, <1>3, <1>4, RecoverGivesUp
<1>5. CASE r.r = "ok"
  BY <1>1, <1>2, <1>3, <1>5, RecoverEnds
<1> QED
  BY <1>2, <1>4, <1>5

-----------------------------------------------------------------------------
(* replaceProjectPreparationFile *)

LEMMA ReplaceFacts ==
  ASSUME NEW p \in Procs, NEW f, NEW r, Now(p, f, r), f.fn = "replace"
  PROVE  /\ F(p) = f /\ R(p) = r /\ FilesOK /\ Beneath(f.l) /\ (f.at # "recovered" => Beyond(f.l))
         /\ OKReplace(f) /\ TopReplace(f, r) /\ f \in FrameType /\ r \in ResultType
         /\ f.next \in Texts /\ f.text.lines \subseteq f.next.lines /\ f.inode # 0
  BY DEF Now, Framework, FrameOK, FrameType, OKReplace, Top, TopReplace

LEMMA ReplaceGoes ==
  ASSUME NEW p \in Procs, NEW f, NEW r, Moves(p, f, r), f.fn = "replace", f.l \in Levels, NEW g \in FrameType, Continue(p, g),
         g.fn = "replace", g.l = f.l, g.max = f.max, OKReplace(g), TopReplace(g, r)', Settled(g) \/ FrameTemp(g)'
  PROVE  Good(p)
<1>1. FrameOK(g) /\ Resumes(f, g)
  BY FrameIntro DEF Resumes
<1>2. Framework' /\ OtherCalls(p) /\ stack'[p] # <<>> /\ F(p)' = g /\ R(p)' = r
  BY <1>1, Proceeds
<1> QED
  BY <1>2, TopIntro DEF Good

\* Nothing at the temporary name, and an answer.
LEMMA ReplaceLeaves ==
  ASSUME NEW p \in Procs, NEW f, NEW r, Now(p, f, r), f.fn = "replace", f.l \in Levels, Aside,
         Drop(Temp(f.l)), NEW q \in {"yes", "no"} \cup Errors, Return(p, q),
         q \notin Errors => Dir(f.l) = "none" /\ Beyond(f.l)
  PROVE  Good(p)
<1>1. FilesOK /\ Beneath(f.l)
  BY ReplaceFacts
<1>2. /\ FilesOK' /\ Shuffled /\ dirs' = dirs
      /\ Tmp(f.l)' = 0 /\ \A m \in Levels : m # f.l => Tmp(m)' = Tmp(m)
  BY <1>1, DropTemp
<1>3. \A m \in Levels : Dir(m)' = Dir(m)
  BY <1>2, DirView
<1>4. Beneath(f.l)' /\ (Beyond(f.l) => Beyond(f.l)') /\ (Dir(f.l) = "none" => Tidy(f.l)')
  BY <1>1, <1>2, <1>3, AroundView DEF Tidy
<1>5. q \in Words
  BY WordFacts DEF Errors
<1>6. Back(p, f, q, 0, Empty)
  BY <1>2, <1>5, BackEmpty DEF Moves
<1> QED
  BY <1>4, <1>6, ReplaceReturns

LEMMA ReplaceGivesUp ==
  ASSUME NEW p \in Procs, NEW f, NEW r, Now(p, f, r), f.fn = "replace", f.l \in Levels, Aside,
         UNCHANGED files, NEW e \in Errors, Return(p, e)
  PROVE  Good(p)
<1>1. Moves(p, f, r) /\ Beneath(f.l)'
  BY ReplaceFacts, QuietMove, QuietView
<1>2. e \in Words
  BY WordFacts DEF Errors
<1>3. Back(p, f, e, 0, Empty)
  BY <1>1, <1>2, BackEmpty
<1> QED
  BY <1>1, <1>3, ReplaceReturns

\* To the error path.
LEMMA ReplaceThrows ==
  ASSUME NEW p \in Procs, NEW f, NEW r, Now(p, f, r), f.fn = "replace", f.at # "recovered", f.l \in Levels, Aside,
         UNCHANGED files, NEW a \in {"catch", "abandon"}, NEW e \in Errors, Throw(p, a, e)
  PROVE  Good(p)
<1>1. Moves(p, f, r) /\ Beneath(f.l)' /\ Beyond(f.l)' /\ OKReplace(f)
  BY ReplaceFacts, QuietMove, QuietView
<1>2. "catch" \in Words /\ "abandon" \in Words /\ "failed" \in Words /\ "collision" \in Words
  BY WordFacts
<1>3. a \in Words /\ e \in Words
  BY <1>2 DEF Errors
<1>4. PICK g \in FrameType : /\ g.at = a /\ g.code = e /\ g.fn = f.fn /\ g.l = f.l /\ g.max = f.max
                             /\ g.inode = f.inode /\ g.text = f.text /\ g.next = f.next /\ Continue(p, g)
  BY <1>1, <1>3, ThrowFrame DEF Moves
<1>5. OKReplace(g) /\ Settled(g)
  BY <1>1, <1>4 DEF OKReplace, Settled
<1>6. TopReplace(g, r)'
  BY <1>1, <1>4 DEF TopReplace
<1> QED
  BY <1>1, <1>4, <1>5, <1>6, ReplaceGoes

LEMMA ReplaceGoesTo ==
  ASSUME NEW p \in Procs, NEW f, NEW r, Now(p, f, r), f.fn = "replace", f.at # "recovered", f.l \in Levels, Aside,
         UNCHANGED files, NEW a \in {"withdraw", "finish", "abandon"}, Go(p, a),
         a # "abandon" => Dir(f.l) = "none",
         a = "abandon" => f.code \in Errors
  PROVE  Good(p)
<1>1. Moves(p, f, r) /\ Beneath(f.l)' /\ Beyond(f.l)' /\ OKReplace(f) /\ Dir(f.l)' = Dir(f.l)
  BY ReplaceFacts, QuietMove, QuietView
<1>2. "withdraw" \in Words /\ "finish" \in Words /\ "abandon" \in Words
  BY WordFacts
<1>3. a \in Words
  BY <1>2
<1>4. PICK g \in FrameType : As(g, f, a) /\ Continue(p, g)
  BY <1>1, <1>3, GoFrame DEF Moves
<1>5. OKReplace(g) /\ Settled(g)
  BY <1>1, <1>4 DEF As, OKReplace, Settled
<1>6. TopReplace(g, r)'
  BY <1>1, <1>4 DEF As, TopReplace
<1> QED
  BY <1>1, <1>4, <1>5, <1>6, ReplaceGoes DEF As

LEMMA OwnTemp ==
  ASSUME NEW p \in Procs, NEW f, NEW r, Now(p, f, r)
  PROVE  FrameTemp(f)
<1>1. stack[p] \in Seq(FrameType) /\ stack[p] # <<>> /\ f = Head(stack[p]) /\ FrameTemps
  BY DEF Now, Framework, CallsOK, CallTypes, F
<1>2. 1 \in 1..Len(stack[p]) /\ Head(stack[p]) = stack[p][1]
  BY <1>1
<1> QED
  BY <1>1, <1>2 DEF FrameTemps

LEMMA ReplaceCapturedKeeps ==
  ASSUME Framework, NEW p \in Procs, TopAt(p), Aside, ReplaceCaptured(p)
  PROVE  Good(p)
<1>1. PICK f, r : Now(p, f, r) /\ f.fn = "replace" /\ f.at = "captured" /\ f.l \in Levels
  BY NowFacts DEF ReplaceCaptured
<1>2. /\ F(p) = f /\ R(p) = r /\ Beneath(f.l) /\ Beyond(f.l) /\ OKReplace(f) /\ f \in FrameType /\ r \in ResultType
      /\ r.r \in {"ok", "absent"} \cup Errors
      /\ r.r = "ok" => Sole(f.l, r.inode, r.text) /\ Rel(f.l) = 0
      /\ r.r = "absent" => Dir(f.l) = "none"
  BY <1>1, ReplaceFacts DEF TopReplace
<1>3. UNCHANGED files
  BY DEF ReplaceCaptured
<1>4. /\ Moves(p, f, r) /\ Beneath(f.l)' /\ Beyond(f.l)' /\ Dir(f.l)' = Dir(f.l) /\ Rel(f.l)' = Rel(f.l)
      /\ \A i, t : Sole(f.l, i, t)' <=> Sole(f.l, i, t)
  BY <1>1, <1>2, <1>3, QuietMove, QuietView
<1>5. CASE r.r \in Errors
  <2>1. Throw(p, "abandon", r.r)
    BY <1>2, <1>5 DEF ReplaceCaptured, Errors
  <2> QED
    BY <1>1, <1>3, <1>5, <2>1, ReplaceThrows
<1>6. CASE r.r = "ok" /\ (r.inode # f.inode \/ r.text # f.text)
  <2>1. PICK h : h = [f EXCEPT !.inode = r.inode]
    OBVIOUS
  <2>2. PICK c : c = [h EXCEPT !.at = "restored"]
    OBVIOUS
  <2>3. "restored" \in Words
    BY WordFacts
  <2>4. h \in FrameType /\ h.fn = f.fn /\ h.l = f.l /\ h.max = f.max /\ h.text = f.text /\ h.next = f.next /\ h.code = f.code
        /\ h.inode = r.inode
    BY <1>2, <2>1 DEF FrameType, ResultType
  <2>5. c \in FrameType /\ c.fn = h.fn /\ c.at = "restored" /\ c.l = h.l /\ c.max = h.max /\ c.text = h.text
        /\ c.next = h.next /\ c.code = h.code /\ c.inode = h.inode
    BY <2>2, <2>3, <2>4 DEF FrameType
  <2>10. r.inode # 0
    BY <1>2, <1>6 DEF Sole
  <2>6. FrameOK(c) /\ Settled(c) /\ Resumes(f, c)
    BY <1>1, <1>2, <2>4, <2>5, <2>10, FrameIntro DEF OKReplace, Settled, Resumes
  <2>7. Enter(p, h, "restored", Restore(f.l, "replace"))
    BY <1>2, <1>6, <2>1 DEF ReplaceCaptured, Errors
  <2>8. Frames(p, <<Restore(f.l, "replace"), c>>) /\ UNCHANGED res
    BY <2>2, <2>7 DEF Enter
  <2>9. Caller(p, f, r, c)
    BY <1>4, <2>5, <2>6 DEF Caller
  <2> QED
    BY <1>1, <1>4, <2>4, <2>5, <2>8, <2>9, EntersRestore
<1>7. CASE r.r = "absent" /\ f.inode # 0
  <2>1. Go(p, "withdraw")
    BY <1>2, <1>7 DEF ReplaceCaptured, Errors
  <2> QED
    BY <1>1, <1>2, <1>3, <1>7, <2>1, ReplaceGoesTo
<1>8. CASE r.r = "ok" /\ r.inode = f.inode /\ r.text = f.text
  <2>1. Go(p, "publish")
    BY <1>2, <1>8 DEF ReplaceCaptured, Errors
  <2>2. "publish" \in Words
    BY WordFacts
  <2>3. PICK g \in FrameType : As(g, f, "publish") /\ Continue(p, g)
    BY <1>1, <2>1, <2>2, GoFrame
  <2>4. OKReplace(g)
    BY <1>1, <1>2, <2>3 DEF As, OKReplace
  <2>5. TopReplace(g, r)'
    BY <1>1, <1>2, <1>4, <1>8, <2>3 DEF As, TopReplace
  <2>6. FrameTemp(g)'
    <3>1. FrameTemp(f)
      BY <1>1, OwnTemp
    <3>2. Tmp(f.l)' = Tmp(f.l) /\ names' = names /\ text' = text
      BY <1>1, <1>3, QuietView
    <3> QED
      BY <1>1, <2>3, <3>1, <3>2 DEF As, FrameTemp
  <2> QED
    BY <1>1, <1>4, <2>3, <2>4, <2>5, <2>6, ReplaceGoes DEF As
<1>9. f.inode # 0
  BY <1>2, <1>1 DEF OKReplace
<1> QED
  BY <1>2, <1>5, <1>6, <1>7, <1>8, <1>9

LEMMA ReplaceRestoredKeeps ==
  ASSUME Framework, NEW p \in Procs, TopAt(p), Aside, ReplaceRestored(p)
  PROVE  Good(p)
<1>1. PICK f, r : Now(p, f, r) /\ f.fn = "replace" /\ f.at = "restored" /\ f.l \in Levels
  BY NowFacts DEF ReplaceRestored
<1>2. F(p) = f /\ R(p) = r /\ r.r \in {"ok"} \cup Errors /\ (r.r = "ok" => Dir(f.l) = "none")
  BY <1>1, ReplaceFacts DEF TopReplace
<1>3. UNCHANGED files
  BY DEF ReplaceRestored
<1>4. CASE r.r = "ok"
  <2>1. Go(p, "withdraw")
    BY <1>2, <1>4 DEF ReplaceRestored
  <2> QED
    BY <1>1, <1>2, <1>3, <1>4, <2>1, ReplaceGoesTo
<1>5. CASE r.r \in Errors
  <2>1. Throw(p, "catch", r.r)
    BY <1>2, <1>5 DEF ReplaceRestored, Errors
  <2> QED
    BY <1>1, <1>3, <1>5, <2>1, ReplaceThrows
<1> QED
  BY <1>2, <1>4, <1>5

LEMMA ReplaceWithdrawsKeeps ==
  ASSUME Framework, NEW p \in Procs, TopAt(p), Aside, ReplaceWithdraws(p)
  PROVE  Good(p)
<1>1. PICK f, r : Now(p, f, r) /\ f.fn = "replace" /\ f.at = "withdraw" /\ f.l \in Levels
  BY NowFacts DEF ReplaceWithdraws
<1>2. F(p) = f /\ Dir(f.l) = "none" /\ Beyond(f.l)
  BY <1>1, ReplaceFacts DEF TopReplace
<1>3. Drop(Temp(f.l)) /\ (Return(p, "no") \/ Return(p, "failed"))
  BY <1>2 DEF ReplaceWithdraws
<1>4. "failed" \in Errors
  BY DEF Errors
<1> QED
  BY <1>1, <1>2, <1>3, <1>4, ReplaceLeaves

LEMMA ReplaceRefreshesKeeps ==
  ASSUME Framework, NEW p \in Procs, TopAt(p), Aside, ReplaceRefreshes(p)
  PROVE  Good(p)
<1>1. PICK f, r : Now(p, f, r) /\ f.fn = "replace" /\ f.at = "refresh" /\ f.l \in Levels
  BY NowFacts DEF ReplaceRefreshes
<1>2. /\ F(p) = f /\ Beneath(f.l) /\ Beyond(f.l) /\ OKReplace(f) /\ f \in FrameType
      /\ Safe(f.text) /\ f.inode # 0 /\ Sole(f.l, f.inode, f.text) /\ Rel(f.l) = 0
  BY <1>1, ReplaceFacts DEF TopReplace
<1>3. UNCHANGED files
  BY DEF ReplaceRefreshes
<1>4. /\ Moves(p, f, r) /\ Beneath(f.l)' /\ Beyond(f.l)' /\ Safe(f.text)'
      /\ \A i, t : Sole(f.l, i, t)' <=> Sole(f.l, i, t)
  BY <1>1, <1>2, <1>3, QuietMove, QuietView
<1>5. Cap(f.l) = f.inode /\ text[f.inode] = f.text
  BY <1>2 DEF Sole
<1>6. Enter(p, f, "removed", Remove(f.l, "replace", 1, f.inode, f.text))
  BY <1>2, <1>5 DEF ReplaceRefreshes, Cap
<1>7. "removed" \in Words
  BY WordFacts
<1>8. PICK c \in FrameType : c = [f EXCEPT !.at = "removed"] /\ As(c, f, "removed") /\ Resumes(f, c)
  BY <1>1, <1>7, GoFrame
<1>9. FrameOK(c) /\ Settled(c)
  BY <1>1, <1>2, <1>8, FrameIntro DEF As, OKReplace, Settled
<1>10. Frames(p, <<Remove(f.l, "replace", 1, f.inode, f.text), c>>) /\ UNCHANGED res
  BY <1>6, <1>8 DEF Enter
<1>11. Caller(p, f, r, c) /\ c.l = f.l /\ c.fn = "replace" /\ c.at = "removed"
  BY <1>1, <1>4, <1>8, <1>9 DEF Caller, As
<1>12. f.inode \in Nat /\ f.text \in Texts /\ Sole(f.l, f.inode, f.text)'
  BY <1>2, <1>4 DEF FrameType
<1> QED
  BY <1>1, <1>4, <1>10, <1>11, <1>12, EntersRemove

LEMMA ReplaceRemovedKeeps ==
  ASSUME Framework, NEW p \in Procs, TopAt(p), Aside, ReplaceRemoved(p)
  PROVE  Good(p)
<1>1. PICK f, r : Now(p, f, r) /\ f.fn = "replace" /\ f.at = "removed" /\ f.l \in Levels
  BY NowFacts DEF ReplaceRemoved
<1>2. F(p) = f /\ R(p) = r /\ r.r \in {"ok"} \cup Errors /\ (r.r = "ok" => Dir(f.l) = "none")
  BY <1>1, ReplaceFacts DEF TopReplace
<1>3. UNCHANGED files
  BY DEF ReplaceRemoved
<1>4. CASE r.r = "ok"
  <2>1. Go(p, "finish")
    BY <1>2, <1>4 DEF ReplaceRemoved
  <2> QED
    BY <1>1, <1>2, <1>3, <1>4, <2>1, ReplaceGoesTo
<1>5. CASE r.r \in Errors
  <2>1. Return(p, r.r)
    BY <1>2, <1>5 DEF ReplaceRemoved, Errors
  <2> QED
    BY <1>1, <1>3, <1>5, <2>1, ReplaceGivesUp
<1> QED
  BY <1>2, <1>4, <1>5

LEMMA ReplaceFinishesKeeps ==
  ASSUME Framework, NEW p \in Procs, TopAt(p), Aside, ReplaceFinishes(p)
  PROVE  Good(p)
<1>1. PICK f, r : Now(p, f, r) /\ f.fn = "replace" /\ f.at = "finish" /\ f.l \in Levels
  BY NowFacts DEF ReplaceFinishes
<1>2. F(p) = f /\ Dir(f.l) = "none" /\ Beyond(f.l)
  BY <1>1, ReplaceFacts DEF TopReplace
<1>3. Drop(Temp(f.l)) /\ (Return(p, "yes") \/ Return(p, "failed"))
  BY <1>2 DEF ReplaceFinishes
<1>4. "failed" \in Errors
  BY DEF Errors
<1> QED
  BY <1>1, <1>2, <1>3, <1>4, ReplaceLeaves

LEMMA ReplaceCatchesKeeps ==
  ASSUME Framework, NEW p \in Procs, TopAt(p), Aside, ReplaceCatches(p)
  PROVE  Good(p)
<1>1. PICK f, r : Now(p, f, r) /\ f.fn = "replace" /\ f.at = "catch" /\ f.l \in Levels
  BY NowFacts DEF ReplaceCatches
<1>2. F(p) = f /\ Beneath(f.l) /\ Beyond(f.l) /\ OKReplace(f) /\ f.code \in Errors /\ f.inode # 0
  BY <1>1, ReplaceFacts DEF OKReplace
<1>3. UNCHANGED files
  BY DEF ReplaceCatches
<1>4. Enter(p, f, "caught", Restore(f.l, "replace"))
  BY <1>2 DEF ReplaceCatches
<1>5. "caught" \in Words
  BY WordFacts
<1>6. PICK c \in FrameType : c = [f EXCEPT !.at = "caught"] /\ As(c, f, "caught") /\ Resumes(f, c)
  BY <1>1, <1>5, GoFrame
<1>7. FrameOK(c) /\ Settled(c)
  BY <1>1, <1>2, <1>6, FrameIntro DEF As, OKReplace, Settled
<1>8. Frames(p, <<Restore(f.l, "replace"), c>>) /\ UNCHANGED res
  BY <1>4, <1>6 DEF Enter
<1>9. Moves(p, f, r) /\ Beneath(f.l)' /\ Beyond(f.l)'
  BY <1>1, <1>2, <1>3, QuietMove, QuietView
<1>10. Caller(p, f, r, c) /\ c.l = f.l /\ c.fn = "replace" /\ c.at = "caught"
  BY <1>1, <1>6, <1>7, <1>9 DEF Caller, As
<1> QED
  BY <1>1, <1>8, <1>9, <1>10, EntersRestore

LEMMA ReplaceCaughtKeeps ==
  ASSUME Framework, NEW p \in Procs, TopAt(p), Aside, ReplaceCaught(p)
  PROVE  Good(p)
<1>1. PICK f, r : Now(p, f, r) /\ f.fn = "replace" /\ f.at = "caught" /\ f.l \in Levels
  BY NowFacts DEF ReplaceCaught
<1>2. F(p) = f /\ R(p) = r /\ Beneath(f.l) /\ OKReplace(f) /\ f.code \in Errors
  BY <1>1, ReplaceFacts DEF OKReplace
<1>3. UNCHANGED files
  BY DEF ReplaceCaught
<1>4. CASE r.r = "ok"
  <2>1. Go(p, "abandon")
    BY <1>2, <1>4 DEF ReplaceCaught
  <2> QED
    BY <1>1, <1>2, <1>3, <2>1, ReplaceGoesTo
<1>5. CASE r.r # "ok"
  <2>1. Enter(p, f, "recovered", Recover(f.l))
    BY <1>2, <1>5 DEF ReplaceCaught
  <2>2. "recovered" \in Words
    BY WordFacts
  <2>3. PICK c \in FrameType : c = [f EXCEPT !.at = "recovered"] /\ As(c, f, "recovered") /\ Resumes(f, c)
    BY <1>1, <2>2, GoFrame
  <2>4. FrameOK(c) /\ Settled(c)
    BY <1>1, <1>2, <2>3, FrameIntro DEF As, OKReplace, Settled
  <2>5. Frames(p, <<Recover(f.l), c>>) /\ UNCHANGED res
    BY <2>1, <2>3 DEF Enter
  <2>6. Moves(p, f, r) /\ Beneath(f.l)'
    BY <1>1, <1>2, <1>3, QuietMove, QuietView
  <2>7. Caller(p, f, r, c) /\ c.l = f.l /\ c.fn = "replace" /\ c.at = "recovered"
    BY <1>1, <2>3, <2>4, <2>6 DEF Caller, As
  <2> QED
    BY <1>1, <2>5, <2>6, <2>7, EntersRecover
<1> QED
  BY <1>4, <1>5

LEMMA ReplaceRecoveredKeeps ==
  ASSUME Framework, NEW p \in Procs, TopAt(p), Aside, ReplaceRecovered(p)
  PROVE  Good(p)
<1>1. PICK f, r : Now(p, f, r) /\ f.fn = "replace" /\ f.at = "recovered" /\ f.l \in Levels
  BY NowFacts DEF ReplaceRecovered
<1>2. F(p) = f /\ f.code \in Errors
  BY <1>1, ReplaceFacts DEF OKReplace
<1>3. Return(p, f.code) /\ (Drop(Temp(f.l)) \/ UNCHANGED files)
  BY <1>2 DEF ReplaceRecovered
<1> QED
  BY <1>1, <1>2, <1>3, ReplaceLeaves, ReplaceGivesUp

LEMMA ReplaceAbandonsKeeps ==
  ASSUME Framework, NEW p \in Procs, TopAt(p), Aside, ReplaceAbandons(p)
  PROVE  Good(p)
<1>1. PICK f, r : Now(p, f, r) /\ f.fn = "replace" /\ f.at = "abandon" /\ f.l \in Levels
  BY NowFacts DEF ReplaceAbandons
<1>2. F(p) = f /\ f.code \in Errors
  BY <1>1, ReplaceFacts DEF OKReplace
<1>3. Return(p, f.code) /\ Drop(Temp(f.l))
  BY <1>2 DEF ReplaceAbandons
<1> QED
  BY <1>1, <1>2, <1>3, ReplaceLeaves

\* A replacement that is not at its candidate: every frame but those of the
\* process that runs it, and its own callers.
Alone(p) == \A q \in Procs : q # p => \A k \in 1..Len(stack[q]) : Settled(stack[q][k])

LEMMA CallersSettled ==
  ASSUME NEW s \in Seq(FrameType), Linked(s), s # <<>>, Head(s).fn = "replace", NEW k \in 2..Len(s)
  PROVE  Settled(s[k])
<1>1. s[1] = Head(s) /\ Len(s) \in Nat
  OBVIOUS
<1>2. ASSUME NEW j \in 2..Len(s)
      PROVE  Legal(s[j], s[j - 1])
  <2>1. j - 1 \in 1..Len(s) /\ j - 1 < Len(s) /\ (j - 1) + 1 = j
    BY <1>1
  <2> QED
    BY <2>1 DEF Linked
<1>3. SUFFICES ASSUME ~Settled(s[k])
               PROVE  FALSE
  OBVIOUS
<1>4. s[k - 1].fn = "capture"
  BY <1>2, <1>3 DEF Settled, Legal, CallsOfHost, CallsOfRecovery, CallsOfChange
<1>5. k - 1 # 1 /\ k - 1 \in 2..Len(s)
  BY <1>1, <1>4
<1>6. s[(k - 1) - 1].fn = "restore"
  BY <1>2, <1>4, <1>5 DEF Legal, CallsOfHost, CallsOfRecovery, CallsOfChange
<1>7. (k - 1) - 1 # 1 /\ (k - 1) - 1 \in 2..Len(s)
  BY <1>1, <1>5, <1>6
<1> QED
  BY <1>2, <1>6, <1>7 DEF Legal, CallsOfHost, CallsOfRecovery, CallsOfChange

LEMMA FramesAlone ==
  ASSUME CallsOK, CallsOK', NEW p \in Procs, Alone(p), stack[p] # <<>>, F(p).fn = "replace", OtherCalls(p),
         NEW new, OldFrames(p, new), \A g \in new : FrameTemp(g)'
  PROVE  FrameTemps'
<1>1. ASSUME NEW q \in Procs, NEW k \in 1..Len(stack'[q])
      PROVE  FrameTemp(stack[q][k])'
  <2>1. PICK f : f = stack'[q][k]
    OBVIOUS
  <2>2. CASE q # p
    <3>1. Settled(f)
      BY <2>1, <2>2 DEF Alone, OtherCalls
    <3> QED
      BY <2>1, <3>1, SettledTemp
  <2>3. CASE q = p /\ f \in new
    BY <2>1, <2>3
  <2>4. CASE q = p /\ \E j \in 2..Len(stack[p]) : f = stack[p][j]
    <3>1. Settled(f)
      BY <2>4, CallersSettled DEF CallsOK, CallTypes, F
    <3> QED
      BY <2>1, <3>1, SettledTemp
  <2> QED
    BY <2>1, <2>2, <2>3, <2>4 DEF OldFrames
<1> QED
  BY <1>1 DEF FrameTemps

LEMMA ReplaceWritesKeeps ==
  ASSUME Framework, NEW p \in Procs, TopAt(p), Aside, Alone(p), ReplaceWrites(p)
  PROVE  Good(p)
<1>1. PICK f, r : Now(p, f, r) /\ f.fn = "replace" /\ f.at = "write" /\ f.l \in Levels
  BY NowFacts DEF ReplaceWrites
<1>2. /\ F(p) = f /\ R(p) = r /\ FilesOK /\ CallsOK /\ stack[p] # <<>> /\ Beneath(f.l) /\ Beyond(f.l) /\ OKReplace(f)
      /\ f \in FrameType /\ Tidy(f.l) /\ f.next \in Texts
  BY <1>1, ReplaceFacts DEF TopReplace, Now, Framework
<1>3. PICK t : t = f.next
  OBVIOUS
<1>4. t \in Texts /\ f.next.lines \subseteq t.lines
  BY <1>2, <1>3
<1>5. /\ Fresh # {} /\ NewFile(Temp(f.l), t)
      /\ Enter(p, f, "captured", Capture(f.l, "replace", 1))
  BY <1>2, <1>3 DEF ReplaceWrites, Tidy, Tmp
<1>6. /\ FilesOK' /\ dirs' = dirs /\ Tmp(f.l)' # 0 /\ text'[Tmp(f.l)'] = t
      /\ \A n \in Names \ {Temp(f.l)} : names'[n] = names[n] /\ names[n] # Tmp(f.l)'
  BY <1>1, <1>2, <1>4, <1>5, WriteTemp DEF Tidy
<1>7. /\ \A m \in Levels : Dir(m)' = Dir(m)
      /\ \A m \in Levels : m # f.l => Tmp(m)' = Tmp(m)
  BY <1>1, <1>6, DirView, NameFacts DEF Tmp
<1>8. Beyond(f.l)' /\ Beneath(f.l)'
  BY <1>1, <1>2, <1>7, AroundView
<1>9. "captured" \in Words
  BY WordFacts
<1>10. PICK c \in FrameType : c = [f EXCEPT !.at = "captured"] /\ As(c, f, "captured") /\ Resumes(f, c)
  BY <1>1, <1>9, GoFrame
<1>11. FrameOK(c)
  BY <1>1, <1>2, <1>10, FrameIntro DEF As, OKReplace
<1>12. PICK g \in FrameType : /\ g = Capture(f.l, "replace", 1) /\ g.fn = "capture" /\ g.at = "open"
                              /\ g.l = f.l /\ g.dir = "replace" /\ g.max = 1
  BY <1>1, CaptureMade
<1>13. FrameOK(g) /\ Settled(g) /\ Legal(c, g)
  BY <1>1, <1>10, <1>12, FrameIntro DEF As, OKCapture, Settled, Legal, CallsOfChange
<1>14. Frames(p, <<g, c>>) /\ UNCHANGED res
  BY <1>5, <1>10, <1>12 DEF Enter
<1>15. CallsOK' /\ stack'[p] # <<>> /\ F(p)' = g /\ R(p)' = r /\ OtherCalls(p) /\ OldFrames(p, {c, g})
  BY <1>2, <1>10, <1>11, <1>12, <1>13, <1>14, EnterCall
<1>16. FrameTemp(c)'
  <2>1. \A n \in Names \ {Temp(f.l)} : names'[n] # Tmp(f.l)'
    BY <1>6
  <2>2. c.l = f.l /\ c.next = f.next
    BY <1>10 DEF As
  <2> QED
    BY <1>4, <1>6, <2>1, <2>2 DEF FrameTemp
<1>17. FrameTemps'
  BY <1>1, <1>2, <1>13, <1>15, <1>16, FramesAlone, SettledTemp
<1>18. TopCapture(g)'
  BY <1>8, <1>12 DEF TopCapture
<1> QED
  BY <1>6, <1>12, <1>15, <1>17, <1>18, TopIntro DEF Good, Framework

LEMMA ReplacePublishesKeeps ==
  ASSUME Framework, NEW p \in Procs, TopAt(p), Aside, Alone(p), ReplacePublishes(p)
  PROVE  Good(p)
<1>1. PICK f, r : Now(p, f, r) /\ f.fn = "replace" /\ f.at = "publish" /\ f.l \in Levels
  BY NowFacts DEF ReplacePublishes
<1>2. /\ F(p) = f /\ R(p) = r /\ FilesOK /\ CallsOK /\ stack[p] # <<>> /\ Beneath(f.l) /\ Beyond(f.l) /\ OKReplace(f)
      /\ f \in FrameType /\ f.next \in Texts /\ f.text.lines \subseteq f.next.lines
      /\ Sole(f.l, f.inode, f.text) /\ Rel(f.l) = 0
  BY <1>1, ReplaceFacts DEF TopReplace, Now, Framework
<1>3. "refresh" \in Words
  BY WordFacts
<1>4. "collision" \in Errors /\ "failed" \in Errors
  BY DEF Errors
<1>6. CASE names[Public] # 0 \/ Tmp(f.l) = 0
  <2>1. UNCHANGED files /\ (Throw(p, "catch", "collision") \/ Throw(p, "catch", "failed"))
    BY <1>2, <1>6 DEF ReplacePublishes, Tmp
  <2> QED
    BY <1>1, <1>4, <2>1, ReplaceThrows
<1>7. CASE names[Public] = 0 /\ Tmp(f.l) # 0
  <2>1. SetNames([names EXCEPT ![Public] = Tmp(f.l)]) /\ Go(p, "refresh")
    BY <1>2, <1>7 DEF ReplacePublishes, Tmp
  <2>2. /\ f.next.lines \subseteq text[Tmp(f.l)].lines
        /\ \A n \in Names \ {Temp(f.l)} : names[n] # Tmp(f.l)
    BY <1>1, <1>7, OwnTemp DEF FrameTemp
  <2>3. \A i \in {Cap(f.l), Rel(f.l)} : i # 0 => text[i].lines \subseteq text[Tmp(f.l)].lines
    <3>1. Cap(f.l) \in {0, f.inode} /\ Rel(f.l) = 0 /\ text[f.inode] = f.text
      BY <1>2 DEF Sole
    <3> QED
      BY <1>2, <2>2, <3>1
  <2>4. /\ FilesOK' /\ dirs' = dirs /\ text' = text /\ names'[Public] = Tmp(f.l)
        /\ \A n \in Names \ {Public} : names'[n] = names[n]
    BY <1>1, <1>2, <1>7, <2>1, <2>2, <2>3, PublishTemp
  <2>5. /\ \A m \in Levels : Dir(m)' = Dir(m) /\ Tmp(m)' = Tmp(m)
        /\ Cap(f.l)' = Cap(f.l) /\ Rel(f.l)' = Rel(f.l)
    BY <1>1, <2>4, DirView, NameFacts DEF Tmp, Cap, Rel
  <2>6. Beyond(f.l)' /\ Beneath(f.l)'
    BY <1>1, <1>2, <2>5, AroundView
  <2>7. PICK g \in FrameType : As(g, f, "refresh") /\ Resumes(f, g) /\ Continue(p, g)
    BY <1>1, <1>3, <2>1, GoFrame
  <2>8. FrameOK(g) /\ Settled(g)
    BY <1>1, <1>2, <2>7, FrameIntro DEF As, OKReplace, Settled
  <2>9. CallsOK' /\ stack'[p] # <<>> /\ F(p)' = g /\ R(p)' = r /\ OtherCalls(p) /\ OldFrames(p, {g})
    BY <1>2, <2>7, <2>8, ContinueCall
  <2>10. FrameTemps'
    BY <1>1, <1>2, <2>8, <2>9, FramesAlone, SettledTemp
  <2>11. Safe(f.text)'
    BY <1>2, <1>7, <2>2, <2>4 DEF Safe, PublicLines
  <2>12. Sole(f.l, f.inode, f.text)'
    <3>1. Cap(f.l) = f.inode /\ Rel(f.l) = 0 /\ text[f.inode] = f.text /\ f.inode # 0
      BY <1>2 DEF Sole
    <3>2. Cap(f.l) # Tmp(f.l)
      BY <1>1, <2>2, NameFacts DEF Cap
    <3> QED
      BY <2>4, <2>5, <3>1, <3>2 DEF Sole
  <2>13. TopReplace(g, r)'
    BY <1>1, <1>2, <2>5, <2>6, <2>7, <2>11, <2>12 DEF As, TopReplace
  <2> QED
    BY <1>1, <2>4, <2>7, <2>9, <2>10, <2>13, TopIntro DEF As, Good, Framework
<1> QED
  BY <1>6, <1>7

-----------------------------------------------------------------------------
(* appendProjectGitExcludeRules and removeProjectGitExcludeRulesAtPath *)

LEMMA FirstLevel == 0 \in Levels /\ Beneath(0) /\ (AllTidy <=> Tidy(0) /\ Beyond(0))
<1>1. 0 \in Levels /\ \A m \in Levels : ~(m < 0) /\ (m = 0 \/ m > 0)
  BY ProjectFileAssumption DEF Levels
<1> QED
  BY <1>1 DEF Beneath, AllTidy, Beyond

LEMMA RulesFacts ==
  ASSUME NEW p \in Procs, NEW f, NEW r, Now(p, f, r), f.fn = "rules"
  PROVE  /\ F(p) = f /\ R(p) = r /\ FilesOK /\ OKRules(f) /\ TopRules(f, r) /\ f \in FrameType /\ r \in ResultType
  BY DEF Now, Framework, FrameOK, Top

LEMMA RulesReturn ==
  ASSUME NEW p \in Procs, NEW f, NEW r, Now(p, f, r), f.fn = "rules", Aside, UNCHANGED files,
         NEW q \in Words, Return(p, q)
  PROVE  Good(p)
<1>1. Moves(p, f, r)
  BY QuietMove
<1>2. Back(p, f, q, 0, Empty)
  BY <1>1, BackEmpty
<1> QED
  BY <1>2, HostReturns

LEMMA RulesGoToLook ==
  ASSUME NEW p \in Procs, NEW f, NEW r, Moves(p, f, r), f.fn = "rules", f.l \in Levels, Go(p, "look"), AllTidy'
  PROVE  Good(p)
<1>1. "look" \in Words
  BY WordFacts
<1>2. PICK g \in FrameType : As(g, f, "look") /\ Resumes(f, g) /\ Continue(p, g)
  BY <1>1, GoFrame DEF Moves
<1>3. FrameOK(g) /\ Settled(g)
  BY <1>2, FrameIntro DEF As, OKRules, Settled
<1>4. Framework' /\ OtherCalls(p) /\ stack'[p] # <<>> /\ F(p)' = g /\ R(p)' = r
  BY <1>2, <1>3, Proceeds
<1>5. TopRules(g, r)'
  BY <1>2 DEF As, TopRules
<1> QED
  BY <1>2, <1>4, <1>5, TopIntro DEF As, Good

LEMMA RulesStartKeeps ==
  ASSUME Framework, NEW p \in Procs, TopAt(p), Aside, RulesStart(p)
  PROVE  Good(p)
<1>1. PICK a : a \in {"append", "remove"} /\ At(p, "rules", a)
  BY DEF RulesStart
<1>2. PICK f, r : Now(p, f, r) /\ f.fn = "rules" /\ f.at = a /\ f.l \in Levels
  BY <1>1, NowFacts
<1>3. F(p) = f /\ f \in FrameType
  BY <1>2, RulesFacts
<1>4. UNCHANGED files
  BY DEF RulesStart
<1>5. Moves(p, f, r) /\ Beneath(0)'
  BY <1>2, <1>4, QuietMove, QuietView, FirstLevel
<1>6. PICK h : h = [f EXCEPT !.dir = f.at]
  OBVIOUS
<1>7. PICK c : c = [h EXCEPT !.at = "ready"]
  OBVIOUS
<1>8. "ready" \in Words
  BY WordFacts
<1>9. h \in FrameType /\ h.fn = f.fn /\ h.l = f.l /\ h.max = f.max
  BY <1>3, <1>6 DEF FrameType
<1>10. c \in FrameType /\ c.fn = h.fn /\ c.l = h.l /\ c.max = h.max /\ c.at = "ready"
  BY <1>7, <1>8, <1>9 DEF FrameType
<1>11. FrameOK(c) /\ Settled(c) /\ Resumes(f, c)
  BY <1>2, <1>9, <1>10, FrameIntro DEF OKRules, Settled, Resumes
<1>12. Frames(p, <<Recover(0), c>>) /\ UNCHANGED res
  BY <1>3, <1>6, <1>7 DEF RulesStart, Enter
<1>13. Caller(p, f, r, c)
  BY <1>5, <1>10, <1>11 DEF Caller
<1> QED
  BY <1>2, <1>5, <1>9, <1>10, <1>12, <1>13, FirstLevel, EntersRecover

LEMMA RulesReadyKeeps ==
  ASSUME Framework, NEW p \in Procs, TopAt(p), Aside, RulesReady(p)
  PROVE  Good(p)
<1>1. PICK f, r : Now(p, f, r) /\ f.fn = "rules" /\ f.at = "ready" /\ f.l \in Levels
  BY NowFacts DEF RulesReady
<1>2. /\ F(p) = f /\ R(p) = r /\ FilesOK /\ r \in ResultType
      /\ r.r \in {"ok"} \cup Errors /\ (r.r = "ok" => Dir(0) = "none" /\ Beyond(0))
  BY <1>1, RulesFacts DEF TopRules
<1>3. "failed" \in Words
  BY WordFacts
<1>4. CASE r.r \in Errors
  <2>1. Return(p, r.r) /\ UNCHANGED files
    BY <1>2, <1>4 DEF RulesReady
  <2>2. r.r \in Words
    BY <1>2 DEF ResultType
  <2> QED
    BY <1>1, <2>1, <2>2, RulesReturn
<1>5. CASE Return(p, "failed") /\ UNCHANGED files
  BY <1>1, <1>3, <1>5, RulesReturn
<1>6. CASE r.r = "ok" /\ Drop(Temp(0)) /\ Go(p, "look")
  <2>1. /\ FilesOK' /\ Shuffled /\ dirs' = dirs
        /\ Tmp(0)' = 0 /\ \A m \in Levels : m # 0 => Tmp(m)' = Tmp(m)
    BY <1>2, <1>6, FirstLevel, DropTemp
  <2>2. \A m \in Levels : Dir(m)' = Dir(m)
    BY <2>1, DirView
  <2>3. \A m \in Levels : m # 0 => Tidy(m)
    BY <1>2, <1>6 DEF Beyond, Levels
  <2>4. AllTidy'
    BY <1>2, <1>6, <2>1, <2>2, <2>3, FirstLevel DEF AllTidy, Tidy
  <2>5. Moves(p, f, r)
    BY <1>1, <2>1 DEF Moves
  <2> QED
    BY <1>1, <1>6, <2>4, <2>5, RulesGoToLook
<1>7. \/ r.r \in Errors
      \/ Return(p, "failed") /\ UNCHANGED files
      \/ r.r = "ok" /\ Drop(Temp(0)) /\ Go(p, "look")
  <2>1. r.r \notin Errors => Untemp(p, 0, "look")
    BY <1>2 DEF RulesReady
  <2>2. Untemp(p, 0, "look") => (Return(p, "failed") /\ UNCHANGED files) \/ (Drop(Temp(0)) /\ Go(p, "look"))
    BY DEF Untemp
  <2>3. r.r \notin Errors => r.r = "ok"
    BY <1>2
  <2> QED
    BY <2>1, <2>2, <2>3, Zenon
<1> QED
  BY <1>4, <1>5, <1>6, <1>7

\* Where nobody is at work, there is the exclude file.
LEMMA PublicThere ==
  ASSUME FilesOK, AllTidy, Wrote
  PROVE  names[Public] # 0
<1>1. PICK line \in Lines : line \in written
  BY DEF Wrote
<1>2. ~Mine(line)
  BY <1>1, PreparationAssumption DEF Mine
<1>3. PICK n \in Places : names[n] # 0
  BY <1>1, <1>2 DEF FilesOK, KeptInv, InPlace
<1>4. \A l \in Levels : Dir(l) = "none" /\ Cap(l) = 0
  BY DEF AllTidy, Tidy, FilesOK, Placed, AllDirs, DirFiles
<1>5. n = Public
  BY <1>3, <1>4 DEF Places, Cap
<1> QED
  BY <1>3, <1>5

\* A replacement of the public file, from t to n.
LEMMA RulesReplace ==
  ASSUME NEW p \in Procs, NEW f, NEW r, Now(p, f, r), f.fn = "rules", f.l \in Levels, Aside, UNCHANGED files, AllTidy,
         NEW i \in Nat, i # 0, NEW t \in Texts, NEW n \in Texts, t.lines \subseteq n.lines,
         Enter(p, f, "tried", Replace(0, i, t, n))
  PROVE  Good(p)
<1>1. Moves(p, f, r) /\ Beyond(0)' /\ Beneath(0)' /\ Tidy(0)'
  BY QuietMove, QuietView, FirstLevel
<1>3. "tried" \in Words
  BY WordFacts
<1>2. PICK c \in FrameType : c = [f EXCEPT !.at = "tried"] /\ As(c, f, "tried") /\ Resumes(f, c)
  BY <1>1, <1>3, GoFrame
<1>5. FrameOK(c) /\ Settled(c)
  BY <1>2, FrameIntro DEF As, OKRules, Settled
<1>6. Frames(p, <<Replace(0, i, t, n), c>>) /\ UNCHANGED res
  BY <1>2 DEF Enter
<1>7. Caller(p, f, r, c)
  BY <1>1, <1>2, <1>5 DEF Caller
<1> QED
  BY <1>1, <1>2, <1>6, <1>7, FirstLevel, EntersReplace DEF As

LEMMA RulesLookKeeps ==
  ASSUME Framework, NEW p \in Procs, TopAt(p), Aside, Wrote, RulesLook(p)
  PROVE  Good(p)
<1>1. PICK f, r : Now(p, f, r) /\ f.fn = "rules" /\ f.at = "look" /\ f.l \in Levels
  BY NowFacts DEF RulesLook
<1>2. F(p) = f /\ FilesOK /\ f \in FrameType /\ AllTidy
  BY <1>1, RulesFacts DEF TopRules
<1>3. UNCHANGED files
  BY DEF RulesLook
<1>4. PICK i : i = names[Public]
  OBVIOUS
<1>5. PICK t : t = IF i = 0 THEN Empty ELSE text[i]
  OBVIOUS
<1>6. i \in Nat /\ i # 0 /\ t \in Texts
  <2>1. i \in {0} \cup Inodes /\ (i # 0 => text[i] \in Texts)
    BY <1>2, <1>4, NameFacts DEF FilesOK, Placed, FileTypes
  <2>2. i # 0
    BY <1>2, <1>4, PublicThere
  <2> QED
    BY <1>5, <2>1, <2>2, InodeFacts
<1>7. "collision" \in Words /\ "unchanged" \in Words
  BY WordFacts
<1>8. CASE Return(p, "collision") \/ Return(p, "unchanged")
  BY <1>1, <1>3, <1>7, <1>8, RulesReturn
<1>9. ASSUME NEW b \in {0, 1}, Enter(p, F(p), "tried", Replace(0, i, t, [t EXCEPT !.blocks = b]))
      PROVE  Good(p)
  <2>1. PICK n : n = [t EXCEPT !.blocks = b]
    OBVIOUS
  <2>2. n \in Texts /\ t.lines \subseteq n.lines
    BY <1>6, <2>1 DEF Texts
  <2>3. Enter(p, f, "tried", Replace(0, i, t, n))
    BY <1>2, <1>9, <2>1
  <2> QED
    BY <1>1, <1>2, <1>3, <1>6, <2>2, <2>3, RulesReplace
<1>10. \/ Return(p, "collision") \/ Return(p, "unchanged")
       \/ \E b \in {0, 1} : Enter(p, F(p), "tried", Replace(0, i, t, [t EXCEPT !.blocks = b]))
  BY <1>4, <1>5 DEF RulesLook
<1> QED
  BY <1>8, <1>9, <1>10

LEMMA RulesTriedKeeps ==
  ASSUME Framework, NEW p \in Procs, TopAt(p), Aside, RulesTried(p)
  PROVE  Good(p)
<1>1. PICK f, r : Now(p, f, r) /\ f.fn = "rules" /\ f.at = "tried" /\ f.l \in Levels
  BY NowFacts DEF RulesTried
<1>2. /\ F(p) = f /\ R(p) = r /\ f \in FrameType /\ r \in ResultType
      /\ r.r \in {"yes", "no"} \cup Errors /\ (r.r \notin Errors => AllTidy)
  BY <1>1, RulesFacts DEF TopRules
<1>3. UNCHANGED files
  BY DEF RulesTried
<1>4. "added" \in Words /\ "removed" \in Words /\ "collision" \in Words
  BY WordFacts
<1>5. r.r \in Words
  BY <1>2 DEF ResultType
<1>6. CASE r.r \in Errors
  <2>1. Return(p, r.r)
    BY <1>2, <1>6 DEF RulesTried, Errors
  <2> QED
    BY <1>1, <1>3, <1>5, <2>1, RulesReturn
<1>7. CASE r.r = "yes"
  <2>1. Return(p, "added") \/ Return(p, "removed")
    BY <1>2, <1>7 DEF RulesTried, Errors
  <2> QED
    BY <1>1, <1>3, <1>4, <2>1, RulesReturn
<1>9. CASE r.r = "no" /\ Return(p, "collision")
  BY <1>1, <1>3, <1>4, <1>9, RulesReturn
<1>8. CASE r.r = "no" /\ ~Return(p, "collision")
  <2>1. Go(p, "look")
    BY <1>2, <1>8 DEF RulesTried, Errors
  <2>2. r.r \notin Errors
    BY <1>8 DEF Errors
  <2>3. Moves(p, f, r) /\ \A l \in Levels : Tidy(l)'
    BY <1>1, <1>2, <1>3, <2>2, QuietMove, QuietView DEF AllTidy
  <2>4. AllTidy'
    BY <2>3 DEF AllTidy
  <2> QED
    BY <1>1, <2>1, <2>3, <2>4, RulesGoToLook
<1> QED
  BY <1>2, <1>6, <1>7, <1>8, <1>9

-----------------------------------------------------------------------------
(* A step of the functions that change the file *)

CaptureStep(p) == CaptureOpens(p) \/ CaptureClaims(p) \/ CaptureTakes(p) \/ CaptureReads(p) \/ CaptureRefused(p)
RestoreStep(p) == RestoreLinks(p) \/ RestoreDrops(p) \/ RestoreCloses(p)
RemoveStep(p) ==
    \/ RemoveLinks(p) \/ RemoveDrops(p) \/ RemoveWaits(p) \/ RemoveCompares(p) \/ RemoveKeeps(p)
    \/ RemoveFinishes(p) \/ RemoveUndoes(p)
ReleaseStep(p) == ReleaseTries(p) \/ ReleaseTried(p) \/ ReleaseMerged(p)
MergeStep(p) == MergeReads(p) \/ MergeReplaced(p)
ReplaceStep(p) ==
    \/ ReplaceWrites(p) \/ ReplaceCaptured(p) \/ ReplaceRestored(p) \/ ReplaceWithdraws(p)
    \/ ReplacePublishes(p) \/ ReplaceRefreshes(p) \/ ReplaceRemoved(p)
    \/ ReplaceFinishes(p) \/ ReplaceCatches(p) \/ ReplaceCaught(p) \/ ReplaceRecovered(p) \/ ReplaceAbandons(p)
RollStep(p) ==
    \/ ReplaceRolled(p) \/ ReplaceMistaken(p) \/ ReplaceReturned(p) \/ ReplaceReleased(p) \/ ReplaceUnrolled(p)
UnrollStep(p) ==
    \/ UnrollGot(p) \/ UnrollRefused(p) \/ UnrollOther(p) \/ UnrollPut(p) \/ UnrollPlaces(p) \/ UnrollDone(p)
RecoverStep(p) ==
    \/ RecoverStarts(p) \/ RecoverUnrolled(p) \/ RecoverReconciled(p) \/ RecoverCaptures(p)
    \/ RecoverGot(p) \/ RecoverMerged(p) \/ RecoverReleases(p) \/ RecoverDone(p)
RulesStep(p) == RulesStart(p) \/ RulesReady(p) \/ RulesLook(p) \/ RulesTried(p)

LEMMA FileStepParts ==
  ASSUME NEW p, FileStep(p)
  PROVE  \/ CaptureStep(p) \/ RestoreStep(p) \/ RemoveStep(p) \/ ReleaseStep(p) \/ MergeStep(p)
         \/ ReplaceStep(p) \/ RollStep(p) \/ UnrollStarts(p) \/ UnrollStep(p) \/ RecoverStep(p) \/ RulesStep(p)
  BY Zenon DEF FileStep, CaptureStep, RestoreStep, RemoveStep, ReleaseStep, MergeStep, ReplaceStep, RollStep, UnrollStep,
         RecoverStep, RulesStep

LEMMA FileStepKeeps ==
  ASSUME Framework, NEW p \in Procs, TopAt(p), Aside, Alone(p), Wrote, FileStep(p)
  PROVE  Good(p)
<1>1. CASE CaptureStep(p)
  BY <1>1, CaptureOpensKeeps, CaptureClaimsKeeps, CaptureTakesKeeps, CaptureReadsKeeps, CaptureRefusedKeeps DEF CaptureStep
<1>2. CASE RestoreStep(p)
  BY <1>2, RestoreLinksKeeps, RestoreDropsKeeps, RestoreClosesKeeps DEF RestoreStep
<1>3. CASE RemoveStep(p)
  BY <1>3, RemoveLinksKeeps, RemoveDropsKeeps, RemoveWaitsKeeps, RemoveComparesKeeps, RemoveKeepsKeeps,
     RemoveFinishesKeeps, RemoveUndoesKeeps DEF RemoveStep
<1>4. CASE ReleaseStep(p)
  BY <1>4, ReleaseTriesKeeps, ReleaseTriedKeeps, ReleaseMergedKeeps DEF ReleaseStep
<1>5. CASE MergeStep(p)
  BY <1>5, MergeReadsKeeps, MergeReplacedKeeps DEF MergeStep
<1>6. CASE ReplaceStep(p)
  BY <1>6, ReplaceWritesKeeps, ReplaceCapturedKeeps, ReplaceRestoredKeeps, ReplaceWithdrawsKeeps, ReplacePublishesKeeps,
     ReplaceRefreshesKeeps, ReplaceRemovedKeeps, ReplaceFinishesKeeps, ReplaceCatchesKeeps, ReplaceCaughtKeeps,
     ReplaceRecoveredKeeps, ReplaceAbandonsKeeps DEF ReplaceStep
<1>7. CASE RollStep(p)
  BY <1>7, ReplaceElsewhere DEF RollStep
<1>8. CASE UnrollStarts(p)
  BY <1>8, UnrollStartsKeeps
<1>9. CASE UnrollStep(p)
  BY <1>9, UnrollElsewhere DEF UnrollStep
<1>10. CASE RecoverStep(p)
  BY <1>10, RecoverStartsKeeps, RecoverUnrolledKeeps, RecoverReconciledKeeps, RecoverCapturesKeeps, RecoverGotKeeps,
     RecoverMergedKeeps, RecoverReleasesKeeps, RecoverDoneKeeps DEF RecoverStep
<1>11. CASE RulesStep(p)
  BY <1>11, RulesStartKeeps, RulesReadyKeeps, RulesLookKeeps, RulesTriedKeeps DEF RulesStep
<1> QED
  BY <1>1, <1>2, <1>3, <1>4, <1>5, <1>6, <1>7, <1>8, <1>9, <1>10, <1>11, FileStepParts

-----------------------------------------------------------------------------
(* What the two processes may do beside each other *)

LEMMA TwoProcs == "launch" \in Procs /\ "reconcile" \in Procs /\ \A p \in Procs : p = "launch" \/ p = "reconcile"
  BY PreparationAssumption

LEMMA BottomFacts ==
  ASSUME CallsOK, NEW p \in Procs, stack[p] # <<>>
  PROVE  /\ stack[p] \in Seq(FrameType) /\ F(p) \in FrameType /\ FrameOK(F(p)) /\ F(p) = stack[p][1]
         /\ IsBottom(Bottom(p))
         /\ IsBottom(F(p)) => Len(stack[p]) = 1 /\ Bottom(p) = F(p)
         /\ ~IsBottom(F(p)) => Len(stack[p]) > 1
<1>1. stack[p] \in Seq(FrameType) /\ Linked(stack[p])
  BY DEF CallsOK, CallTypes
<1>2. Len(stack[p]) \in Nat /\ Len(stack[p]) > 0 /\ F(p) = stack[p][1] /\ 1 \in 1..Len(stack[p])
      /\ Len(stack[p]) \in 1..Len(stack[p])
  BY <1>1 DEF F
<1>3. F(p) \in FrameType /\ FrameOK(F(p)) /\ IsBottom(Bottom(p))
  BY <1>1, <1>2 DEF Linked, Bottom
<1>4. ASSUME Len(stack[p]) > 1
      PROVE  ~IsBottom(F(p))
  <2>1. Legal(stack[p][2], F(p))
    <3>1. 1 + 1 = 2 /\ 1 < Len(stack[p])
      BY <1>4
    <3> QED
      BY <1>1, <1>2, <3>1 DEF Linked
  <2> QED
    BY <2>1 DEF Legal, CallsOfHost, CallsOfRecovery, CallsOfChange, IsBottom
<1>7. \A n \in Nat : n > 0 => n = 1 \/ n > 1
  OBVIOUS
<1>5. ASSUME IsBottom(F(p))
      PROVE  Len(stack[p]) = 1 /\ Bottom(p) = F(p)
  <2>1. ~(Len(stack[p]) > 1)
    BY <1>4, <1>5
  <2>2. Len(stack[p]) = 1
    BY <1>2, <1>7, <2>1
  <2> QED
    BY <1>2, <2>2 DEF Bottom
<1>6. ASSUME ~IsBottom(F(p))
      PROVE  Len(stack[p]) > 1
  <2>1. Len(stack[p]) # 1
    BY <1>2, <1>3, <1>6 DEF Bottom
  <2> QED
    BY <1>2, <1>7, <2>1
<1> QED
  BY <1>1, <1>2, <1>3, <1>5, <1>6

LEMMA Neighbour ==
  ASSUME HostOK, CallsOK, NEW p \in Procs, Busy(p), NEW q \in Procs, q # p
  PROVE  stack[q] = <<>> \/ (F(q).fn \in {"launch", "reconcile"} /\ Len(stack[q]) = 1)
<1>1. CASE p = "launch"
  <2>1. q = "reconcile" /\ stack[q] = <<>>
    BY <1>1, TwoProcs DEF HostOK, Exclusive
  <2> QED
    BY <2>1
<1>2. CASE p = "reconcile"
  <2>1. q = "launch" /\ ~Busy(q)
    BY <1>2, TwoProcs DEF HostOK, Exclusive, Busy
  <2>2. stack[q] = <<>> \/ F(q).fn \in {"launch", "reconcile"}
    BY <2>1 DEF Busy, F
  <2> QED
    BY <2>2, BottomFacts DEF IsBottom
<1> QED
  BY <1>1, <1>2, TwoProcs

LEMMA BusyAlone ==
  ASSUME HostOK, CallsOK, NEW p \in Procs, Busy(p)
  PROVE  Alone(p)
<1> SUFFICES ASSUME NEW q \in Procs, q # p, NEW k \in 1..Len(stack[q])
             PROVE  Settled(stack[q][k])
  BY DEF Alone
<1>1. stack[q] # <<>>
  BY DEF CallsOK, CallTypes
<1>2. F(q).fn \in {"launch", "reconcile"} /\ Len(stack[q]) = 1 /\ F(q) = stack[q][1]
  BY <1>1, Neighbour, BottomFacts
<1>3. k = 1
  BY <1>2
<1> QED
  BY <1>2, <1>3 DEF Settled

LEMMA NeighbourTop ==
  ASSUME HostOK, CallsOK, NEW p \in Procs, Busy(p), OtherCalls(p), NEW q \in Procs, q # p
  PROVE  TopAt(q)'
<1>1. stack'[q] = stack[q] /\ res'[q] = res[q]
  BY DEF OtherCalls
<1>2. CASE stack[q] = <<>>
  BY <1>1, <1>2 DEF TopAt
<1>3. CASE stack[q] # <<>>
  <2>1. PICK g : g = F(q)
    OBVIOUS
  <2>2. PICK r : r = R(q)
    OBVIOUS
  <2>3. g.fn \in {"launch", "reconcile"} /\ F(q)' = g /\ R(q)' = r /\ stack'[q] # <<>>
    BY <1>1, <1>3, <2>1, <2>2, Neighbour DEF F, R
  <2> QED
    BY <2>3, TopIntro
<1> QED
  BY <1>2, <1>3

LEMMA QuietTop ==
  ASSUME UNCHANGED files, NEW q, stack'[q] = stack[q], res'[q] = res[q], TopAt(q)
  PROVE  TopAt(q)'
<1> SUFFICES ASSUME stack[q] # <<>>
             PROVE  Top(F(q), R(q))'
  BY DEF TopAt
<1>1. PICK f : f = F(q)
  OBVIOUS
<1>2. PICK r : r = R(q)
  OBVIOUS
<1>3. Top(f, r) /\ F(q)' = f /\ R(q)' = r
  BY <1>1, <1>2 DEF TopAt, F, R
<1>4. names' = names /\ dirs' = dirs /\ text' = text
  BY DEF files
<1>5. TopCapture(f)' /\ TopRestore(f)'
  BY <1>3, <1>4 DEF Top, TopCapture, TopRestore, Beyond, Beneath, Tidy, Dir, Tmp, Cap, Rel, Safe, PublicLines
<1>6. TopRemove(f)'
  BY <1>3, <1>4 DEF Top, TopRemove, Beyond, Beneath, Tidy, Dir, Tmp, Cap, Rel, Safe, PublicLines, Sole
<1>7. TopRelease(f, r)'
  BY <1>3, <1>4 DEF Top, TopRelease, Beyond, Beneath, Tidy, Dir, Tmp, Cap, Rel, Safe, PublicLines
<1>8. TopMerge(f, r)' /\ TopUnroll(f)'
  BY <1>3, <1>4 DEF Top, TopMerge, TopUnroll, Beyond, Beneath, Tidy, Dir, Tmp, Cap, Rel
<1>9. TopReplace(f, r)'
  BY <1>3, <1>4 DEF Top, TopReplace, Beyond, Beneath, Tidy, Dir, Tmp, Cap, Rel, Safe, PublicLines, Sole
<1>10. TopRecover(f, r)'
  BY <1>3, <1>4 DEF Top, TopRecover, Beyond, Beneath, Tidy, Dir, Tmp, Cap, Rel, Safe, PublicLines, Got
<1>11. TopRules(f, r)'
  BY <1>3, <1>4 DEF Top, TopRules, Beyond, Beneath, Tidy, AllTidy, Dir, Tmp
<1>12. Top(f, r)'
  BY <1>5, <1>6, <1>7, <1>8, <1>9, <1>10, <1>11 DEF Top
<1> QED
  BY <1>3, <1>12

\* A step of a process that is at the Project, which leaves to the other what it has.
LEMMA HostBusy ==
  ASSUME HostOK, NEW p \in Procs, Busy(p), OtherCalls(p), HostTypes', journal'.held = journal.held,
         lease'.live = lease.live, lease'.count = lease.count, lease'.retry = lease.retry,
         p = "launch" \/ (lease = NoLease => lease' = NoLease), Rooted(p)'
  PROVE  HostOK'
<1>1. \A q \in Procs : q # p => stack'[q] = stack[q] /\ (Busy(q)' <=> Busy(q))
  BY DEF OtherCalls, Busy
<1>2. stack[p] # <<>>
  BY DEF Busy
<1>3. CASE p = "launch"
  <2>1. stack["reconcile"] = <<>> /\ journal.held /\ stack'["reconcile"] = <<>> /\ ~Busy("reconcile")'
    BY <1>1, <1>3, TwoProcs DEF HostOK, Exclusive, Busy
  <2>2. Exclusive'
    BY <2>1 DEF HostOK, Exclusive
  <2>3. \A q \in Procs : Rooted(q)'
    <3>1. Rooted("reconcile")'
      BY <2>1 DEF Rooted
    <3> QED
      BY <1>3, <3>1, TwoProcs
  <2> QED
    BY <2>2, <2>3 DEF HostOK
<1>4. CASE p = "reconcile"
  <2>1. journal.held /\ ~lease.live /\ ~lease'.live /\ ~Busy("launch") /\ ~Busy("launch")'
        /\ stack'["launch"] = stack["launch"]
    BY <1>1, <1>2, <1>4, TwoProcs DEF HostOK, Exclusive
  <2>2. Exclusive'
    BY <2>1 DEF HostOK, Exclusive
  <2>3. \A q \in Procs : Rooted(q)'
    <3>1. Rooted("launch") /\ (lease = NoLease => lease' = NoLease)
      BY <1>4, TwoProcs DEF HostOK
    <3>2. Rooted("launch")'
      BY <2>1, <3>1, TwoProcs DEF Rooted, Bottom
    <3> QED
      BY <1>4, <3>2, TwoProcs
  <2> QED
    BY <2>2, <2>3 DEF HostOK
<1> QED
  BY <1>3, <1>4, TwoProcs

\* Within a call of the two processes.
LEMMA HostWithin ==
  ASSUME HostOK, CallsOK, NEW p \in Procs, Busy(p), OtherCalls(p), Len(stack[p]) > 1, UNCHANGED <<journal, armed>>,
         \/ lease' = lease
         \/ lease' = [lease EXCEPT !.written = FALSE]
         \/ lease' = [lease EXCEPT !.added = FALSE]
  PROVE  HostOK'
<1>1. HostTypes'
  BY DEF HostOK, HostTypes
<1>2. /\ lease'.live = lease.live /\ lease'.count = lease.count /\ lease'.retry = lease.retry
      /\ lease = NoLease => lease' = NoLease
  BY DEF HostOK, HostTypes, NoLease
<1>3. Rooted(p)'
  <2>1. Bottom(p)' = Bottom(p) /\ stack[p] # <<>>
    BY DEF OtherCalls, BottomKept, Busy
  <2>2. Rooted(p)
    BY DEF HostOK
  <2> QED
    BY <1>2, <2>1, <2>2 DEF Rooted
<1> QED
  BY <1>1, <1>2, <1>3, HostBusy

LEMMA AtFacts ==
  ASSUME CallsOK, NEW p \in Procs, NEW fn, NEW a, At(p, fn, a), fn \notin {"launch", "reconcile"}, fn # "release" \/ a \notin LeaseWork
  PROVE  /\ stack[p] # <<>> /\ F(p).fn = fn /\ F(p).at = a /\ Busy(p) /\ ~IsBottom(F(p)) /\ Len(stack[p]) > 1
<1>1. stack[p] # <<>> /\ F(p).fn = fn /\ F(p).at = a
  BY DEF At, F
<1>2. Busy(p)
  BY <1>1 DEF Busy, F
<1>3. ~IsBottom(F(p))
  BY <1>1 DEF IsBottom
<1> QED
  BY <1>1, <1>2, <1>3, BottomFacts

LEMMA FileStepAt ==
  ASSUME NEW p \in Procs, FileStep(p)
  PROVE  \E fn, a : At(p, fn, a) /\ fn \notin {"launch", "reconcile"} /\ (fn # "release" \/ a \notin LeaseWork)
<1>1. CASE CaptureStep(p)
  <2>1. \E a : At(p, "capture", a)
    BY <1>1 DEF CaptureStep, CaptureOpens, CaptureClaims, CaptureTakes, CaptureReads, CaptureRefused
  <2> QED
    BY <2>1
<1>2. CASE RestoreStep(p)
  <2>1. \E a : At(p, "restore", a)
    BY <1>2 DEF RestoreStep, RestoreLinks, RestoreDrops, RestoreCloses
  <2> QED
    BY <2>1
<1>3. CASE RemoveStep(p)
  <2>1. \E a : At(p, "remove", a)
    BY <1>3 DEF RemoveStep, RemoveLinks, RemoveDrops, RemoveWaits, RemoveCompares, RemoveKeeps, RemoveFinishes, RemoveUndoes
  <2> QED
    BY <2>1
<1>4. CASE ReleaseStep(p)
  <2>1. \E a \in {"try", "tried", "merged"} : At(p, "release", a)
    BY <1>4 DEF ReleaseStep, ReleaseTries, ReleaseTried, ReleaseMerged
  <2>2. {"try", "tried", "merged"} \cap LeaseWork = {}
    BY DEF LeaseWork
  <2> QED
    BY <2>1, <2>2
<1>5. CASE MergeStep(p)
  <2>1. \E a : At(p, "merge", a)
    BY <1>5 DEF MergeStep, MergeReads, MergeReplaced
  <2> QED
    BY <2>1
<1>6. CASE ReplaceStep(p)
  <2>1. \E a : At(p, "replace", a)
    BY <1>6 DEF ReplaceStep, ReplaceWrites, ReplaceCaptured, ReplaceRestored, ReplaceWithdraws, ReplacePublishes,
       ReplaceRefreshes, ReplaceRemoved, ReplaceFinishes, ReplaceCatches, ReplaceCaught, ReplaceRecovered, ReplaceAbandons
  <2> QED
    BY <2>1
<1>7. CASE RollStep(p)
  <2>1. \E a : At(p, "replace", a)
    BY <1>7, Zenon DEF RollStep, ReplaceRolled, ReplaceMistaken, ReplaceReturned, ReplaceReleased, ReplaceUnrolled
  <2> QED
    BY <2>1
<1>8. CASE UnrollStarts(p) \/ UnrollStep(p)
  <2>1. \E a : At(p, "unroll", a)
    BY <1>8 DEF UnrollStarts, UnrollStep, UnrollGot, UnrollRefused, UnrollOther, UnrollPut, UnrollPlaces, UnrollDone
  <2> QED
    BY <2>1
<1>9. CASE RecoverStep(p)
  <2>1. \E a : At(p, "recover", a)
    BY <1>9 DEF RecoverStep, RecoverStarts, RecoverUnrolled, RecoverReconciled, RecoverCaptures, RecoverGot, RecoverMerged,
       RecoverReleases, RecoverDone
  <2> QED
    BY <2>1
<1>10. CASE RulesStep(p)
  <2>1. \E a : At(p, "rules", a)
    BY <1>10 DEF RulesStep, RulesStart, RulesReady, RulesLook, RulesTried
  <2> QED
    BY <2>1
<1> QED
  BY <1>1, <1>2, <1>3, <1>4, <1>5, <1>6, <1>7, <1>8, <1>9, <1>10, FileStepParts

LEMMA FileStepHolds ==
  ASSUME IInv, Wrote, NEW p \in Procs, FileStep(p), UNCHANGED <<manifests, host, user>>
  PROVE  IInv'
<1>1. Framework /\ HostOK /\ CallsOK /\ TopAt(p)
  BY DEF IInv, Framework
<1>2. Busy(p) /\ Len(stack[p]) > 1
  BY <1>1, FileStepAt, AtFacts
<1>3. Aside /\ lease' = lease /\ UNCHANGED <<journal, armed>>
  BY DEF Aside, manifests, host, user
<1>4. Good(p)
  BY <1>1, <1>2, <1>3, BusyAlone, FileStepKeeps
<1>5. HostOK'
  BY <1>1, <1>2, <1>3, <1>4, HostWithin DEF Good
<1>6. \A q \in Procs : TopAt(q)'
  BY <1>1, <1>2, <1>4, NeighbourTop DEF Good
<1> QED
  BY <1>4, <1>5, <1>6 DEF IInv, Good

-----------------------------------------------------------------------------
(* The functions over the manifest: clear, cleanup, rollback *)

HostFunctions == {"launch", "reconcile", "cleanup", "rollback", "clear"}
MineKept == \A work \in written' : (work \in written /\ ~Mine(work)) \/ Mine(work)'

LEMMA QuietWork ==
  ASSUME FilesOK, UNCHANGED files, MineKept
  PROVE  FilesOK' /\ Shuffled
<1> USE DEF files
<1>0. FilesOK
  OBVIOUS
<1>1. FileTypes' /\ NoRoll' /\ Temps'
  BY <1>0 DEF FilesOK, Placed, FileTypes, NoRoll, Temps, Tmp
<1>2. \A l \in Levels : DirFiles(l)'
  BY <1>0 DEF FilesOK, Placed, AllDirs, DirFiles, Beyond, Tidy, Dir, Cap, Rel, Tmp
<1>3. \A l \in Levels : Superseded(l)'
  BY <1>0 DEF FilesOK, Placed, AllDirs, Superseded, Exposed, Upper, Tmp
<1>4. KeptInv'
  <2> SUFFICES ASSUME NEW work \in written'
               PROVE  InPlace(work)' \/ Mine(work)'
    BY DEF KeptInv
  <2>1. InPlace(work) => InPlace(work)'
    BY DEF InPlace, Places, Dir
  <2> QED
    BY <1>0, <2>1 DEF FilesOK, KeptInv, MineKept
<1>5. Shuffled
  BY DEF Shuffled, Tmp
<1> QED
  BY <1>1, <1>2, <1>3, <1>4, <1>5 DEF FilesOK, Placed, AllDirs

LEMMA QuietManifests ==
  ASSUME NEW p, NEW f, NEW r, Now(p, f, r), UNCHANGED files, MineKept
  PROVE  Moves(p, f, r)
  BY QuietWork DEF Now, Moves, Framework

LEMMA UserKeeps ==
  ASSUME written' = written,
         manifest \in {"user", "edited"} \/ seized \in {"user", "edited"} =>
             manifest' \in {"user", "edited"} \/ seized' \in {"user", "edited"}
  PROVE  MineKept
  BY DEF MineKept, Mine

LEMMA QuietManifest == UNCHANGED <<user, manifest, seized>> => MineKept
  BY DEF MineKept, Mine, user

LEMMA HostGoes ==
  ASSUME NEW p \in Procs, NEW f, NEW r, Moves(p, f, r), f.fn \in HostFunctions, f.l \in Levels,
         NEW g \in FrameType, Resumes(f, g), Continue(p, g)
  PROVE  Good(p) /\ F(p)' = g
<1>1. g.fn \in HostFunctions /\ g.l \in Levels
  BY DEF Resumes
<1>2. FrameOK(g) /\ Settled(g)
  BY <1>1, FrameIntro DEF HostFunctions, Settled
<1>3. Framework' /\ OtherCalls(p) /\ stack'[p] # <<>> /\ F(p)' = g /\ R(p)' = r
  BY <1>2, Proceeds
<1> QED
  BY <1>1, <1>3, TopIntro DEF HostFunctions, Good

LEMMA HostGoesTo ==
  ASSUME NEW p \in Procs, NEW f, NEW r, Moves(p, f, r), f.fn \in HostFunctions, f.l \in Levels,
         NEW a \in Words, Go(p, a)
  PROVE  Good(p) /\ F(p)'.fn = f.fn /\ F(p)'.at = a
<1>1. f.fn # "release"
  BY DEF HostFunctions
<1>2. PICK g \in FrameType : As(g, f, a) /\ Resumes(f, g) /\ Continue(p, g)
  BY <1>1, GoFrame DEF Moves
<1> QED
  BY <1>2, HostGoes DEF As

LEMMA HostGives ==
  ASSUME NEW p \in Procs, NEW f, NEW r, Moves(p, f, r), f.fn \in {"cleanup", "rollback", "clear"}, NEW q \in Words, Return(p, q)
  PROVE  Good(p)
<1>1. Back(p, f, q, 0, Empty)
  BY BackEmpty
<1> QED
  BY <1>1, HostReturns

\* f calls g at the point a, and g is one of these functions or starts on the rules.
LEMMA HostEnters ==
  ASSUME NEW p \in Procs, NEW f, NEW r, Moves(p, f, r), f.l \in Levels, NEW a \in Words,
         f.fn \in HostFunctions \/ (f.fn = "release" /\ f.at \in LeaseWork /\ a \in LeaseWork),
         NEW c, c = [f EXCEPT !.at = a], NEW g \in FrameType, g.l = 0,
         g.fn \in HostFunctions \/ (g.fn = "rules" /\ g.at \in {"append", "remove"}),
         CallsOfHost(c, g), Enter(p, f, a, g)
  PROVE  Good(p)
<1>1. Now(p, f, r)
  BY DEF Moves
<1>2. As(c, f, a) /\ Resumes(f, c)
  <2>1. f.fn # "release" \/ (a \in LeaseWork <=> f.at \in LeaseWork)
    BY DEF HostFunctions
  <2> QED
    BY <1>1, <2>1, GoFrame
<1>3. c \in FrameType /\ c.fn = f.fn /\ c.at = a /\ c.l \in Levels
  BY <1>2 DEF As
<1>4. FrameOK(c) /\ Settled(c)
  <2>1. CASE f.fn \in HostFunctions
    BY <1>3, <2>1, FrameIntro DEF HostFunctions, Settled
  <2>2. CASE f.fn = "release" /\ a \in LeaseWork
    BY <1>3, <2>2, FrameIntro DEF OKRelease, Settled
  <2> QED
    BY <2>1, <2>2
<1>5. FrameOK(g) /\ Settled(g)
  <2>1. CASE g.fn \in HostFunctions
    BY <2>1, FrameIntro, FirstLevel DEF HostFunctions, Settled
  <2>2. CASE g.fn = "rules" /\ g.at \in {"append", "remove"}
    BY <2>2, FrameIntro, FirstLevel DEF OKRules, Settled
  <2> QED
    BY <2>1, <2>2
<1>6. Legal(c, g) /\ Caller(p, f, r, c)
  BY <1>2, <1>3, <1>4 DEF Legal, Caller
<1>7. Frames(p, <<g, c>>) /\ UNCHANGED res
  BY DEF Enter
<1>8. Framework' /\ OtherCalls(p) /\ stack'[p] # <<>> /\ F(p)' = g /\ R(p)' = r
  BY <1>5, <1>6, <1>7, Calls
<1>9. CASE g.fn \in HostFunctions
  BY <1>8, <1>9, TopIntro DEF HostFunctions, Good
<1>10. CASE g.fn = "rules" /\ g.at \in {"append", "remove"}
  <2>1. TopRules(g, r)'
    BY <1>10 DEF TopRules
  <2> QED
    BY <1>8, <1>10, <2>1, TopIntro DEF Good
<1> QED
  BY <1>9, <1>10

LEMMA HostMade ==
  /\ Clear \in FrameType /\ Clear.fn = "clear" /\ Clear.l = 0
  /\ RollBack \in FrameType /\ RollBack.fn = "rollback" /\ RollBack.l = 0
  /\ \A k : CleanUp(k) \in FrameType /\ CleanUp(k).fn = "cleanup" /\ CleanUp(k).l = 0
  /\ AppendRules \in FrameType /\ AppendRules.fn = "rules" /\ AppendRules.at = "append" /\ AppendRules.l = 0
  /\ RemoveRules \in FrameType /\ RemoveRules.fn = "rules" /\ RemoveRules.at = "remove" /\ RemoveRules.l = 0
<1>1. /\ "clear" \in Words /\ "take" \in Words /\ "rollback" \in Words /\ "start" \in Words
      /\ "rules" \in Words /\ "append" \in Words /\ "remove" \in Words
      /\ "cleanup" \in Words /\ "derive" \in Words /\ 0 \in Nat
  BY WordFacts
<1>2. Clear \in FrameType /\ Clear.fn = "clear" /\ Clear.l = 0
  BY <1>1, FrameMade DEF Clear
<1>3. RollBack \in FrameType /\ RollBack.fn = "rollback" /\ RollBack.l = 0
  BY <1>1, FrameMade DEF RollBack
<1>4. AppendRules \in FrameType /\ AppendRules.fn = "rules" /\ AppendRules.at = "append" /\ AppendRules.l = 0
  BY <1>1, FrameMade DEF AppendRules
<1>5. ASSUME NEW k
      PROVE  CleanUp(k) \in FrameType /\ CleanUp(k).fn = "cleanup" /\ CleanUp(k).l = 0
  <2>1. PICK g \in FrameType : g = Frame("cleanup", "derive", 0) /\ g.fn = "cleanup" /\ g.l = 0
    BY <1>1, FrameMade
  <2>2. (IF k THEN 1 ELSE 0) \in Nat
    OBVIOUS
  <2> QED
    BY <2>1, <2>2 DEF CleanUp, FrameType
<1>6. RemoveRules \in FrameType /\ RemoveRules.fn = "rules" /\ RemoveRules.at = "remove" /\ RemoveRules.l = 0
  BY <1>1, FrameMade DEF RemoveRules
<1> QED
  BY <1>2, <1>3, <1>4, <1>5, <1>6

LEMMA HostNow ==
  ASSUME Framework, NEW p \in Procs, TopAt(p), NEW fn \in HostFunctions, NEW a, At(p, fn, a), UNCHANGED files, MineKept
  PROVE  \E f, r : /\ Moves(p, f, r) /\ f.fn = fn /\ f.at = a /\ f.l \in Levels /\ F(p) = f /\ R(p) = r
                   /\ f \in FrameType /\ r.r \in Words /\ r.text \in Texts
<1>1. PICK f, r : Now(p, f, r) /\ f.fn = fn /\ f.at = a /\ f.l \in Levels
  BY NowFacts
<1>2. F(p) = f /\ R(p) = r /\ f \in FrameType /\ r \in ResultType
  BY <1>1 DEF Now
<1>3. r.r \in Words /\ r.text \in Texts
  BY <1>2 DEF ResultType
<1> QED
  BY <1>1, <1>2, <1>3, QuietManifests

LEMMA ClearTakesKeeps ==
  ASSUME Framework, NEW p \in Procs, TopAt(p), UNCHANGED user, ClearTakes(p)
  PROVE  Good(p)
<1>1. MineKept
  BY UserKeeps DEF ClearTakes, manifests, user
<1>2. PICK f, r : Moves(p, f, r) /\ f.fn = "clear" /\ f.l \in Levels
  BY <1>1, HostNow DEF ClearTakes, HostFunctions
<1>3. Go(p, "judge") \/ Return(p, "ok")
  BY DEF ClearTakes
<1>4. "judge" \in Words /\ "ok" \in Words
  BY WordFacts
<1> QED
  BY <1>2, <1>3, <1>4, HostGoesTo, HostGives DEF HostFunctions

LEMMA ClearJudgesKeeps ==
  ASSUME Framework, NEW p \in Procs, TopAt(p), UNCHANGED user, ClearJudges(p)
  PROVE  Good(p)
<1>1. MineKept
  BY UserKeeps DEF ClearJudges, user
<1>2. PICK f, r : Moves(p, f, r) /\ f.fn = "clear" /\ f.l \in Levels
  BY <1>1, HostNow DEF ClearJudges, HostFunctions
<1>3. Return(p, "ok") \/ Return(p, "collision")
  BY DEF ClearJudges
<1>4. "ok" \in Words /\ "collision" \in Words
  BY WordFacts
<1> QED
  BY <1>2, <1>3, <1>4, HostGives

LEMMA CleanUpDerivesKeeps ==
  ASSUME Framework, NEW p \in Procs, TopAt(p), UNCHANGED user, CleanUpDerives(p)
  PROVE  Good(p)
<1>1. MineKept
  BY QuietManifest DEF CleanUpDerives, manifests
<1>2. PICK f, r : Moves(p, f, r) /\ f.fn = "cleanup" /\ f.l \in Levels /\ F(p) = f /\ f \in FrameType
  BY <1>1, HostNow DEF CleanUpDerives, HostFunctions
<1>3. Return(p, "collision") \/ Enter(p, f, "cleared", Clear) \/ Go(p, "unstage")
  BY <1>2 DEF CleanUpDerives, Go
<1>4. "unstage" \in Words /\ "collision" \in Words /\ "cleared" \in Words
  BY WordFacts
<1>5. CASE Enter(p, f, "cleared", Clear)
  <2>1. PICK c : c = [f EXCEPT !.at = "cleared"]
    OBVIOUS
  <2>2. c.fn = "cleanup" /\ c.at = "cleared"
    BY <1>2, <2>1 DEF FrameType
  <2>3. CallsOfHost(c, Clear)
    BY <2>2, HostMade DEF CallsOfHost
  <2> QED
    BY <1>2, <1>4, <1>5, <2>1, <2>3, HostMade, HostEnters DEF HostFunctions
<1> QED
  BY <1>2, <1>3, <1>4, <1>5, HostGoesTo, HostGives DEF HostFunctions

LEMMA CleanUpClearedKeeps ==
  ASSUME Framework, NEW p \in Procs, TopAt(p), UNCHANGED user, CleanUpCleared(p)
  PROVE  Good(p)
<1>1. MineKept
  BY QuietManifest DEF CleanUpCleared, manifests
<1>2. PICK f, r : Moves(p, f, r) /\ f.fn = "cleanup" /\ f.l \in Levels /\ R(p) = r /\ r.r \in Words
  BY <1>1, HostNow DEF CleanUpCleared, HostFunctions
<1>3. Go(p, "unstage") \/ Return(p, r.r)
  BY <1>2 DEF CleanUpCleared
<1>4. "unstage" \in Words
  BY WordFacts
<1> QED
  BY <1>2, <1>3, <1>4, HostGoesTo, HostGives DEF HostFunctions

LEMMA CleanUpUnstagesKeeps ==
  ASSUME Framework, NEW p \in Procs, TopAt(p), UNCHANGED user, CleanUpUnstages(p)
  PROVE  Good(p)
<1>1. MineKept
  BY QuietManifest DEF CleanUpUnstages
<1>2. PICK f, r : Moves(p, f, r) /\ f.fn = "cleanup" /\ f.l \in Levels /\ F(p) = f /\ f \in FrameType
  BY <1>1, HostNow DEF CleanUpUnstages, HostFunctions
<1>3. Enter(p, f, "ruled", RemoveRules)
  BY <1>2 DEF CleanUpUnstages
<1>4. "ruled" \in Words
  BY WordFacts
<1>5. PICK c : c = [f EXCEPT !.at = "ruled"]
  OBVIOUS
<1>6. c.fn = "cleanup" /\ c.at = "ruled"
  BY <1>2, <1>5 DEF FrameType
<1>7. PICK g \in FrameType : g = RemoveRules /\ g.fn = "rules" /\ g.at = "remove" /\ g.l = 0
  BY HostMade
<1>8. CallsOfHost(c, g)
  BY <1>6, <1>7 DEF CallsOfHost
<1> QED
  BY <1>2, <1>3, <1>4, <1>5, <1>7, <1>8, HostEnters DEF HostFunctions

LEMMA CleanUpRuledKeeps ==
  ASSUME Framework, NEW p \in Procs, TopAt(p), UNCHANGED user, CleanUpRuled(p)
  PROVE  Good(p)
<1>1. MineKept
  BY QuietManifest DEF CleanUpRuled, manifests
<1>2. PICK f, r : Moves(p, f, r) /\ f.fn = "cleanup" /\ f.l \in Levels /\ R(p) = r /\ r.r \in Words
  BY <1>1, HostNow DEF CleanUpRuled, HostFunctions
<1>3. Return(p, r.r) \/ Return(p, "ok")
  BY <1>2 DEF CleanUpRuled
<1>4. "ok" \in Words
  BY WordFacts
<1> QED
  BY <1>2, <1>3, <1>4, HostGives

LEMMA RollBackStartsKeeps ==
  ASSUME Framework, NEW p \in Procs, TopAt(p), UNCHANGED user, RollBackStarts(p)
  PROVE  Good(p)
<1>1. MineKept
  BY QuietManifest DEF RollBackStarts, manifests
<1>2. PICK f, r : Moves(p, f, r) /\ f.fn = "rollback" /\ f.l \in Levels /\ F(p) = f /\ f \in FrameType
  BY <1>1, HostNow DEF RollBackStarts, HostFunctions
<1>3. Enter(p, f, "cleared", Clear) \/ Go(p, "finalize")
  BY <1>2 DEF RollBackStarts
<1>4. "finalize" \in Words /\ "cleared" \in Words
  BY WordFacts
<1>5. CASE Enter(p, f, "cleared", Clear)
  <2>1. PICK c : c = [f EXCEPT !.at = "cleared"]
    OBVIOUS
  <2>2. c.fn = "rollback" /\ c.at = "cleared"
    BY <1>2, <2>1 DEF FrameType
  <2>3. CallsOfHost(c, Clear)
    BY <2>2, HostMade DEF CallsOfHost
  <2> QED
    BY <1>2, <1>4, <1>5, <2>1, <2>3, HostMade, HostEnters DEF HostFunctions
<1> QED
  BY <1>2, <1>3, <1>4, <1>5, HostGoesTo DEF HostFunctions

LEMMA RollBackClearedKeeps ==
  ASSUME Framework, NEW p \in Procs, TopAt(p), UNCHANGED user, RollBackCleared(p)
  PROVE  Good(p)
<1>1. MineKept
  BY QuietManifest DEF RollBackCleared, manifests
<1>2. PICK f, r : Moves(p, f, r) /\ f.fn = "rollback" /\ f.l \in Levels /\ R(p) = r /\ r.r \in Words
  BY <1>1, HostNow DEF RollBackCleared, HostFunctions
<1>3. Go(p, "finalize") \/ Return(p, r.r)
  BY <1>2 DEF RollBackCleared
<1>4. "finalize" \in Words
  BY WordFacts
<1> QED
  BY <1>2, <1>3, <1>4, HostGoesTo, HostGives DEF HostFunctions

LEMMA RollBackFinalizesKeeps ==
  ASSUME Framework, NEW p \in Procs, TopAt(p), UNCHANGED user, RollBackFinalizes(p)
  PROVE  Good(p)
<1>1. MineKept
  BY QuietManifest DEF RollBackFinalizes
<1>2. PICK f, r : Moves(p, f, r) /\ f.fn = "rollback" /\ f.l \in Levels /\ F(p) = f /\ f \in FrameType
  BY <1>1, HostNow DEF RollBackFinalizes, HostFunctions
<1>3. Enter(p, f, "ruled", RemoveRules) \/ Return(p, "ok")
  BY <1>2 DEF RollBackFinalizes
<1>4. "ruled" \in Words /\ "ok" \in Words
  BY WordFacts
<1>5. CASE Enter(p, f, "ruled", RemoveRules)
  <2>1. PICK c : c = [f EXCEPT !.at = "ruled"]
    OBVIOUS
  <2>2. c.fn = "rollback" /\ c.at = "ruled"
    BY <1>2, <2>1 DEF FrameType
  <2>3. PICK g \in FrameType : g = RemoveRules /\ g.fn = "rules" /\ g.at = "remove" /\ g.l = 0
    BY HostMade
  <2>4. CallsOfHost(c, g)
    BY <2>2, <2>3 DEF CallsOfHost
  <2> QED
    BY <1>2, <1>4, <1>5, <2>1, <2>3, <2>4, HostEnters DEF HostFunctions
<1> QED
  BY <1>2, <1>3, <1>4, <1>5, HostGives

LEMMA RollBackRuledKeeps ==
  ASSUME Framework, NEW p \in Procs, TopAt(p), UNCHANGED user, RollBackRuled(p)
  PROVE  Good(p)
<1>1. MineKept
  BY QuietManifest DEF RollBackRuled, manifests
<1>2. PICK f, r : Moves(p, f, r) /\ f.fn = "rollback" /\ f.l \in Levels /\ R(p) = r /\ r.r \in Words
  BY <1>1, HostNow DEF RollBackRuled, HostFunctions
<1>3. Return(p, r.r) \/ Return(p, "ok")
  BY <1>2 DEF RollBackRuled
<1>4. "ok" \in Words
  BY WordFacts
<1> QED
  BY <1>2, <1>3, <1>4, HostGives

\* The steps within a call of the two processes.
WithinStep(p) ==
    \/ ClearTakes(p) \/ ClearJudges(p)
    \/ CleanUpDerives(p) \/ CleanUpCleared(p) \/ CleanUpUnstages(p) \/ CleanUpRuled(p)
    \/ RollBackStarts(p) \/ RollBackCleared(p) \/ RollBackFinalizes(p) \/ RollBackRuled(p)

LEMMA WithinStepHolds ==
  ASSUME IInv, NEW p \in Procs, WithinStep(p), UNCHANGED user
  PROVE  IInv'
<1>1. Framework /\ HostOK /\ CallsOK /\ TopAt(p)
  BY DEF IInv, Framework
<1>2. \E fn \in {"clear", "cleanup", "rollback"} : \E a : At(p, fn, a)
  BY DEF WithinStep, ClearTakes, ClearJudges, CleanUpDerives, CleanUpCleared, CleanUpUnstages, CleanUpRuled,
     RollBackStarts, RollBackCleared, RollBackFinalizes, RollBackRuled
<1>3. Busy(p) /\ Len(stack[p]) > 1
  BY <1>1, <1>2, AtFacts
<1>4. Good(p)
  BY <1>1, ClearTakesKeeps, ClearJudgesKeeps, CleanUpDerivesKeeps, CleanUpClearedKeeps, CleanUpUnstagesKeeps,
     CleanUpRuledKeeps, RollBackStartsKeeps, RollBackClearedKeeps, RollBackFinalizesKeeps, RollBackRuledKeeps DEF WithinStep
<1>5. /\ UNCHANGED <<journal, armed>>
      /\ \/ lease' = lease
         \/ lease' = [lease EXCEPT !.written = FALSE]
         \/ lease' = [lease EXCEPT !.added = FALSE]
  <2>1. CASE RollBackCleared(p) \/ RollBackRuled(p)
    BY <2>1 DEF RollBackCleared, RollBackRuled
  <2>2. CASE ClearTakes(p) \/ ClearJudges(p)
    BY <2>2 DEF ClearTakes, ClearJudges, host
  <2>3. CASE CleanUpDerives(p) \/ CleanUpCleared(p) \/ CleanUpUnstages(p) \/ CleanUpRuled(p)
    BY <2>3 DEF CleanUpDerives, CleanUpCleared, CleanUpUnstages, CleanUpRuled, host
  <2>4. CASE RollBackStarts(p) \/ RollBackFinalizes(p)
    BY <2>4 DEF RollBackStarts, RollBackFinalizes, host
  <2> QED
    BY <2>1, <2>2, <2>3, <2>4 DEF WithinStep
<1>6. HostOK'
  BY <1>1, <1>3, <1>4, <1>5, HostWithin DEF Good
<1>7. \A q \in Procs : TopAt(q)'
  BY <1>1, <1>3, <1>4, NeighbourTop DEF Good
<1> QED
  BY <1>4, <1>6, <1>7 DEF IInv, Good

-----------------------------------------------------------------------------
(* The calls of the two processes *)

LEMMA LaunchAt ==
  ASSUME IInv, NEW p \in Procs, NEW a, At(p, "launch", a)
  PROVE  /\ p = "launch" /\ stack[p] # <<>> /\ Len(stack[p]) = 1 /\ F(p).fn = "launch" /\ F(p).at = a /\ Bottom(p) = F(p)
         /\ a # "start" => Busy(p) /\ stack["reconcile"] = <<>> /\ journal.held
<1>1. stack[p] # <<>> /\ F(p).fn = "launch" /\ F(p).at = a
  BY DEF At, F
<1>2. Len(stack[p]) = 1 /\ Bottom(p) = F(p)
  BY <1>1, BottomFacts DEF IInv, Framework, IsBottom
<1>3. p = "launch"
  BY <1>1, <1>2, TwoProcs DEF IInv, HostOK, Rooted
<1>4. a # "start" => Busy(p)
  BY <1>1 DEF Busy, F
<1> QED
  BY <1>1, <1>2, <1>3, <1>4, TwoProcs DEF IInv, HostOK, Exclusive

LEMMA ReleaseAt ==
  ASSUME IInv, NEW p \in Procs, NEW a \in LeaseWork, At(p, "release", a)
  PROVE  /\ p = "launch" /\ stack[p] # <<>> /\ Len(stack[p]) = 1 /\ F(p).fn = "release" /\ F(p).at = a /\ Bottom(p) = F(p)
         /\ Busy(p) /\ stack["reconcile"] = <<>> /\ journal.held /\ lease.live
<1>1. stack[p] # <<>> /\ F(p).fn = "release" /\ F(p).at = a
  BY DEF At, F
<1>2. Len(stack[p]) = 1 /\ Bottom(p) = F(p)
  BY <1>1, BottomFacts DEF IInv, Framework, IsBottom
<1>3. p = "launch" /\ lease.live
  BY <1>1, <1>2, TwoProcs DEF IInv, HostOK, Rooted
<1>4. Busy(p)
  BY <1>1 DEF Busy, F
<1> QED
  BY <1>1, <1>2, <1>3, <1>4, TwoProcs DEF IInv, HostOK, Exclusive

LEMMA ReconcileAt ==
  ASSUME IInv, NEW p \in Procs, NEW a, At(p, "reconcile", a)
  PROVE  /\ p = "reconcile" /\ stack[p] # <<>> /\ Len(stack[p]) = 1 /\ F(p).fn = "reconcile" /\ F(p).at = a
         /\ Bottom(p) = F(p) /\ ~lease.live /\ ~Busy("launch")
         /\ a # "start" => Busy(p) /\ journal.held
<1>1. stack[p] # <<>> /\ F(p).fn = "reconcile" /\ F(p).at = a
  BY DEF At, F
<1>2. Len(stack[p]) = 1 /\ Bottom(p) = F(p)
  BY <1>1, BottomFacts DEF IInv, Framework, IsBottom
<1>3. p = "reconcile"
  BY <1>1, <1>2, TwoProcs DEF IInv, HostOK, Rooted
<1>4. a # "start" => Busy(p)
  BY <1>1 DEF Busy, F
<1> QED
  BY <1>1, <1>2, <1>3, <1>4, TwoProcs DEF IInv, HostOK, Exclusive

LEMMA TailOfOne ==
  ASSUME NEW S, NEW s \in Seq(S), s # <<>>, Len(s) = 1
  PROVE  /\ \A g \in S : <<g>> \o Tail(s) = <<g>>
         /\ \A g, c \in S : <<g, c>> \o Tail(s) = <<g, c>>
         /\ <<>> \o Tail(s) = <<>>
<1>1. Tail(s) \in Seq(S) /\ Len(Tail(s)) = 0
  OBVIOUS
<1>2. Tail(s) = <<>>
  BY <1>1, EmptySeq
<1>3. ASSUME NEW g \in S
      PROVE  <<g>> \o <<>> = <<g>>
  OBVIOUS
<1>4. ASSUME NEW g \in S, NEW c \in S
      PROVE  <<g, c>> \o <<>> = <<g, c>>
  OBVIOUS
<1>5. <<>> \o <<>> = <<>>
  OBVIOUS
<1> QED
  BY <1>2, <1>3, <1>4, <1>5

\* What the frames of a process at the bottom of its stack become.
LEMMA OneFrame ==
  ASSUME CallsOK, NEW p \in Procs, stack[p] # <<>>, Len(stack[p]) = 1
  PROVE  /\ \A g \in FrameType : Frames(p, <<g>>) => stack' = [stack EXCEPT ![p] = <<g>>] /\ Bottom(p)' = g
         /\ \A g, c \in FrameType : Frames(p, <<g, c>>) => Bottom(p)' = c
         /\ Frames(p, <<>>) => stack' = [stack EXCEPT ![p] = <<>>]
<1>2. stack \in [Procs -> Seq(FrameType)]
  BY DEF CallsOK, CallTypes
<1>1. /\ \A g \in FrameType : <<g>> \o Tail(stack[p]) = <<g>>
      /\ \A g, c \in FrameType : <<g, c>> \o Tail(stack[p]) = <<g, c>>
      /\ <<>> \o Tail(stack[p]) = <<>>
  BY <1>2, TailOfOne
<1>3. ASSUME NEW g \in FrameType, Frames(p, <<g>>)
      PROVE  stack' = [stack EXCEPT ![p] = <<g>>] /\ Bottom(p)' = g
  <2>1. stack' = [stack EXCEPT ![p] = <<g>>]
    BY <1>1, <1>3 DEF Frames
  <2>2. stack'[p] = <<g>>
    BY <1>2, <2>1
  <2> QED
    BY <2>1, <2>2 DEF Bottom
<1>4. ASSUME NEW g \in FrameType, NEW c \in FrameType, Frames(p, <<g, c>>)
      PROVE  Bottom(p)' = c
  <2>1. stack' = [stack EXCEPT ![p] = <<g, c>>]
    BY <1>1, <1>4 DEF Frames
  <2>2. stack'[p] = <<g, c>>
    BY <1>2, <2>1
  <2> QED
    BY <2>2 DEF Bottom
<1>5. Frames(p, <<>>) => stack' = [stack EXCEPT ![p] = <<>>]
  BY <1>1 DEF Frames
<1> QED
  BY <1>3, <1>4, <1>5

Fine(p) == Framework' /\ TopAt(p)' /\ OtherCalls(p)

\* A call of the process p begins, or one ends at its bottom.
LEMMA BeginsCall ==
  ASSUME Framework, FilesOK', Shuffled, NEW p \in Procs, stack[p] = <<>> \/ Len(stack[p]) = 1, NEW g \in FrameType,
         FrameOK(g), IsBottom(g), stack' = [stack EXCEPT ![p] = <<g>>], res' = res
  PROVE  Fine(p) /\ Bottom(p)' = g /\ F(p)' = g /\ stack'[p] # <<>>
<1>1. stack \in [Procs -> Seq(FrameType)] /\ \A q \in Procs : Linked(stack[q])
  BY DEF Framework, CallsOK, CallTypes
<1>2. /\ stack' \in [Procs -> Seq(FrameType)] /\ stack'[p] = <<g>>
      /\ \A q \in Procs : q # p => stack'[q] = stack[q]
  BY <1>1
<1>3. Linked(<<g>>)
  BY DEF Linked
<1>4. CallsOK'
  BY <1>1, <1>2, <1>3 DEF Framework, CallsOK, CallTypes
<1>5. OtherCalls(p)
  <2>1. CASE stack[p] = <<>>
    BY <1>2, <2>1 DEF OtherCalls, BottomKept
  <2>2. CASE Len(stack[p]) = 1
    BY <1>2, <2>2 DEF OtherCalls, BottomKept
  <2> QED
    BY <2>1, <2>2
<1>6. Settled(g) /\ OldFrames(p, {g}) /\ Bottom(p)' = g /\ F(p)' = g /\ stack'[p] # <<>>
  BY <1>2 DEF Settled, IsBottom, OldFrames, Bottom, F
<1>7. FrameTemps'
  BY <1>4, <1>5, <1>6, FramesShuffled, SettledTemp
<1>8. TopAt(p)'
  <2>1. PICK r : R(p)' = r
    OBVIOUS
  <2>2. CASE g.fn \in {"launch", "reconcile"}
    BY <1>6, <2>1, <2>2, TopIntro
  <2>3. CASE g.fn = "release" /\ g.at \in LeaseWork
    <3>1. TopRelease(g, r)'
      BY <2>3 DEF TopRelease
    <3> QED
      BY <1>6, <2>1, <2>3, <3>1, TopIntro
  <2> QED
    BY <2>2, <2>3 DEF IsBottom
<1> QED
  BY <1>4, <1>5, <1>6, <1>7, <1>8 DEF Fine, Framework

LEMMA EndsCall ==
  ASSUME Framework, FilesOK', Shuffled, NEW p \in Procs, stack[p] # <<>>, Len(stack[p]) = 1, NEW q \in Words, Return(p, q)
  PROVE  Fine(p) /\ stack'[p] = <<>>
<1>1. stack \in [Procs -> Seq(FrameType)] /\ \A o \in Procs : Linked(stack[o])
  BY DEF Framework, CallsOK, CallTypes
<1>2. stack' = [stack EXCEPT ![p] = <<>>] /\ res' = [res EXCEPT ![p] = Result(q, 0, Empty)]
  BY OneFrame DEF Return, Give, Framework
<1>3. /\ stack' \in [Procs -> Seq(FrameType)] /\ stack'[p] = <<>>
      /\ \A o \in Procs : o # p => stack'[o] = stack[o]
  BY <1>1, <1>2
<1>4. Linked(<<>>)
  BY DEF Linked
<1>5. Result(q, 0, Empty) \in ResultType
  BY DEF Result, ResultType, Empty, Texts
<1>6. CallsOK'
  BY <1>1, <1>2, <1>3, <1>4, <1>5 DEF Framework, CallsOK, CallTypes
<1>7. OtherCalls(p)
  <2>1. ~(Len(stack[p]) > 1)
    OBVIOUS
  <2> QED
    BY <1>2, <1>3, <2>1 DEF OtherCalls, BottomKept, Framework, CallsOK, CallTypes
<1>8. OldFrames(p, {})
  BY <1>3 DEF OldFrames
<1>9. FrameTemps'
  BY <1>6, <1>7, <1>8, FramesShuffled
<1> QED
  BY <1>3, <1>6, <1>7, <1>9 DEF Fine, Framework, TopAt

\* All that these steps have to show, for the files stay as they are.
LEMMA HostHolds ==
  ASSUME IInv, NEW p \in Procs, UNCHANGED files, Fine(p), HostOK'
  PROVE  IInv'
<1>1. ASSUME NEW q \in Procs, q # p
      PROVE  TopAt(q)'
  BY <1>1, QuietTop DEF IInv, Fine, OtherCalls
<1> QED
  BY <1>1 DEF IInv, Fine

\* The reconciliation is at rest.
LEMMA LaunchOnly ==
  ASSUME HostTypes', stack'["reconcile"] = <<>>, Rooted("launch")',
         Busy("launch")' \/ lease'.live => journal'.held,
         lease'.count > 0 \/ lease'.retry => lease'.live
  PROVE  HostOK'
<1>1. ~Busy("reconcile")'
  BY DEF Busy
<1>2. Exclusive'
  BY <1>1 DEF Exclusive
<1>3. \A q \in Procs : Rooted(q)'
  <2>1. Rooted("reconcile")'
    BY DEF Rooted
  <2> QED
    BY <2>1, TwoProcs
<1> QED
  BY <1>2, <1>3 DEF HostOK

\* A step of a launch that goes on.
LEMMA LaunchGoes ==
  ASSUME IInv, NEW p \in Procs, p = "launch", Len(stack[p]) = 1, NEW f, NEW r, Moves(p, f, r), f.fn = "launch", f.l \in Levels,
         NEW a \in Words, a # "cleaned",
         Go(p, a) \/ \E code \in Words : Throw(p, a, code)
  PROVE  Fine(p) /\ Rooted("launch")' /\ stack'[p] # <<>>
<1>1. PICK g \in FrameType : g.fn = "launch" /\ g.at = a /\ Resumes(f, g) /\ Continue(p, g)
  <2>1. Now(p, f, r)
    BY DEF Moves
  <2>2. CASE Go(p, a)
    BY <2>1, <2>2, GoFrame DEF As
  <2>3. CASE \E code \in Words : Throw(p, a, code)
    BY <2>1, <2>3, ThrowFrame
  <2> QED
    BY <2>2, <2>3
<1>2. Good(p)
  BY <1>1, HostGoes DEF HostFunctions
<1>3. Bottom(p)' = g
  BY <1>1, OneFrame DEF Continue, Moves, Now, Framework
<1>4. Rooted("launch")'
  BY <1>1, <1>3 DEF Rooted
<1> QED
  BY <1>2, <1>4 DEF Good, Fine

\* One that calls another function.
LEMMA LaunchEnters ==
  ASSUME IInv, NEW p \in Procs, p = "launch", Len(stack[p]) = 1, NEW f, NEW r, Moves(p, f, r), f.fn = "launch", f.l \in Levels,
         f \in FrameType, NEW a \in Words, NEW g \in FrameType, g.l = 0,
         g.fn \in HostFunctions \/ (g.fn = "rules" /\ g.at \in {"append", "remove"}),
         a = "cleaned" => lease' = NoLease,
         \/ a = "excluded" /\ g.fn = "rules"
         \/ a = "fail" /\ g.fn = "rollback"
         \/ a = "cleaned" /\ g.fn = "cleanup",
         Enter(p, f, a, g)
  PROVE  Fine(p) /\ Rooted("launch")' /\ stack'[p] # <<>>
<1>1. PICK c : c = [f EXCEPT !.at = a]
  OBVIOUS
<1>2. c \in FrameType /\ c.fn = "launch" /\ c.at = a
  BY <1>1 DEF FrameType
<1>3. CallsOfHost(c, g)
  BY <1>2 DEF CallsOfHost
<1>4. Good(p)
  BY <1>1, <1>3, HostEnters DEF HostFunctions
<1>5. Frames(p, <<g, c>>)
  BY <1>1 DEF Enter
<1>6. Bottom(p)' = c
  BY <1>2, <1>5, OneFrame DEF Moves, Now, Framework
<1>7. Rooted("launch")'
  BY <1>2, <1>6 DEF Rooted
<1> QED
  BY <1>4, <1>7 DEF Good, Fine

LEMMA LaunchNow ==
  ASSUME IInv, NEW p \in Procs, NEW a, At(p, "launch", a), UNCHANGED files, MineKept
  PROVE  \E f, r : /\ Moves(p, f, r) /\ f.fn = "launch" /\ f.at = a /\ f.l \in Levels /\ F(p) = f /\ R(p) = r
                   /\ f \in FrameType /\ r.r \in Words /\ r.text \in Texts /\ f.code \in Words
                   /\ p = "launch" /\ stack[p] # <<>> /\ Len(stack[p]) = 1
                   /\ HostTypes /\ (lease.count > 0 \/ lease.retry => lease.live)
                   /\ a # "start" => stack["reconcile"] = <<>> /\ journal.held
<1>1. PICK f, r : /\ Moves(p, f, r) /\ f.fn = "launch" /\ f.at = a /\ f.l \in Levels /\ F(p) = f /\ R(p) = r
                  /\ f \in FrameType /\ r.r \in Words /\ r.text \in Texts
  BY HostNow DEF IInv, HostFunctions
<1>2. f.code \in Words
  BY <1>1 DEF FrameType
<1>3. /\ p = "launch" /\ stack[p] # <<>> /\ Len(stack[p]) = 1
      /\ a # "start" => stack["reconcile"] = <<>> /\ journal.held
  BY LaunchAt
<1>4. HostTypes /\ (lease.count > 0 \/ lease.retry => lease.live)
  BY DEF IInv, HostOK, Exclusive
<1> QED
  BY <1>1, <1>2, <1>3, <1>4

\* The launch is at work; the lease is live or not as before.
LEMMA LaunchWorks ==
  ASSUME IInv, NEW p \in Procs, p = "launch", UNCHANGED files, Fine(p), Rooted("launch")', HostTypes',
         stack["reconcile"] = <<>>, journal'.held, lease'.count > 0 \/ lease'.retry => lease'.live
  PROVE  IInv'
<1>1. stack'["reconcile"] = <<>>
  BY TwoProcs DEF Fine, OtherCalls
<1>2. HostOK'
  BY <1>1, LaunchOnly
<1> QED
  BY <1>2, HostHolds

LEMMA LaunchInspectsHolds ==
  ASSUME IInv, NEW p \in Procs, LaunchInspects(p), UNCHANGED user
  PROVE  IInv'
<1>1. MineKept
  BY QuietManifest DEF LaunchInspects, manifests
<1>2. PICK f, r : /\ Moves(p, f, r) /\ f.fn = "launch" /\ f.l \in Levels /\ F(p) = f /\ f \in FrameType
                  /\ p = "launch" /\ stack[p] # <<>> /\ Len(stack[p]) = 1
                  /\ HostTypes /\ (lease.count > 0 \/ lease.retry => lease.live)
                  /\ stack["reconcile"] = <<>> /\ journal.held
  BY <1>1, LaunchNow DEF LaunchInspects
<1>3. Enter(p, f, "excluded", AppendRules) \/ Throw(p, "fail", "failed") \/ Throw(p, "fail", "collision")
  BY <1>2 DEF LaunchInspects
<1>4. "excluded" \in Words /\ "fail" \in Words /\ "failed" \in Words /\ "collision" \in Words
  BY WordFacts
<1>5. Fine(p) /\ Rooted("launch")'
  <2>1. CASE Enter(p, f, "excluded", AppendRules)
    BY <1>2, <1>4, <2>1, HostMade, LaunchEnters
  <2>2. CASE \E code \in Words : Throw(p, "fail", code)
    BY <1>2, <1>4, <2>2, LaunchGoes
  <2> QED
    BY <1>3, <1>4, <2>1, <2>2
<1>6. HostTypes' /\ armed' = armed /\ journal' = journal /\ lease' = lease
  BY <1>2 DEF LaunchInspects, host, HostTypes
<1> QED
  BY <1>2, <1>5, <1>6, LaunchWorks DEF LaunchInspects

LEMMA LaunchExcludedHolds ==
  ASSUME IInv, NEW p \in Procs, LaunchExcluded(p), UNCHANGED user
  PROVE  IInv'
<1>1. MineKept
  BY QuietManifest DEF LaunchExcluded, manifests
<1>2. PICK f, r : /\ Moves(p, f, r) /\ f.fn = "launch" /\ f.l \in Levels /\ R(p) = r /\ r.r \in Words /\ r.text \in Texts
                  /\ p = "launch" /\ stack[p] # <<>> /\ Len(stack[p]) = 1
                  /\ HostTypes /\ (lease.count > 0 \/ lease.retry => lease.live)
                  /\ stack["reconcile"] = <<>> /\ journal.held
  BY <1>1, LaunchNow DEF LaunchExcluded
<1>3. Throw(p, "fail", r.r) \/ Go(p, "check") \/ Go(p, "stage")
  BY <1>2 DEF LaunchExcluded
<1>4. "fail" \in Words /\ "check" \in Words /\ "stage" \in Words
  BY WordFacts
<1>5. Fine(p) /\ Rooted("launch")'
  <2>1. CASE \E code \in Words : Throw(p, "fail", code)
    BY <1>2, <1>4, <2>1, LaunchGoes
  <2>2. CASE Go(p, "check") \/ Go(p, "stage")
    BY <1>2, <1>4, <2>2, LaunchGoes
  <2> QED
    BY <1>2, <1>3, <2>1, <2>2
<1>6. lease' = lease \/ lease' = [lease EXCEPT !.added = r.r = "added"]
  BY <1>2 DEF LaunchExcluded
<1>7. /\ HostTypes' /\ armed' = armed /\ journal' = journal
      /\ lease'.count = lease.count /\ lease'.retry = lease.retry /\ lease'.live = lease.live
  BY <1>2, <1>6 DEF LaunchExcluded, HostTypes
<1> QED
  BY <1>2, <1>5, <1>7, LaunchWorks DEF LaunchExcluded

LEMMA LaunchStagesHolds ==
  ASSUME IInv, NEW p \in Procs, LaunchStages(p), UNCHANGED user
  PROVE  IInv'
<1>1. MineKept
  BY QuietManifest DEF LaunchStages
<1>2. PICK f, r : /\ Moves(p, f, r) /\ f.fn = "launch" /\ f.l \in Levels
                  /\ p = "launch" /\ stack[p] # <<>> /\ Len(stack[p]) = 1
                  /\ HostTypes /\ (lease.count > 0 \/ lease.retry => lease.live)
                  /\ stack["reconcile"] = <<>> /\ journal.held
  BY <1>1, LaunchNow DEF LaunchStages
<1>3. Go(p, "publish") /\ "publish" \in Words
  BY WordFacts DEF LaunchStages
<1>4. Fine(p) /\ Rooted("launch")'
  BY <1>2, <1>3, LaunchGoes
<1>5. HostTypes' /\ armed' = armed /\ journal' = journal /\ lease' = lease
  BY <1>2 DEF LaunchStages, host, HostTypes
<1> QED
  BY <1>2, <1>4, <1>5, LaunchWorks DEF LaunchStages

LEMMA LaunchPublishesHolds ==
  ASSUME IInv, NEW p \in Procs, LaunchPublishes(p), UNCHANGED user
  PROVE  IInv'
<1>1. MineKept
  BY UserKeeps DEF LaunchPublishes, user
<1>2. PICK f, r : /\ Moves(p, f, r) /\ f.fn = "launch" /\ f.l \in Levels
                  /\ p = "launch" /\ stack[p] # <<>> /\ Len(stack[p]) = 1
                  /\ HostTypes /\ (lease.count > 0 \/ lease.retry => lease.live)
                  /\ stack["reconcile"] = <<>> /\ journal.held
  BY <1>1, LaunchNow DEF LaunchPublishes
<1>3. Go(p, "identify") \/ Throw(p, "undo", "failed") \/ Throw(p, "undo", "collision")
  BY DEF LaunchPublishes
<1>4. "identify" \in Words /\ "undo" \in Words /\ "failed" \in Words /\ "collision" \in Words
  BY WordFacts
<1>5. Fine(p) /\ Rooted("launch")'
  BY <1>2, <1>3, <1>4, LaunchGoes
<1>6. lease' = lease \/ lease' = [lease EXCEPT !.written = TRUE]
  BY DEF LaunchPublishes
<1>7. /\ HostTypes' /\ armed' = armed /\ journal' = journal
      /\ lease'.count = lease.count /\ lease'.retry = lease.retry /\ lease'.live = lease.live
  BY <1>2, <1>6 DEF LaunchPublishes, HostTypes
<1> QED
  BY <1>2, <1>5, <1>7, LaunchWorks DEF LaunchPublishes

LEMMA LaunchIdentifiesHolds ==
  ASSUME IInv, NEW p \in Procs, LaunchIdentifies(p), UNCHANGED user
  PROVE  IInv'
<1>1. MineKept
  BY QuietManifest DEF LaunchIdentifies, manifests
<1>2. PICK f, r : /\ Moves(p, f, r) /\ f.fn = "launch" /\ f.l \in Levels /\ F(p) = f /\ f \in FrameType
                  /\ p = "launch" /\ stack[p] # <<>> /\ Len(stack[p]) = 1
                  /\ HostTypes /\ (lease.count > 0 \/ lease.retry => lease.live)
                  /\ stack["reconcile"] = <<>> /\ journal.held
  BY <1>1, LaunchNow DEF LaunchIdentifies
<1>3. /\ journal' = [journal EXCEPT !.known = TRUE] /\ armed' = armed /\ lease' = lease /\ UNCHANGED files
      /\ Continue(p, [f EXCEPT !.at = "finalize", !.other = 2])
  BY <1>2 DEF LaunchIdentifies
<1>4. PICK g : g = [f EXCEPT !.at = "finalize", !.other = 2]
  OBVIOUS
<1>5. g \in FrameType /\ g.fn = "launch" /\ g.at = "finalize" /\ g.l = f.l /\ g.max = f.max
  BY <1>2, <1>4, WordFacts DEF FrameType
<1>6. Resumes(f, g)
  BY <1>2, <1>5 DEF Resumes
<1>7. Good(p)
  BY <1>2, <1>3, <1>4, <1>5, <1>6, HostGoes DEF HostFunctions
<1>8. Bottom(p)' = g
  BY <1>2, <1>3, <1>4, <1>5, OneFrame DEF Continue, Moves, IInv, Framework
<1>9. Rooted("launch")'
  BY <1>2, <1>5, <1>8 DEF Rooted
<1>10. HostTypes' /\ journal'.held
  BY <1>2, <1>3 DEF HostTypes
<1> QED
  BY <1>2, <1>3, <1>7, <1>9, <1>10, LaunchWorks DEF Good, Fine

LEMMA LaunchFinalizesHolds ==
  ASSUME IInv, NEW p \in Procs, LaunchFinalizes(p), UNCHANGED user
  PROVE  IInv'
<1>1. MineKept
  BY QuietManifest DEF LaunchFinalizes
<1>2. PICK f, r : /\ Moves(p, f, r) /\ f.fn = "launch" /\ f.l \in Levels
                  /\ p = "launch" /\ stack[p] # <<>> /\ Len(stack[p]) = 1
                  /\ HostTypes /\ (lease.count > 0 \/ lease.retry => lease.live)
                  /\ stack["reconcile"] = <<>> /\ journal.held
  BY <1>1, LaunchNow DEF LaunchFinalizes
<1>3. Go(p, "check") \/ Throw(p, "undo", "collision")
  BY DEF LaunchFinalizes
<1>4. "check" \in Words /\ "undo" \in Words /\ "collision" \in Words
  BY WordFacts
<1>5. Fine(p) /\ Rooted("launch")'
  BY <1>2, <1>3, <1>4, LaunchGoes
<1>6. HostTypes' /\ armed' = armed /\ journal' = journal /\ lease' = lease
  BY <1>2 DEF LaunchFinalizes, host, HostTypes
<1> QED
  BY <1>2, <1>5, <1>6, LaunchWorks DEF LaunchFinalizes

LEMMA LaunchUndoesHolds ==
  ASSUME IInv, NEW p \in Procs, LaunchUndoes(p), UNCHANGED user
  PROVE  IInv'
<1>1. MineKept
  BY QuietManifest DEF LaunchUndoes, manifests
<1>2. PICK f, r : /\ Moves(p, f, r) /\ f.fn = "launch" /\ f.l \in Levels /\ F(p) = f /\ f \in FrameType
                  /\ p = "launch" /\ stack[p] # <<>> /\ Len(stack[p]) = 1
                  /\ HostTypes /\ (lease.count > 0 \/ lease.retry => lease.live)
                  /\ stack["reconcile"] = <<>> /\ journal.held
  BY <1>1, LaunchNow DEF LaunchUndoes
<1>3. Enter(p, f, "fail", RollBack) /\ "fail" \in Words
  BY <1>2, WordFacts DEF LaunchUndoes
<1>4. Fine(p) /\ Rooted("launch")'
  BY <1>2, <1>3, HostMade, LaunchEnters DEF HostFunctions
<1>5. HostTypes' /\ armed' = armed /\ journal' = journal /\ lease' = lease
  BY <1>2 DEF LaunchUndoes, host, HostTypes
<1> QED
  BY <1>2, <1>4, <1>5, LaunchWorks DEF LaunchUndoes

LEMMA LeaseFacts ==
  /\ NoLease \in [live : BOOLEAN, count : Int, written : BOOLEAN, added : BOOLEAN, retry : BOOLEAN]
  /\ ~NoLease.live /\ NoLease.count = 0 /\ ~NoLease.retry /\ NoJournal \in [held : BOOLEAN, known : BOOLEAN]
BY DEF NoLease, NoJournal

LEMMA LaunchRetainsHolds ==
  ASSUME IInv, NEW p \in Procs, LaunchRetains(p), UNCHANGED user
  PROVE  IInv'
<1>1. MineKept
  BY QuietManifest DEF LaunchRetains, manifests
<1>2. PICK f, r : /\ Moves(p, f, r) /\ f.fn = "launch" /\ f.l \in Levels /\ F(p) = f /\ f \in FrameType
                  /\ p = "launch" /\ stack[p] # <<>> /\ Len(stack[p]) = 1
                  /\ HostTypes /\ (lease.count > 0 \/ lease.retry => lease.live)
  BY <1>1, LaunchNow DEF LaunchRetains
<1>3. "inspect" \in Words /\ "collision" \in Words
  BY WordFacts
<1>4. armed' = armed /\ UNCHANGED files
  BY DEF LaunchRetains
<1>5. /\ Exclusive /\ Framework /\ FilesOK' /\ Shuffled
      /\ lease.live => stack["reconcile"] = <<>> /\ journal.held
  BY <1>2, LeaseFacts DEF IInv, HostOK, Exclusive, Moves
<1>6. CASE lease.live
  <2>1. /\ lease' = [lease EXCEPT !.count = @ + 1] /\ journal' = journal
        /\ Continue(p, [f EXCEPT !.at = "inspect", !.other = 1])
    BY <1>2, <1>6 DEF LaunchRetains
  <2>2. PICK g : g = [f EXCEPT !.at = "inspect", !.other = 1]
    OBVIOUS
  <2>3. g \in FrameType /\ g.fn = "launch" /\ g.at = "inspect" /\ g.l = f.l /\ g.max = f.max
    BY <1>2, <1>3, <2>2 DEF FrameType
  <2>4. Resumes(f, g)
    BY <1>2, <2>3 DEF Resumes
  <2>5. Good(p)
    BY <1>2, <2>1, <2>2, <2>3, <2>4, HostGoes DEF HostFunctions
  <2>6. Bottom(p)' = g
    BY <1>2, <1>5, <2>1, <2>2, <2>3, OneFrame DEF Continue, Framework
  <2>7. Rooted("launch")'
    BY <1>2, <2>3, <2>6 DEF Rooted
  <2>8. HostTypes' /\ lease'.live
    BY <1>2, <1>4, <1>6, <2>1 DEF HostTypes
  <2> QED
    BY <1>2, <1>4, <1>5, <1>6, <2>1, <2>5, <2>7, <2>8, LaunchWorks DEF Good, Fine
<1>7. CASE ~lease.live /\ journal.held
  <2>1. Return(p, "collision") /\ journal' = journal /\ lease' = lease
    BY <1>7 DEF LaunchRetains
  <2>2. Fine(p) /\ stack'[p] = <<>>
    BY <1>2, <1>3, <1>5, <2>1, EndsCall
  <2>3. ~Busy("launch")' /\ Rooted("launch")' /\ stack'["reconcile"] = stack["reconcile"]
    BY <1>2, <2>2, TwoProcs DEF Busy, Rooted, Fine, OtherCalls
  <2>4. Exclusive'
    BY <1>4, <1>5, <2>1, <2>3 DEF Exclusive, Busy
  <2>5. \A q \in Procs : Rooted(q)'
    <3>1. Rooted("reconcile")'
      BY <2>1, <2>3, TwoProcs DEF IInv, HostOK, Rooted, Bottom
    <3> QED
      BY <2>3, <3>1, TwoProcs
  <2>6. HostTypes'
    BY <1>2, <1>4, <2>1 DEF HostTypes
  <2> QED
    BY <1>4, <2>2, <2>4, <2>5, <2>6, HostHolds DEF HostOK
<1>8. CASE ~lease.live /\ ~journal.held
  <2>1. /\ StoreIsFree /\ journal' = [held |-> TRUE, known |-> FALSE] /\ Go(p, "inspect") /\ lease' = lease
    BY <1>8 DEF LaunchRetains
  <2>2. stack["reconcile"] = <<>>
    BY <2>1 DEF StoreIsFree, Rests
  <2>3. Fine(p) /\ Rooted("launch")'
    BY <1>2, <1>3, <2>1, LaunchGoes
  <2>4. HostTypes' /\ journal'.held
    BY <1>2, <1>4, <2>1 DEF HostTypes
  <2> QED
    BY <1>2, <1>4, <2>1, <2>2, <2>3, <2>4, LaunchWorks
<1> QED
  BY <1>6, <1>7, <1>8

\* The launch is at rest again.
LEMMA LaunchEnds ==
  ASSUME IInv, NEW p \in Procs, p = "launch", UNCHANGED files, Fine(p), stack'[p] = <<>>, HostTypes',
         stack["reconcile"] = <<>>, lease'.live => journal'.held,
         lease'.count > 0 \/ lease'.retry => lease'.live
  PROVE  IInv'
<1>1. stack'["reconcile"] = <<>>
  BY TwoProcs DEF Fine, OtherCalls
<1>2. ~Busy("launch")' /\ ~Busy("reconcile")'
  BY <1>1 DEF Busy
<1>3. \A q \in Procs : Rooted(q)'
  BY <1>1, TwoProcs DEF Rooted
<1>4. Exclusive'
  BY <1>1, <1>2 DEF Exclusive
<1> QED
  BY <1>3, <1>4, HostHolds DEF HostOK

LEMMA LaunchChecksHolds ==
  ASSUME IInv, NEW p \in Procs, LaunchChecks(p), UNCHANGED user
  PROVE  IInv'
<1>1. MineKept
  BY QuietManifest DEF LaunchChecks, manifests
<1>2. PICK f, r : /\ Moves(p, f, r) /\ f.fn = "launch" /\ f.l \in Levels
                  /\ p = "launch" /\ stack[p] # <<>> /\ Len(stack[p]) = 1
                  /\ HostTypes /\ (lease.count > 0 \/ lease.retry => lease.live)
                  /\ stack["reconcile"] = <<>> /\ journal.held
  BY <1>1, LaunchNow DEF LaunchChecks
<1>3. armed' = armed /\ journal' = journal /\ UNCHANGED files
  BY DEF LaunchChecks
<1>4. "fail" \in Words /\ "undo" \in Words /\ "failed" \in Words /\ "ok" \in Words
  BY WordFacts
<1>5. CASE Return(p, "ok") /\ (lease' = lease \/ lease' = [lease EXCEPT !.live = TRUE, !.count = 1])
  <2>1. Fine(p) /\ stack'[p] = <<>>
    BY <1>2, <1>4, <1>5, EndsCall DEF Moves, IInv
  <2>2. CASE lease' = lease
    <3>1. HostTypes' /\ (lease'.count > 0 \/ lease'.retry => lease'.live)
      BY <1>2, <1>3, <2>2 DEF HostTypes
    <3> QED
      BY <1>2, <1>3, <2>1, <3>1, LaunchEnds
  <2>3. CASE lease' = [lease EXCEPT !.live = TRUE, !.count = 1]
    <3>1. lease \in [live : BOOLEAN, count : Int, written : BOOLEAN, added : BOOLEAN, retry : BOOLEAN]
      BY <1>2 DEF HostTypes
    <3>2. /\ lease'.live
          /\ lease' \in [live : BOOLEAN, count : Int, written : BOOLEAN, added : BOOLEAN, retry : BOOLEAN]
      <4>1. PICK z : z = [lease EXCEPT !.live = TRUE]
        OBVIOUS
      <4>2. z \in [live : BOOLEAN, count : Int, written : BOOLEAN, added : BOOLEAN, retry : BOOLEAN]
            /\ z.live
        BY <3>1, <4>1
      <4>3. lease' = [z EXCEPT !.count = 1]
        BY <2>3, <3>1, <4>1, <4>2
      <4> QED
        BY <4>2, <4>3
    <3>3. HostTypes'
      BY <1>2, <1>3, <3>2 DEF HostTypes
    <3> QED
      BY <1>2, <1>3, <2>1, <3>2, <3>3, LaunchEnds
  <2> QED
    BY <1>5, <2>2, <2>3
<1>6. CASE (Throw(p, "fail", "failed") \/ Throw(p, "undo", "failed")) /\ lease' = lease
  <2>1. Fine(p) /\ Rooted("launch")'
    BY <1>2, <1>4, <1>6, LaunchGoes
  <2>2. HostTypes'
    BY <1>2, <1>3, <1>6 DEF HostTypes
  <2> QED
    BY <1>2, <1>3, <1>6, <2>1, <2>2, LaunchWorks
<1>7. \/ Return(p, "ok") /\ (lease' = lease \/ lease' = [lease EXCEPT !.live = TRUE, !.count = 1])
      \/ (Throw(p, "fail", "failed") \/ Throw(p, "undo", "failed")) /\ lease' = lease
  BY DEF LaunchChecks
<1> QED
  BY <1>5, <1>6, <1>7

\* The frame that gives a lease back.
LEMMA LeaseFrame ==
  \E g \in FrameType : /\ g = Frame("release", "lease", 0) /\ g.fn = "release" /\ g.at = "lease" /\ g.l = 0
                       /\ FrameOK(g) /\ IsBottom(g)
<1>1. "release" \in Words /\ "lease" \in Words /\ 0 \in Nat /\ "lease" \in LeaseWork
  BY WordFacts DEF LeaseWork
<1>2. PICK g \in FrameType : g = Frame("release", "lease", 0) /\ g.fn = "release" /\ g.at = "lease" /\ g.l = 0
  BY <1>1, FrameMade
<1>3. FrameOK(g)
  BY <1>1, <1>2, FrameIntro, FirstLevel DEF OKRelease
<1> QED
  BY <1>1, <1>2, <1>3 DEF IsBottom

LEMMA LaunchFailsHolds ==
  ASSUME IInv, NEW p \in Procs, LaunchFails(p), UNCHANGED user
  PROVE  IInv'
<1>1. MineKept
  BY QuietManifest DEF LaunchFails, manifests
<1>2. PICK f, r : /\ Moves(p, f, r) /\ f.fn = "launch" /\ f.l \in Levels /\ F(p) = f /\ f \in FrameType /\ f.code \in Words
                  /\ p = "launch" /\ stack[p] # <<>> /\ Len(stack[p]) = 1
                  /\ HostTypes /\ (lease.count > 0 \/ lease.retry => lease.live)
                  /\ stack["reconcile"] = <<>> /\ journal.held
  BY <1>1, LaunchNow DEF LaunchFails
<1>3. armed' = armed /\ journal' = journal /\ UNCHANGED files
  BY DEF LaunchFails
<1>4. Framework /\ FilesOK' /\ Shuffled
  BY <1>2 DEF Moves, IInv
<1>5. CASE Shares(p)
  <2>1. lease' = [lease EXCEPT !.count = @ - 1]
    BY <1>5 DEF LaunchFails
  <2>2. /\ HostTypes' /\ lease'.live = lease.live /\ lease'.retry = lease.retry /\ lease.count \in Int
        /\ lease'.count = lease.count - 1
    BY <1>2, <1>3, <2>1 DEF HostTypes
  <2>3. lease'.count > 0 \/ lease'.retry => lease'.live
    BY <1>2, <2>2
  <2>4. CASE lease.count = 1
    <3>1. PICK g \in FrameType : /\ g = Frame("release", "lease", 0) /\ g.fn = "release" /\ g.at = "lease" /\ g.l = 0
                                 /\ FrameOK(g) /\ IsBottom(g)
      BY LeaseFrame
    <3>2. Frames(p, <<g>>) /\ res' = res
      BY <1>5, <2>4, <3>1 DEF LaunchFails, Continue
    <3>3. stack' = [stack EXCEPT ![p] = <<g>>]
      BY <1>2, <1>4, <3>2, OneFrame DEF Framework
    <3>4. Fine(p) /\ Bottom(p)' = g
      BY <1>2, <1>4, <3>1, <3>2, <3>3, BeginsCall
    <3>5. lease'.live
      BY <1>2, <2>2, <2>4
    <3>6. Rooted("launch")'
      BY <1>2, <3>1, <3>4, <3>5 DEF Rooted
    <3> QED
      BY <1>2, <1>3, <2>2, <2>3, <3>4, <3>6, LaunchWorks
  <2>5. CASE lease.count # 1
    <3>1. Return(p, f.code)
      BY <1>2, <1>5, <2>5 DEF LaunchFails
    <3>2. Fine(p) /\ stack'[p] = <<>>
      BY <1>2, <1>4, <3>1, EndsCall
    <3> QED
      BY <1>2, <1>3, <2>2, <2>3, <3>2, LaunchEnds
  <2> QED
    BY <2>4, <2>5
<1>6. CASE ~Shares(p)
  <2>1. lease' = NoLease /\ Enter(p, f, "cleaned", CleanUp(Identified(p)))
    BY <1>2, <1>6 DEF LaunchFails
  <2>2. "cleaned" \in Words
    BY WordFacts
  <2>3. Fine(p) /\ Rooted("launch")'
    BY <1>2, <2>1, <2>2, HostMade, LaunchEnters DEF HostFunctions
  <2>4. HostTypes' /\ (lease'.count > 0 \/ lease'.retry => lease'.live)
    BY <1>2, <1>3, <2>1, LeaseFacts DEF HostTypes
  <2> QED
    BY <1>2, <1>3, <2>3, <2>4, LaunchWorks
<1> QED
  BY <1>5, <1>6

LEMMA LaunchCleanedHolds ==
  ASSUME IInv, NEW p \in Procs, LaunchCleaned(p), UNCHANGED user
  PROVE  IInv'
<1>1. MineKept
  BY QuietManifest DEF LaunchCleaned, manifests
<1>2. PICK f, r : /\ Moves(p, f, r) /\ f.fn = "launch" /\ f.l \in Levels /\ F(p) = f /\ f \in FrameType /\ f.code \in Words
                  /\ p = "launch" /\ stack[p] # <<>> /\ Len(stack[p]) = 1
                  /\ HostTypes /\ (lease.count > 0 \/ lease.retry => lease.live)
                  /\ stack["reconcile"] = <<>> /\ journal.held
  BY <1>1, LaunchNow DEF LaunchCleaned
<1>3. lease' = lease /\ UNCHANGED files /\ Return(p, f.code)
  BY <1>2 DEF LaunchCleaned
<1>4. Bottom(p) = F(p) /\ F(p).fn = "launch" /\ F(p).at = "cleaned"
  BY LaunchAt DEF LaunchCleaned
<1>5. lease = NoLease
  BY <1>2, <1>4 DEF IInv, HostOK, Rooted
<1>6. (armed' = TRUE /\ journal' = journal) \/ (armed' = armed /\ journal' = NoJournal)
  BY DEF LaunchCleaned
<1>7. Fine(p) /\ stack'[p] = <<>>
  BY <1>2, <1>3, EndsCall DEF Moves, IInv
<1>8. HostTypes'
  BY <1>2, <1>3, <1>6, LeaseFacts DEF HostTypes
<1>9. ~lease'.live /\ ~(lease'.count > 0) /\ ~lease'.retry
  BY <1>3, <1>5, LeaseFacts
<1> QED
  BY <1>2, <1>3, <1>5, <1>7, <1>8, <1>9, LaunchEnds

LEMMA ReleasesLeaseHolds ==
  ASSUME IInv, NEW p \in Procs, ReleasesLease(p), UNCHANGED user
  PROVE  IInv'
<1>1. MineKept /\ UNCHANGED files
  BY QuietManifest DEF ReleasesLease, manifests
<1>2. "lease" \in LeaseWork /\ "lease done" \in LeaseWork /\ "lease done" \in Words
  BY WordFacts DEF LeaseWork
<1>3. PICK a : a = "lease done"
  OBVIOUS
<1>4. a \in LeaseWork /\ a \in Words
  BY <1>2, <1>3
<1>5. /\ p = "launch" /\ stack[p] # <<>> /\ Len(stack[p]) = 1 /\ Busy(p) /\ stack["reconcile"] = <<>>
      /\ journal.held /\ lease.live
  BY <1>2, ReleaseAt DEF ReleasesLease
<1>18. At(p, "release", "lease") /\ Framework /\ TopAt(p)
  BY DEF ReleasesLease, IInv
<1>6. PICK f, r : Now(p, f, r) /\ f.fn = "release" /\ f.at = "lease" /\ f.l \in Levels
  BY <1>18, NowFacts
<1>7. Moves(p, f, r) /\ F(p) = f /\ f \in FrameType
  BY <1>1, <1>6, QuietManifests DEF Now
<1>8. Enter(p, f, a, RollBack)
  BY <1>3, <1>7 DEF ReleasesLease
<1>9. PICK c : c = [f EXCEPT !.at = a]
  OBVIOUS
<1>10. c \in FrameType /\ c.fn = "release" /\ c.at = a
  BY <1>4, <1>6, <1>7, <1>9 DEF FrameType
<1>11. CallsOfHost(c, RollBack)
  BY <1>3, <1>10, HostMade DEF CallsOfHost
<1>12. Good(p)
  BY <1>2, <1>4, <1>6, <1>7, <1>8, <1>9, <1>11, HostMade, HostEnters DEF HostFunctions
<1>13. Frames(p, <<RollBack, c>>)
  BY <1>8, <1>9 DEF Enter
<1>14. Bottom(p)' = c
  BY <1>5, <1>10, <1>13, HostMade, OneFrame DEF IInv, Framework
<1>15. lease' = lease /\ journal' = journal /\ armed' = armed
  BY DEF ReleasesLease, host
<1>16. Rooted("launch")'
  BY <1>5, <1>10, <1>14, <1>15 DEF Rooted
<1>17. HostTypes' /\ (lease.count > 0 \/ lease.retry => lease.live)
  BY <1>15 DEF IInv, HostOK, HostTypes, Exclusive
<1> QED
  BY <1>1, <1>5, <1>12, <1>15, <1>16, <1>17, LaunchWorks DEF Good, Fine

LEMMA LeaseReleasedHolds ==
  ASSUME IInv, NEW p \in Procs, LeaseReleased(p), UNCHANGED user
  PROVE  IInv'
<1>1. MineKept /\ UNCHANGED files
  BY QuietManifest DEF LeaseReleased, manifests
<1>2. PICK a : a = "lease done"
  OBVIOUS
<1>3. a \in LeaseWork /\ At(p, "release", a)
  BY <1>2 DEF LeaseWork, LeaseReleased
<1>4. /\ p = "launch" /\ stack[p] # <<>> /\ Len(stack[p]) = 1 /\ Busy(p) /\ stack["reconcile"] = <<>>
      /\ journal.held /\ lease.live
  BY <1>3, ReleaseAt
<1>5. PICK f, r : Now(p, f, r)
  BY <1>3, NowFacts DEF IInv
<1>6. Moves(p, f, r) /\ R(p) = r /\ r \in ResultType
  BY <1>1, <1>5, QuietManifests DEF Now
<1>7. r.r \in Words /\ Return(p, r.r)
  BY <1>6 DEF LeaseReleased, ResultType
<1>8. Fine(p) /\ stack'[p] = <<>>
  BY <1>4, <1>6, <1>7, EndsCall DEF Moves, IInv
<1>9. armed' = armed
  BY DEF LeaseReleased
<1>10. HostTypes /\ journal \in [held : BOOLEAN, known : BOOLEAN]
  BY DEF IInv, HostOK, HostTypes
<1>11. \/ lease' = [lease EXCEPT !.retry = r.r = "failed"] /\ journal' = journal
       \/ lease' = NoLease /\ journal' = NoJournal
  BY <1>6 DEF LeaseReleased
<1>12. CASE lease' = [lease EXCEPT !.retry = r.r = "failed"] /\ journal' = journal
  <2>1. HostTypes' /\ lease'.live
    BY <1>4, <1>9, <1>10, <1>12 DEF HostTypes
  <2> QED
    BY <1>1, <1>4, <1>8, <1>9, <1>12, <2>1, LaunchEnds
<1>13. CASE lease' = NoLease /\ journal' = NoJournal
  <2>1. HostTypes' /\ ~lease'.live /\ ~(lease'.count > 0) /\ ~lease'.retry
    BY <1>9, <1>10, <1>13, LeaseFacts DEF HostTypes
  <2> QED
    BY <1>1, <1>4, <1>8, <1>9, <1>13, <2>1, LaunchEnds
<1> QED
  BY <1>11, <1>12, <1>13

LEMMA ReconcileNow ==
  ASSUME IInv, NEW p \in Procs, NEW a, At(p, "reconcile", a), UNCHANGED files, MineKept
  PROVE  \E f, r : /\ Moves(p, f, r) /\ f.fn = "reconcile" /\ f.l \in Levels /\ F(p) = f /\ R(p) = r
                   /\ f \in FrameType /\ r.r \in Words
                   /\ p = "reconcile" /\ stack[p] # <<>> /\ Len(stack[p]) = 1
                   /\ HostTypes /\ ~lease.live /\ ~Busy("launch")
                   /\ a # "start" => journal.held
<1>1. PICK f, r : /\ Moves(p, f, r) /\ f.fn = "reconcile" /\ f.at = a /\ f.l \in Levels /\ F(p) = f /\ R(p) = r
                  /\ f \in FrameType /\ r.r \in Words /\ r.text \in Texts
  BY HostNow DEF IInv, HostFunctions
<1>2. HostTypes
  BY DEF IInv, HostOK
<1> QED
  BY <1>1, <1>2, ReconcileAt

\* What a step of the reconciliation leaves to the launch.
LEMMA ReconcileWorks ==
  ASSUME IInv, NEW p \in Procs, p = "reconcile", UNCHANGED files, Fine(p), HostTypes', Rooted("reconcile")', ~Busy("launch"),
         ~lease.live, lease' = lease, Busy("reconcile")' => journal'.held
  PROVE  IInv'
<1>1. stack'["launch"] = stack["launch"] /\ ~Busy("launch")'
  BY TwoProcs DEF Fine, OtherCalls, Busy
<1>2. Exclusive'
  BY <1>1 DEF IInv, HostOK, Exclusive
<1>3. Rooted("launch")'
  BY <1>1, TwoProcs DEF IInv, HostOK, Rooted, Bottom
<1>4. HostOK'
  BY <1>2, <1>3, TwoProcs DEF HostOK
<1> QED
  BY <1>4, HostHolds

LEMMA ReconcileStartsHolds ==
  ASSUME IInv, NEW p \in Procs, ReconcileStarts(p), UNCHANGED user
  PROVE  IInv'
<1>1. MineKept
  BY QuietManifest DEF ReconcileStarts, manifests
<1>2. PICK f, r : /\ Moves(p, f, r) /\ f.fn = "reconcile" /\ f.l \in Levels /\ F(p) = f /\ f \in FrameType
                  /\ p = "reconcile" /\ stack[p] # <<>> /\ Len(stack[p]) = 1
                  /\ HostTypes /\ ~lease.live /\ ~Busy("launch")
  BY <1>1, ReconcileNow DEF ReconcileStarts
<1>3. journal' = journal /\ lease' = lease /\ armed' = armed /\ UNCHANGED files
  BY DEF ReconcileStarts
<1>4. HostTypes'
  BY <1>2, <1>3 DEF HostTypes
<1>5. "cleaned" \in Words /\ "ok" \in Words
  BY WordFacts
<1>6. CASE journal.held /\ Enter(p, f, "cleaned", CleanUp(journal.known))
  <2>1. PICK c : c = [f EXCEPT !.at = "cleaned"]
    OBVIOUS
  <2>2. c \in FrameType /\ c.fn = "reconcile" /\ c.at = "cleaned"
    BY <1>2, <1>5, <2>1 DEF FrameType
  <2>3. PICK g \in FrameType : g = CleanUp(journal.known) /\ g.fn = "cleanup" /\ g.l = 0
    BY HostMade
  <2>4. CallsOfHost(c, g)
    BY <2>2, <2>3 DEF CallsOfHost
  <2>5. Good(p)
    BY <1>2, <1>5, <1>6, <2>1, <2>3, <2>4, HostEnters DEF HostFunctions
  <2>6. Bottom(p)' = c
    BY <1>2, <1>6, <2>1, <2>2, <2>3, OneFrame DEF Enter, IInv, Framework
  <2>7. Rooted("reconcile")'
    BY <1>2, <2>2, <2>6 DEF Rooted
  <2> QED
    BY <1>2, <1>3, <1>4, <1>6, <2>5, <2>7, ReconcileWorks DEF Good, Fine
<1>7. CASE Return(p, "ok")
  <2>1. Fine(p) /\ stack'[p] = <<>>
    BY <1>2, <1>5, <1>7, EndsCall DEF Moves, IInv
  <2>2. Rooted("reconcile")' /\ ~Busy("reconcile")'
    BY <1>2, <2>1 DEF Rooted, Busy
  <2> QED
    BY <1>2, <1>3, <1>4, <2>1, <2>2, ReconcileWorks
<1>8. (journal.held /\ Enter(p, f, "cleaned", CleanUp(journal.known))) \/ Return(p, "ok")
  BY <1>2 DEF ReconcileStarts
<1> QED
  BY <1>6, <1>7, <1>8

LEMMA ReconcileCleanedHolds ==
  ASSUME IInv, NEW p \in Procs, ReconcileCleaned(p), UNCHANGED user
  PROVE  IInv'
<1>1. MineKept
  BY QuietManifest DEF ReconcileCleaned, manifests
<1>2. PICK f, r : /\ Moves(p, f, r) /\ f.fn = "reconcile" /\ f.l \in Levels /\ R(p) = r /\ r.r \in Words
                  /\ p = "reconcile" /\ stack[p] # <<>> /\ Len(stack[p]) = 1
                  /\ HostTypes /\ ~lease.live /\ ~Busy("launch") /\ journal.held
  BY <1>1, ReconcileNow DEF ReconcileCleaned
<1>3. /\ lease' = lease /\ UNCHANGED files /\ Return(p, r.r) /\ armed' = (armed \/ r.r = "failed")
      /\ journal' = IF r.r \in Errors THEN journal ELSE NoJournal
  BY <1>2 DEF ReconcileCleaned
<1>4. HostTypes'
  BY <1>2, <1>3, LeaseFacts DEF HostTypes, Errors
<1>5. Fine(p) /\ stack'[p] = <<>>
  BY <1>2, <1>3, EndsCall DEF Moves, IInv
<1>6. Rooted("reconcile")' /\ ~Busy("reconcile")'
  BY <1>2, <1>5 DEF Rooted, Busy
<1> QED
  BY <1>2, <1>3, <1>4, <1>5, <1>6, ReconcileWorks

-----------------------------------------------------------------------------
(* What comes from outside the two processes' code: launches, the holders of *)
(* a lease, the timer and crashes                                            *)

\* The calls and the files stay as they are.
LEMMA CallsStay ==
  ASSUME IInv, UNCHANGED <<files, calls>>, MineKept, NEW p \in Procs
  PROVE  Fine(p) /\ Bottom(p)' = Bottom(p) /\ \A q \in Procs : stack'[q] = stack[q] /\ (Busy(q)' <=> Busy(q))
<1>1. stack' = stack /\ res' = res /\ UNCHANGED files
  BY DEF calls
<1>2. FilesOK' /\ Shuffled /\ Framework
  BY <1>1, QuietWork DEF IInv, Framework
<1>3. CallsOK'
  BY <1>1, <1>2 DEF Framework, CallsOK, CallTypes, Linked
<1>4. OtherCalls(p) /\ Bottom(p)' = Bottom(p)
  BY <1>1 DEF OtherCalls, BottomKept, Bottom
<1>5. TopAt(p)'
  BY <1>1, QuietTop DEF IInv
<1>6. FrameTemps'
  <2>1. ASSUME NEW q \in Procs, NEW k \in 1..Len(stack[q])
        PROVE  FrameTemp(stack[q][k])'
    <3>1. PICK f : f = stack[q][k]
      OBVIOUS
    <3>2. FrameTemp(f) /\ f.l \in Levels
      BY <1>2, <3>1 DEF Framework, FrameTemps, CallsOK, Linked, FrameOK
    <3>3. FrameTemp(f)'
      BY <1>2, <3>2, ShuffledTemps DEF Framework, FilesOK, Placed
    <3> QED
      BY <1>1, <3>1, <3>3
  <2> QED
    BY <1>1, <2>1 DEF FrameTemps
<1>7. \A q \in Procs : stack'[q] = stack[q] /\ (Busy(q)' <=> Busy(q))
  BY <1>1 DEF Busy
<1> QED
  BY <1>2, <1>3, <1>4, <1>5, <1>6, <1>7 DEF Fine, Framework

\* A call begins for which a lease is live: the launch cleans it up.
LEMMA LeaseWorks ==
  ASSUME IInv, stack["launch"] = <<>>, UNCHANGED <<files, user, manifests, journal, armed>>,
         lease.live, lease'.live, HostTypes', Begin("launch", Frame("release", "lease", 0))
  PROVE  IInv'
<1>1. stack["reconcile"] = <<>> /\ journal.held
  BY DEF IInv, HostOK, Exclusive
<1>2. PICK g \in FrameType : g = Frame("release", "lease", 0) /\ g.fn = "release" /\ FrameOK(g) /\ IsBottom(g)
  BY LeaseFrame
<1>3. stack' = [stack EXCEPT !["launch"] = <<g>>] /\ res' = res
  BY <1>2 DEF Begin
<1>4. FilesOK' /\ Shuffled
  BY QuietManifest, QuietWork DEF IInv, Framework, manifests
<1>5. Fine("launch") /\ Bottom("launch")' = g
  BY <1>2, <1>3, <1>4, BeginsCall, TwoProcs DEF IInv, Framework
<1>6. Rooted("launch")' /\ stack'["reconcile"] = <<>>
  <2>1. stack'["reconcile"] = <<>>
    BY <1>1, <1>5, TwoProcs DEF Fine, OtherCalls
  <2> QED
    BY <1>2, <1>5, <2>1 DEF Rooted
<1>7. HostOK'
  BY <1>1, <1>6, LaunchOnly
<1> QED
  BY <1>5, <1>7, TwoProcs, HostHolds

LEMMA LeaseEdits ==
  ASSUME HostTypes, UNCHANGED <<journal, armed>>
  PROVE  /\ lease' = [lease EXCEPT !.count = @ - 1] =>
              /\ HostTypes' /\ lease'.live = lease.live /\ lease'.retry = lease.retry /\ lease'.count = lease.count - 1
         /\ lease' = [lease EXCEPT !.retry = FALSE] =>
              /\ HostTypes' /\ lease'.live = lease.live /\ ~lease'.retry /\ lease'.count = lease.count
<1>1. journal' = journal /\ armed' = armed /\ lease.count - 1 \in Int
  BY DEF HostTypes
<1>2. CASE lease' = [lease EXCEPT !.count = @ - 1]
  BY <1>1, <1>2 DEF HostTypes
<1>3. CASE lease' = [lease EXCEPT !.retry = FALSE]
  BY <1>1, <1>3 DEF HostTypes
<1>4. lease' = [lease EXCEPT !.count = @ - 1] /\ lease' = [lease EXCEPT !.retry = FALSE] =>
        lease'.count = lease.count - 1 /\ lease'.count = lease.count
  BY DEF HostTypes
<1> QED
  BY <1>1, <1>2, <1>3, <1>4

LEMMA HolderLeavesHolds ==
  ASSUME IInv, HolderLeaves
  PROVE  IInv'
<1>1. /\ stack["launch"] = <<>> /\ lease.count > 0 /\ lease' = [lease EXCEPT !.count = @ - 1]
      /\ UNCHANGED <<files, user, manifests, journal, armed>> /\ UNCHANGED <<journal, armed>>
  BY DEF HolderLeaves, Rests
<1>2. HostTypes /\ lease.live /\ stack["reconcile"] = <<>> /\ journal.held
  BY <1>1 DEF IInv, HostOK, Exclusive
<1>3. HostTypes' /\ lease'.live
  BY <1>1, <1>2, LeaseEdits
<1>4. CASE Begin("launch", Frame("release", "lease", 0))
  BY <1>1, <1>2, <1>3, <1>4, LeaseWorks
<1>5. CASE UNCHANGED calls
  <2>1. MineKept
    BY <1>1, QuietManifest DEF manifests
  <2>2. /\ Fine("launch") /\ stack'["launch"] = <<>> /\ stack'["reconcile"] = <<>> /\ ~Busy("launch")'
    BY <1>1, <1>2, <1>5, <2>1, CallsStay, TwoProcs DEF Busy
  <2>3. Rooted("launch")'
    BY <2>2 DEF Rooted
  <2>4. HostOK'
    BY <1>1, <1>2, <1>3, <2>2, <2>3, LaunchOnly
  <2> QED
    BY <1>1, <2>2, <2>4, TwoProcs, HostHolds
<1> QED
  BY <1>4, <1>5 DEF HolderLeaves

LEMMA LeaseRetriesHolds ==
  ASSUME IInv, LeaseRetries
  PROVE  IInv'
<1>1. /\ stack["launch"] = <<>> /\ lease.retry /\ lease' = [lease EXCEPT !.retry = FALSE]
      /\ UNCHANGED <<files, user, manifests, journal, armed>> /\ UNCHANGED <<journal, armed>>
      /\ Begin("launch", Frame("release", "lease", 0))
  BY DEF LeaseRetries, Rests
<1>2. HostTypes /\ lease.live
  BY <1>1 DEF IInv, HostOK, Exclusive
<1>3. HostTypes' /\ lease'.live
  BY <1>1, <1>2, LeaseEdits
<1> QED
  BY <1>1, <1>2, <1>3, LeaseWorks

LEMMA LaunchHolds ==
  ASSUME IInv, Launch
  PROVE  IInv'
<1>1. /\ stack["launch"] = <<>> /\ UNCHANGED <<files, user, manifests, journal, armed>> /\ UNCHANGED <<journal, armed>>
  BY DEF Launch, Rests
<1>2. HostTypes
  BY DEF IInv, HostOK
<1>3. CASE lease.live /\ lease.count = 0
  <2>1. Begin("launch", Frame("release", "lease", 0)) /\ lease' = [lease EXCEPT !.retry = FALSE]
    BY <1>3 DEF Launch
  <2>2. HostTypes' /\ lease'.live
    BY <1>1, <1>2, <1>3, <2>1, LeaseEdits
  <2> QED
    BY <1>1, <1>3, <2>1, <2>2, LeaseWorks
<1>4. CASE ~(lease.live /\ lease.count = 0)
  <2>1. Begin("launch", Frame("launch", "start", 0)) /\ lease' = lease
    BY <1>4 DEF Launch
  <2>2. "launch" \in Words /\ "start" \in Words /\ 0 \in Nat
    BY WordFacts
  <2>3. PICK g \in FrameType : g = Frame("launch", "start", 0) /\ g.fn = "launch" /\ g.at = "start" /\ g.l = 0
    BY <2>2, FrameMade
  <2>4. FrameOK(g) /\ IsBottom(g)
    BY <2>3, FrameIntro, FirstLevel DEF IsBottom
  <2>5. stack' = [stack EXCEPT !["launch"] = <<g>>] /\ res' = res
    BY <2>1, <2>3 DEF Begin
  <2>6. FilesOK' /\ Shuffled
    BY <1>1, QuietManifest, QuietWork DEF IInv, Framework, manifests
  <2>7. Fine("launch") /\ Bottom("launch")' = g /\ F("launch")' = g
    BY <1>1, <2>3, <2>4, <2>5, <2>6, BeginsCall, TwoProcs DEF IInv, Framework
  <2>8. Rooted("launch")' /\ ~Busy("launch")' /\ ~Busy("launch")
    BY <1>1, <2>3, <2>7 DEF Rooted, Busy, F
  <2>9. stack'["reconcile"] = stack["reconcile"]
    BY <2>7, TwoProcs DEF Fine, OtherCalls
  <2>10. Exclusive'
    BY <1>1, <2>1, <2>8, <2>9 DEF IInv, HostOK, Exclusive, Busy
  <2>11. Rooted("reconcile")'
    BY <2>1, <2>9, TwoProcs DEF IInv, HostOK, Rooted, Bottom
  <2>12. HostTypes'
    BY <1>1, <1>2, <2>1 DEF HostTypes
  <2>13. HostOK'
    BY <2>8, <2>10, <2>11, <2>12, TwoProcs DEF HostOK
  <2> QED
    BY <1>1, <2>7, <2>13, TwoProcs, HostHolds
<1> QED
  BY <1>3, <1>4

LEMMA ReconcileFrame ==
  \E g \in FrameType : /\ g = Frame("reconcile", "start", 0) /\ g.fn = "reconcile" /\ g.at = "start" /\ g.l = 0
                       /\ FrameOK(g) /\ IsBottom(g)
<1>1. "reconcile" \in Words /\ "start" \in Words /\ 0 \in Nat
  BY WordFacts
<1>2. PICK g \in FrameType : g = Frame("reconcile", "start", 0) /\ g.fn = "reconcile" /\ g.at = "start" /\ g.l = 0
  BY <1>1, FrameMade
<1> QED
  BY <1>2, FrameIntro, FirstLevel DEF IsBottom

\* It has not fired beside a lease, or a launch that is under way.
LEMMA TimerFiresHolds ==
  ASSUME IInv, CountsOK, TimerFires, Undisturbed'
  PROVE  IInv'
<1>1. /\ armed' \in BOOLEAN /\ UNCHANGED files /\ lease' = lease /\ journal' = journal
      /\ UNCHANGED <<user, manifests>> /\ Begin("reconcile", Frame("reconcile", "start", 0))
      /\ stack["reconcile"] = <<>>
  BY DEF TimerFires, StoreIsFree, Rests
<1>2. HostTypes /\ ~lease.live /\ ~Busy("launch")
  <2>1. counts' = [counts EXCEPT !.beside = @ \/ lease.live \/ ~(Rests("launch") \/ At("launch", "launch", "start"))]
    BY DEF TimerFires
  <2>2. ~lease.live /\ (Rests("launch") \/ At("launch", "launch", "start"))
    BY <2>1 DEF Undisturbed, CountsOK
  <2> QED
    BY <2>2 DEF IInv, HostOK, Rests, At, Busy
<1>3. PICK g \in FrameType : /\ g = Frame("reconcile", "start", 0) /\ g.fn = "reconcile" /\ g.at = "start"
                             /\ FrameOK(g) /\ IsBottom(g)
  BY ReconcileFrame
<1>4. stack' = [stack EXCEPT !["reconcile"] = <<g>>] /\ res' = res
  BY <1>1, <1>3 DEF Begin
<1>5. FilesOK' /\ Shuffled
  BY <1>1, QuietManifest, QuietWork DEF IInv, Framework, manifests
<1>6. Fine("reconcile") /\ Bottom("reconcile")' = g /\ F("reconcile")' = g
  BY <1>1, <1>3, <1>4, <1>5, BeginsCall, TwoProcs DEF IInv, Framework
<1>7. Rooted("reconcile")' /\ ~Busy("reconcile")'
  BY <1>3, <1>6 DEF Rooted, Busy, F
<1>8. HostTypes'
  BY <1>1, <1>2 DEF HostTypes
<1> QED
  BY <1>1, <1>2, <1>6, <1>7, <1>8, ReconcileWorks, TwoProcs

LEMMA OtherFailsHolds ==
  ASSUME IInv, OtherFails
  PROVE  IInv'
<1>1. /\ UNCHANGED <<files, calls>> /\ UNCHANGED files /\ UNCHANGED <<user, manifest, seized>> /\ armed' \in BOOLEAN
      /\ lease' = lease /\ journal' = journal /\ stack' = stack
  BY DEF OtherFails, manifests, calls
<1>2. HostTypes' /\ Exclusive'
  BY <1>1 DEF IInv, HostOK, HostTypes, Exclusive, Busy
<1>3. \A p \in Procs : Rooted(p)'
  BY <1>1 DEF IInv, HostOK, Rooted, Bottom
<1>4. HostOK'
  BY <1>2, <1>3 DEF HostOK
<1> QED
  BY <1>1, <1>4, QuietManifest, CallsStay, HostHolds, TwoProcs

LEMMA CrashHolds ==
  ASSUME IInv, Crash
  PROVE  IInv'
<1>1. /\ UNCHANGED <<user, manifests>> /\ UNCHANGED files /\ journal' = journal /\ lease' = NoLease /\ armed' = FALSE
      /\ stack' = [p \in Procs |-> IF p = "reconcile" THEN <<Frame("reconcile", "start", 0)>> ELSE <<>>]
      /\ res' = [p \in Procs |-> Nothing]
  BY DEF Crash
<1>2. PICK g \in FrameType : /\ g = Frame("reconcile", "start", 0) /\ g.fn = "reconcile" /\ g.at = "start"
                             /\ FrameOK(g) /\ IsBottom(g)
  BY ReconcileFrame
<1>3. FilesOK' /\ Shuffled
  BY <1>1, QuietManifest, QuietWork DEF IInv, Framework, manifests
<1>4. stack'["launch"] = <<>> /\ stack'["reconcile"] = <<g>>
  BY <1>1, <1>2, TwoProcs
<1>5. Nothing \in ResultType
  <2>1. "ok" \in Words
    BY WordFacts
  <2> QED
    BY <2>1 DEF Nothing, Result, ResultType, Empty, Texts
<1>6. CallsOK'
  <2>1. stack' \in [Procs -> Seq(FrameType)] /\ res' \in [Procs -> ResultType]
    BY <1>1, <1>2, <1>5
  <2>2. Linked(<<>>) /\ Linked(<<g>>)
    BY <1>2 DEF Linked
  <2> QED
    BY <1>4, <2>1, <2>2, TwoProcs DEF CallsOK, CallTypes
<1>7. FrameTemps'
  <2>1. FrameTemp(g)'
    BY <1>2 DEF FrameTemp
  <2>2. \A k \in 1..Len(<<g>>) : <<g>>[k] = g
    OBVIOUS
  <2>3. 1..Len(<<>>) = {}
    OBVIOUS
  <2> QED
    BY <1>4, <2>1, <2>2, <2>3, TwoProcs DEF FrameTemps
<1>8. F("reconcile")' = g /\ Bottom("reconcile")' = g /\ stack'["reconcile"] # <<>>
  BY <1>4 DEF F, Bottom
<1>9. TopAt("launch")' /\ TopAt("reconcile")'
  <2>1. PICK r : R("reconcile")' = r
    OBVIOUS
  <2>2. TopAt("reconcile")'
    BY <1>2, <1>8, <2>1, TopIntro
  <2> QED
    BY <1>4, <2>2 DEF TopAt
<1>10. HostTypes'
  BY <1>1, LeaseFacts DEF IInv, HostOK, HostTypes
<1>11. Rooted("launch")' /\ Rooted("reconcile")' /\ ~Busy("launch")' /\ ~Busy("reconcile")'
  BY <1>2, <1>4, <1>8 DEF Rooted, Busy, F
<1>12. Exclusive'
  BY <1>1, <1>11, LeaseFacts DEF Exclusive
<1> QED
  BY <1>3, <1>6, <1>7, <1>9, <1>10, <1>11, <1>12, TwoProcs DEF IInv, Framework, HostOK

\* The host and the calls stay as they are.
LEMMA HostStands ==
  ASSUME HostOK, UNCHANGED <<calls, host>>
  PROVE  HostOK'
<1>1. stack' = stack /\ lease' = lease /\ armed' = armed /\ journal' = journal
  BY DEF calls, host
<1>2. HostTypes' /\ Exclusive'
  BY <1>1 DEF HostOK, HostTypes, Exclusive, Busy
<1>3. \A p \in Procs : Rooted(p)'
  BY <1>1 DEF HostOK, Rooted, Bottom
<1> QED
  BY <1>2, <1>3 DEF HostOK

LEMMA UserOpensHolds ==
  ASSUME IInv, UserOpens
  PROVE  IInv'
<1>1. UNCHANGED <<files, calls>> /\ UNCHANGED <<calls, host>> /\ UNCHANGED files
  BY DEF UserOpens
<1>2. MineKept
  BY DEF UserOpens, MineKept, Mine, manifests
<1> QED
  BY <1>1, <1>2, CallsStay, HostStands, HostHolds, TwoProcs DEF IInv

LEMMA UserMakesManifestHolds ==
  ASSUME IInv, UserMakesManifest
  PROVE  IInv'
<1>1. UNCHANGED <<files, calls>> /\ UNCHANGED <<calls, host>> /\ UNCHANGED files
  BY DEF UserMakesManifest
<1>2. MineKept
  <2>1. manifest' \in {"edited", "user"} /\ written' = written \cup {"manifest"} /\ seized' = seized /\ manifest \in {"none", "host"}
    BY DEF UserMakesManifest
  <2> QED
    BY <2>1 DEF MineKept, Mine
<1> QED
  BY <1>1, <1>2, CallsStay, HostStands, HostHolds, TwoProcs DEF IInv

-----------------------------------------------------------------------------
(* What the user writes goes to the public name: every other name keeps its  *)
(* file, whose text changes only where it is the public one too              *)

UserWrites ==
    /\ FileTypes' /\ dirs' = dirs
    /\ (names[Public] # 0 => names'[Public] # 0)
    /\ PublicLines \subseteq PublicLines'
    /\ \A n \in Names \ {Public} :
          /\ names'[n] = names[n]
          /\ (names[n] # 0 =>
                /\ text[names[n]].lines \subseteq text'[names[n]].lines
                /\ text'[names[n]] = text[names[n]] \/ (names[Public] = names[n] /\ names'[Public] = names[n])
                /\ (names'[Public] = names[n] => names[Public] = names[n]))

\* The same of a level: c is the file of one of its names.
LEMMA WritesLevel ==
  ASSUME UserWrites
  PROVE  \A l \in Levels :
           /\ Dir(l)' = Dir(l) /\ Cap(l)' = Cap(l) /\ Rel(l)' = Rel(l) /\ Tmp(l)' = Tmp(l)
           /\ \A c \in {Cap(l), Rel(l), Tmp(l)} : c # 0 =>
                /\ text[c].lines \subseteq text'[c].lines
                /\ text'[c] = text[c] \/ (names[Public] = c /\ names'[Public] = c)
                /\ (names'[Public] = c => names[Public] = c)
<1> TAKE l \in Levels
<1>1. /\ Captured(l, "replace") \in Names \ {Public} /\ Release(l, "replace") \in Names \ {Public}
      /\ Temp(l) \in Names \ {Public}
  BY NameFacts
<1>2. dirs' = dirs
  BY DEF UserWrites
<1> QED
  BY <1>1, <1>2 DEF UserWrites, Dir, Cap, Rel, Tmp

LEMMA WritesPlaced ==
  ASSUME Placed, UserWrites
  PROVE  Placed'
<1>1. FileTypes' /\ dirs' = dirs
  BY DEF UserWrites
<1>2. NoRoll'
  <2>1. \A l \in Levels : /\ Captured(l, "rollback") \in Names \ {Public}
                          /\ Release(l, "rollback") \in Names \ {Public}
    BY NameFacts
  <2> QED
    BY <1>1, <2>1 DEF Placed, NoRoll, UserWrites
<1>3. Temps'
  BY WritesLevel DEF Placed, Temps
<1>4. \A l \in Levels : DirFiles(l)'
  BY WritesLevel DEF Placed, AllDirs, DirFiles, Beyond, Tidy
<1>5. ASSUME NEW l \in Levels
      PROVE  Superseded(l)'
  <2> SUFFICES ASSUME Exposed(l)', NEW c \in {Captured(l, "replace"), Release(l, "replace")},
                      names'[c] # 0, names'[c] # Tmp(l)'
               PROVE  /\ text'[names'[c]].lines \subseteq text'[Tmp(l)'].lines
                      /\ \A n \in Upper(l) : names'[n] # names'[c]
    BY DEF Superseded, Upper
  <2>1. /\ Tmp(l)' = Tmp(l) /\ Tmp(l) # 0 /\ c \in Names \ {Public} /\ names'[c] = names[c]
        /\ \A n \in Upper(l) : n \in Names
        /\ \A n \in Upper(l) : n # Public => names'[n] = names[n]
    <3>1. c \in Names \ {Public} /\ \A n \in Upper(l) : n \in Names
      BY NameFacts DEF Upper, Levels
    <3>2. Tmp(l)' = Tmp(l) /\ Tmp(l) # 0
      BY WritesLevel DEF Exposed
    <3> QED
      BY <3>1, <3>2 DEF UserWrites
  <2>2. Exposed(l)
    <3>1. PICK n \in Upper(l) : names'[n] = Tmp(l)
      BY <2>1 DEF Exposed, Upper
    <3>2. names[n] = Tmp(l)
      BY <2>1, <3>1, WritesLevel
    <3> QED
      BY <2>1, <3>2 DEF Exposed
  <2>3. /\ text[names[c]].lines \subseteq text[Tmp(l)].lines
        /\ \A n \in Upper(l) : names[n] # names[c]
    BY <2>1, <2>2 DEF Placed, AllDirs, Superseded
  <2>4. Public \in Upper(l)
    BY DEF Upper
  <2>5. names'[Public] # names[c] /\ text'[names[c]] = text[names[c]]
    BY <2>1, <2>3, <2>4 DEF UserWrites
  <2>6. text[Tmp(l)].lines \subseteq text'[Tmp(l)].lines
    BY <2>1, WritesLevel
  <2> QED
    BY <2>1, <2>3, <2>5, <2>6
<1> QED
  BY <1>1, <1>2, <1>3, <1>4, <1>5 DEF Placed, AllDirs

LEMMA WritesTemp ==
  ASSUME UserWrites, NEW f, f.l \in Levels, FrameTemp(f)
  PROVE  FrameTemp(f)'
<1> SUFFICES ASSUME f.fn = "replace", f.at \in {"captured", "publish"}, Tmp(f.l)' # 0
             PROVE  /\ f.next.lines \subseteq text'[Tmp(f.l)'].lines
                    /\ \A n \in Names \ {Temp(f.l)} : names'[n] # Tmp(f.l)'
  BY DEF FrameTemp
<1>1. Tmp(f.l)' = Tmp(f.l) /\ text[Tmp(f.l)].lines \subseteq text'[Tmp(f.l)].lines
  BY WritesLevel
<1>2. f.next.lines \subseteq text[Tmp(f.l)].lines /\ \A n \in Names \ {Temp(f.l)} : names[n] # Tmp(f.l)
  BY <1>1 DEF FrameTemp
<1>3. Public \in Names \ {Temp(f.l)}
  BY NameFacts
<1>4. names'[Public] # Tmp(f.l)
  BY <1>1, <1>2, <1>3, WritesLevel
<1> QED
  BY <1>1, <1>2, <1>4 DEF UserWrites

LEMMA WritesSole ==
  ASSUME UserWrites, NEW l \in Levels, NEW i, NEW t, Sole(l, i, t)
  PROVE  Sole(l, i, t)'
<1>1. /\ i # 0 /\ i # names[Public] /\ text[i] = t
      /\ Cap(l) \in {0, i} /\ Rel(l) \in {0, i} /\ (Cap(l) = i \/ Rel(l) = i)
  BY DEF Sole
<1>2. i # names'[Public] /\ text'[i] = t
  BY <1>1, WritesLevel
<1> QED
  BY <1>1, <1>2, WritesLevel DEF Sole

LEMMA WritesTop ==
  ASSUME UserWrites, NEW f, NEW r, f.l \in Levels, Top(f, r)
  PROVE  Top(f, r)'
<1>1. \A t : Safe(t) => Safe(t)'
  BY DEF Safe, UserWrites
<1>2. \A l \in Levels : (Tidy(l)' <=> Tidy(l)) /\ (Beyond(l)' <=> Beyond(l)) /\ (Beneath(l)' <=> Beneath(l))
  BY WritesLevel DEF Tidy, Beyond, Beneath
<1>3. Dir(f.l)' = Dir(f.l) /\ Cap(f.l)' = Cap(f.l) /\ Rel(f.l)' = Rel(f.l)
  BY WritesLevel
<1>4. Cap(f.l) # 0 => text[Cap(f.l)].lines \subseteq text'[Cap(f.l)].lines
  BY WritesLevel
<1>5. TopCapture(f)' /\ TopUnroll(f)'
  BY <1>2, <1>3 DEF Top, TopCapture, TopUnroll
<1>6. TopRestore(f)'
  <2>1. ASSUME Cap(f.l) # 0, names[Public] # 0, Safe(text[Cap(f.l)])
        PROVE  names'[Public] # 0 /\ Safe(text[Cap(f.l)])'
    <3>1. names'[Public] # 0
      BY <2>1 DEF UserWrites
    <3>2. CASE text'[Cap(f.l)] = text[Cap(f.l)]
      BY <1>1, <1>3, <2>1, <3>1, <3>2 DEF Safe, UserWrites
    <3>3. CASE names'[Public] = Cap(f.l)
      BY <1>3, <3>1, <3>3 DEF Safe, PublicLines
    <3> QED
      BY <2>1, <3>1, <3>2, <3>3, WritesLevel
  <2> QED
    BY <1>2, <1>3, <2>1 DEF Top, TopRestore
<1>7. TopRemove(f)'
  <2>1. Sole(f.l, f.inode, f.text) => Sole(f.l, f.inode, f.text)'
    BY WritesSole
  <2>2. Safe(f.text) => Safe(f.text)'
    BY <1>1
  <2> QED
    BY <1>2, <1>3, <1>4, <2>1, <2>2 DEF Top, TopRemove
<1>8. TopRelease(f, r)'
  <2>1. Safe(f.text) => Safe(f.text)'
    BY <1>1
  <2>2. (\A t \in f.req : Safe(t)) => \A t \in f.req : Safe(t)'
    BY <1>1
  <2> QED
    BY <1>2, <1>3, <1>4, <2>1, <2>2 DEF Top, TopRelease
<1>9. TopMerge(f, r)'
  BY <1>2, <1>3 DEF Top, TopMerge
<1>10. TopReplace(f, r)'
  <2>1. /\ Sole(f.l, r.inode, r.text) => Sole(f.l, r.inode, r.text)'
        /\ Sole(f.l, f.inode, f.text) => Sole(f.l, f.inode, f.text)'
    BY WritesSole
  <2>2. Safe(f.text) => Safe(f.text)'
    BY <1>1
  <2> QED
    BY <1>2, <1>3, <2>1, <2>2 DEF Top, TopReplace
<1>11. TopRecover(f, r)'
  <2>1. Safe(f.text) => Safe(f.text)'
    BY <1>1
  <2>2. (\A t \in f.req : Safe(t)) => \A t \in f.req : Safe(t)'
    BY <1>1
  <2>3. Got(f.l, r) => Got(f.l, r)'
    BY <1>3, <1>4 DEF Got
  <2>4. ASSUME f.fn = "recover", f.at = "reconciled", r.r = "ok"
        PROVE  Dir(f.l + 1)' = "none" /\ Beyond(f.l + 1)'
    <3>1. Dir(f.l + 1) = "none" /\ Beyond(f.l + 1)
      BY <2>4 DEF Top, TopRecover
    <3>2. Dir(f.l + 1)' = Dir(f.l + 1)
      BY DEF Dir, UserWrites
    <3>3. Beyond(f.l + 1)'
      BY <1>2, <3>1 DEF Beyond
    <3> QED
      BY <3>1, <3>2, <3>3
  <2> QED
    BY <1>2, <1>3, <2>1, <2>2, <2>3, <2>4 DEF Top, TopRecover
<1>12. TopRules(f, r)'
  <2>1. 0 \in Levels
    BY FirstLevel
  <2>2. Dir(0)' = Dir(0) /\ (AllTidy' <=> AllTidy)
    BY <1>2, <2>1, WritesLevel DEF AllTidy
  <2> QED
    BY <1>2, <2>1, <2>2 DEF Top, TopRules
<1> QED
  BY <1>5, <1>6, <1>7, <1>8, <1>9, <1>10, <1>11, <1>12 DEF Top

LEMMA WritesHold ==
  ASSUME IInv, UserWrites, UNCHANGED <<calls, manifests, host>>, UNCHANGED <<calls, host>>,
         \A work \in written' : work \in written \/ work \in PublicLines'
  PROVE  IInv'
<1>1. stack' = stack /\ res' = res /\ manifest' = manifest /\ seized' = seized
  BY DEF calls, manifests
<1>2. Placed'
  BY WritesPlaced DEF IInv, Framework, FilesOK
<1>3. KeptInv'
  <2> SUFFICES ASSUME NEW work \in written'
               PROVE  InPlace(work)' \/ Mine(work)'
    BY DEF KeptInv
  <2>1. work \in PublicLines' => InPlace(work)'
    <3>1. Public \in Places'
      BY DEF Places
    <3> QED
      BY <3>1 DEF PublicLines, InPlace
  <2>2. ASSUME InPlace(work)
        PROVE  InPlace(work)'
    <3>1. PICK n \in Places : names[n] # 0 /\ work \in text[names[n]].lines
      BY <2>2 DEF InPlace
    <3>2. CASE n = Public
      <4>1. work \in PublicLines
        BY <3>1, <3>2 DEF PublicLines
      <4> QED
        BY <2>1, <4>1 DEF UserWrites
    <3>3. CASE n # Public
      <4>1. n \in Names \ {Public}
        BY <3>3, NameFacts DEF Places
      <4>2. n \in Places'
        BY DEF Places, Dir, UserWrites
      <4> QED
        BY <3>1, <4>1, <4>2 DEF UserWrites, InPlace
    <3> QED
      BY <3>2, <3>3
  <2>3. Mine(work) => Mine(work)'
    BY <1>1 DEF Mine
  <2> QED
    BY <2>1, <2>2, <2>3 DEF IInv, Framework, FilesOK, KeptInv
<1>4. CallsOK'
  BY <1>1 DEF IInv, Framework, CallsOK, CallTypes, Linked
<1>5. \A q \in Procs : \A k \in 1..Len(stack[q]) : stack[q][k].l \in Levels
  BY DEF IInv, Framework, CallsOK, Linked, FrameOK
<1>6. FrameTemps'
  <2>1. ASSUME NEW q \in Procs, NEW k \in 1..Len(stack[q])
        PROVE  FrameTemp(stack[q][k])'
    <3>1. PICK f : f = stack[q][k]
      OBVIOUS
    <3>2. FrameTemp(f) /\ f.l \in Levels
      BY <1>5, <3>1 DEF IInv, Framework, FrameTemps
    <3>3. FrameTemp(f)'
      BY <3>2, WritesTemp
    <3> QED
      BY <1>1, <3>1, <3>3
  <2> QED
    BY <1>1, <2>1 DEF FrameTemps
<1>7. ASSUME NEW q \in Procs
      PROVE  TopAt(q)'
  <2> SUFFICES ASSUME stack[q] # <<>>
               PROVE  Top(F(q), R(q))'
    BY <1>1 DEF TopAt
  <2>1. PICK f : f = F(q)
    OBVIOUS
  <2>2. PICK r : r = R(q)
    OBVIOUS
  <2>3. Top(f, r) /\ f.l \in Levels
    <3>1. f.l \in Levels
      BY <2>1, BottomFacts DEF IInv, Framework, FrameOK
    <3> QED
      BY <2>1, <2>2, <3>1 DEF IInv, TopAt
  <2>4. Top(f, r)'
    BY <2>3, WritesTop
  <2>5. F(q)' = f /\ R(q)' = r
    BY <1>1, <2>1, <2>2 DEF F, R
  <2> QED
    BY <2>4, <2>5
<1>8. HostOK'
  BY HostStands DEF IInv
<1> QED
  BY <1>2, <1>3, <1>4, <1>6, <1>7, <1>8 DEF IInv, Framework, FilesOK
\* A line appended to a file with a name goes to the public one, unless it is late.
LEMMA UserAppendsHolds ==
  ASSUME IInv, fds \subseteq Inodes, UserAppends, late' = {}
  PROVE  IInv'
<1>1. PICK i \in fds, line \in Lines :
        /\ text' = [text EXCEPT ![i].lines = @ \cup {line}]
        /\ written' = IF names[Public] = i THEN written \cup {line} ELSE written
        /\ late' = IF names[Public] # i /\ Links(i) > 0 THEN late \cup {line} ELSE late
        /\ UNCHANGED <<names, dirs, calls, manifests, host>>
  BY DEF UserAppends
<1>2. FileTypes /\ i \in Inodes /\ names' = names /\ dirs' = dirs
  BY <1>1 DEF IInv, Framework, FilesOK, Placed
<1>3. names[Public] = i \/ \A n \in Names : names[n] # i
  <2>1. names[Public] = i \/ ~(Links(i) > 0)
    BY <1>1
  <2> QED
    BY <2>1, LinkCount
<1>4. /\ text[i] \in Texts /\ text'[i] \in Texts /\ text[i].lines \subseteq text'[i].lines /\ line \in text'[i].lines
      /\ \A j \in Inodes : j # i => text'[j] = text[j]
      /\ text' \in [Inodes -> Texts]
  <2>1. PICK t : t = [text[i] EXCEPT !.lines = @ \cup {line}]
    OBVIOUS
  <2>2. text[i] \in Texts
    BY <1>2 DEF FileTypes
  <2>3. t \in Texts /\ text[i].lines \subseteq t.lines /\ line \in t.lines
    BY <2>1, <2>2 DEF Texts
  <2>4. text' = [text EXCEPT ![i] = t]
    BY <1>1, <2>1
  <2> QED
    BY <1>2, <2>2, <2>3, <2>4 DEF FileTypes
<1>5. names[Public] \in {0} \cup Inodes /\ \A n \in Names : names[n] \in {0} \cup Inodes
  BY <1>2, NameFacts DEF FileTypes
<1>6. UserWrites
  <2>1. FileTypes'
    BY <1>2, <1>4 DEF FileTypes
  <2>2. PublicLines \subseteq PublicLines'
    BY <1>2, <1>4, <1>5 DEF PublicLines
  <2>3. ASSUME NEW n \in Names \ {Public}, names[n] # 0
        PROVE  /\ text[names[n]].lines \subseteq text'[names[n]].lines
               /\ text'[names[n]] = text[names[n]] \/ names[Public] = names[n]
    BY <1>3, <1>4, <1>5, <2>3
  <2> QED
    BY <1>2, <2>1, <2>2, <2>3 DEF UserWrites
<1>7. \A work \in written' : work \in written \/ work \in PublicLines'
  <2>1. names[Public] = i => line \in PublicLines'
    BY <1>2, <1>4, InodeFacts DEF PublicLines
  <2> QED
    BY <1>1, <2>1
<1> QED
  BY <1>1, <1>6, <1>7, WritesHold

LEMMA UserSavesHolds ==
  ASSUME IInv, UserSaves
  PROVE  IInv'
<1>1. PICK line \in Lines :
        /\ NewFile(Public, IF names[Public] = 0 THEN [lines |-> {line}, blocks |-> 0]
                           ELSE [text[names[Public]] EXCEPT !.lines = @ \cup {line}])
        /\ written' = written \cup {line} /\ Fresh # {}
        /\ UNCHANGED <<calls, manifests, host>> /\ UNCHANGED <<calls, host>>
  BY DEF UserSaves
<1>2. FileTypes /\ Public \in Names
  BY NameFacts DEF IInv, Framework, FilesOK, Placed
<1>3. PICK t : t = IF names[Public] = 0 THEN [lines |-> {line}, blocks |-> 0]
                   ELSE [text[names[Public]] EXCEPT !.lines = @ \cup {line}]
  OBVIOUS
<1>4. t \in Texts /\ line \in t.lines /\ PublicLines \subseteq t.lines
  <2>1. CASE names[Public] = 0
    BY <1>3, <2>1 DEF Texts, PublicLines
  <2>2. CASE names[Public] # 0
    <3>1. text[names[Public]] \in Texts
      BY <1>2, <2>2 DEF FileTypes
    <3> QED
      BY <1>3, <2>2, <3>1 DEF Texts, PublicLines
  <2> QED
    BY <2>1, <2>2
<1>5. /\ FileTypes' /\ dirs' = dirs /\ names'[Public] # 0 /\ text'[names'[Public]] = t
      /\ \A m \in Names : names[m] # names'[Public] /\ (m # Public => names'[m] = names[m])
      /\ \A m \in Names : names[m] # 0 => text'[names[m]] = text[names[m]]
  BY <1>1, <1>2, <1>3, <1>4, FreshFile
<1>6. PublicLines' = t.lines
  BY <1>5 DEF PublicLines
<1>7. UserWrites
  BY <1>4, <1>5, <1>6 DEF UserWrites
<1> QED
  BY <1>1, <1>4, <1>6, <1>7, WritesHold

-----------------------------------------------------------------------------
(* The invariant holds, as long as no program writes to a generation that    *)
(* the Host has captured                                                     *)

LEMMA LaunchStepHolds ==
  ASSUME IInv, NEW p \in Procs, UNCHANGED user,
         \/ LaunchRetains(p) \/ LaunchInspects(p) \/ LaunchExcluded(p) \/ LaunchStages(p)
         \/ LaunchPublishes(p) \/ LaunchIdentifies(p) \/ LaunchFinalizes(p) \/ LaunchChecks(p)
         \/ LaunchUndoes(p) \/ LaunchFails(p) \/ LaunchCleaned(p)
  PROVE  IInv'
BY LaunchRetainsHolds, LaunchInspectsHolds, LaunchExcludedHolds, LaunchStagesHolds, LaunchPublishesHolds,
   LaunchIdentifiesHolds, LaunchFinalizesHolds, LaunchChecksHolds, LaunchUndoesHolds, LaunchFailsHolds,
   LaunchCleanedHolds, Zenon

LEMMA CallerStepHolds ==
  ASSUME IInv, NEW p \in Procs, UNCHANGED user,
         ReleasesLease(p) \/ LeaseReleased(p) \/ ReconcileStarts(p) \/ ReconcileCleaned(p)
  PROVE  IInv'
BY ReleasesLeaseHolds, LeaseReleasedHolds, ReconcileStartsHolds, ReconcileCleanedHolds, Zenon

LEMMA StepHolds ==
  ASSUME IInv, Wrote, NEW p \in Procs, Step(p)
  PROVE  IInv' /\ UNCHANGED user
<1>1. UNCHANGED user
  BY DEF Step
<1>2. \/ FileStep(p) /\ UNCHANGED <<manifests, host>>
      \/ WithinStep(p)
      \/ (\/ LaunchRetains(p) \/ LaunchInspects(p) \/ LaunchExcluded(p) \/ LaunchStages(p)
          \/ LaunchPublishes(p) \/ LaunchIdentifies(p) \/ LaunchFinalizes(p) \/ LaunchChecks(p)
          \/ LaunchUndoes(p) \/ LaunchFails(p) \/ LaunchCleaned(p))
      \/ (ReleasesLease(p) \/ LeaseReleased(p) \/ ReconcileStarts(p) \/ ReconcileCleaned(p))
  BY Zenon DEF Step, WithinStep
<1>3. CASE FileStep(p) /\ UNCHANGED <<manifests, host>>
  <2>1. UNCHANGED <<manifests, host, user>>
    BY <1>1, <1>3
  <2> QED
    BY <1>3, <2>1, <1>1, FileStepHolds
<1>4. CASE WithinStep(p)
  BY <1>1, <1>4, WithinStepHolds
<1> QED
  BY <1>1, <1>2, <1>3, <1>4, LaunchStepHolds, CallerStepHolds, Zenon

LEMMA InitHolds ==
  ASSUME Init
  PROVE  IInv /\ fds \subseteq Inodes /\ CountsOK /\ (~counts.bare => Wrote) /\ ~counts.beside /\ ~armed
<1>1. PICK lines \in {{}} \cup {{line} : line \in Lines} :
        /\ names = [n \in Names |-> IF n = Public /\ lines # {} THEN 1 ELSE 0]
        /\ text = [i \in Inodes |-> IF i = 1 THEN [lines |-> lines, blocks |-> 0] ELSE Empty]
        /\ written = lines
  BY DEF Init
<1>2. 1 \in Inodes /\ Public \in Names
  BY ProjectFileAssumption, NameFacts DEF Inodes
<1>3. FileTypes
  <2>1. [lines |-> lines, blocks |-> 0] \in Texts /\ Empty \in Texts
    BY DEF Texts, Empty
  <2>2. text \in [Inodes -> Texts]
    BY <1>1, <2>1
  <2>3. names \in [Names -> {0} \cup Inodes]
    BY <1>1, <1>2
  <2>4. dirs \in [Levels \X Areas -> {"none", "open", "released"}]
    BY DEF Init
  <2> QED
    BY <2>2, <2>3, <2>4 DEF FileTypes
<1>4. \A l \in Levels : Dir(l) = "none" /\ Cap(l) = 0 /\ Rel(l) = 0 /\ Tmp(l) = 0 /\ Tidy(l)
  BY <1>1, NameFacts DEF Init, Dir, Cap, Rel, Tmp, Tidy
<1>5. NoRoll
  BY <1>1, NameFacts DEF Init, NoRoll
<1>6. Placed
  BY <1>3, <1>4, <1>5 DEF Placed, AllDirs, DirFiles, Superseded, Exposed, Temps, Beyond
<1>7. KeptInv
  <2> SUFFICES ASSUME NEW work \in written
               PROVE  InPlace(work)
    BY DEF KeptInv
  <2>1. names[Public] = 1 /\ work \in text[1].lines
    BY <1>1, <1>2
  <2> QED
    BY <2>1 DEF InPlace, Places
<1>8. stack = [p \in Procs |-> <<>>] /\ res = [p \in Procs |-> Nothing]
  BY DEF Init
<1>9. CallsOK /\ FrameTemps /\ \A p \in Procs : TopAt(p) /\ Rooted(p) /\ ~Busy(p)
  <2>1. Nothing \in ResultType
    <3>1. "ok" \in Words
      BY WordFacts
    <3> QED
      BY <3>1 DEF Nothing, Result, ResultType, Empty, Texts
  <2>2. stack \in [Procs -> Seq(FrameType)] /\ res \in [Procs -> ResultType]
    BY <1>8, <2>1
  <2>3. \A p \in Procs : stack[p] = <<>> /\ Linked(<<>>) /\ 1..Len(stack[p]) = {}
    BY <1>8 DEF Linked
  <2> QED
    BY <2>2, <2>3 DEF CallsOK, CallTypes, FrameTemps, TopAt, Rooted, Busy
<1>10. HostTypes /\ Exclusive
  <2>1. journal = NoJournal /\ lease = NoLease /\ armed \in BOOLEAN
    BY DEF Init
  <2>2. stack["reconcile"] = <<>> /\ ~Busy("launch") /\ ~Busy("reconcile")
    BY <1>8, <1>9, TwoProcs
  <2>3. HostTypes
    BY <2>1, LeaseFacts DEF HostTypes
  <2> QED
    BY <2>1, <2>2, <2>3, LeaseFacts DEF Exclusive
<1>11. CountsOK /\ (~counts.bare => Wrote) /\ ~counts.beside
  <2>1. counts = [edits |-> 0, launches |-> 0, crashes |-> 0, others |-> 0, bare |-> written = {}, beside |-> FALSE]
    BY DEF Init
  <2> QED
    BY <1>1, <2>1 DEF CountsOK, Wrote
<1> QED
  BY <1>6, <1>7, <1>9, <1>10, <1>11 DEF IInv, Framework, FilesOK, HostOK, Init

LEMMA StutterHolds ==
  ASSUME IInv, UNCHANGED vars
  PROVE  IInv'
<1>1. UNCHANGED <<files, calls>> /\ UNCHANGED <<calls, host>> /\ UNCHANGED files /\ UNCHANGED <<user, manifest, seized>>
  BY DEF vars, manifests
<1> QED
  BY <1>1, QuietManifest, CallsStay, HostStands, HostHolds, TwoProcs DEF IInv

(***************************************************************************)
(* What a step does to what the invariant is conditional on.               *)
(***************************************************************************)
Onward == /\ CountsOK' /\ counts'.bare = counts.bare /\ (counts.beside => counts'.beside)
          /\ (late' = {} => late = {}) /\ written \subseteq written'

LEMMA Counting ==
  ASSUME CountsOK, NEW what \in {"edits", "launches", "crashes", "others"}, Count(what)
  PROVE  CountsOK' /\ counts'.bare = counts.bare /\ counts'.beside = counts.beside
BY DEF CountsOK, Count

LEMMA NextOnward ==
  ASSUME CountsOK, [Next]_vars
  PROVE  Onward
<1>1. CASE UNCHANGED user /\ counts' = counts
  BY <1>1 DEF Onward, CountsOK, user
<1>2. CASE Launch \/ OtherFails \/ Crash
  <2>1. UNCHANGED user /\ \E what \in {"edits", "launches", "crashes", "others"} : Count(what)
    BY <1>2 DEF Launch, OtherFails, Crash
  <2> QED
    BY <2>1, Counting DEF Onward, user
<1>3. CASE TimerFires
  <2>1. /\ UNCHANGED user
        /\ counts' = [counts EXCEPT !.beside = @ \/ lease.live \/ ~(Rests("launch") \/ At("launch", "launch", "start"))]
    BY <1>3 DEF TimerFires
  <2>2. PICK b \in BOOLEAN : (counts.beside => b) /\ counts' = [counts EXCEPT !.beside = b]
    BY <2>1 DEF CountsOK
  <2> QED
    BY <2>1, <2>2 DEF Onward, CountsOK, user
<1>4. CASE UserAppends
  BY <1>4 DEF UserAppends, Onward, CountsOK
<1>5. CASE UserOpens \/ UserSaves \/ UserMakesManifest
  <2>1. late' = late /\ written \subseteq written' /\ Count("edits")
    BY <1>5 DEF UserOpens, UserSaves, UserMakesManifest, Edit
  <2> QED
    BY <2>1, Counting DEF Onward
<1>6. (\E p \in Procs : Step(p)) \/ HolderLeaves \/ LeaseRetries \/ UNCHANGED vars => UNCHANGED user /\ counts' = counts
  BY DEF Step, HolderLeaves, LeaseRetries, vars
<1> QED
  BY <1>1, <1>2, <1>3, <1>4, <1>5, <1>6 DEF Next

LEMMA WroteOn ==
  ASSUME Wrote, written \subseteq written'
  PROVE  Wrote'
BY DEF Wrote

Kempt == CountsOK /\ (Undisturbed => IInv /\ fds \subseteq Inodes /\ Wrote)

LEMMA NextHolds ==
  ASSUME Kempt, [Next]_vars
  PROVE  Kempt'
<1>1. Onward
  BY NextOnward DEF Kempt
<1> SUFFICES ASSUME Undisturbed'
             PROVE  IInv' /\ fds' \subseteq Inodes /\ Wrote'
  BY <1>1 DEF Kempt, Onward
<1>2. IInv /\ fds \subseteq Inodes /\ Wrote /\ CountsOK
  BY <1>1 DEF Kempt, Onward, Undisturbed
<1>3. Wrote'
  BY <1>1, <1>2, WroteOn DEF Onward
<1>4. CASE \E p \in Procs : Step(p)
  <2>1. PICK p \in Procs : Step(p)
    BY <1>4
  <2>2. IInv' /\ fds' = fds
    BY <1>2, <2>1, StepHolds DEF user
  <2> QED
    BY <1>2, <1>3, <2>2
<1>5. CASE Launch \/ HolderLeaves \/ LeaseRetries \/ OtherFails \/ TimerFires \/ Crash
  <2>1. fds' = fds
    BY <1>5 DEF Launch, HolderLeaves, LeaseRetries, OtherFails, TimerFires, Crash, user
  <2> QED
    BY <1>2, <1>3, <1>5, <2>1, LaunchHolds, HolderLeavesHolds, LeaseRetriesHolds, OtherFailsHolds, TimerFiresHolds,
       CrashHolds
<1>6. CASE UserOpens
  <2>1. fds' = fds \cup {names[Public]} /\ names[Public] # 0
    BY <1>6 DEF UserOpens
  <2>2. names[Public] \in Inodes
    BY <1>2, <2>1, NameFacts DEF IInv, Framework, FilesOK, Placed, FileTypes
  <2> QED
    BY <1>2, <1>3, <1>6, <2>1, <2>2, UserOpensHolds
<1>7. CASE UserAppends
  <2>1. late' = {} /\ fds' \subseteq fds
    BY <1>7 DEF UserAppends, Undisturbed
  <2> QED
    BY <1>2, <1>3, <1>7, <2>1, UserAppendsHolds
<1>8. CASE UserSaves \/ UserMakesManifest
  <2>1. fds' = fds
    BY <1>8 DEF UserSaves, UserMakesManifest
  <2> QED
    BY <1>2, <1>3, <1>8, <2>1, UserSavesHolds, UserMakesManifestHolds
<1>9. CASE UNCHANGED vars
  <2>1. fds' = fds
    BY <1>9 DEF vars, user
  <2> QED
    BY <1>2, <1>3, <1>9, <2>1, StutterHolds
<1> QED
  BY <1>4, <1>5, <1>6, <1>7, <1>8, <1>9 DEF Next

LEMMA WorkIsKept ==
  ASSUME IInv, NEW work \in written
  PROVE  Kept(work)
<1>1. Mine(work) => Kept(work)
  BY DEF Mine, Kept
<1>2. InPlace(work) => Kept(work)
  <2>1. Places \subseteq Names
    BY NameFacts DEF Places
  <2> QED
    BY <2>1 DEF InPlace, Kept
<1> QED
  BY <1>1, <1>2 DEF IInv, Framework, FilesOK, KeptInv

LEMMA AlwaysKempt == Spec => []Kempt
<1>1. Init => Kempt
  BY InitHolds DEF Kempt, Undisturbed
<1>2. Kempt /\ [Next]_vars => Kempt'
  BY NextHolds
<1> QED
  BY <1>1, <1>2, PTL DEF Spec

-----------------------------------------------------------------------------
(* The timer that a failure of this Project arms fires beside nothing: the   *)
(* failed cleanup has left a journal, and no launch begins under one         *)

Waiting == stack["reconcile"] = <<>> /\ journal.held /\ ~lease.live /\ ~Busy("launch")
Ours == late = {} /\ ~counts.bare /\ counts.others = 0
OwnTimer == Ours => ~counts.beside /\ (armed => Waiting)

\* Who takes a step is at work, but for the first steps of the two processes.
LEMMA StepBusy ==
  ASSUME IInv, NEW p \in Procs, Step(p)
  PROVE  LaunchRetains(p) \/ Busy(p) \/ (p = "reconcile" /\ stack[p] # <<>>)
<1>1. \/ FileStep(p) \/ WithinStep(p) \/ LaunchRetains(p)
      \/ \E a : a # "start" /\ At(p, "launch", a)
      \/ \E a \in LeaseWork : At(p, "release", a)
      \/ \E a : At(p, "reconcile", a)
  BY DEF Step, WithinStep, LaunchInspects, LaunchExcluded, LaunchStages, LaunchPublishes, LaunchIdentifies, LaunchFinalizes,
     LaunchChecks, LaunchUndoes, LaunchFails, LaunchCleaned, ReleasesLease, LeaseReleased, ReconcileStarts,
     ReconcileCleaned, LeaseWork
<1>2. FileStep(p) => Busy(p)
  BY FileStepAt, AtFacts DEF IInv, Framework
<1>3. WithinStep(p) => Busy(p)
  <2>1. WithinStep(p) => \E fn \in {"clear", "cleanup", "rollback"} : \E a : At(p, fn, a)
    BY DEF WithinStep, ClearTakes, ClearJudges, CleanUpDerives, CleanUpCleared, CleanUpUnstages, CleanUpRuled,
       RollBackStarts, RollBackCleared, RollBackFinalizes, RollBackRuled
  <2> QED
    BY <2>1, AtFacts DEF IInv, Framework
<1> QED
  BY <1>1, <1>2, <1>3, LaunchAt, ReleaseAt, ReconcileAt

\* While the timer is armed, by this Project, nobody is at work.
LEMMA StepWaits ==
  ASSUME IInv, IInv', armed => Waiting, NEW p \in Procs, Step(p), armed'
  PROVE  Waiting'
<1>1. CASE LaunchCleaned(p)
  <2>1. At(p, "launch", "cleaned")
    BY <1>1 DEF LaunchCleaned
  <2>2. p = "launch" /\ Bottom(p) = F(p) /\ stack["reconcile"] = <<>> /\ journal.held /\ stack[p] # <<>> /\ Len(stack[p]) = 1
    BY <2>1, LaunchAt
  <2>3. lease = NoLease
    BY <2>1, <2>2 DEF IInv, HostOK, Rooted, At, F
  <2>4. ~armed
    BY <2>1, LaunchAt DEF Waiting
  <2>5. journal' = journal /\ lease' = lease
    BY <1>1, <2>4 DEF LaunchCleaned
  <2>6. stack' = [stack EXCEPT ![p] = <<>>]
    BY <1>1, <2>2, OneFrame DEF LaunchCleaned, Return, Give, IInv, Framework
  <2> QED
    BY <2>2, <2>3, <2>5, <2>6, LeaseFacts, TwoProcs DEF Waiting, Busy, IInv, Framework, CallsOK, CallTypes
<1>2. CASE ReconcileCleaned(p)
  <2>1. /\ p = "reconcile" /\ stack[p] # <<>> /\ Len(stack[p]) = 1 /\ ~lease.live /\ ~Busy("launch") /\ journal.held
    BY <1>2, ReconcileAt DEF ReconcileCleaned
  <2>2. ~armed
    BY <2>1 DEF Waiting
  <2>3. journal' = journal /\ lease' = lease
    BY <1>2, <2>2 DEF ReconcileCleaned, Errors
  <2>4. stack' = [stack EXCEPT ![p] = <<>>]
    BY <1>2, <2>1, OneFrame DEF ReconcileCleaned, Return, Give, IInv, Framework
  <2> QED
    BY <2>1, <2>3, <2>4, TwoProcs DEF Waiting, Busy, IInv, Framework, CallsOK, CallTypes
<1>3. CASE ~LaunchCleaned(p) /\ ~ReconcileCleaned(p)
  <2>1. armed' = armed
    BY <1>3 DEF Step, host, ClearTakes, ClearJudges, CleanUpDerives, CleanUpCleared, CleanUpUnstages, CleanUpRuled,
       RollBackStarts, RollBackCleared, RollBackFinalizes, RollBackRuled, LaunchRetains, LaunchInspects, LaunchExcluded,
       LaunchStages, LaunchPublishes, LaunchIdentifies, LaunchFinalizes, LaunchChecks, LaunchUndoes, LaunchFails,
       ReleasesLease, LeaseReleased, ReconcileStarts
  <2>2. Waiting
    BY <2>1
  <2>3. LaunchRetains(p)
    <3>1. ~Busy("launch") /\ stack["reconcile"] = <<>>
      BY <2>2 DEF Waiting
    <3>2. ~Busy(p) /\ ~(p = "reconcile" /\ stack[p] # <<>>)
      BY <3>1, TwoProcs DEF Busy
    <3> QED
      BY <3>2, StepBusy
  <2>4. p = "launch" /\ stack[p] # <<>> /\ Len(stack[p]) = 1
    BY <2>3, LaunchAt DEF LaunchRetains
  <2>5. journal' = journal /\ lease' = lease /\ Return(p, "collision")
    BY <2>2, <2>3 DEF LaunchRetains, Waiting
  <2>6. stack' = [stack EXCEPT ![p] = <<>>]
    BY <2>4, <2>5, OneFrame DEF Return, Give, IInv, Framework
  <2> QED
    BY <2>2, <2>4, <2>5, <2>6, TwoProcs DEF Waiting, Busy, IInv, Framework, CallsOK, CallTypes
<1> QED
  BY <1>1, <1>2, <1>3

LEMMA NextWaits ==
  ASSUME Kempt, Kempt', OwnTimer, [Next]_vars
  PROVE  OwnTimer'
<1> SUFFICES ASSUME Ours'
             PROVE  ~counts'.beside /\ (armed' => Waiting')
  BY DEF OwnTimer
<1>1. Onward /\ CountsOK
  BY NextOnward DEF Kempt
<1>2. CASE OtherFails
  <2>1. counts'.others = counts.others + 1 /\ counts.others \in Nat
    BY <1>1, <1>2 DEF OtherFails, Count, CountsOK
  <2> QED
    BY <2>1 DEF Ours
<1>3. CASE ~OtherFails
  <2>1. counts'.others = counts.others /\ (counts'.beside = counts.beside \/ TimerFires)
    <3>1. ASSUME NEW what \in {"edits", "launches", "crashes"}, Count(what)
          PROVE  counts'.others = counts.others /\ counts'.beside = counts.beside
      BY <1>1, <3>1 DEF CountsOK, Count
    <3>2. CASE TimerFires
      BY <1>1, <3>2 DEF TimerFires, CountsOK
    <3>3. CASE Launch \/ Crash \/ UserOpens \/ UserSaves \/ UserMakesManifest
      BY <3>1, <3>3 DEF Launch, Crash, UserOpens, UserSaves, UserMakesManifest, Edit
    <3>4. (\E p \in Procs : Step(p)) \/ HolderLeaves \/ LeaseRetries \/ UserAppends \/ UNCHANGED vars => counts' = counts
      BY DEF Step, HolderLeaves, LeaseRetries, UserAppends, vars
    <3> QED
      BY <1>3, <3>2, <3>3, <3>4 DEF Next
  <2>2. Ours /\ ~counts.beside /\ (armed => Waiting) /\ IInv
    BY <1>1, <2>1 DEF Ours, Onward, OwnTimer, Kempt, Undisturbed
  <2>3. CASE TimerFires
    <3>1. ~lease.live /\ (Rests("launch") \/ At("launch", "launch", "start"))
      <4>1. Waiting
        BY <2>2, <2>3 DEF TimerFires
      <4>2. ~At("launch", "reconcile", "start")
        BY <2>2, ReconcileAt, TwoProcs
      <4> QED
        BY <4>1, <4>2 DEF Waiting, Busy, Rests, At
    <3> QED
      BY <1>1, <2>2, <2>3, <3>1 DEF TimerFires, CountsOK
  <2>4. CASE ~TimerFires
    <3>1. ~counts'.beside
      BY <2>1, <2>2, <2>4
    <3>2. IInv'
      BY <3>1 DEF Ours, Kempt, Undisturbed
    <3>3. CASE \E p \in Procs : Step(p)
      BY <2>2, <3>1, <3>2, <3>3, StepWaits
    <3>4. CASE Crash
      BY <3>1, <3>4 DEF Crash
    <3>5. CASE HolderLeaves \/ LeaseRetries
      <4>1. lease.live /\ armed' = armed
        BY <2>2, <3>5 DEF HolderLeaves, LeaseRetries, IInv, HostOK, Exclusive
      <4> QED
        BY <2>2, <3>1, <4>1 DEF Waiting
    <3>6. CASE Launch
      <4> SUFFICES ASSUME armed'
                   PROVE  Waiting'
        BY <3>1
      <4>1. armed' = armed /\ journal' = journal
        BY <3>6 DEF Launch
      <4>2. Waiting
        BY <2>2, <4>1
      <4>3. lease' = lease /\ stack' = [stack EXCEPT !["launch"] = <<Frame("launch", "start", 0)>>]
        BY <3>6, <4>2 DEF Launch, Begin, Waiting
      <4>4. stack'["launch"] = <<Frame("launch", "start", 0)>> /\ stack'["reconcile"] = stack["reconcile"]
        BY <2>2, <4>3, TwoProcs DEF IInv, Framework, CallsOK, CallTypes
      <4>5. Head(stack'["launch"]).fn = "launch" /\ Head(stack'["launch"]).at = "start"
        BY <4>4 DEF Frame
      <4> QED
        BY <4>1, <4>2, <4>3, <4>4, <4>5 DEF Waiting, Busy
    <3>7. CASE UserOpens \/ UserAppends \/ UserSaves \/ UserMakesManifest \/ UNCHANGED vars
      <4>1. stack' = stack /\ journal' = journal /\ lease' = lease /\ armed' = armed
        BY <3>7 DEF UserOpens, UserAppends, UserSaves, UserMakesManifest, vars, calls, host
      <4> QED
        BY <2>2, <3>1, <4>1 DEF Waiting, Busy
    <3> QED
      BY <1>3, <2>4, <3>3, <3>4, <3>5, <3>6, <3>7 DEF Next
  <2> QED
    BY <2>3, <2>4
<1> QED
  BY <1>2, <1>3

-----------------------------------------------------------------------------
(* Theorems *)

\* Nothing the user wrote is lost, whatever the Host was doing and wherever it
\* died (project-git-exclusion.mjs), as long as there was an exclude file at
\* first, no program has written to a generation the Host had captured, and the
\* timer has not fired beside a launch: each of the three can lose a line.
THEOREM SavedWorkIsKept == Spec => []SavedWorkSurvives
<1>1. Kempt => SavedWorkSurvives
  BY WorkIsKept DEF Kempt, Undisturbed, SavedWorkSurvives
<1> QED
  BY <1>1, AlwaysKempt, PTL

\* The launch and the reconciliation of the journal exclude each other at the
\* Project's files, and a retained journal stands behind whoever is at them
\* (harness-runs/operations/launch.mjs), until the one timer of all Projects
\* fires beside a launch or a lease; which it never does for a failure of this
\* Project (provider-preparation-store.mjs:124-165).
THEOREM OneAtAProject ==
  Spec => [](late = {} /\ ~counts.bare =>
               (counts.others = 0 => ~counts.beside) /\ (~counts.beside => Exclusive))
<1>1. Init => OwnTimer
  BY InitHolds DEF OwnTimer
<1>2. Kempt /\ Kempt' /\ OwnTimer /\ [Next]_vars => OwnTimer'
  BY NextWaits
<1>3. Spec => []OwnTimer
  BY <1>1, <1>2, AlwaysKempt, PTL DEF Spec
<1>4. Kempt /\ OwnTimer =>
        (late = {} /\ ~counts.bare =>
           (counts.others = 0 => ~counts.beside) /\ (~counts.beside => Exclusive))
  BY DEF Kempt, OwnTimer, Ours, Undisturbed, IInv, HostOK
<1> QED
  BY <1>3, <1>4, AlwaysKempt, PTL
=============================================================================

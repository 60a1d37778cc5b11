--------------------- MODULE ProviderPreparationOwnership --------------------
(***************************************************************************)
(* What the Host leaves in a Project is owned by a preparation that it has *)
(* retained: theorem of ProviderPreparation, for every depth of            *)
(* directories and any number of files, edits, launches and crashes.       *)
(*                                                                         *)
(* AllOwned is kept by each action beside IInv, which                      *)
(* ProviderPreparationSafety proves.  First what a step of a stack does to *)
(* what is said of its frames, then the functions that change the file,    *)
(* then those of the Host (...Owned), and what the user writes.            *)
(***************************************************************************)
EXTENDS ProviderPreparationSafety

\* The frames below the top one of p keep what is said of them.
Lower(p) ==
    \A k \in 2..Len(stack[p]) : \A f, g :
        /\ f = stack[p][k] => FrameOwned(f)'
        /\ f = stack[p][k] /\ k < Len(stack[p]) /\ g = stack[p][k + 1] => LinkOwned(g, f)'
\* g at the top, of which c is the caller, if there is one.
Callee(p, g) == \A c : Len(stack[p]) > 1 /\ c = stack[p][2] => LinkOwned(c, g)'

LEMMA FramesFacts ==
  ASSUME CallsOK, NEW p \in Procs, stack[p] # <<>>
  PROVE  /\ Len(stack[p]) \in Nat /\ Len(stack[p]) > 0 /\ F(p) = stack[p][1]
         /\ \A g : Frames(p, <<g>>) =>
              /\ Len(stack'[p]) = Len(stack[p]) /\ stack'[p][1] = g /\ F(p)' = g /\ stack'[p] # <<>>
              /\ \A k \in 2..Len(stack[p]) : stack'[p][k] = stack[p][k]
         /\ \A g, c : Frames(p, <<g, c>>) =>
              /\ Len(stack'[p]) = Len(stack[p]) + 1 /\ stack'[p][1] = g /\ stack'[p][2] = c
              /\ F(p)' = g /\ stack'[p] # <<>>
              /\ \A k \in 2..Len(stack[p]) : stack'[p][k + 1] = stack[p][k]
         /\ Frames(p, <<>>) =>
              /\ Len(stack'[p]) = Len(stack[p]) - 1
              /\ \A k \in 2..Len(stack[p]) : stack'[p][k - 1] = stack[p][k]
              /\ IF Len(stack[p]) > 1 THEN stack'[p] # <<>> /\ F(p)' = stack[p][2] ELSE stack'[p] = <<>>
<1>1. stack \in [Procs -> Seq(FrameType)] /\ stack[p] \in Seq(FrameType)
  BY DEF CallsOK, CallTypes
<1>2. \A f : Frames(p, f) => stack'[p] = f \o Tail(stack[p])
  BY <1>1 DEF Frames
<1>3. PICK s \in Seq(FrameType) : s = stack[p] /\ s # <<>>
  BY <1>1
<1>4. Len(s) \in Nat /\ Len(s) > 0 /\ Head(s) = s[1]
  BY <1>3
<1>5. ASSUME NEW g, Frames(p, <<g>>)
      PROVE  /\ Len(stack'[p]) = Len(s) /\ stack'[p][1] = g /\ F(p)' = g /\ stack'[p] # <<>>
             /\ \A k \in 2..Len(s) : stack'[p][k] = s[k]
  <2>1. s \in Seq(FrameType \cup {g}) /\ <<g>> \in Seq(FrameType \cup {g}) /\ Len(<<g>>) = 1 /\ <<g>>[1] = g
    BY <1>3
  <2>2. PICK t : t = <<g>> \o Tail(s)
    OBVIOUS
  <2>3. t \in Seq(FrameType \cup {g}) /\ Len(t) = Len(s) /\ t[1] = g /\ \A k \in 2..Len(s) : t[k] = s[k]
    BY <1>3, <2>1, <2>2
  <2>4. t # <<>> /\ Head(t) = g
    BY <1>4, <2>3
  <2>5. stack'[p] = t
    BY <1>2, <1>3, <1>5, <2>2
  <2> QED
    BY <2>3, <2>4, <2>5 DEF F
<1>6. ASSUME NEW g, NEW c, Frames(p, <<g, c>>)
      PROVE  /\ Len(stack'[p]) = Len(s) + 1 /\ stack'[p][1] = g /\ stack'[p][2] = c
             /\ F(p)' = g /\ stack'[p] # <<>>
             /\ \A k \in 2..Len(s) : stack'[p][k + 1] = s[k]
  <2>1. s \in Seq(FrameType \cup {g, c}) /\ <<g, c>> \in Seq(FrameType \cup {g, c}) /\ Len(<<g, c>>) = 2
        /\ <<g, c>>[1] = g /\ <<g, c>>[2] = c
    BY <1>3
  <2>2. PICK t : t = <<g, c>> \o Tail(s)
    OBVIOUS
  <2>3. t \in Seq(FrameType \cup {g, c}) /\ Len(t) = Len(s) + 1 /\ t[1] = g /\ t[2] = c /\ \A k \in 2..Len(s) : t[k + 1] = s[k]
    BY <1>3, <2>1, <2>2
  <2>4. t # <<>> /\ Head(t) = g
    BY <1>4, <2>3
  <2>5. stack'[p] = t
    BY <1>2, <1>3, <1>6, <2>2
  <2> QED
    BY <2>3, <2>4, <2>5 DEF F
<1>7. ASSUME Frames(p, <<>>)
      PROVE  /\ Len(stack'[p]) = Len(s) - 1
             /\ \A k \in 2..Len(s) : stack'[p][k - 1] = s[k]
             /\ IF Len(s) > 1 THEN stack'[p] # <<>> /\ F(p)' = s[2] ELSE stack'[p] = <<>>
  <2>1. PICK t : t = <<>> \o Tail(s)
    OBVIOUS
  <2>2. t \in Seq(FrameType) /\ Len(t) = Len(s) - 1 /\ \A k \in 2..Len(s) : t[k - 1] = s[k]
    BY <1>3, <2>1
  <2>3. Len(s) > 1 => t # <<>> /\ Head(t) = s[2]
    BY <1>4, <2>2
  <2>5. ~(Len(s) > 1) => t = <<>>
    BY <1>4, <2>2, EmptySeq
  <2>4. stack'[p] = t
    BY <1>2, <1>3, <1>7, <2>1
  <2> QED
    BY <2>2, <2>3, <2>4, <2>5 DEF F
<1> QED
  BY <1>3, <1>4, <1>5, <1>6, <1>7 DEF F

\* The top frame is g now.
LEMMA OwnedGoes ==
  ASSUME CallsOK, NEW p \in Procs, stack[p] # <<>>, Lower(p), NEW g, Frames(p, <<g>>),
         FrameOwned(g)', Callee(p, g), NEW r, r = R(p)', TopOwned(g, r)'
  PROVE  Owned(p)'
<1>1. /\ Len(stack[p]) \in Nat /\ Len(stack[p]) > 0
      /\ Len(stack'[p]) = Len(stack[p]) /\ stack'[p][1] = g /\ F(p)' = g /\ stack'[p] # <<>>
      /\ \A k \in 2..Len(stack[p]) : stack'[p][k] = stack[p][k]
  BY FramesFacts
<1>2. ASSUME NEW k \in 1..Len(stack'[p])
      PROVE  FrameOwned(stack[p][k])'
  <2>1. PICK f : f = stack'[p][k]
    OBVIOUS
  <2>2. k = 1 \/ k \in 2..Len(stack[p])
    BY <1>1
  <2>3. FrameOwned(f)'
    BY <1>1, <2>1, <2>2 DEF Lower
  <2> QED
    BY <2>1, <2>3
<1>3. ASSUME NEW k \in 1..(Len(stack'[p]) - 1)
      PROVE  LinkOwned(stack[p][k + 1], stack[p][k])'
  <2>1. PICK f, c : f = stack'[p][k] /\ c = stack'[p][k + 1]
    OBVIOUS
  <2>2. (k = 1 /\ k + 1 = 2 /\ Len(stack[p]) > 1) \/ (k \in 2..Len(stack[p]) /\ k < Len(stack[p])) 
    BY <1>1
  <2>3. k + 1 \in 2..Len(stack[p])
    BY <1>1
  <2>4. LinkOwned(c, f)'
    BY <1>1, <2>1, <2>2, <2>3 DEF Lower, Callee
  <2> QED
    BY <2>1, <2>4
<1>4. TopOwned(F(p), R(p))'
  BY <1>1
<1> QED
  BY <1>2, <1>3, <1>4 DEF Owned

\* It has called g.
LEMMA OwnedEnters ==
  ASSUME CallsOK, NEW p \in Procs, stack[p] # <<>>, Lower(p), NEW g, NEW c, Frames(p, <<g, c>>),
         FrameOwned(g)', FrameOwned(c)', LinkOwned(c, g)', Callee(p, c), NEW r, r = R(p)', TopOwned(g, r)'
  PROVE  Owned(p)'
<1>1. /\ Len(stack[p]) \in Nat /\ Len(stack[p]) > 0
      /\ Len(stack'[p]) = Len(stack[p]) + 1 /\ stack'[p][1] = g /\ stack'[p][2] = c
      /\ F(p)' = g /\ stack'[p] # <<>>
      /\ \A k \in 2..Len(stack[p]) : stack'[p][k + 1] = stack[p][k]
  BY FramesFacts
<1>2. ASSUME NEW k \in 1..Len(stack'[p])
      PROVE  FrameOwned(stack[p][k])'
  <2>1. PICK f : f = stack'[p][k]
    OBVIOUS
  <2>2. k = 1 \/ k = 2 \/ (k - 1 \in 2..Len(stack[p]) /\ (k - 1) + 1 = k)
    BY <1>1
  <2>3. FrameOwned(f)'
    BY <1>1, <2>1, <2>2 DEF Lower
  <2> QED
    BY <2>1, <2>3
<1>3. ASSUME NEW k \in 1..(Len(stack'[p]) - 1)
      PROVE  LinkOwned(stack[p][k + 1], stack[p][k])'
  <2>1. PICK f, d : f = stack'[p][k] /\ d = stack'[p][k + 1]
    OBVIOUS
  <2>2. CASE k = 1
    <3>1. f = g /\ d = c
      BY <1>1, <2>1, <2>2
    <3> QED
      BY <2>1, <3>1
  <2>3. CASE k = 2
    <3>1. 2 \in 2..Len(stack[p]) /\ k + 1 = 2 + 1 /\ Len(stack[p]) > 1
      BY <1>1, <2>3
    <3>2. f = c /\ d = stack[p][2]
      BY <1>1, <2>1, <2>3, <3>1
    <3>3. LinkOwned(d, f)'
      BY <3>1, <3>2 DEF Callee
    <3> QED
      BY <2>1, <3>3
  <2>4. CASE k > 2
    <3>1. PICK j : j = k - 1
      OBVIOUS
    <3>2. j \in 2..Len(stack[p]) /\ j + 1 = k /\ j < Len(stack[p]) /\ j + 1 \in 2..Len(stack[p]) /\ (j + 1) + 1 = k + 1
      BY <1>1, <2>4, <3>1
    <3>3. f = stack[p][j] /\ d = stack[p][j + 1]
      BY <1>1, <2>1, <3>2
    <3>4. LinkOwned(d, f)'
      BY <3>2, <3>3 DEF Lower
    <3> QED
      BY <2>1, <3>4
  <2>5. k = 1 \/ k = 2 \/ k > 2
    BY <1>1
  <2> QED
    BY <2>2, <2>3, <2>4, <2>5
<1>4. TopOwned(F(p), R(p))'
  BY <1>1
<1> QED
  BY <1>2, <1>3, <1>4 DEF Owned

\* It has returned.
LEMMA OwnedReturns ==
  ASSUME CallsOK, NEW p \in Procs, stack[p] # <<>>, Lower(p), Frames(p, <<>>), NEW r, r = R(p)',
         \A c : Len(stack[p]) > 1 /\ c = stack[p][2] => TopOwned(c, r)'
  PROVE  Owned(p)'
<1>1. /\ Len(stack[p]) \in Nat /\ Len(stack[p]) > 0
      /\ Len(stack'[p]) = Len(stack[p]) - 1
      /\ \A k \in 2..Len(stack[p]) : stack'[p][k - 1] = stack[p][k]
      /\ IF Len(stack[p]) > 1 THEN stack'[p] # <<>> /\ F(p)' = stack[p][2] ELSE stack'[p] = <<>>
  BY FramesFacts
<1>2. ASSUME NEW k \in 1..Len(stack'[p])
      PROVE  FrameOwned(stack[p][k])'
  <2>1. PICK f : f = stack'[p][k]
    OBVIOUS
  <2>2. k + 1 \in 2..Len(stack[p]) /\ (k + 1) - 1 = k
    BY <1>1
  <2>3. FrameOwned(f)'
    BY <1>1, <2>1, <2>2 DEF Lower
  <2> QED
    BY <2>1, <2>3
<1>3. ASSUME NEW k \in 1..(Len(stack'[p]) - 1)
      PROVE  LinkOwned(stack[p][k + 1], stack[p][k])'
  <2>1. PICK f, d : f = stack'[p][k] /\ d = stack'[p][k + 1]
    OBVIOUS
  <2>2. PICK j : j = k + 1
    OBVIOUS
  <2>3. j \in 2..Len(stack[p]) /\ j - 1 = k /\ j < Len(stack[p]) /\ j + 1 \in 2..Len(stack[p]) /\ (j + 1) - 1 = k + 1
    BY <1>1, <2>2
  <2>4. f = stack[p][j] /\ d = stack[p][j + 1]
    BY <1>1, <2>1, <2>3
  <2>5. LinkOwned(d, f)'
    BY <2>3, <2>4 DEF Lower
  <2> QED
    BY <2>1, <2>5
<1>4. ASSUME stack'[p] # <<>>
      PROVE  TopOwned(F(p), R(p))'
  <2>1. Len(stack[p]) > 1
    BY <1>1, <1>4
  <2>2. PICK c : c = stack[p][2]
    OBVIOUS
  <2>3. TopOwned(c, r)' /\ F(p)' = c
    BY <1>1, <2>1, <2>2
  <2> QED
    BY <2>3
<1> QED
  BY <1>2, <1>3, <1>4 DEF Owned

\* Its calls stay as they are.
LEMMA OwnedStays ==
  ASSUME CallsOK, NEW p \in Procs, stack[p] # <<>>, Lower(p), stack'[p] = stack[p], NEW g, g = F(p),
         FrameOwned(g)', Callee(p, g), NEW r, r = R(p)', TopOwned(g, r)'
  PROVE  Owned(p)'
<1>1. /\ Len(stack[p]) \in Nat /\ Len(stack[p]) > 0 /\ stack[p][1] = g /\ F(p)' = g
  BY FramesFacts DEF F
<1>2. ASSUME NEW k \in 1..Len(stack'[p])
      PROVE  FrameOwned(stack[p][k])'
  <2>1. PICK f : f = stack'[p][k]
    OBVIOUS
  <2>2. k = 1 \/ k \in 2..Len(stack[p])
    BY <1>1
  <2>3. FrameOwned(f)'
    BY <1>1, <2>1, <2>2 DEF Lower
  <2> QED
    BY <2>1, <2>3
<1>3. ASSUME NEW k \in 1..(Len(stack'[p]) - 1)
      PROVE  LinkOwned(stack[p][k + 1], stack[p][k])'
  <2>1. PICK f, c : f = stack'[p][k] /\ c = stack'[p][k + 1]
    OBVIOUS
  <2>2. (k = 1 /\ k + 1 = 2 /\ Len(stack[p]) > 1) \/ (k \in 2..Len(stack[p]) /\ k < Len(stack[p]))
    BY <1>1
  <2>4. LinkOwned(c, f)'
    BY <1>1, <2>1, <2>2 DEF Lower, Callee
  <2> QED
    BY <2>1, <2>4
<1>4. TopOwned(F(p), R(p))'
  BY <1>1
<1> QED
  BY <1>2, <1>3, <1>4 DEF Owned

-----------------------------------------------------------------------------
(* The frames below the top one while it works on files                     *)

Early(f) == f.fn = "unroll" \/ (f.fn = "recover" /\ f.at \in {"start", "unrolled"})
\* What a step with this top frame leaves alone of the files, for its callers.
Around(p) ==
    /\ F(p).fn \in {"capture", "restore"} => Shuffled
    /\ F(p).fn = "remove" => names'[Public] = names[Public] /\ text' = text
    /\ Early(F(p)) /\ AllTidy => UNCHANGED files
    /\ UNCHANGED <<manifests, host>>

LEMMA LegalBelow ==
  ASSUME CallsOK, NEW p \in Procs, stack[p] # <<>>, NEW k \in 2..Len(stack[p])
  PROVE  /\ k - 1 \in 1..Len(stack[p]) /\ FrameOK(stack[p][k - 1]) /\ FrameOK(stack[p][k]) /\ Legal(stack[p][k], stack[p][k - 1])
         /\ stack[p][k] \in FrameType
         /\ k - 1 = 1 => F(p) = stack[p][k - 1]
         /\ k - 1 # 1 => k - 1 \in 2..Len(stack[p])
         /\ k < Len(stack[p]) => k + 1 \in 2..Len(stack[p]) /\ Legal(stack[p][k + 1], stack[p][k])
<1>1. Linked(stack[p]) /\ stack[p] \in Seq(FrameType) /\ Len(stack[p]) \in Nat /\ F(p) = stack[p][1]
  BY BottomFacts DEF CallsOK
<1>2. PICK j : j = k - 1
  OBVIOUS
<1>3. j \in 1..Len(stack[p]) /\ j + 1 = k /\ k \in 1..Len(stack[p]) /\ j < Len(stack[p]) /\ (j # 1 => j \in 2..Len(stack[p]))
  BY <1>1, <1>2
<1>4. FrameOK(stack[p][j]) /\ FrameOK(stack[p][k]) /\ Legal(stack[p][k], stack[p][j]) /\ stack[p][k] \in FrameType
  BY <1>1, <1>3 DEF Linked
<1>5. k < Len(stack[p]) => k + 1 \in 2..Len(stack[p]) /\ Legal(stack[p][k + 1], stack[p][k])
  BY <1>1, <1>3 DEF Linked
<1> QED
  BY <1>1, <1>2, <1>3, <1>4, <1>5

\* No function of the last kind calls another.
LEMMA LastCalls ==
  ASSUME NEW f, NEW g, Legal(f, g)
  PROVE  /\ f.fn \notin {"restore", "remove", "unroll", "clear"}
         /\ f.fn = "capture" => f.at = "refused" /\ g.fn = "restore"
         /\ f.fn = "replace" => f.at \in {"captured", "restored", "caught", "removed", "recovered"}
         /\ f.fn = "replace" /\ f.at = "captured" => g.fn = "capture"
         /\ f.fn = "replace" /\ f.at \in {"restored", "caught"} => g.fn = "restore"
         /\ f.fn = "replace" /\ f.at = "removed" => g.fn = "remove"
         /\ f.fn = "rules" => (f.at = "ready" /\ g.fn = "recover") \/ (f.at = "tried" /\ g.fn = "replace")
         /\ f.fn = "recover" /\ f.at = "unrolled" => g.fn = "unroll"
         /\ f.fn = "recover" => f.at # "start"
         /\ f.fn \in {"cleanup", "rollback"} => f.at \in {"cleared", "ruled"}
         /\ f.fn = "launch" => f.at \in {"excluded", "fail", "cleaned"}
  BY DEF Legal, CallsOfHost, CallsOfRecovery, CallsOfChange

LEMMA TopsBelow ==
  ASSUME CallsOK, NEW p \in Procs, stack[p] # <<>>, NEW k \in 2..Len(stack[p]), NEW f, f = stack[p][k]
  PROVE  /\ f.fn = "replace" /\ f.at = "captured" => F(p).fn \in {"capture", "restore"}
         /\ f.fn = "replace" /\ f.at \in {"restored", "caught"} => F(p).fn = "restore"
         /\ f.fn = "replace" /\ f.at = "removed" => F(p).fn = "remove"
         /\ f.fn = "recover" /\ f.at = "unrolled" => F(p).fn = "unroll"
         /\ f.fn = "rules" /\ f.at = "ready" /\ Early(stack[p][k - 1]) => Early(F(p))
<1>1. PICK g : g = stack[p][k - 1]
  OBVIOUS
<1>2. /\ Legal(f, g)
      /\ k - 1 = 1 => F(p) = g
      /\ k - 1 # 1 => k - 1 \in 2..Len(stack[p])
  BY <1>1, LegalBelow
<1>3. ASSUME k - 1 # 1
      PROVE  \E h : Legal(g, h) /\ (~(\E e : Legal(h, e)) => F(p) = h)
  <2>1. PICK j : j = k - 1 /\ j \in 2..Len(stack[p])
    BY <1>2, <1>3
  <2>2. PICK h : h = stack[p][j - 1]
    OBVIOUS
  <2>3. Legal(g, h) /\ (j - 1 = 1 => F(p) = h) /\ (j - 1 # 1 => j - 1 \in 2..Len(stack[p]))
    BY <1>1, <2>1, <2>2, LegalBelow
  <2>4. j - 1 # 1 => \E e : Legal(h, e)
    BY <2>2, <2>3, LegalBelow
  <2> QED
    BY <2>3, <2>4
<1>4. \A h : h.fn \in {"restore", "remove", "unroll"} => ~(\E e : Legal(h, e))
  BY LastCalls
<1>5. /\ f.fn = "replace" /\ f.at = "captured" => g.fn = "capture"
      /\ f.fn = "replace" /\ f.at \in {"restored", "caught"} => g.fn = "restore"
      /\ f.fn = "replace" /\ f.at = "removed" => g.fn = "remove"
      /\ f.fn = "recover" /\ f.at = "unrolled" => g.fn = "unroll"
  BY <1>2, LastCalls
<1>6. ASSUME k - 1 # 1
      PROVE  /\ g.fn = "capture" => F(p).fn = "restore"
             /\ g.fn = "recover" /\ g.at = "unrolled" => F(p).fn = "unroll"
             /\ ~(g.fn = "recover" /\ g.at = "start")
             /\ g.fn \notin {"restore", "remove", "unroll"}
  <2>1. PICK h : Legal(g, h) /\ (~(\E e : Legal(h, e)) => F(p) = h)
    BY <1>3, <1>6
  <2>2. /\ g.fn = "capture" => h.fn = "restore"
        /\ g.fn = "recover" /\ g.at = "unrolled" => h.fn = "unroll"
        /\ ~(g.fn = "recover" /\ g.at = "start")
        /\ g.fn \notin {"restore", "remove", "unroll"}
    BY <2>1, LastCalls
  <2> QED
    BY <1>4, <2>1, <2>2
<1>7. CASE k - 1 = 1
  BY <1>1, <1>2, <1>5, <1>7 DEF Early
<1>8. CASE k - 1 # 1
  BY <1>1, <1>5, <1>6, <1>8 DEF Early
<1> QED
  BY <1>7, <1>8

LEMMA BlocklessShuffled ==
  ASSUME Shuffled, FileTypes, Blockless
  PROVE  Blockless'
<1> SUFFICES ASSUME NEW n \in NonTemps, names'[n] # 0
             PROVE  text'[names'[n]].blocks = 0
  BY DEF Blockless, NonTemps
<1>1. n \in Names
  BY DEF NonTemps
<1>2. names'[n] = names[n] \/ \E m \in NonTemps : names'[n] = names[m]
  BY <1>1 DEF Shuffled
<1> QED
  BY <1>2 DEF Blockless, Shuffled

LEMMA QuietBlocks ==
  ASSUME UNCHANGED files
  PROVE  /\ (Blockless' <=> Blockless) /\ PublicBlocks' = PublicBlocks /\ (AllTidy' <=> AllTidy)
         /\ \A l \in Levels : Tmp(l)' = Tmp(l)
<1>1. names' = names /\ dirs' = dirs /\ text' = text
  BY DEF files
<1> QED
  BY <1>1 DEF Blockless, PublicBlocks, AllTidy, Tidy, Tmp, Dir

\* The frames below keep what is said of them, whatever the file function at
\* the top does.
LEMMA LowerKept ==
  ASSUME IInv, NEW p \in Procs, stack[p] # <<>>, Owned(p), Around(p)
  PROVE  Lower(p)
<1>0. CallsOK /\ FileTypes
  BY DEF IInv, Framework, FilesOK, Placed
<1>00. UNCHANGED <<manifests, host>> /\ lease' = lease /\ journal' = journal /\ UNCHANGED <<manifest, seized, staged>>
  BY DEF Around, manifests, host
<1> SUFFICES ASSUME NEW k \in 2..Len(stack[p]), NEW f, f = stack[p][k]
             PROVE  /\ FrameOwned(f)'
                    /\ k < Len(stack[p]) => \A g : g = stack[p][k + 1] => LinkOwned(g, f)'
  BY DEF Lower
<1>1. PICK b : b = stack[p][k - 1]
  OBVIOUS
<1>2. /\ k - 1 \in 1..Len(stack[p]) /\ FrameOK(b) /\ FrameOK(f) /\ Legal(f, b)
      /\ k - 1 = 1 => F(p) = b
  BY <1>0, <1>1, LegalBelow
<1>3. FrameOwned(f)
  <2>1. k \in 1..Len(stack[p])
    BY LegalBelow, <1>0, <1>2
  <2> QED
    BY <2>1 DEF Owned
<1>4. LinkOwned(f, b)
  <2>1. PICK j : j = k - 1
    OBVIOUS
  <2>2. j \in 1..(Len(stack[p]) - 1) /\ j + 1 = k
    BY <1>0, <2>1, BottomFacts
  <2> QED
    BY <1>1, <2>1, <2>2 DEF Owned
<1>5. f.fn = "rules" /\ Way(f) = "append" /\ ~lease.live /\ f.at # "tried" => Early(b) /\ AllTidy /\ f.at = "ready"
  <2>1. f.fn = "rules" => (f.at = "ready" /\ b.fn = "recover") \/ (f.at = "tried" /\ b.fn = "replace")
    BY <1>2, LastCalls
  <2> QED
    BY <1>4, <2>1 DEF LinkOwned, Early
<1>6. f.fn = "rules" /\ Way(f) = "append" /\ ~lease.live /\ f.at # "tried" => UNCHANGED files
  <2>1. f.fn = "rules" /\ f.at = "ready" /\ Early(b) => Early(F(p))
    BY <1>0, <1>1, TopsBelow
  <2> QED
    BY <1>5, <2>1 DEF Around
<1>7. FileFrame(f)'
  <2>1. f.fn = "replace" /\ f.at \in {"captured", "publish"} /\ Tmp(f.l)' # 0 => text'[Tmp(f.l)'].blocks <= f.next.blocks
    <3> SUFFICES ASSUME f.fn = "replace", f.at \in {"captured", "publish"}, Tmp(f.l)' # 0
                 PROVE  text'[Tmp(f.l)'].blocks <= f.next.blocks
      OBVIOUS
    <3>1. f.at = "captured"
      BY <1>2, LastCalls
    <3>2. Shuffled
      BY <1>0, <3>1, TopsBelow DEF Around
    <3>3. f.l \in Levels
      BY <1>2 DEF FrameOK
    <3>4. Tmp(f.l)' = Tmp(f.l) /\ text' = text
      BY <3>2, <3>3 DEF Shuffled
    <3> QED
      BY <1>3, <3>1, <3>4 DEF FrameOwned, FileFrame
  <2>2. f.fn = "replace" /\ f.at \in {"refresh", "removed", "finish"} => PublicBlocks' <= f.next.blocks
    <3> SUFFICES ASSUME f.fn = "replace", f.at \in {"refresh", "removed", "finish"}
                 PROVE  PublicBlocks' <= f.next.blocks
      OBVIOUS
    <3>1. f.at = "removed"
      BY <1>2, LastCalls
    <3>2. names'[Public] = names[Public] /\ text' = text
      BY <1>0, <3>1, TopsBelow DEF Around
    <3>3. PublicBlocks' = PublicBlocks
      BY <3>2 DEF PublicBlocks
    <3> QED
      BY <1>3, <3>1, <3>3 DEF FrameOwned, FileFrame
  <2>3. f.fn = "rules" => /\ Way(f) \in {"append", "remove"}
                          /\ Way(f) = "append" /\ ~lease'.live =>
                               /\ f.at \in {"append", "ready", "look"} => Blockless'
                               /\ f.at = "append" => AllTidy'
    <3>1. f.fn = "rules" /\ Way(f) = "append" /\ ~lease.live /\ f.at \in {"append", "ready", "look"} => Blockless' /\ (f.at = "append" => AllTidy')
      BY <1>3, <1>6, QuietBlocks DEF FrameOwned, FileFrame
    <3> QED
      BY <1>00, <1>3, <3>1 DEF FrameOwned, FileFrame
  <2> QED
    BY <2>1, <2>2, <2>3 DEF FileFrame
<1>8. CallFrame(f)'
  <2>1. f.fn # "clear"
    BY <1>2, LastCalls
  <2> QED
    BY <1>00, <1>3, <2>1 DEF FrameOwned, CallFrame, NoManifest
<1>9. LaunchFrame(f)'
  <2>1. f.fn = "launch" => f.at \in {"excluded", "fail", "cleaned"}
    BY <1>2, LastCalls
  <2>2. f.fn = "launch" => f.at # "inspect"
    BY <2>1
  <2> QED
    BY <1>00, <1>3, <2>2 DEF FrameOwned, LaunchFrame, NoManifest
<1>10. ASSUME k < Len(stack[p]), NEW g, g = stack[p][k + 1]
       PROVE  LinkOwned(g, f)'
  <2>1. LinkOwned(g, f)
    <3>1. k \in 1..(Len(stack[p]) - 1)
      BY <1>0, <1>10, BottomFacts
    <3> QED
      BY <1>10, <3>1 DEF Owned
  <2>2. k + 1 \in 2..Len(stack[p]) /\ Legal(g, f)
    BY <1>0, <1>10, LegalBelow
  <2>3. g.fn = "rules" /\ Way(g) = "append" /\ ~lease.live /\ f.fn = "recover" => AllTidy' /\ f.at \in {"start", "unrolled"}
    <3> SUFFICES ASSUME g.fn = "rules", Way(g) = "append", ~lease.live, f.fn = "recover"
                 PROVE  AllTidy' /\ f.at \in {"start", "unrolled"}
      OBVIOUS
    <3>1. AllTidy /\ f.at \in {"start", "unrolled"}
      BY <2>1 DEF LinkOwned
    <3>2. f.at = "unrolled"
      BY <1>2, <3>1, LastCalls
    <3>3. Early(F(p))
      BY <1>0, <3>2, TopsBelow DEF Early
    <3>4. AllTidy'
      BY <3>1, <3>3, QuietBlocks DEF Around
    <3> QED
      BY <3>1, <3>4
  <2>4. g.fn = "rules" /\ Way(g) = "append" /\ ~lease.live /\ f.fn = "replace" /\ f.at \in Unpublished => Blockless'
    <3> SUFFICES ASSUME g.fn = "rules", Way(g) = "append", ~lease.live, f.fn = "replace", f.at \in Unpublished
                 PROVE  Blockless'
      OBVIOUS
    <3>1. Blockless
      BY <2>1 DEF LinkOwned
    <3>2. f.at \in {"captured", "restored", "caught"}
      <4>1. f.at \in {"captured", "restored", "caught", "removed", "recovered"}
        BY <1>2, LastCalls
      <4> QED
        BY <4>1 DEF Unpublished
    <3>3. F(p).fn \in {"capture", "restore"}
      BY <1>0, <3>2, TopsBelow
    <3>4. Shuffled
      BY <3>3 DEF Around
    <3> QED
      BY <1>0, <3>1, <3>4, BlocklessShuffled
  <2> QED
    BY <1>00, <2>1, <2>3, <2>4 DEF LinkOwned
<1> QED
  BY <1>7, <1>8, <1>9, <1>10 DEF FrameOwned

-----------------------------------------------------------------------------
(* The functions of which nothing is said: restore, remove, release, merge, *)
(* unroll and recover                                                       *)

PlainFns == {"restore", "remove", "release", "merge", "unroll", "recover"}
IsPlain(f) == f.fn \in PlainFns /\ (f.fn = "release" => f.at \notin LeaseWork)
Quiet(g) == IsPlain(g) \/ (g.fn = "capture" /\ g.max = 2) \/ (g.fn = "replace" /\ g.at = "write")
\* f goes on as g; a recovery over tidy names ends before it does more.
Advances(f, g) == g.fn = f.fn /\ IsPlain(g) /\ (f.fn = "recover" /\ AllTidy /\ Early(f) => Early(g))
Turns(p) ==
    \/ UNCHANGED calls
    \/ \E g : Frames(p, <<g>>) /\ Advances(F(p), g)
    \/ \E g, c : Frames(p, <<g, c>>) /\ Advances(F(p), c) /\ Quiet(g)
    \/ Frames(p, <<>>)

LEMMA QuietOwned ==
  ASSUME NEW g, Quiet(g)
  PROVE  FrameOwned(g)' /\ \A r : TopOwned(g, r)'
<1>1. g.fn \in PlainFns \/ (g.fn = "capture" /\ g.max = 2) \/ (g.fn = "replace" /\ g.at = "write")
  BY DEF Quiet, IsPlain
<1>2. FileFrame(g)'
  BY <1>1 DEF FileFrame, PlainFns
<1>3. CallFrame(g)' /\ LaunchFrame(g)'
  BY <1>1 DEF CallFrame, LaunchFrame, PlainFns
<1>4. g.fn = "release" => g.at # LeaseDone
  BY DEF Quiet, IsPlain, LeaseWork, LeaseDone
<1>5. \A r : TopOwned(g, r)'
  BY <1>1, <1>4 DEF TopOwned, PlainFns
<1> QED
  BY <1>2, <1>3, <1>5 DEF FrameOwned

LEMMA PlainLinks ==
  ASSUME NEW c, NEW g, IsPlain(c)
  PROVE  LinkOwned(c, g)'
<1>1. c.fn \notin {"cleanup", "rollback", "launch", "rules"}
  BY DEF IsPlain, PlainFns
<1> QED
  BY <1>1 DEF LinkOwned

LEMMA OwnedBelow ==
  ASSUME CallsOK, NEW p \in Procs, stack[p] # <<>>, Owned(p)
  PROVE  /\ FrameOwned(F(p)) /\ TopOwned(F(p), R(p))
         /\ Len(stack[p]) > 1 => LinkOwned(stack[p][2], F(p)) /\ Legal(stack[p][2], F(p)) /\ FrameOwned(stack[p][2])
<1>1. Len(stack[p]) \in Nat /\ Len(stack[p]) > 0 /\ F(p) = stack[p][1]
  BY FramesFacts
<1>2. FrameOwned(F(p)) /\ TopOwned(F(p), R(p))
  BY <1>1 DEF Owned
<1>3. ASSUME Len(stack[p]) > 1
      PROVE  LinkOwned(stack[p][2], F(p)) /\ Legal(stack[p][2], F(p)) /\ FrameOwned(stack[p][2])
  <2>1. 2 \in 2..Len(stack[p]) /\ 1 \in 1..(Len(stack[p]) - 1) /\ 1 + 1 = 2 /\ 2 - 1 = 1 /\ 2 \in 1..Len(stack[p])
    BY <1>1, <1>3
  <2>2. LinkOwned(stack[p][2], F(p)) /\ FrameOwned(stack[p][2])
    BY <1>1, <2>1 DEF Owned
  <2>3. Legal(stack[p][2], stack[p][2 - 1])
    BY <2>1, LegalBelow
  <2> QED
    BY <1>1, <2>1, <2>2, <2>3
<1> QED
  BY <1>2, <1>3

\* What a plain function returns says nothing to its caller.
LEMMA PlainReturns ==
  ASSUME NEW c, NEW f, IsPlain(f), Legal(c, f)
  PROVE  \A r : TopOwned(c, r)'
<1>1. f.fn \in PlainFns /\ (f.fn = "release" => f.at # LeaseDone)
  BY DEF IsPlain, LeaseWork, LeaseDone
<1>2. \/ c.fn \in {"recover", "merge"}
      \/ c.fn = "release" /\ c.at # LeaseDone
      \/ c.fn = "replace" /\ c.at \in {"restored", "caught", "removed", "recovered"}
      \/ c.fn = "capture" /\ c.at = "refused"
      \/ c.fn = "rules" /\ c.at = "ready"
  <2>1. \/ c.fn \in {"recover", "merge"}
        \/ c.fn = "release" /\ c.at \in {"tried", "merged"}
        \/ c.fn = "replace" /\ c.at \in {"restored", "caught", "removed", "recovered"}
        \/ c.fn = "capture" /\ c.at = "refused"
        \/ c.fn = "rules" /\ c.at = "ready"
    BY <1>1 DEF Legal, CallsOfHost, CallsOfRecovery, CallsOfChange, PlainFns
  <2>2. "tried" # LeaseDone /\ "merged" # LeaseDone
    BY DEF LeaseDone
  <2> QED
    BY <2>1, <2>2
<1> QED
  BY <1>2 DEF TopOwned

LEMMA PlainCallee ==
  ASSUME CallsOK, NEW p \in Procs, stack[p] # <<>>, Owned(p), Around(p), IsPlain(F(p)), NEW g, Advances(F(p), g)
  PROVE  Callee(p, g)
<1>1. g.fn = F(p).fn /\ g.fn \in PlainFns /\ lease' = lease
  BY DEF IsPlain, Advances, Around, host
<1> SUFFICES ASSUME Len(stack[p]) > 1, NEW c, c = stack[p][2]
             PROVE  LinkOwned(c, g)'
  BY DEF Callee
<1>2. LinkOwned(c, F(p))
  BY OwnedBelow
<1>3. c.fn = "rules" /\ Way(c) = "append" /\ ~lease.live /\ g.fn = "recover" => AllTidy' /\ g.at \in {"start", "unrolled"}
  <2> SUFFICES ASSUME c.fn = "rules", Way(c) = "append", ~lease.live, g.fn = "recover"
               PROVE  AllTidy' /\ g.at \in {"start", "unrolled"}
    OBVIOUS
  <2>1. AllTidy /\ Early(F(p))
    BY <1>1, <1>2 DEF LinkOwned, Early
  <2>2. AllTidy'
    BY <2>1, QuietBlocks DEF Around
  <2>3. Early(g) /\ g.fn # "unroll"
    BY <1>1, <2>1 DEF Advances
  <2> QED
    BY <2>2, <2>3 DEF Early
<1>4. g.fn # "rules" /\ g.fn # "replace" /\ g.fn # "rollback"
  BY <1>1 DEF PlainFns
<1> QED
  BY <1>1, <1>3, <1>4 DEF LinkOwned

LEMMA PlainKept ==
  ASSUME IInv, NEW p \in Procs, stack[p] # <<>>, Owned(p), Around(p), IsPlain(F(p)), Turns(p)
  PROVE  Owned(p)'
<1>0. CallsOK
  BY DEF IInv, Framework
<1>1. Lower(p)
  BY LowerKept
<1>2. PICK r : r = R(p)'
  OBVIOUS
<1>3. CASE UNCHANGED calls
  <2>1. PICK f : f = F(p)
    OBVIOUS
  <2>2. Advances(F(p), f) /\ Quiet(f) /\ stack'[p] = stack[p]
    BY <1>3, <2>1 DEF Advances, Quiet, calls
  <2>3. FrameOwned(f)' /\ TopOwned(f, r)' /\ Callee(p, f)
    BY <1>0, <2>2, QuietOwned, PlainCallee
  <2> QED
    BY <1>0, <1>1, <1>2, <2>1, <2>2, <2>3, OwnedStays
<1>4. CASE \E g : Frames(p, <<g>>) /\ Advances(F(p), g)
  <2>1. PICK g : Frames(p, <<g>>) /\ Advances(F(p), g)
    BY <1>4
  <2>2. Quiet(g)
    BY <2>1 DEF Advances, Quiet
  <2>3. FrameOwned(g)' /\ TopOwned(g, r)' /\ Callee(p, g)
    BY <1>0, <2>1, <2>2, QuietOwned, PlainCallee
  <2> QED
    BY <1>0, <1>1, <1>2, <2>1, <2>3, OwnedGoes
<1>5. CASE \E g, c : Frames(p, <<g, c>>) /\ Advances(F(p), c) /\ Quiet(g)
  <2>1. PICK g, c : Frames(p, <<g, c>>) /\ Advances(F(p), c) /\ Quiet(g)
    BY <1>5
  <2>2. Quiet(c) /\ IsPlain(c)
    BY <2>1 DEF Advances, Quiet
  <2>3. FrameOwned(g)' /\ TopOwned(g, r)' /\ FrameOwned(c)' /\ Callee(p, c) /\ LinkOwned(c, g)'
    BY <1>0, <2>1, <2>2, QuietOwned, PlainCallee, PlainLinks
  <2> QED
    BY <1>0, <1>1, <1>2, <2>1, <2>3, OwnedEnters
<1>6. CASE Frames(p, <<>>)
  <2>1. ASSUME NEW c, Len(stack[p]) > 1, c = stack[p][2]
        PROVE  TopOwned(c, r)'
    <3>1. Legal(c, F(p))
      BY <1>0, <2>1, OwnedBelow
    <3> QED
      BY <3>1, PlainReturns
  <2> QED
    BY <1>0, <1>1, <1>2, <1>6, <2>1, OwnedReturns
<1> QED
  BY <1>3, <1>4, <1>5, <1>6 DEF Turns

\* How the steps turn.
Later(f, a) == a \notin LeaseWork /\ (f.fn = "recover" /\ AllTidy /\ Early(f) => a \in {"start", "unrolled"})

LEMMA TurnsFacts ==
  ASSUME NEW p \in Procs, NEW f \in FrameType, f = F(p), IsPlain(f)
  PROVE  /\ UNCHANGED calls => Turns(p)
         /\ \A r, i, t : Give(p, r, i, t) => Turns(p)
         /\ \A r : Return(p, r) => Turns(p)
         /\ \A g : Continue(p, g) /\ g.fn = f.fn /\ Later(f, g.at) => Turns(p)
         /\ \A a : Go(p, a) /\ Later(f, a) => Turns(p)
         /\ \A a, code : Throw(p, a, code) /\ Later(f, a) => Turns(p)
         /\ \A d, g : Frames(p, <<g, d>>) /\ d.fn = f.fn /\ Later(f, d.at) /\ Quiet(g) => Turns(p)
         /\ \A a, c, g : c \in FrameType /\ c.fn = f.fn /\ Enter(p, c, a, g) /\ Later(f, a) /\ Quiet(g) => Turns(p)
<1>1. ASSUME NEW g, g.fn = f.fn, Later(f, g.at)
      PROVE  Advances(f, g)
  BY <1>1 DEF Advances, IsPlain, Later, Early, PlainFns
<1>2. \A r, i, t : Give(p, r, i, t) => Turns(p)
  BY DEF Turns, Give
<1>3. \A r : Return(p, r) => Turns(p)
  BY <1>2 DEF Return
<1>4. ASSUME NEW g, g.fn = f.fn, Later(f, g.at), Continue(p, g)
      PROVE  Turns(p)
  BY <1>1, <1>4 DEF Continue, Turns
<1>5. ASSUME NEW a, Go(p, a), Later(f, a)
      PROVE  Turns(p)
  <2>1. PICK g : g = [f EXCEPT !.at = a]
    OBVIOUS
  <2>2. g.fn = f.fn /\ g.at = a /\ Continue(p, g)
    BY <1>5, <2>1 DEF Go, FrameType
  <2> QED
    BY <1>4, <1>5, <2>2
<1>6. ASSUME NEW a, NEW code, Throw(p, a, code), Later(f, a)
      PROVE  Turns(p)
  <2>1. PICK g : g = [f EXCEPT !.at = a, !.code = code]
    OBVIOUS
  <2>2. g.fn = f.fn /\ g.at = a /\ Continue(p, g)
    BY <1>6, <2>1 DEF Throw, FrameType
  <2> QED
    BY <1>4, <1>6, <2>2
<1>8. ASSUME NEW d, NEW g, Frames(p, <<g, d>>), d.fn = f.fn, Later(f, d.at), Quiet(g)
      PROVE  Turns(p)
  BY <1>1, <1>8 DEF Turns
<1>7. ASSUME NEW a, NEW c \in FrameType, NEW g, c.fn = f.fn, Enter(p, c, a, g), Later(f, a), Quiet(g)
      PROVE  Turns(p)
  <2>1. PICK d : d = [c EXCEPT !.at = a]
    OBVIOUS
  <2>2. d.fn = f.fn /\ d.at = a /\ Frames(p, <<g, d>>)
    BY <1>7, <2>1 DEF Enter, FrameType
  <2> QED
    BY <1>7, <1>8, <2>2
<1> QED
  BY <1>2, <1>3, <1>4, <1>5, <1>6, <1>7, <1>8 DEF Turns

LEMMA NonTempNames ==
  /\ Public \in NonTemps
  /\ \A l \in Levels : /\ Captured(l, "replace") \in NonTemps /\ Captured(l, "replace") # Public
                       /\ Release(l, "replace") \in NonTemps /\ Release(l, "replace") # Public
                       /\ \A n \in NonTemps : n \in Names /\ Temp(l) # n
<1>1. Public \in NonTemps
  BY NameFacts DEF NonTemps
<1>2. ASSUME NEW l \in Levels
      PROVE  /\ Captured(l, "replace") \in NonTemps /\ Captured(l, "replace") # Public
             /\ Release(l, "replace") \in NonTemps /\ Release(l, "replace") # Public
             /\ \A n \in NonTemps : n \in Names /\ Temp(l) # n
  BY NameFacts DEF NonTemps
<1> QED
  BY <1>1, <1>2

LEMMA MovedNames ==
  ASSUME FileTypes, text' = text,
         \A n \in Names : names'[n] = names[n] \/ (n \in NonTemps /\ (names'[n] = 0 \/ \E m \in NonTemps : names'[n] = names[m]))
  PROVE  Shuffled
<1>1. \A l \in Levels : Tmp(l)' = Tmp(l)
  <2> SUFFICES ASSUME NEW l \in Levels
               PROVE  names'[Temp(l)] = names[Temp(l)]
    BY DEF Tmp
  <2>1. Temp(l) \in Names /\ Temp(l) \notin NonTemps
    BY NonTempNames, NameFacts
  <2> QED
    BY <2>1
<1> QED
  BY <1>1 DEF Shuffled

\* What one operation on the names leaves.
LEMMA NameMoves ==
  ASSUME FileTypes
  PROVE  /\ \A n \in NonTemps : Drop(n) => Shuffled /\ (n # Public => names'[Public] = names[Public])
         /\ \A n, m \in NonTemps : SetNames([names EXCEPT ![n] = names[m]]) =>
                Shuffled /\ (n # Public => names'[Public] = names[Public])
         /\ \A n, m \in NonTemps : Rename(n, m) => Shuffled /\ (n # Public /\ m # Public => names'[Public] = names[Public])
         /\ \A l, d, s : SetDir(l, d, s) => Shuffled /\ names'[Public] = names[Public]
         /\ UNCHANGED files => Shuffled /\ names'[Public] = names[Public]
         /\ \A l \in Levels : \A p, r : FinishReleased(p, l, "replace", r) =>
                Shuffled /\ names'[Public] = names[Public]
                /\ (UNCHANGED calls \/ Return(p, r) \/ Return(p, "collision"))
<1>0. DOMAIN names = Names /\ names = [n \in Names |-> names[n]] /\ Public \in Names
  BY NameFacts DEF FileTypes
<1>1. ASSUME NEW n \in NonTemps, Drop(n)
      PROVE  Shuffled /\ (n # Public => names'[Public] = names[Public])
  <2>1. names' = [names EXCEPT ![n] = 0] /\ text' = text
    BY <1>1 DEF Drop, SetNames
  <2> QED
    BY <1>0, <2>1, MovedNames
<1>2. ASSUME NEW n \in NonTemps, NEW m \in NonTemps, SetNames([names EXCEPT ![n] = names[m]])
      PROVE  Shuffled /\ (n # Public => names'[Public] = names[Public])
  <2>1. names' = [names EXCEPT ![n] = names[m]] /\ text' = text
    BY <1>2 DEF SetNames
  <2> QED
    BY <1>0, <2>1, MovedNames
<1>3. ASSUME NEW n \in NonTemps, NEW m \in NonTemps, Rename(n, m)
      PROVE  Shuffled /\ (n # Public /\ m # Public => names'[Public] = names[Public])
  <2>1. names' = [names EXCEPT ![n] = 0, ![m] = names[n]] /\ text' = text
    BY <1>3 DEF Rename, SetNames
  <2> QED
    BY <1>0, <2>1, MovedNames
<1>4. ASSUME NEW l, NEW d, NEW s, SetDir(l, d, s)
      PROVE  Shuffled /\ names'[Public] = names[Public]
  <2>1. names' = names /\ text' = text
    BY <1>4 DEF SetDir
  <2> QED
    BY <1>0, <2>1, MovedNames
<1>5. ASSUME UNCHANGED files
      PROVE  Shuffled /\ names'[Public] = names[Public]
  <2>1. names' = names /\ text' = text
    BY <1>5 DEF files
  <2> QED
    BY <1>0, <2>1, MovedNames
<1>6. ASSUME NEW l \in Levels, NEW p, NEW r, FinishReleased(p, l, "replace", r)
      PROVE  Shuffled /\ names'[Public] = names[Public] /\ (UNCHANGED calls \/ Return(p, r) \/ Return(p, "collision"))
  <2>1. \/ UNCHANGED files /\ Return(p, "collision")
        \/ Drop(Release(l, "replace")) /\ UNCHANGED calls
        \/ SetDir(l, "replace", "none") /\ Return(p, r)
    BY <1>6 DEF FinishReleased
  <2>2. Release(l, "replace") \in NonTemps /\ Release(l, "replace") # Public
    BY NonTempNames
  <2> QED
    BY <1>1, <1>4, <1>5, <2>1, <2>2
<1> QED
  BY <1>1, <1>2, <1>3, <1>4, <1>5, <1>6

\* The frame at the top of a process at a file function.
LEMMA TopFrame ==
  ASSUME IInv, NEW p \in Procs, NEW fn, NEW a, At(p, fn, a)
  PROVE  \E f, r : /\ Now(p, f, r) /\ f.fn = fn /\ f.at = a /\ f.l \in Levels /\ F(p) = f /\ R(p) = r
                   /\ f \in FrameType /\ r \in ResultType /\ FrameOK(f) /\ Top(f, r) /\ stack[p] # <<>>
                   /\ FileTypes /\ CallsOK
<1>1. PICK f, r : Now(p, f, r) /\ f.fn = fn /\ f.at = a /\ f.l \in Levels
  BY NowFacts DEF IInv
<1> QED
  BY <1>1 DEF Now, IInv, Framework, FilesOK, Placed

LEMMA RestoreOwned ==
  ASSUME IInv, NEW p \in Procs, Owned(p), RestoreStep(p), UNCHANGED <<manifests, host>>
  PROVE  Owned(p)'
<1>1. PICK a : At(p, "restore", a)
  BY DEF RestoreStep, RestoreLinks, RestoreDrops, RestoreCloses
<1>2. PICK f, r : /\ Now(p, f, r) /\ f.fn = "restore" /\ f.l \in Levels /\ F(p) = f /\ stack[p] # <<>>
                  /\ f \in FrameType /\ FrameOK(f) /\ FileTypes
  BY <1>1, TopFrame
<1>3. f.dir = "replace" /\ IsPlain(f)
  BY <1>2 DEF FrameOK, OKRestore, IsPlain, PlainFns
<1>4. /\ Captured(f.l, "replace") \in NonTemps /\ Release(f.l, "replace") \in NonTemps /\ Public \in NonTemps
  BY <1>2, NonTempNames
<1>5. Later(f, "drop") /\ Later(f, "close")
  BY <1>2 DEF Later, LeaseWork
<1>6. CASE RestoreLinks(p)
  <2>1. /\ UNCHANGED files \/ SetNames([names EXCEPT ![Public] = names[Captured(f.l, "replace")]])
        /\ Go(p, "drop") \/ Return(p, "collision")
    BY <1>2, <1>3, <1>6 DEF RestoreLinks
  <2>2. Shuffled /\ Turns(p)
    BY <1>2, <1>3, <1>4, <1>5, <2>1, NameMoves, TurnsFacts
  <2> QED
    BY <1>2, <1>3, <2>2, PlainKept DEF Around, Early
<1>7. CASE RestoreDrops(p)
  <2>1. /\ UNCHANGED files \/ Drop(Captured(f.l, "replace"))
        /\ Go(p, "close") \/ Return(p, "collision")
    BY <1>2, <1>3, <1>7 DEF RestoreDrops
  <2>2. Shuffled /\ Turns(p)
    BY <1>2, <1>3, <1>4, <1>5, <2>1, NameMoves, TurnsFacts
  <2> QED
    BY <1>2, <1>3, <2>2, PlainKept DEF Around, Early
<1>8. CASE RestoreCloses(p)
  <2>1. /\ UNCHANGED files \/ SetDir(f.l, "replace", "none")
        /\ Return(p, "ok") \/ Return(p, "failed")
    BY <1>2, <1>3, <1>8 DEF RestoreCloses
  <2>2. Shuffled /\ Turns(p)
    BY <1>2, <1>3, <2>1, NameMoves, TurnsFacts
  <2> QED
    BY <1>2, <1>3, <2>2, PlainKept DEF Around, Early
<1> QED
  BY <1>6, <1>7, <1>8 DEF RestoreStep

LEMMA RemoveOwned ==
  ASSUME IInv, NEW p \in Procs, Owned(p), RemoveStep(p), UNCHANGED <<manifests, host>>
  PROVE  Owned(p)'
<1>1. PICK a : At(p, "remove", a)
  BY DEF RemoveStep, RemoveLinks, RemoveDrops, RemoveWaits, RemoveCompares, RemoveKeeps, RemoveFinishes, RemoveUndoes
<1>2. PICK f, r : /\ Now(p, f, r) /\ f.fn = "remove" /\ f.l \in Levels /\ F(p) = f /\ stack[p] # <<>>
                  /\ f \in FrameType /\ FrameOK(f) /\ FileTypes
  BY <1>1, TopFrame
<1>3. f.dir = "replace" /\ IsPlain(f)
  BY <1>2 DEF FrameOK, OKRemove, IsPlain, PlainFns
<1> DEFINE captured == Captured(f.l, "replace")
           release == Release(f.l, "replace")
<1>4. captured \in NonTemps /\ release \in NonTemps /\ captured # Public /\ release # Public
  BY <1>2, NonTempNames
<1>5. \A b \in {"drop", "wait", "compare", "finish", "keep", "undo"} : Later(f, b)
  BY <1>2 DEF Later, LeaseWork
<1> HIDE DEF captured, release
<1>6. /\ \/ UNCHANGED files \/ Drop(captured) \/ Drop(release) \/ Rename(release, captured)
         \/ SetNames([names EXCEPT ![release] = names[captured]]) \/ SetNames([names EXCEPT ![captured] = names[release]])
         \/ SetDir(f.l, "replace", "released") \/ FinishReleased(p, f.l, "replace", "ok")
      /\ \/ \E b \in {"drop", "wait", "compare", "finish"} : Go(p, b)
         \/ \E code : Throw(p, "undo", code)
         \/ \E g : Continue(p, g) /\ g.fn = f.fn /\ g.at = "keep"
         \/ \E q, i, t : Give(p, q, i, t)
         \/ FinishReleased(p, f.l, "replace", "ok")
  <2>1. CASE RemoveLinks(p)
    BY <1>2, <1>3, <2>1 DEF RemoveLinks, captured, release
  <2>2. CASE RemoveDrops(p)
    BY <1>2, <1>3, <2>2 DEF RemoveDrops, captured, release
  <2>3. CASE RemoveWaits(p)
    BY <1>2, <1>3, <2>3 DEF RemoveWaits
  <2>4. CASE RemoveCompares(p)
    <3>1. PICK i : i = names[release]
      OBVIOUS
    <3>2. PICK g : g = [f EXCEPT !.at = "keep", !.inode = i, !.text = text[i]]
      OBVIOUS
    <3>3. g.fn = f.fn /\ g.at = "keep"
      BY <1>2, <3>2 DEF FrameType
    <3>4. \/ \E code : Throw(p, "undo", code) /\ UNCHANGED files
          \/ SetDir(f.l, "replace", "released") /\ Go(p, "finish")
          \/ SetNames([names EXCEPT ![captured] = names[release]]) /\ Continue(p, g)
      BY <1>2, <1>3, <2>4, <3>1, <3>2 DEF RemoveCompares, captured, release
    <3> QED
      BY <3>3, <3>4
  <2>5. CASE RemoveKeeps(p)
    BY <1>2, <1>3, <2>5 DEF RemoveKeeps, release
  <2>6. CASE RemoveFinishes(p)
    BY <1>2, <1>3, <2>6 DEF RemoveFinishes
  <2>7. CASE RemoveUndoes(p)
    BY <1>2, <1>3, <2>7 DEF RemoveUndoes, captured, release, Return
  <2> QED
    BY <2>1, <2>2, <2>3, <2>4, <2>5, <2>6, <2>7 DEF RemoveStep
<1>7. names'[Public] = names[Public] /\ text' = text
  BY <1>2, <1>4, <1>6, NameMoves DEF Shuffled
<1>8. FinishReleased(p, f.l, "replace", "ok") => UNCHANGED calls \/ Return(p, "ok") \/ Return(p, "collision")
  BY <1>2, NameMoves
<1>9. Turns(p)
  BY <1>2, <1>3, <1>5, <1>6, <1>8, TurnsFacts
<1> QED
  BY <1>2, <1>3, <1>7, <1>9, PlainKept DEF Around, Early

LEMMA QuietCallees ==
  /\ \A l, d, m, i, t : Quiet(Remove(l, d, m, i, t))
  /\ \A l, d, m, i, t, q : Quiet(ReleaseAll(l, d, m, i, t, q))
  /\ \A l, d, q : Quiet(Merge(l, d, q))
  /\ \A l, i, t, n : Quiet(Replace(l, i, t, n))
  /\ \A l, d : Quiet(Restore(l, d)) /\ Quiet(Capture(l, d, 2))
  /\ \A l : Quiet(Recover(l)) /\ Quiet(RecoverRollback(l))
<1>1. ASSUME NEW l, NEW d, NEW m, NEW i, NEW t
      PROVE  Remove(l, d, m, i, t).fn = "remove"
  BY DEF Remove, Frame
<1>2. ASSUME NEW l, NEW d, NEW m, NEW i, NEW t, NEW q
      PROVE  ReleaseAll(l, d, m, i, t, q).fn = "release" /\ ReleaseAll(l, d, m, i, t, q).at \notin LeaseWork
  BY DEF ReleaseAll, Remove, Frame, LeaseWork
<1>3. ASSUME NEW l, NEW d, NEW q
      PROVE  Merge(l, d, q).fn = "merge"
  BY DEF Merge, Frame
<1>4. ASSUME NEW l, NEW i, NEW t, NEW n
      PROVE  Replace(l, i, t, n).fn = "replace" /\ Replace(l, i, t, n).at = "write"
  BY DEF Replace, Frame
<1>5. ASSUME NEW l, NEW d
      PROVE  /\ Restore(l, d).fn = "restore"
             /\ Capture(l, d, 2).fn = "capture" /\ Capture(l, d, 2).max = 2
  BY DEF Restore, Capture, Frame
<1>6. ASSUME NEW l
      PROVE  Recover(l).fn = "recover" /\ RecoverRollback(l).fn = "unroll"
  BY DEF Recover, RecoverRollback, Frame
<1> QED
  BY <1>1, <1>2, <1>3, <1>4, <1>5, <1>6 DEF Quiet, IsPlain, PlainFns

\* A function that is neither a recovery at its start nor moves files.
LEMMA LaterOn ==
  ASSUME NEW f, f.fn # "recover" \/ ~Early(f)
  PROVE  \A a : a \notin LeaseWork => Later(f, a)
  BY DEF Later

LEMMA ReleaseOwned ==
  ASSUME IInv, NEW p \in Procs, Owned(p), ReleaseStep(p), UNCHANGED <<manifests, host>>
  PROVE  Owned(p)'
<1>1. PICK a : At(p, "release", a) /\ a \in {"try", "tried", "merged"}
  BY DEF ReleaseStep, ReleaseTries, ReleaseTried, ReleaseMerged
<1>2. PICK f, r : /\ f.fn = "release" /\ f.at = a /\ F(p) = f /\ R(p) = r /\ stack[p] # <<>> /\ f \in FrameType
  BY <1>1, TopFrame
<1>3. "try" \notin LeaseWork /\ "tried" \notin LeaseWork /\ "merged" \notin LeaseWork
  BY DEF LeaseWork
<1>4. IsPlain(f) /\ Around(p)
  BY <1>1, <1>2, <1>3 DEF IsPlain, PlainFns, Around, Early
<1>5. Later(f, "try") /\ Later(f, "tried") /\ Later(f, "merged")
  BY <1>2, <1>3, LaterOn
<1>6. CASE ReleaseTries(p)
  BY <1>2, <1>4, <1>5, <1>6, TurnsFacts, QuietCallees, PlainKept DEF ReleaseTries
<1>7. CASE ReleaseTried(p)
  <2>1. PICK i : i = names[Captured(f.l, f.dir)]
    OBVIOUS
  <2>2. PICK c : c = [f EXCEPT !.inode = r.inode, !.text = r.text, !.req = @ \cup {text[i]}]
    OBVIOUS
  <2>3. PICK d : d = [c EXCEPT !.at = "merged"]
    OBVIOUS
  <2>4. d.fn = f.fn /\ d.at = "merged"
    BY <1>2, <2>2, <2>3 DEF FrameType
  <2>5. Return(p, r.r) \/ Return(p, "failed") \/ Frames(p, <<Merge(f.l, f.dir, c.req), d>>)
    BY <1>2, <1>7, <2>1, <2>2, <2>3 DEF ReleaseTried, Enter
  <2>6. Quiet(Merge(f.l, f.dir, c.req))
    BY QuietCallees
  <2>7. Turns(p)
    BY <1>2, <1>4, <1>5, <2>4, <2>5, <2>6, TurnsFacts
  <2> QED
    BY <1>2, <1>4, <2>7, PlainKept
<1>8. CASE ReleaseMerged(p)
  <2>1. Turns(p)
    BY <1>2, <1>4, <1>5, <1>8, TurnsFacts DEF ReleaseMerged
  <2> QED
    BY <1>2, <1>4, <2>1, PlainKept
<1> QED
  BY <1>6, <1>7, <1>8 DEF ReleaseStep

LEMMA MergeOwned ==
  ASSUME IInv, NEW p \in Procs, Owned(p), MergeStep(p), UNCHANGED <<manifests, host>>
  PROVE  Owned(p)'
<1>1. PICK a : At(p, "merge", a)
  BY DEF MergeStep, MergeReads, MergeReplaced
<1>2. PICK f, r : f.fn = "merge" /\ F(p) = f /\ R(p) = r /\ stack[p] # <<>> /\ f \in FrameType
  BY <1>1, TopFrame
<1>3. IsPlain(f) /\ Around(p)
  BY <1>2 DEF IsPlain, PlainFns, Around, Early
<1>6. "read" \notin LeaseWork /\ "replaced" \notin LeaseWork
  BY DEF LeaseWork
<1>4. Later(f, "read") /\ Later(f, "replaced")
  BY <1>2, <1>6, LaterOn
<1>5. Turns(p)
  <2>1. CASE MergeReads(p)
    <3>1. PICK i : i = names[Public]
      OBVIOUS
    <3>2. PICK c : c = [f EXCEPT !.req = @ \cup {text[i]}]
      OBVIOUS
    <3>3. PICK d : d = [c EXCEPT !.at = "replaced"]
      OBVIOUS
    <3>4. d.fn = f.fn /\ d.at = "replaced"
      BY <1>2, <3>2, <3>3 DEF FrameType
    <3>5. \/ UNCHANGED calls \/ Return(p, "failed") \/ Return(p, "collision") \/ Return(p, "ok")
          \/ \E n : Frames(p, <<Replace(f.l + 1, i, text[i], n), d>>)
      BY <1>2, <2>1, <3>1, <3>2, <3>3 DEF MergeReads, Enter
    <3>6. \A n : Quiet(Replace(f.l + 1, i, text[i], n))
      BY QuietCallees
    <3> QED
      BY <1>2, <1>3, <1>4, <3>4, <3>5, <3>6, TurnsFacts
  <2>2. CASE MergeReplaced(p)
    BY <1>2, <1>3, <1>4, <2>2, TurnsFacts DEF MergeReplaced
  <2> QED
    BY <2>1, <2>2 DEF MergeStep
<1> QED
  BY <1>2, <1>3, <1>5, PlainKept

LEMMA UnrollOwned ==
  ASSUME IInv, NEW p \in Procs, Owned(p), UnrollStarts(p), UNCHANGED <<manifests, host>>
  PROVE  Owned(p)'
<1>1. At(p, "unroll", "start")
  BY DEF UnrollStarts
<1>2. PICK f, r : f.fn = "unroll" /\ f.l \in Levels /\ F(p) = f /\ stack[p] # <<>> /\ f \in FrameType
  BY <1>1, TopFrame
<1>3. dirs[<<f.l, "rollback">>] = "none"
  BY <1>2 DEF IInv, Framework, FilesOK, Placed, NoRoll
<1>4. Return(p, "ok") /\ UNCHANGED files
  BY <1>2, <1>3 DEF UnrollStarts
<1>5. IsPlain(f) /\ Around(p)
  BY <1>2, <1>4 DEF IsPlain, PlainFns, Around
<1>6. Turns(p)
  BY <1>2, <1>4, <1>5, TurnsFacts
<1> QED
  BY <1>2, <1>5, <1>6, PlainKept

LEMMA RecoverOwned ==
  ASSUME IInv, NEW p \in Procs, Owned(p), RecoverStep(p), UNCHANGED <<manifests, host>>
  PROVE  Owned(p)'
<1>1. PICK a : At(p, "recover", a)
  BY DEF RecoverStep, RecoverStarts, RecoverUnrolled, RecoverReconciled, RecoverCaptures, RecoverGot, RecoverMerged,
     RecoverReleases, RecoverDone
<1>2. PICK f, r : /\ f.fn = "recover" /\ f.at = a /\ f.l \in Levels /\ F(p) = f /\ R(p) = r /\ stack[p] # <<>>
                  /\ f \in FrameType /\ Top(f, r)
  BY <1>1, TopFrame
<1>3. IsPlain(f)
  BY <1>2 DEF IsPlain, PlainFns
<1>4. \A b \in {"unrolled", "reconciled", "capture", "got", "merged", "release", "done"} : b \notin LeaseWork
  BY DEF LeaseWork
<1>5. CASE RecoverStarts(p)
  <2>1. Around(p)
    BY <1>2, <1>5 DEF RecoverStarts, Around
  <2>2. Later(f, "unrolled")
    BY <1>4 DEF Later
  <2>3. Turns(p)
    BY <1>2, <1>3, <1>5, <2>2, TurnsFacts, QuietCallees DEF RecoverStarts
  <2> QED
    BY <1>2, <1>3, <2>1, <2>3, PlainKept
<1>6. CASE RecoverUnrolled(p)
  <2>1. f.at = "unrolled" /\ r.r = "ok"
    <3>1. f.at = "unrolled"
      BY <1>2, <1>6 DEF RecoverUnrolled, At, F
    <3> QED
      BY <1>2, <3>1 DEF Top, TopRecover
  <2>2. CASE Dir(f.l) = "none"
    <3>1. Return(p, "ok") /\ UNCHANGED files
      BY <1>2, <1>6, <2>1, <2>2 DEF RecoverUnrolled, Dir, Errors
    <3>2. Around(p) /\ Turns(p)
      BY <1>2, <1>3, <3>1, TurnsFacts DEF Around
    <3> QED
      BY <1>2, <1>3, <3>2, PlainKept
  <2>3. CASE Dir(f.l) # "none"
    <3>1. ~AllTidy
      BY <1>2, <2>3 DEF AllTidy, Tidy
    <3>2. Around(p) /\ Later(f, "reconciled")
      BY <1>2, <1>4, <3>1 DEF Around, Later
    <3>3. \/ FinishReleased(p, f.l, "replace", "ok") \/ Return(p, "collision")
          \/ Enter(p, f, "reconciled", Recover(f.l + 1))
      BY <1>2, <1>6, <2>1, <2>3 DEF RecoverUnrolled, Dir, Errors
    <3>4. FinishReleased(p, f.l, "replace", "ok") => UNCHANGED calls \/ Return(p, "ok") \/ Return(p, "collision")
      BY <1>2, NameMoves DEF IInv, Framework, FilesOK, Placed
    <3>5. Turns(p)
      BY <1>2, <1>3, <3>2, <3>3, <3>4, TurnsFacts, QuietCallees
    <3> QED
      BY <1>2, <1>3, <3>2, <3>5, PlainKept
  <2> QED
    BY <2>2, <2>3
<1>7. ASSUME a \notin {"start", "unrolled"}
      PROVE  Around(p) /\ \A b : b \notin LeaseWork => Later(f, b)
  BY <1>2, <1>7, LaterOn DEF Around, Early
<1>8. CASE RecoverReconciled(p) \/ RecoverCaptures(p) \/ RecoverMerged(p) \/ RecoverReleases(p) \/ RecoverDone(p)
  <2>1. a \notin {"start", "unrolled"}
    BY <1>1, <1>8 DEF RecoverReconciled, RecoverCaptures, RecoverMerged, RecoverReleases, RecoverDone, At
  <2>2. \/ \E q : Return(p, q)
        \/ \E b \in {"capture", "release"} : Go(p, b)
        \/ Enter(p, f, "got", Capture(f.l, "replace", 2))
        \/ Enter(p, f, "done", ReleaseAll(f.l, "replace", 2, f.inode, f.text, f.req))
    BY <1>2, <1>8 DEF RecoverReconciled, RecoverCaptures, RecoverMerged, RecoverReleases, RecoverDone, Untemp
  <2>3. Turns(p)
    BY <1>2, <1>3, <1>4, <1>7, <2>1, <2>2, TurnsFacts, QuietCallees
  <2> QED
    BY <1>2, <1>3, <1>7, <2>1, <2>3, PlainKept
<1>9. CASE RecoverGot(p)
  <2>1. a \notin {"start", "unrolled"}
    BY <1>1, <1>9 DEF RecoverGot, At
  <2>2. PICK public : public = names[Public]
    OBVIOUS
  <2>3. PICK g : g = [f EXCEPT !.inode = r.inode, !.text = r.text, !.req = {r.text} \cup (IF public = 0 THEN {} ELSE {text[public]})]
    OBVIOUS
  <2>4. PICK g1, g2, g3 : g1 = [g EXCEPT !.at = "release"] /\ g2 = [g EXCEPT !.at = "done"] /\ g3 = [g EXCEPT !.at = "merged"]
    OBVIOUS
  <2>5. g1.fn = f.fn /\ g1.at = "release" /\ g2.fn = f.fn /\ g2.at = "done" /\ g3.fn = f.fn /\ g3.at = "merged"
    BY <1>2, <2>3, <2>4 DEF FrameType
  <2>6. \/ \E q : Return(p, q)
        \/ Continue(p, g1)
        \/ Frames(p, <<Restore(f.l, "replace"), g2>>)
        \/ Frames(p, <<Merge(f.l, "replace", g.req), g3>>)
    BY <1>2, <1>9, <2>2, <2>3, <2>4 DEF RecoverGot, Enter
  <2>7. Turns(p)
    BY <1>2, <1>3, <1>4, <1>7, <2>1, <2>5, <2>6, TurnsFacts, QuietCallees
  <2> QED
    BY <1>2, <1>3, <1>7, <2>1, <2>7, PlainKept
<1> QED
  BY <1>5, <1>6, <1>8, <1>9 DEF RecoverStep

-----------------------------------------------------------------------------
(* The capture                                                              *)

LEMMA NoLinks ==
  ASSUME NEW c, NEW g, g.fn \notin {"rules", "replace", "recover", "rollback"}
  PROVE  LinkOwned(c, g)'
  BY DEF LinkOwned

LEMMA CaptureOwned ==
  ASSUME IInv, NEW p \in Procs, Owned(p), CaptureStep(p), UNCHANGED <<manifests, host>>
  PROVE  Owned(p)'
<1>1. PICK a : At(p, "capture", a)
  BY DEF CaptureStep, CaptureOpens, CaptureClaims, CaptureTakes, CaptureReads, CaptureRefused
<1>2. PICK f, r : /\ f.fn = "capture" /\ f.at = a /\ f.l \in Levels /\ F(p) = f /\ R(p) = r /\ stack[p] # <<>>
                  /\ f \in FrameType /\ FrameOK(f) /\ Top(f, r) /\ FileTypes /\ CallsOK
  BY <1>1, TopFrame
<1>3. /\ f.dir = "replace" /\ f.max \in {1, 2}
      /\ f.at = "take" => Dir(f.l) = "open"
      /\ TopOwned(f, r)
  BY <1>2, OwnedBelow DEF FrameOK, OKCapture, Top, TopCapture
<1> DEFINE captured == Captured(f.l, "replace")
           release == Release(f.l, "replace")
<1>4. captured \in NonTemps /\ release \in NonTemps /\ Public \in NonTemps /\ Public # captured
  BY <1>2, NonTempNames
<1> HIDE DEF captured, release
<1>5. Shuffled
  <2>1. \/ UNCHANGED files \/ (\E n \in {captured, release} : Drop(n)) \/ Rename(release, captured) \/ Rename(Public, captured)
        \/ (\E s : SetDir(f.l, "replace", s)) \/ FinishReleased(p, f.l, "replace", "absent")
    <3>1. CASE CaptureOpens(p)
      BY <1>2, <1>3, <3>1 DEF CaptureOpens
    <3>2. CASE CaptureClaims(p)
      BY <1>2, <1>3, <3>2 DEF CaptureClaims, captured, release
    <3>3. CASE CaptureTakes(p)
      BY <1>2, <1>3, <3>3 DEF CaptureTakes, captured, release
    <3>4. CASE CaptureReads(p) \/ CaptureRefused(p)
      BY <3>4 DEF CaptureReads, CaptureRefused
    <3> QED
      BY <3>1, <3>2, <3>3, <3>4 DEF CaptureStep
  <2> QED
    BY <1>2, <1>4, <2>1, NameMoves
<1>6. Lower(p)
  BY <1>2, <1>5, LowerKept DEF Around, Early
<1>7. ASSUME NEW g, g.fn = "capture"
      PROVE  FrameOwned(g)' /\ Callee(p, g)
  <2>1. FrameOwned(g)'
    BY <1>7 DEF FrameOwned, FileFrame, CallFrame, LaunchFrame
  <2>2. Callee(p, g)
    BY <1>7, NoLinks DEF Callee
  <2> QED
    BY <2>1, <2>2
\* What it returns, and how it goes on.
<1>8. ASSUME NEW q, NEW i, NEW t, Give(p, q, i, t), q \in {"ok", "absent"} => (f.max = 1 => PublicBlocks' = 0)
      PROVE  Owned(p)'
  <2>1. PICK s : s = R(p)'
    OBVIOUS
  <2>2. s.r = q
    BY <1>2, <1>8, <2>1 DEF Give, R, CallsOK, CallTypes, Result
  <2>3. ASSUME NEW c, Len(stack[p]) > 1, c = stack[p][2]
        PROVE  TopOwned(c, s)'
    <3>1. Legal(c, f)
      BY <1>2, <2>3, OwnedBelow
    <3>2. c.fn = "recover" \/ (c.fn = "replace" /\ c.at = "captured" /\ f.max = 1)
      BY <1>2, <3>1 DEF Legal, CallsOfHost, CallsOfRecovery, CallsOfChange
    <3>3. CASE c.fn = "recover"
      BY <3>3 DEF TopOwned
    <3>4. CASE c.fn = "replace" /\ c.at = "captured" /\ f.max = 1
      BY <1>8, <2>2, <3>4 DEF TopOwned
    <3> QED
      BY <3>2, <3>3, <3>4
  <2>4. Frames(p, <<>>)
    BY <1>8 DEF Give
  <2> QED
    BY <1>2, <1>6, <2>1, <2>3, <2>4, OwnedReturns
<1>9. ASSUME NEW b, Go(p, b), f.max = 1 => b \in {"take", "read"} /\ (b = "read" => PublicBlocks' = 0)
      PROVE  Owned(p)'
  <2>1. PICK g : g = [f EXCEPT !.at = b]
    OBVIOUS
  <2>2. g.fn = "capture" /\ g.at = b /\ g.max = f.max /\ Frames(p, <<g>>)
    BY <1>2, <1>9, <2>1 DEF Go, Continue, FrameType
  <2>3. PICK s : s = R(p)'
    OBVIOUS
  <2>4. TopOwned(g, s)'
    BY <1>9, <2>2 DEF TopOwned
  <2> QED
    BY <1>2, <1>6, <1>7, <2>2, <2>3, <2>4, OwnedGoes
<1>10. CASE CaptureOpens(p)
  <2>0. f.at = "open"
    BY <1>2, <1>10 DEF CaptureOpens, At, F
  <2>1. CASE f.max = 1
    <3>1. Dir(f.l) = "none"
      BY <1>2, <1>3, <2>0, <2>1 DEF TopOwned
    <3>2. Go(p, "take")
      BY <1>2, <1>3, <1>10, <3>1 DEF CaptureOpens, Dir
    <3> QED
      BY <1>9, <3>2
  <2>2. CASE f.max # 1
    <3>1. FinishReleased(p, f.l, "replace", "absent") \/ Go(p, "claim") \/ Go(p, "take")
      BY <1>2, <1>3, <1>10 DEF CaptureOpens
    <3>2. CASE FinishReleased(p, f.l, "replace", "absent")
      <4>1. UNCHANGED calls \/ Return(p, "absent") \/ Return(p, "collision")
        BY <1>2, <3>2, NameMoves
      <4>2. CASE Return(p, "absent") \/ Return(p, "collision")
        BY <1>8, <2>2, <4>2 DEF Return
      <4>3. CASE UNCHANGED calls
        <5>1. PICK s : s = R(p)'
          OBVIOUS
        <5>2. TopOwned(f, s)'
          BY <1>2, <2>2 DEF TopOwned
        <5>3. stack'[p] = stack[p]
          BY <4>3 DEF calls
        <5> QED
          BY <1>2, <1>6, <1>7, <5>1, <5>2, <5>3, OwnedStays
      <4> QED
        BY <4>1, <4>2, <4>3
    <3> QED
      BY <1>9, <2>2, <3>1, <3>2
  <2> QED
    BY <2>1, <2>2
<1>11. CASE CaptureClaims(p)
  <2>0. f.at = "claim"
    BY <1>2, <1>11 DEF CaptureClaims, At, F
  <2>1. f.max # 1
    BY <1>2, <1>3, <2>0 DEF TopOwned
  <2>2. UNCHANGED calls \/ Return(p, "collision") \/ Go(p, "take") \/ Go(p, "read")
    BY <1>2, <1>11 DEF CaptureClaims
  <2>3. CASE UNCHANGED calls
    <3>1. PICK s : s = R(p)'
      OBVIOUS
    <3>2. TopOwned(f, s)'
      BY <1>2, <2>1 DEF TopOwned
    <3>3. stack'[p] = stack[p]
      BY <2>3 DEF calls
    <3> QED
      BY <1>2, <1>6, <1>7, <3>1, <3>2, <3>3, OwnedStays
  <2> QED
    BY <1>8, <1>9, <2>1, <2>2, <2>3 DEF Return
<1>12. CASE CaptureTakes(p)
  <2>0. f.at = "take" /\ Dir(f.l) = "open"
    BY <1>2, <1>3, <1>12 DEF CaptureTakes, At, F
  <2>1. \/ Rename(Public, captured) /\ Go(p, "read")
        \/ names[Public] = 0 /\ (UNCHANGED files \/ SetDir(f.l, "replace", "none")) /\ Return(p, "absent")
    BY <1>2, <1>3, <1>12, <2>0 DEF CaptureTakes, Dir, captured
  <2>2. PublicBlocks' = 0
    <3>1. names'[Public] = 0
      <4>1. CASE Rename(Public, captured)
        BY <1>2, <1>4, <4>1, NonTempNames DEF Rename, SetNames, FileTypes
      <4>2. CASE names[Public] = 0 /\ (UNCHANGED files \/ SetDir(f.l, "replace", "none"))
        BY <1>2, <4>2, NameMoves
      <4> QED
        BY <2>1, <4>1, <4>2
    <3> QED
      BY <3>1 DEF PublicBlocks
  <2> QED
    BY <1>8, <1>9, <2>1, <2>2 DEF Return
<1>13. CASE CaptureReads(p)
  <2>0. f.at = "read" /\ UNCHANGED files
    BY <1>2, <1>13 DEF CaptureReads, At, F
  <2>1. f.max = 1 => PublicBlocks' = 0
    BY <1>2, <1>3, <2>0, QuietBlocks DEF TopOwned
  <2>2. \/ \E q, i, t : Give(p, q, i, t)
        \/ Enter(p, f, "refused", [Frame("restore", "link", f.l) EXCEPT !.dir = f.dir])
    BY <1>2, <1>13 DEF CaptureReads, Return
  <2>3. CASE Enter(p, f, "refused", [Frame("restore", "link", f.l) EXCEPT !.dir = f.dir])
    <3>1. PICK g, c : g = [Frame("restore", "link", f.l) EXCEPT !.dir = f.dir] /\ c = [f EXCEPT !.at = "refused"]
      OBVIOUS
    <3>2. g.fn = "restore" /\ c.fn = "capture" /\ Frames(p, <<g, c>>)
      BY <1>2, <2>3, <3>1 DEF Enter, Frame, FrameType
    <3>3. PICK s : s = R(p)'
      OBVIOUS
    <3>4. FrameOwned(g)' /\ TopOwned(g, s)' /\ LinkOwned(c, g)'
      BY <3>2, QuietOwned, NoLinks DEF Quiet, IsPlain, PlainFns
    <3> QED
      BY <1>2, <1>6, <1>7, <3>2, <3>3, <3>4, OwnedEnters
  <2> QED
    BY <1>8, <2>1, <2>2, <2>3
<1>14. CASE CaptureRefused(p)
  BY <1>8, <1>14 DEF CaptureRefused, Return
<1> QED
  BY <1>10, <1>11, <1>12, <1>13, <1>14 DEF CaptureStep

-----------------------------------------------------------------------------
(* The replacement                                                          *)

\* A replacement at the top goes on at g.
ReplaceOn(f, g) ==
    /\ g.fn = "replace" /\ g.next = f.next /\ g.l = f.l
    /\ g.at \in Unpublished => f.at \in Unpublished /\ (Blockless => Blockless')
    /\ g.at \in {"captured", "publish"} /\ Tmp(g.l)' # 0 => text'[Tmp(g.l)'].blocks <= g.next.blocks
    /\ g.at \in {"refresh", "removed", "finish"} => PublicBlocks' <= g.next.blocks

LEMMA ReplaceTop ==
  ASSUME IInv, NEW p \in Procs, Owned(p), NEW a, At(p, "replace", a), UNCHANGED <<manifests, host>>
  PROVE  \E f, r : /\ f.fn = "replace" /\ f.at = a /\ f.l \in Levels /\ F(p) = f /\ R(p) = r /\ stack[p] # <<>>
                   /\ f \in FrameType /\ r \in ResultType /\ OKReplace(f) /\ TopReplace(f, r) /\ FileTypes /\ CallsOK /\ FilesOK
                   /\ Lower(p) /\ FileFrame(f) /\ TopOwned(f, r)
<1>1. PICK f, r : /\ f.fn = "replace" /\ f.at = a /\ f.l \in Levels /\ F(p) = f /\ R(p) = r /\ stack[p] # <<>>
                  /\ f \in FrameType /\ r \in ResultType /\ FrameOK(f) /\ Top(f, r) /\ FileTypes /\ CallsOK
  BY TopFrame
<1>2. Lower(p)
  BY <1>1, LowerKept DEF Around, Early
<1>3. FilesOK
  BY DEF IInv, Framework
<1> QED
  BY <1>1, <1>2, <1>3, OwnedBelow DEF FrameOK, Top, FrameOwned

LEMMA ReplaceFrames ==
  ASSUME IInv, NEW p \in Procs, Owned(p), NEW f, f.fn = "replace", F(p) = f, stack[p] # <<>>, lease' = lease,
         NEW g, ReplaceOn(f, g)
  PROVE  FrameOwned(g)' /\ Callee(p, g)
<1>1. CallsOK
  BY DEF IInv, Framework
<1>2. FrameOwned(g)'
  BY DEF FrameOwned, FileFrame, CallFrame, LaunchFrame, ReplaceOn
<1>3. ASSUME Len(stack[p]) > 1, NEW c, c = stack[p][2]
      PROVE  LinkOwned(c, g)'
  <2>1. LinkOwned(c, f)
    BY <1>1, <1>3, OwnedBelow
  <2>2. g.fn = "replace" /\ g.next = f.next
    BY DEF ReplaceOn
  <2>3. c.fn = "rules" /\ Way(c) = "append" /\ ~lease.live /\ g.at \in Unpublished => Blockless'
    BY <2>1 DEF LinkOwned, ReplaceOn
  <2> QED
    BY <2>1, <2>2, <2>3 DEF LinkOwned
<1> QED
  BY <1>2, <1>3 DEF Callee

LEMMA ReplaceOwnedGoes ==
  ASSUME IInv, NEW p \in Procs, Owned(p), NEW f, f.fn = "replace", F(p) = f, stack[p] # <<>>, lease' = lease, Lower(p),
         NEW g, ReplaceOn(f, g), Frames(p, <<g>>),
         g.at # "captured", g.at = "publish" => PublicBlocks' = 0
  PROVE  Owned(p)'
<1>1. CallsOK
  BY DEF IInv, Framework
<1>2. PICK s : s = R(p)'
  OBVIOUS
<1>3. TopOwned(g, s)'
  BY DEF TopOwned, ReplaceOn
<1>4. FrameOwned(g)' /\ Callee(p, g)
  BY ReplaceFrames
<1> QED
  BY <1>1, <1>2, <1>3, <1>4, OwnedGoes

LEMMA ReplaceOwnedEnters ==
  ASSUME IInv, NEW p \in Procs, Owned(p), NEW f, f.fn = "replace", F(p) = f, stack[p] # <<>>, lease' = lease, Lower(p),
         NEW c, ReplaceOn(f, c), NEW g, Frames(p, <<g, c>>),
         Quiet(g) \/ (g.fn = "capture" /\ g.at = "open" /\ Dir(g.l)' = "none")
  PROVE  Owned(p)'
<1>1. CallsOK
  BY DEF IInv, Framework
<1>2. PICK s : s = R(p)'
  OBVIOUS
<1>3. FrameOwned(g)' /\ TopOwned(g, s)'
  <2>1. CASE Quiet(g)
    BY <2>1, QuietOwned
  <2>2. CASE g.fn = "capture" /\ g.at = "open" /\ Dir(g.l)' = "none"
    BY <2>2 DEF FrameOwned, FileFrame, CallFrame, LaunchFrame, TopOwned
  <2> QED
    BY <2>1, <2>2
<1>4. FrameOwned(c)' /\ Callee(p, c)
  BY ReplaceFrames
<1>5. LinkOwned(c, g)'
  BY DEF LinkOwned, ReplaceOn
<1> QED
  BY <1>1, <1>2, <1>3, <1>4, <1>5, OwnedEnters

LEMMA ReplaceOwnedReturns ==
  ASSUME IInv, NEW p \in Procs, Owned(p), NEW f, f.fn = "replace", F(p) = f, stack[p] # <<>>, lease' = lease, Lower(p),
         NEW q, Return(p, q),
         q = "yes" => PublicBlocks' <= f.next.blocks /\ PublicBlocks' \in Nat,
         q = "no" => f.at \in Unpublished /\ (Blockless => Blockless')
  PROVE  Owned(p)'
<1>1. CallsOK
  BY DEF IInv, Framework
<1>2. PICK s : s = R(p)'
  OBVIOUS
<1>3. s.r = q /\ Frames(p, <<>>)
  BY <1>1, <1>2 DEF Return, Give, R, CallsOK, CallTypes, Result
<1>4. ASSUME NEW c, Len(stack[p]) > 1, c = stack[p][2]
      PROVE  TopOwned(c, s)'
  <2>1. Legal(c, f) /\ LinkOwned(c, f)
    BY <1>1, <1>4, OwnedBelow
  <2>2. c.fn = "merge" \/ (c.fn = "rules" /\ c.at = "tried")
    BY <2>1 DEF Legal, CallsOfHost, CallsOfRecovery, CallsOfChange
  <2>3. CASE c.fn = "merge"
    BY <2>3 DEF TopOwned
  <2>4. CASE c.fn = "rules" /\ c.at = "tried"
    <3>1. Way(c) = "remove" /\ q = "yes" => PublicBlocks' = 0
      <4> SUFFICES ASSUME Way(c) = "remove", q = "yes"
                   PROVE  PublicBlocks' = 0
        OBVIOUS
      <4>1. f.next.blocks = 0
        BY <2>1, <2>4 DEF LinkOwned
      <4>2. \A n \in Nat : n <= 0 => n = 0
        OBVIOUS
      <4> QED
        BY <4>1, <4>2
    <3>2. Way(c) = "append" /\ ~lease.live /\ q = "no" => Blockless'
      BY <2>1, <2>4 DEF LinkOwned
    <3> QED
      BY <1>3, <2>4, <3>1, <3>2 DEF TopOwned
  <2> QED
    BY <2>2, <2>3, <2>4
<1> QED
  BY <1>1, <1>2, <1>3, <1>4, OwnedReturns

LEMMA PublicCount == FileTypes => PublicBlocks \in Nat /\ \A n \in NonTemps : names[n] # 0 => text[names[n]].blocks \in 0..2
<1> SUFFICES ASSUME FileTypes
             PROVE  PublicBlocks \in Nat /\ \A n \in NonTemps : names[n] # 0 => text[names[n]].blocks \in 0..2
  OBVIOUS
<1>1. \A n \in Names : names[n] # 0 => names[n] \in Inodes /\ text[names[n]] \in Texts
  BY DEF FileTypes, Inodes
<1>2. \A n \in Names : names[n] # 0 => text[names[n]].blocks \in 0..2
  BY <1>1 DEF Texts
<1> QED
  BY <1>2, NameFacts DEF PublicBlocks, NonTemps

\* What the removal of a temporary name leaves.
LEMMA BlocksLeft ==
  ASSUME FileTypes, NEW l \in Levels, Drop(Temp(l))
  PROVE  PublicBlocks' = PublicBlocks /\ (Blockless => Blockless') /\ Shuffled
<1>1. names' = [names EXCEPT ![Temp(l)] = 0] /\ text' = text /\ DOMAIN names = Names
  BY DEF Drop, SetNames, FileTypes
<1>2. names'[Public] = names[Public] /\ \A n \in NonTemps : names'[n] = names[n]
  BY <1>1, NonTempNames DEF FileTypes
<1>3. PublicBlocks' = PublicBlocks /\ (Blockless => Blockless')
  BY <1>1, <1>2 DEF PublicBlocks, Blockless, NonTemps
<1>4. Shuffled
  <2>1. \A m \in Levels : Tmp(m)' \in {0, Tmp(m)}
    BY <1>1, NameFacts DEF Tmp
  <2>2. \A n \in Names : names'[n] = 0 \/ names'[n] = names[n]
    BY <1>1
  <2> QED
    BY <1>1, <2>1, <2>2 DEF Shuffled
<1> QED
  BY <1>3, <1>4

Kin(f, a) ==
    /\ a \in Unpublished => f.at \in Unpublished
    /\ a \in {"captured", "publish"} => f.at \in {"captured", "publish"}
    /\ a \in {"refresh", "removed", "finish"} => f.at \in {"refresh", "removed", "finish"}

\* A replacement that leaves the files alone.
LEMMA QuietOn ==
  ASSUME UNCHANGED files, NEW f, f.l \in Levels, f.fn = "replace", FileFrame(f), NEW g, g.fn = "replace", g.next = f.next, g.l = f.l,
         Kin(f, g.at)
  PROVE  ReplaceOn(f, g)
<1>1. Tmp(f.l)' = Tmp(f.l) /\ text' = text /\ PublicBlocks' = PublicBlocks /\ (Blockless' <=> Blockless)
  BY QuietBlocks DEF files
<1> QED
  BY <1>1 DEF ReplaceOn, Kin, FileFrame

LEMMA ReplaceQuiet ==
  ASSUME IInv, NEW p \in Procs, Owned(p), NEW f \in FrameType, f.fn = "replace", F(p) = f, stack[p] # <<>>, lease' = lease, Lower(p),
         f.l \in Levels, FileFrame(f), UNCHANGED files
  PROVE  /\ \A a : Kin(f, a) /\ a # "captured" /\ (a = "publish" => PublicBlocks = 0) /\ Go(p, a) => Owned(p)'
         /\ \A a, code : Kin(f, a) /\ a \notin {"captured", "publish"} /\ Throw(p, a, code) => Owned(p)'
         /\ \A a, h, g : /\ h \in FrameType /\ h.fn = f.fn /\ h.next = f.next /\ h.l = f.l
                         /\ Kin(f, a) /\ Quiet(g) /\ Enter(p, h, a, g)
                         => Owned(p)'
         /\ \A q : q \notin {"yes", "no"} /\ Return(p, q) => Owned(p)'
<1>1. PublicBlocks' = PublicBlocks
  BY QuietBlocks
<1>2. ASSUME NEW a, Kin(f, a), a # "captured", a = "publish" => PublicBlocks = 0, Go(p, a)
      PROVE  Owned(p)'
  <2>1. PICK g : g = [f EXCEPT !.at = a]
    OBVIOUS
  <2>2. g.fn = "replace" /\ g.next = f.next /\ g.l = f.l /\ g.at = a /\ Frames(p, <<g>>)
    BY <1>2, <2>1 DEF FrameType, Go, Continue
  <2>3. ReplaceOn(f, g)
    BY <1>2, <2>2, QuietOn
  <2> QED
    BY <1>1, <1>2, <2>2, <2>3, ReplaceOwnedGoes
<1>3. ASSUME NEW a, NEW code, Kin(f, a), a \notin {"captured", "publish"}, Throw(p, a, code)
      PROVE  Owned(p)'
  <2>1. PICK g : g = [f EXCEPT !.at = a, !.code = code]
    OBVIOUS
  <2>2. g.fn = "replace" /\ g.next = f.next /\ g.l = f.l /\ g.at = a /\ Frames(p, <<g>>)
    BY <1>3, <2>1 DEF FrameType, Throw, Continue
  <2>3. ReplaceOn(f, g)
    BY <1>3, <2>2, QuietOn
  <2> QED
    BY <1>1, <1>3, <2>2, <2>3, ReplaceOwnedGoes
<1>4. ASSUME NEW a, NEW h \in FrameType, NEW g, h.fn = f.fn, h.next = f.next, h.l = f.l, Kin(f, a), Quiet(g), Enter(p, h, a, g)
      PROVE  Owned(p)'
  <2>1. PICK c : c = [h EXCEPT !.at = a]
    OBVIOUS
  <2>2. c.fn = "replace" /\ c.next = f.next /\ c.l = f.l /\ c.at = a /\ Frames(p, <<g, c>>)
    BY <1>4, <2>1 DEF FrameType, Enter
  <2>3. ReplaceOn(f, c)
    BY <1>4, <2>2, QuietOn
  <2> QED
    BY <1>4, <2>2, <2>3, ReplaceOwnedEnters
<1>5. ASSUME NEW q, q \notin {"yes", "no"}, Return(p, q)
      PROVE  Owned(p)'
  BY <1>5, ReplaceOwnedReturns
<1> QED
  BY <1>2, <1>3, <1>4, <1>5

LEMMA ReplaceWritesOwned ==
  ASSUME IInv, NEW p \in Procs, Owned(p), ReplaceWrites(p), UNCHANGED <<manifests, host, user>>
  PROVE  Owned(p)'
<1>1. PICK f, r : /\ f.fn = "replace" /\ f.at = "write" /\ f.l \in Levels /\ F(p) = f /\ R(p) = r /\ stack[p] # <<>>
                  /\ f \in FrameType /\ OKReplace(f) /\ TopReplace(f, r) /\ FileTypes /\ FilesOK /\ Lower(p) /\ FileFrame(f)
  BY ReplaceTop DEF ReplaceWrites
<1>2. lease' = lease /\ Aside
  BY DEF host, user, manifests, Aside
<1>3. CASE Return(p, "collision") /\ UNCHANGED files
  BY <1>1, <1>2, <1>3, ReplaceQuiet
<1>4. CASE ~(Return(p, "collision") /\ UNCHANGED files)
  <2>1. PICK t : t = f.next
    OBVIOUS
  <2>2. t \in Texts /\ t.blocks <= f.next.blocks
    <3>1. f.next \in Texts /\ \A n \in Texts : n.blocks <= n.blocks
      BY <1>1 DEF FrameType, Texts
    <3> QED
      BY <2>1, <3>1
  <2>3. Fresh # {} /\ NewFile(Temp(f.l), t) /\ Enter(p, f, "captured", Capture(f.l, "replace", 1)) /\ Tmp(f.l) = 0
    BY <1>1, <1>4, <2>1 DEF ReplaceWrites, Tmp
  <2>4. Tidy(f.l) /\ Beneath(f.l)
    BY <1>1 DEF TopReplace
  <2>5. /\ dirs' = dirs /\ Tmp(f.l)' # 0 /\ text'[Tmp(f.l)'] = t
        /\ \A n \in Names \ {Temp(f.l)} : names'[n] = names[n] /\ names[n] # Tmp(f.l)'
        /\ \A m \in Names : names[m] # 0 => text'[names[m]] = text[names[m]]
    BY <1>1, <1>2, <2>2, <2>3, <2>4, WriteTemp
  <2>6. \A n \in NonTemps : n \in Names /\ names'[n] = names[n] /\ (names[n] # 0 => text'[names[n]] = text[names[n]])
    BY <1>1, <2>5, NonTempNames
  <2>7. Blockless => Blockless'
    BY <2>6 DEF Blockless, NonTemps
  <2>8. PICK c, g : c = [f EXCEPT !.at = "captured"] /\ g = Capture(f.l, "replace", 1)
    OBVIOUS
  <2>9. c.fn = "replace" /\ c.next = f.next /\ c.l = f.l /\ c.at = "captured" /\ Frames(p, <<g, c>>)
    BY <1>1, <2>3, <2>8 DEF FrameType, Enter
  <2>10. ReplaceOn(f, c)
    BY <1>1, <2>2, <2>5, <2>7, <2>9 DEF ReplaceOn, Unpublished
  <2>11. g.fn = "capture" /\ g.at = "open" /\ g.l = f.l
    BY <2>8 DEF Capture, Frame
  <2>12. Dir(g.l)' = "none"
    BY <2>4, <2>5, <2>11 DEF Tidy, Dir
  <2> QED
    BY <1>1, <1>2, <2>9, <2>10, <2>11, <2>12, ReplaceOwnedEnters
<1> QED
  BY <1>3, <1>4

LEMMA ReplaceCapturedOwned ==
  ASSUME IInv, NEW p \in Procs, Owned(p), ReplaceCaptured(p), UNCHANGED <<manifests, host>>
  PROVE  Owned(p)'
<1>1. PICK f, r : /\ f.fn = "replace" /\ f.at = "captured" /\ f.l \in Levels /\ F(p) = f /\ R(p) = r /\ stack[p] # <<>>
                  /\ f \in FrameType /\ r \in ResultType /\ TopReplace(f, r) /\ Lower(p) /\ FileFrame(f) /\ TopOwned(f, r)
  BY ReplaceTop DEF ReplaceCaptured
<1>2. lease' = lease /\ UNCHANGED files
  BY DEF host, ReplaceCaptured
<1>3. PICK h : h = [f EXCEPT !.inode = r.inode]
  OBVIOUS
<1>4. h \in FrameType /\ h.fn = f.fn /\ h.next = f.next /\ h.l = f.l
  BY <1>1, <1>3 DEF FrameType, ResultType
<1>5. r.r \in {"ok", "absent"} \cup Errors
  BY <1>1 DEF TopReplace
<1>6. \/ \E code : Throw(p, "abandon", code)
      \/ Enter(p, h, "restored", Restore(f.l, "replace"))
      \/ Go(p, "withdraw")
      \/ Go(p, "publish") /\ r.r \in {"ok", "absent"}
  BY <1>1, <1>3, <1>5 DEF ReplaceCaptured
<1>7. Kin(f, "abandon") /\ Kin(f, "restored") /\ Kin(f, "withdraw") /\ Kin(f, "publish")
  BY <1>1 DEF Kin, Unpublished
<1>8. r.r \in {"ok", "absent"} => PublicBlocks = 0
  BY <1>1 DEF TopOwned
<1> QED
  BY <1>1, <1>2, <1>4, <1>6, <1>7, <1>8, ReplaceQuiet, QuietCallees

\* The steps that only judge.
LEMMA ReplaceJudgesOwned ==
  ASSUME IInv, NEW p \in Procs, Owned(p), UNCHANGED <<manifests, host>>,
         ReplaceRestored(p) \/ ReplaceRefreshes(p) \/ ReplaceRemoved(p) \/ ReplaceCatches(p) \/ ReplaceCaught(p)
  PROVE  Owned(p)'
<1>1. PICK a : At(p, "replace", a) /\ a \in {"restored", "refresh", "removed", "catch", "caught"}
  BY DEF ReplaceRestored, ReplaceRefreshes, ReplaceRemoved, ReplaceCatches, ReplaceCaught
<1>2. PICK f, r : /\ f.fn = "replace" /\ f.at = a /\ f.l \in Levels /\ F(p) = f /\ R(p) = r /\ stack[p] # <<>>
                  /\ f \in FrameType /\ r \in ResultType /\ TopReplace(f, r) /\ Lower(p) /\ FileFrame(f) /\ FilesOK
  BY <1>1, ReplaceTop
<1>3. lease' = lease /\ UNCHANGED files
  BY DEF host, ReplaceRestored, ReplaceRefreshes, ReplaceRemoved, ReplaceCatches, ReplaceCaught
<1>4. CASE ReplaceRestored(p)
  <2>1. f.at = "restored"
    BY <1>2, <1>4 DEF ReplaceRestored, At, F
  <2>2. Go(p, "withdraw") \/ \E code : Throw(p, "catch", code)
    BY <1>4 DEF ReplaceRestored
  <2>3. Kin(f, "withdraw") /\ Kin(f, "catch")
    BY <2>1 DEF Kin, Unpublished
  <2> QED
    BY <1>2, <1>3, <2>2, <2>3, ReplaceQuiet
<1>5. CASE ReplaceRefreshes(p)
  <2>1. f.at = "refresh"
    BY <1>2, <1>5 DEF ReplaceRefreshes, At, F
  <2>2. f.inode # 0 /\ Cap(f.l) = f.inode /\ text[f.inode] = f.text
    BY <1>2, <2>1 DEF TopReplace, Sole
  <2>3. Enter(p, f, "removed", Remove(f.l, "replace", 1, f.inode, f.text))
    BY <1>2, <1>5, <2>2 DEF ReplaceRefreshes, Cap
  <2>4. Kin(f, "removed")
    BY <2>1 DEF Kin, Unpublished
  <2> QED
    BY <1>2, <1>3, <2>3, <2>4, ReplaceQuiet, QuietCallees
<1>6. CASE ReplaceRemoved(p)
  <2>1. f.at = "removed"
    BY <1>2, <1>6 DEF ReplaceRemoved, At, F
  <2>2. r.r \in {"ok"} \cup Errors
    BY <1>2, <2>1 DEF TopReplace
  <2>3. Go(p, "finish") \/ (Return(p, r.r) /\ r.r \notin {"yes", "no"})
    BY <1>2, <1>6, <2>2 DEF ReplaceRemoved, Errors
  <2>4. Kin(f, "finish")
    BY <2>1 DEF Kin, Unpublished
  <2> QED
    BY <1>2, <1>3, <2>3, <2>4, ReplaceQuiet
<1>7. CASE ReplaceCatches(p)
  <2>1. f.at = "catch"
    BY <1>2, <1>7 DEF ReplaceCatches, At, F
  <2>2. Go(p, "abandon") \/ Enter(p, f, "caught", Restore(f.l, "replace"))
    BY <1>2, <1>7 DEF ReplaceCatches
  <2>3. Kin(f, "abandon") /\ Kin(f, "caught")
    BY <2>1 DEF Kin, Unpublished
  <2> QED
    BY <1>2, <1>3, <2>2, <2>3, ReplaceQuiet, QuietCallees
<1>8. CASE ReplaceCaught(p)
  <2>1. f.at = "caught"
    BY <1>2, <1>8 DEF ReplaceCaught, At, F
  <2>2. Go(p, "abandon") \/ Enter(p, f, "recovered", Recover(f.l))
    BY <1>2, <1>8 DEF ReplaceCaught
  <2>3. Kin(f, "abandon") /\ Kin(f, "recovered")
    BY <2>1 DEF Kin, Unpublished
  <2> QED
    BY <1>2, <1>3, <2>2, <2>3, ReplaceQuiet, QuietCallees
<1> QED
  BY <1>4, <1>5, <1>6, <1>7, <1>8

LEMMA ReplacePublishesOwned ==
  ASSUME IInv, NEW p \in Procs, Owned(p), ReplacePublishes(p), UNCHANGED <<manifests, host>>
  PROVE  Owned(p)'
<1>1. PICK f, r : /\ f.fn = "replace" /\ f.at = "publish" /\ f.l \in Levels /\ F(p) = f /\ R(p) = r /\ stack[p] # <<>>
                  /\ f \in FrameType /\ TopReplace(f, r) /\ Lower(p) /\ FileFrame(f) /\ FileTypes /\ TopOwned(f, r) /\ OKReplace(f)
  BY ReplaceTop DEF ReplacePublishes
<1>2. lease' = lease /\ PublicBlocks = 0
  BY <1>1 DEF host, TopOwned
<1>3. CASE \E code : Throw(p, "catch", code) /\ UNCHANGED files
  <2>1. Kin(f, "catch")
    BY <1>1 DEF Kin, Unpublished
  <2> QED
    BY <1>1, <1>2, <1>3, <2>1, ReplaceQuiet
<1>4. CASE ~ \E code : Throw(p, "catch", code) /\ UNCHANGED files
  <2>1. Go(p, "refresh") /\ Tmp(f.l) # 0 /\ SetNames([names EXCEPT ![Public] = Tmp(f.l)])
    BY <1>1, <1>4 DEF ReplacePublishes, Tmp
  <2>2. PublicBlocks' <= f.next.blocks
    <3>1. names'[Public] = Tmp(f.l) /\ text' = text
      BY <1>1, <2>1, NameFacts DEF SetNames, FileTypes
    <3>2. text[Tmp(f.l)].blocks <= f.next.blocks
      BY <1>1, <2>1 DEF FileFrame
    <3> QED
      BY <2>1, <3>1, <3>2 DEF PublicBlocks
  <2>3. PICK g : g = [f EXCEPT !.at = "refresh"]
    OBVIOUS
  <2>4. g.fn = "replace" /\ g.next = f.next /\ g.l = f.l /\ g.at = "refresh" /\ Frames(p, <<g>>)
    BY <1>1, <2>1, <2>3 DEF FrameType, Go, Continue
  <2>5. ReplaceOn(f, g)
    BY <2>2, <2>4 DEF ReplaceOn, Unpublished
  <2> QED
    BY <1>1, <1>2, <2>4, <2>5, ReplaceOwnedGoes
<1> QED
  BY <1>3, <1>4

\* The steps that end with the removal of the temporary name.
LEMMA ReplaceEndsOwned ==
  ASSUME IInv, NEW p \in Procs, Owned(p), UNCHANGED <<manifests, host>>,
         ReplaceWithdraws(p) \/ ReplaceFinishes(p) \/ ReplaceRecovered(p) \/ ReplaceAbandons(p)
  PROVE  Owned(p)'
<1>1. PICK a : At(p, "replace", a) /\ a \in {"withdraw", "finish", "recovered", "abandon"}
  BY DEF ReplaceWithdraws, ReplaceFinishes, ReplaceRecovered, ReplaceAbandons
<1>2. PICK f, r : /\ f.fn = "replace" /\ f.at = a /\ f.l \in Levels /\ F(p) = f /\ R(p) = r /\ stack[p] # <<>>
                  /\ f \in FrameType /\ OKReplace(f) /\ Lower(p) /\ FileFrame(f) /\ FileTypes
  BY <1>1, ReplaceTop
<1>3. lease' = lease
  BY DEF host
<1>4. PublicBlocks \in Nat
  BY <1>2, PublicCount
<1>5. CASE ReplaceWithdraws(p)
  <2>1. f.at = "withdraw"
    BY <1>2, <1>5 DEF ReplaceWithdraws, At, F
  <2>2. Drop(Temp(f.l)) /\ (Return(p, "no") \/ Return(p, "failed"))
    BY <1>2, <1>5 DEF ReplaceWithdraws
  <2>3. f.at \in Unpublished /\ (Blockless => Blockless')
    BY <1>2, <2>1, <2>2, BlocksLeft DEF Unpublished
  <2> QED
    BY <1>2, <1>3, <2>2, <2>3, ReplaceOwnedReturns
<1>6. CASE ReplaceFinishes(p)
  <2>1. f.at = "finish"
    BY <1>2, <1>6 DEF ReplaceFinishes, At, F
  <2>2. Drop(Temp(f.l)) /\ (Return(p, "yes") \/ Return(p, "failed"))
    BY <1>2, <1>6 DEF ReplaceFinishes
  <2>3. PublicBlocks' = PublicBlocks
    BY <1>2, <2>2, BlocksLeft
  <2>4. PublicBlocks' <= f.next.blocks /\ PublicBlocks' \in Nat
    BY <1>2, <1>4, <2>1, <2>3 DEF FileFrame
  <2> QED
    BY <1>2, <1>3, <2>2, <2>4, ReplaceOwnedReturns
<1>7. CASE ReplaceRecovered(p) \/ ReplaceAbandons(p)
  <2>1. f.at \in {"recovered", "abandon"}
    BY <1>2, <1>7 DEF ReplaceRecovered, ReplaceAbandons, At, F
  <2>2. f.code \in Errors
    BY <1>2, <2>1 DEF OKReplace
  <2>3. Return(p, f.code) /\ f.code # "yes" /\ f.code # "no"
    BY <1>2, <1>7, <2>2 DEF ReplaceRecovered, ReplaceAbandons, Errors
  <2> QED
    BY <1>2, <1>3, <2>3, ReplaceOwnedReturns
<1> QED
  BY <1>5, <1>6, <1>7

-----------------------------------------------------------------------------
(* The rules                                                                *)

LEMMA RulesTop ==
  ASSUME IInv, NEW p \in Procs, Owned(p), NEW a, At(p, "rules", a), UNCHANGED <<manifests, host>>
  PROVE  \E f, r : /\ f.fn = "rules" /\ f.at = a /\ F(p) = f /\ R(p) = r /\ stack[p] # <<>> /\ lease' = lease
                   /\ f \in FrameType /\ r \in ResultType /\ TopRules(f, r) /\ FileTypes /\ CallsOK
                   /\ Lower(p) /\ FileFrame(f) /\ TopOwned(f, r)
<1>1. PICK f, r : /\ f.fn = "rules" /\ f.at = a /\ F(p) = f /\ R(p) = r /\ stack[p] # <<>>
                  /\ f \in FrameType /\ r \in ResultType /\ Top(f, r) /\ FileTypes /\ CallsOK
  BY TopFrame
<1>2. Lower(p)
  BY <1>1, LowerKept DEF Around, Early
<1>3. lease' = lease
  BY DEF host
<1> QED
  BY <1>1, <1>2, <1>3, OwnedBelow DEF Top, FrameOwned

\* g goes on for f.
RulesOn(f, g) ==
    /\ g.fn = "rules" /\ Way(g) = Way(f) /\ g.at # "append"
    /\ Way(f) = "append" /\ ~lease.live /\ g.at \in {"ready", "look"} => Blockless'

LEMMA RulesFrames ==
  ASSUME IInv, NEW p \in Procs, Owned(p), NEW f, f.fn = "rules", F(p) = f, stack[p] # <<>>, lease' = lease,
         NEW g, RulesOn(f, g)
  PROVE  FrameOwned(g)' /\ Callee(p, g)
<1>1. CallsOK
  BY DEF IInv, Framework
<1>2. Way(f) \in {"append", "remove"}
  BY <1>1, OwnedBelow DEF FrameOwned, FileFrame
<1>3. FrameOwned(g)'
  BY <1>2 DEF FrameOwned, FileFrame, CallFrame, LaunchFrame, RulesOn
<1>4. ASSUME Len(stack[p]) > 1, NEW c, c = stack[p][2]
      PROVE  LinkOwned(c, g)'
  <2>1. LinkOwned(c, f) /\ Legal(c, f)
    BY <1>1, <1>4, OwnedBelow
  <2>2. c.fn # "rules"
    BY <2>1, LastCalls
  <2> QED
    BY <2>1, <2>2 DEF LinkOwned, RulesOn
<1> QED
  BY <1>3, <1>4 DEF Callee

LEMMA RulesOwnedReturns ==
  ASSUME IInv, NEW p \in Procs, Owned(p), NEW f, f.fn = "rules", F(p) = f, stack[p] # <<>>, lease' = lease, Lower(p),
         UNCHANGED files, NEW q, NEW i, NEW t, Give(p, q, i, t),
         Way(f) = "remove" /\ q \notin Errors => NoRules,
         Way(f) = "append" /\ ~lease.live /\ q \notin Errors => q = "added"
  PROVE  Owned(p)'
<1>1. CallsOK
  BY DEF IInv, Framework
<1>2. PICK s : s = R(p)'
  OBVIOUS
<1>3. s.r = q /\ Frames(p, <<>>)
  BY <1>1, <1>2 DEF Give, R, CallsOK, CallTypes, Result
<1>4. ASSUME NEW c, Len(stack[p]) > 1, c = stack[p][2]
      PROVE  TopOwned(c, s)'
  <2>1. Legal(c, f) /\ LinkOwned(c, f)
    BY <1>1, <1>4, OwnedBelow
  <2>2. (c.fn = "launch" /\ c.at = "excluded") \/ (c.fn \in {"cleanup", "rollback"} /\ c.at = "ruled")
    BY <2>1 DEF Legal, CallsOfHost, CallsOfRecovery, CallsOfChange
  <2>3. CASE c.fn = "launch" /\ c.at = "excluded"
    <3>1. Way(f) = "append"
      BY <2>1, <2>3 DEF LinkOwned
    <3>2. "added" \notin Errors
      BY DEF Errors
    <3> QED
      BY <1>3, <2>3, <3>1, <3>2 DEF TopOwned
  <2>4. CASE c.fn \in {"cleanup", "rollback"} /\ c.at = "ruled"
    <3>1. Way(f) = "remove"
      BY <2>1, <2>4 DEF LinkOwned
    <3>2. NoRules => NoRules'
      BY QuietBlocks DEF NoRules
    <3> QED
      BY <1>3, <2>4, <3>1, <3>2 DEF TopOwned
  <2> QED
    BY <2>2, <2>3, <2>4
<1> QED
  BY <1>1, <1>2, <1>3, <1>4, OwnedReturns

LEMMA RulesOwnedGoes ==
  ASSUME IInv, NEW p \in Procs, Owned(p), NEW f \in FrameType, f.fn = "rules", F(p) = f, stack[p] # <<>>, lease' = lease, Lower(p),
         f.at \notin {"append", "remove"}, Go(p, "look"),
         Way(f) = "append" /\ ~lease.live => Blockless'
  PROVE  Owned(p)'
<1>1. CallsOK
  BY DEF IInv, Framework
<1>2. PICK s : s = R(p)'
  OBVIOUS
<1>3. PICK g : g = [f EXCEPT !.at = "look"]
  OBVIOUS
<1>4. g.fn = "rules" /\ g.at = "look" /\ g.dir = f.dir /\ Frames(p, <<g>>)
  BY <1>3 DEF Go, Continue, FrameType
<1>5. RulesOn(f, g)
  BY <1>4 DEF RulesOn, Way
<1>6. TopOwned(g, s)'
  BY <1>4 DEF TopOwned
<1> QED
  BY <1>1, <1>2, <1>4, <1>5, <1>6, RulesFrames, OwnedGoes

LEMMA RulesOwnedEnters ==
  ASSUME IInv, NEW p \in Procs, Owned(p), NEW f \in FrameType, f.fn = "rules", F(p) = f, stack[p] # <<>>, lease' = lease, Lower(p),
         NEW h \in FrameType, h.fn = "rules", NEW a \in {"ready", "tried"}, h.dir = Way(f),
         NEW g, Enter(p, h, a, g), Quiet(g), g.fn \in {"recover", "replace"},
         g.fn = "replace" => g.next.blocks = IF Way(f) = "append" THEN 1 ELSE 0,
         Way(f) = "append" /\ ~lease.live => Blockless' /\ (g.fn = "recover" => AllTidy' /\ g.at = "start")
  PROVE  Owned(p)'
<1>1. CallsOK
  BY DEF IInv, Framework
<1>2. PICK s : s = R(p)'
  OBVIOUS
<1>3. PICK c : c = [h EXCEPT !.at = a]
  OBVIOUS
<1>4. c.fn = "rules" /\ c.at = a /\ c.dir = Way(f) /\ Frames(p, <<g, c>>)
  BY <1>3 DEF Enter, FrameType
<1>5. RulesOn(f, c) /\ Way(c) = Way(f)
  BY <1>4 DEF RulesOn, Way
<1>6. LinkOwned(c, g)'
  BY <1>4, <1>5 DEF LinkOwned
<1>7. FrameOwned(g)' /\ TopOwned(g, s)'
  BY QuietOwned
<1> QED
  BY <1>1, <1>2, <1>4, <1>5, <1>6, <1>7, RulesFrames, OwnedEnters

LEMMA RulesStartOwned ==
  ASSUME IInv, NEW p \in Procs, Owned(p), RulesStart(p), UNCHANGED <<manifests, host>>
  PROVE  Owned(p)'
<1>0. PICK a : a \in {"append", "remove"} /\ At(p, "rules", a)
  BY DEF RulesStart
<1>1. PICK f, r : /\ f.fn = "rules" /\ f.at = a /\ F(p) = f /\ R(p) = r /\ stack[p] # <<>> /\ lease' = lease
                  /\ f \in FrameType /\ Lower(p) /\ FileFrame(f)
  BY <1>0, RulesTop
<1>2. Way(f) = f.at /\ f.at \in Words
  BY <1>0, <1>1 DEF Way, FrameType
<1>3. PICK h : h = [f EXCEPT !.dir = f.at]
  OBVIOUS
<1>4. h \in FrameType /\ h.fn = "rules" /\ h.dir = Way(f)
  BY <1>1, <1>2, <1>3 DEF FrameType
<1>5. PICK g : g = Recover(0)
  OBVIOUS
<1>6. Quiet(g) /\ g.fn = "recover" /\ g.at = "start" /\ Enter(p, h, "ready", g)
  BY <1>1, <1>3, <1>5, QuietCallees DEF Recover, Frame, RulesStart
<1>7. UNCHANGED files
  BY DEF RulesStart
<1>8. Way(f) = "append" /\ ~lease.live => Blockless' /\ AllTidy'
  BY <1>1, <1>2, <1>7, QuietBlocks DEF FileFrame
<1> QED
  BY <1>1, <1>4, <1>6, <1>8, RulesOwnedEnters

LEMMA RulesReadyOwned ==
  ASSUME IInv, NEW p \in Procs, Owned(p), RulesReady(p), UNCHANGED <<manifests, host>>
  PROVE  Owned(p)'
<1>1. PICK f, r : /\ f.fn = "rules" /\ f.at = "ready" /\ F(p) = f /\ R(p) = r /\ stack[p] # <<>> /\ lease' = lease
                  /\ f \in FrameType /\ Lower(p) /\ FileFrame(f) /\ FileTypes
  BY RulesTop DEF RulesReady
<1>2. \/ \E q \in Errors : Return(p, q) /\ UNCHANGED files
      \/ Drop(Temp(0)) /\ Go(p, "look")
  <2>1. "failed" \in Errors
    BY DEF Errors
  <2> QED
    BY <2>1 DEF RulesReady, Untemp
<1>3. CASE \E q \in Errors : Return(p, q) /\ UNCHANGED files
  BY <1>1, <1>3, RulesOwnedReturns DEF Return
<1>4. CASE Drop(Temp(0)) /\ Go(p, "look")
  <2>1. Blockless => Blockless'
    BY <1>1, <1>4, FirstLevel, BlocksLeft
  <2>2. Way(f) = "append" /\ ~lease.live => Blockless'
    BY <1>1, <2>1 DEF FileFrame
  <2> QED
    BY <1>1, <1>4, <2>2, RulesOwnedGoes
<1> QED
  BY <1>2, <1>3, <1>4

LEMMA RulesLookOwned ==
  ASSUME IInv, NEW p \in Procs, Owned(p), RulesLook(p), UNCHANGED <<manifests, host>>
  PROVE  Owned(p)'
<1>1. PICK f, r : /\ f.fn = "rules" /\ f.at = "look" /\ F(p) = f /\ R(p) = r /\ stack[p] # <<>> /\ lease' = lease
                  /\ f \in FrameType /\ Lower(p) /\ FileFrame(f) /\ FileTypes /\ TopRules(f, r)
  BY RulesTop DEF RulesLook
<1>2. UNCHANGED files
  BY DEF RulesLook
<1>3. Way(f) = f.dir /\ f.dir \in {"append", "remove"} /\ AllTidy
  BY <1>1 DEF Way, FileFrame, TopRules
<1>4. PICK i, t : i = names[Public] /\ t = IF i = 0 THEN Empty ELSE text[i]
  OBVIOUS
<1>5. t \in Texts /\ t.blocks \in Nat /\ t.blocks = PublicBlocks
  <2>1. i \in {0} \cup Inodes /\ (i # 0 => text[i] \in Texts)
    BY <1>1, <1>4, NameFacts DEF FileTypes
  <2> QED
    BY <1>4, <2>1 DEF Texts, Empty, PublicBlocks
<1>6. i = 0 \/ (Links(i) \in Nat /\ Links(i) > 0)
  BY <1>4, NameFacts, LinkCount
<1>7. i = 0 \/ Links(i) > 1 \/ Links(i) = 1
  BY <1>6
<1>8. Way(f) = "append" /\ ~lease.live => Blockless /\ Blockless' /\ t.blocks = 0
  <2>1. Way(f) = "append" /\ ~lease.live => Blockless
    BY <1>1 DEF FileFrame
  <2>2. Blockless => PublicBlocks = 0
    BY NonTempNames DEF Blockless, PublicBlocks
  <2> QED
    BY <1>2, <1>5, <2>1, <2>2, QuietBlocks
<1>9. \/ Return(p, "collision")
      \/ Return(p, "unchanged") /\ (f.dir = "append" => t.blocks # 0) /\ (f.dir = "remove" => t.blocks = 0)
      \/ f.dir = "append" /\ Enter(p, f, "tried", Replace(0, i, t, [t EXCEPT !.blocks = 1]))
      \/ f.dir = "remove" /\ Enter(p, f, "tried", Replace(0, i, t, [t EXCEPT !.blocks = 0]))
  BY <1>1, <1>3, <1>4, <1>5, <1>7 DEF RulesLook
<1>10. CASE Return(p, "collision")
  <2>1. "collision" \in Errors
    BY DEF Errors
  <2> QED
    BY <1>1, <1>2, <1>10, <2>1, RulesOwnedReturns DEF Return
<1>11. CASE Return(p, "unchanged") /\ (f.dir = "append" => t.blocks # 0) /\ (f.dir = "remove" => t.blocks = 0)
  <2>1. Way(f) = "remove" => NoRules
    BY <1>3, <1>5, <1>11 DEF NoRules
  <2>2. ~(Way(f) = "append" /\ ~lease.live)
    BY <1>3, <1>8, <1>11
  <2> QED
    BY <1>1, <1>2, <1>11, <2>1, <2>2, RulesOwnedReturns DEF Return
<1>12. CASE f.dir = "append" /\ Enter(p, f, "tried", Replace(0, i, t, [t EXCEPT !.blocks = 1]))
  <2>1. PICK n : n = [t EXCEPT !.blocks = 1]
    OBVIOUS
  <2>2. n.blocks = 1
    BY <1>5, <2>1 DEF Texts
  <2>3. PICK g : g = Replace(0, i, t, n)
    OBVIOUS
  <2>4. g.fn = "replace" /\ g.next = n /\ Quiet(g) /\ Enter(p, f, "tried", g)
    BY <1>12, <2>1, <2>3, QuietCallees DEF Replace, Frame
  <2> QED
    BY <1>1, <1>3, <1>8, <1>12, <2>2, <2>4, RulesOwnedEnters
<1>13. CASE f.dir = "remove" /\ Enter(p, f, "tried", Replace(0, i, t, [t EXCEPT !.blocks = 0]))
  <2>1. PICK n : n = [t EXCEPT !.blocks = 0]
    OBVIOUS
  <2>2. n.blocks = 0
    BY <1>5, <2>1 DEF Texts
  <2>3. PICK g : g = Replace(0, i, t, n)
    OBVIOUS
  <2>4. g.fn = "replace" /\ g.next = n /\ Quiet(g) /\ Enter(p, f, "tried", g)
    BY <1>13, <2>1, <2>3, QuietCallees DEF Replace, Frame
  <2> QED
    BY <1>1, <1>3, <1>8, <1>13, <2>2, <2>4, RulesOwnedEnters
<1> QED
  BY <1>9, <1>10, <1>11, <1>12, <1>13

LEMMA RulesTriedOwned ==
  ASSUME IInv, NEW p \in Procs, Owned(p), RulesTried(p), UNCHANGED <<manifests, host>>
  PROVE  Owned(p)'
<1>1. PICK f, r : /\ f.fn = "rules" /\ f.at = "tried" /\ F(p) = f /\ R(p) = r /\ stack[p] # <<>> /\ lease' = lease
                  /\ f \in FrameType /\ Lower(p) /\ FileFrame(f) /\ TopRules(f, r) /\ TopOwned(f, r)
  BY RulesTop DEF RulesTried
<1>2. UNCHANGED files
  BY DEF RulesTried
<1>3. /\ Way(f) = f.dir /\ f.dir \in {"append", "remove"}
      /\ r.r \in {"yes", "no"} \cup Errors /\ (r.r \notin Errors => AllTidy)
  BY <1>1 DEF Way, FileFrame, TopRules
<1>4. CASE r.r \in Errors
  <2>1. Return(p, r.r)
    BY <1>1, <1>4 DEF RulesTried, Errors
  <2> QED
    BY <1>1, <1>2, <1>4, <2>1, RulesOwnedReturns DEF Return
<1>5. CASE r.r = "yes"
  <2>1. Give(p, IF f.dir = "append" THEN "added" ELSE "removed", 0, Empty) /\ r.r \notin Errors
    BY <1>1, <1>5 DEF RulesTried, Errors, Return
  <2>2. Way(f) = "remove" => NoRules
    BY <1>1, <1>3, <1>5, <2>1 DEF NoRules, TopOwned
  <2>3. PICK q : q = IF f.dir = "append" THEN "added" ELSE "removed"
    OBVIOUS
  <2>4. Way(f) = "append" => q = "added"
    BY <1>3, <2>3
  <2> QED
    BY <1>1, <1>2, <2>1, <2>2, <2>3, <2>4, RulesOwnedReturns
<1>6. CASE r.r = "no"
  <2>1. Go(p, "look") \/ Return(p, "collision")
    BY <1>1, <1>6 DEF RulesTried, Errors
  <2>2. Way(f) = "append" /\ ~lease.live => Blockless'
    BY <1>1, <1>2, <1>6, QuietBlocks DEF TopOwned
  <2>3. CASE Go(p, "look")
    BY <1>1, <2>2, <2>3, RulesOwnedGoes
  <2>4. CASE Return(p, "collision")
    <3>1. "collision" \in Errors
      BY DEF Errors
    <3> QED
      BY <1>1, <1>2, <2>4, <3>1, RulesOwnedReturns DEF Return
  <2> QED
    BY <2>1, <2>3, <2>4
<1> QED
  BY <1>3, <1>4, <1>5, <1>6

-----------------------------------------------------------------------------
(* Beside a process that is at the Project, and the Host's state under it   *)

LEMMA NeighbourStarts ==
  ASSUME IInv, NEW p \in Procs, Busy(p), NEW q \in Procs, q # p, stack[q] # <<>>
  PROVE  F(q).fn \in {"launch", "reconcile"} /\ F(q).at = "start" /\ Len(stack[q]) = 1 /\ stack[q][1] = F(q)
<1>1. HostOK /\ CallsOK
  BY DEF IInv, Framework
<1>2. F(q).fn \in {"launch", "reconcile"} /\ Len(stack[q]) = 1
  BY <1>1, Neighbour
<1>3. ~Busy(q)
  BY <1>1, TwoProcs DEF HostOK, Exclusive, Busy
<1>4. F(q).at = "start"
  BY <1>2, <1>3 DEF Busy, F
<1> QED
  BY <1>1, <1>2, <1>4, BottomFacts

LEMMA StartOwned ==
  ASSUME NEW g, g.fn \in {"launch", "reconcile"}, g.at = "start", FrameOwned(g)
  PROVE  FrameOwned(g)' /\ \A r : TopOwned(g, r)'
<1>1. g.fn = "launch" => g.other # 1
  BY DEF FrameOwned, LaunchFrame
<1>2. FrameOwned(g)'
  BY <1>1 DEF FrameOwned, FileFrame, CallFrame, LaunchFrame
<1> QED
  BY <1>2 DEF TopOwned

LEMMA AtStartOwned ==
  ASSUME NEW q \in Procs, Owned(q), stack'[q] = stack[q],
         \/ stack[q] = <<>>
         \/ F(q).fn \in {"launch", "reconcile"} /\ F(q).at = "start" /\ Len(stack[q]) = 1 /\ stack[q][1] = F(q)
  PROVE  Owned(q)'
<1>1. CASE stack[q] = <<>>
  BY <1>1 DEF Owned
<1>2. CASE F(q).fn \in {"launch", "reconcile"} /\ F(q).at = "start" /\ Len(stack[q]) = 1 /\ stack[q][1] = F(q)
  <2>1. PICK g : g = F(q)
    OBVIOUS
  <2>2. FrameOwned(g) /\ g.fn \in {"launch", "reconcile"} /\ g.at = "start"
    BY <1>2, <2>1 DEF Owned
  <2>3. FrameOwned(g)' /\ \A r : TopOwned(g, r)'
    BY <2>2, StartOwned
  <2>4. Len(stack'[q]) = 1 /\ stack'[q][1] = g /\ F(q)' = g
    BY <1>2, <2>1 DEF F
  <2>5. PICK r : r = R(q)'
    OBVIOUS
  <2>6. TopOwned(g, r)'
    BY <2>3
  <2>7. TopOwned(F(q), R(q))'
    BY <2>4, <2>5, <2>6
  <2>8. \A k \in 1..Len(stack'[q]) : k = 1
    BY <2>4
  <2>9. \A k \in 1..(Len(stack'[q]) - 1) : FALSE
    BY <2>4
  <2>10. \A k \in 1..Len(stack'[q]) : FrameOwned(stack[q][k])'
    BY <2>3, <2>4, <2>8
  <2>11. \A k \in 1..(Len(stack'[q]) - 1) : LinkOwned(stack[q][k + 1], stack[q][k])'
    BY <2>9
  <2> QED
    BY <2>7, <2>10, <2>11 DEF Owned
<1> QED
  BY <1>1, <1>2

LEMMA NeighbourOwned ==
  ASSUME IInv, NEW p \in Procs, Busy(p), OtherCalls(p), NEW q \in Procs, q # p, Owned(q)
  PROVE  Owned(q)'
<1>1. stack'[q] = stack[q]
  BY DEF OtherCalls
<1> QED
  BY <1>1, NeighbourStarts, AtStartOwned

LEMMA AboveBottom ==
  ASSUME CallsOK, NEW p \in Procs, stack[p] # <<>>, Len(stack[p]) > 1
  PROVE  ~IsBottom(F(p))
<1>1. ~(Len(stack[p]) = 1)
  BY FramesFacts
<1>2. IsBottom(F(p)) => Len(stack[p]) = 1
  BY BottomFacts
<1> QED
  BY <1>1, <1>2

LEMMA StaysBusy ==
  ASSUME CallsOK, NEW p \in Procs, Busy(p), Len(stack[p]) > 1, OtherCalls(p), CallsOK', stack'[p] # <<>>
  PROVE  Busy(p)'
<1>1. stack[p] # <<>> /\ Bottom(p)' = Bottom(p)
  BY DEF Busy, OtherCalls, BottomKept
<1>2. <<Bottom(p).fn, Bottom(p).at>> \notin {<<"launch", "start">>, <<"reconcile", "start">>}
  <2>1. Len(stack[p]) \in 2..Len(stack[p])
    BY <1>1, FramesFacts
  <2>2. PICK k : k = Len(stack[p])
    OBVIOUS
  <2>3. Legal(stack[p][k], stack[p][k - 1])
    BY <1>1, <2>1, <2>2, LegalBelow
  <2>4. Legal(Bottom(p), stack[p][k - 1])
    BY <2>2, <2>3 DEF Bottom
  <2>5. PICK f, g : f = Bottom(p) /\ g = stack[p][k - 1]
    OBVIOUS
  <2>6. f.fn \in {"launch", "reconcile"} => f.at # "start"
    BY <2>4, <2>5 DEF Legal, CallsOfHost, CallsOfRecovery, CallsOfChange
  <2> QED
    BY <2>5, <2>6
<1>3. PICK s : s = stack'[p]
  OBVIOUS
<1>4. s \in Seq(FrameType) /\ s # <<>> /\ Bottom(p)' = s[Len(s)]
  BY <1>3 DEF CallsOK, CallTypes, Bottom
<1>5. Len(s) \in Nat /\ Len(s) > 0 /\ Head(s) = s[1]
  BY <1>4
<1>6. 1 \in 1..Len(s) /\ 1 < Len(s) => s[1].fn \notin {"launch", "reconcile"}
  <2>1. 1 \in 1..Len(s) /\ 1 < Len(s) => Legal(s[2], s[1])
    BY <1>3 DEF CallsOK, Linked
  <2>2. ASSUME NEW f, NEW g, Legal(f, g)
        PROVE  g.fn \notin {"launch", "reconcile"}
    <3>1. CASE CallsOfHost(f, g)
      BY <3>1 DEF CallsOfHost
    <3>2. CASE CallsOfRecovery(f, g)
      BY <3>2 DEF CallsOfRecovery
    <3>3. CASE CallsOfChange(f, g)
      BY <3>3 DEF CallsOfChange
    <3> QED
      BY <2>2, <3>1, <3>2, <3>3 DEF Legal
  <2> QED
    BY <2>1, <2>2
<1>7. ASSUME ~Busy(p)'
      PROVE  FALSE
  <2>1. <<s[1].fn, s[1].at>> \in {<<"launch", "start">>, <<"reconcile", "start">>}
    BY <1>3, <1>4, <1>5, <1>7 DEF Busy
  <2>2. ~(Len(s) > 1)
    BY <1>5, <1>6, <2>1
  <2>5. \A n \in Nat : n > 0 => n = 1 \/ n > 1
    OBVIOUS
  <2>3. Len(s) = 1
    BY <1>5, <2>2, <2>5
  <2>4. s[1] = Bottom(p)
    BY <1>1, <1>4, <2>3
  <2> QED
    BY <1>2, <2>1, <2>4, Zenon
<1> QED
  BY <1>7

\* The Host's state after a step of a function above the bottom of a stack.
LEMMA HostOwnedWithin ==
  ASSUME IInv, HostOwned, NEW p \in Procs, Busy(p), Len(stack[p]) > 1, OtherCalls(p), CallsOK', stack'[p] # <<>>,
         journal' = journal, lease'.live = lease.live, lease'.written => lease.written,
         journal.held /\ ~journal.known /\ staged' = "none" => NoManifest',
         seized' # "none" => manifest' # "host",
         lease.live => lease'.added \/ Released',
         lease.live /\ ~lease'.written => NoManifest'
  PROVE  HostOwned'
<1>0. CallsOK /\ HostOK /\ journal.held /\ stack[p] # <<>>
  BY TwoProcs DEF IInv, Framework, HostOK, Exclusive, Busy
<1>1. Busy(p)'
  BY <1>0, StaysBusy
<1>2. CASE p = "launch"
  <2>1. ~IsBottom(F(p))
    BY <1>0, AboveBottom
  <2>2. ~At("launch", "launch", "identify") /\ ~Released
    BY <1>2, <2>1 DEF At, F, IsBottom, Released, LeaseWork
  <2> QED
    BY <1>0, <1>1, <1>2, <2>2 DEF HostOwned
<1>3. CASE p = "reconcile"
  <2>1. ~lease.live /\ ~lease.written
    BY <1>0, <1>3 DEF HostOK, Exclusive, HostOwned
  <2> QED
    BY <1>0, <1>3, <2>1 DEF HostOwned
<1> QED
  BY <1>2, <1>3, TwoProcs

LEMMA FileStepOwned ==
  ASSUME IInv, Wrote, AllOwned, NEW p \in Procs, FileStep(p), UNCHANGED <<manifests, host, user>>
  PROVE  AllOwned'
<1>0. Framework /\ HostOK /\ CallsOK /\ TopAt(p) /\ Owned(p) /\ HostOwned
  BY DEF IInv, Framework, AllOwned
<1>1. Busy(p) /\ Len(stack[p]) > 1
  BY <1>0, FileStepAt, AtFacts
<1>2. Aside /\ UNCHANGED user /\ UNCHANGED <<manifests, host>>
  BY DEF Aside, manifests, host, user
<1>3. Good(p)
  BY <1>0, <1>1, <1>2, BusyAlone, FileStepKeeps
<1>4. Owned(p)'
  <2>1. CASE ReplaceStep(p)
    BY <1>0, <1>2, <2>1, ReplaceWritesOwned, ReplaceCapturedOwned, ReplaceJudgesOwned, ReplacePublishesOwned,
       ReplaceEndsOwned DEF ReplaceStep
  <2>2. CASE RollStep(p)
    BY <1>0, <2>2, ReplaceElsewhere DEF RollStep
  <2>3. CASE UnrollStep(p)
    BY <1>0, <2>3, UnrollElsewhere DEF UnrollStep
  <2>4. CASE RulesStep(p)
    BY <1>0, <1>2, <2>4, RulesStartOwned, RulesReadyOwned, RulesLookOwned, RulesTriedOwned DEF RulesStep
  <2>5. CASE CaptureStep(p) \/ RestoreStep(p) \/ RemoveStep(p) \/ ReleaseStep(p) \/ MergeStep(p)
    BY <1>0, <1>2, <2>5, CaptureOwned, RestoreOwned, RemoveOwned, ReleaseOwned, MergeOwned
  <2>6. CASE UnrollStarts(p) \/ RecoverStep(p)
    BY <1>0, <1>2, <2>6, UnrollOwned, RecoverOwned
  <2> QED
    BY <2>1, <2>2, <2>3, <2>4, <2>5, <2>6, FileStepParts
<1>5. \A q \in Procs : q # p => Owned(q)'
  BY <1>1, <1>3, NeighbourOwned DEF AllOwned, Good
<1>6. lease' = lease /\ journal' = journal /\ manifest' = manifest /\ staged' = staged /\ seized' = seized
  BY DEF manifests, host
<1>7. NoManifest' <=> NoManifest
  BY <1>6 DEF NoManifest
<1>8. lease.live => lease.added
  <2>1. ~IsBottom(F(p))
    BY <1>0, <1>1, AboveBottom DEF Busy
  <2>2. lease.live => p = "launch"
    BY <1>0, <1>1, TwoProcs DEF HostOK, Exclusive, Busy
  <2>3. Released => p # "launch"
    BY <2>1 DEF At, F, IsBottom, Released, LeaseWork
  <2> QED
    BY <1>0, <2>2, <2>3 DEF HostOwned
<1>9. HostOwned'
  BY <1>0, <1>1, <1>3, <1>6, <1>7, <1>8, HostOwnedWithin DEF Good, Framework, HostOwned
<1> QED
  BY <1>4, <1>5, <1>9 DEF AllOwned

-----------------------------------------------------------------------------
(* The functions over the manifest                                          *)

Based(f) == \/ f.fn = "launch" /\ f.at \in {"fail", "cleaned"}
            \/ f.fn = "release" /\ f.at = LeaseDone
            \/ f.fn = "reconcile"
WithinFns == {"clear", "cleanup", "rollback"}

LEMMA HostCallers ==
  ASSUME NEW c, NEW f, Legal(c, f)
  PROVE  /\ f.fn = "clear" => c.fn \in {"cleanup", "rollback"} /\ c.at = "cleared"
         /\ f.fn \in {"cleanup", "rollback"} => Based(c)
         /\ f.fn = "cleanup" => c.fn \in {"launch", "reconcile"} /\ c.at = "cleaned"
         /\ f.fn = "rollback" => (c.fn = "launch" /\ c.at = "fail") \/ (c.fn = "release" /\ c.at = LeaseDone)
         /\ ~Based(f)
<1>1. f.fn = "clear" => c.fn \in {"cleanup", "rollback"} /\ c.at = "cleared"
  BY DEF Legal, CallsOfHost, CallsOfRecovery, CallsOfChange
<1>2. f.fn = "cleanup" => c.fn \in {"launch", "reconcile"} /\ c.at = "cleaned"
  BY DEF Legal, CallsOfHost, CallsOfRecovery, CallsOfChange
<1>3. f.fn = "rollback" => (c.fn = "launch" /\ c.at = "fail") \/ (c.fn = "release" /\ c.at = LeaseDone)
  BY DEF Legal, CallsOfHost, CallsOfRecovery, CallsOfChange, LeaseDone
<1>4. f.fn \notin {"launch", "reconcile"} /\ (f.fn = "release" => f.at \notin LeaseWork)
  BY DEF Legal, CallsOfHost, CallsOfRecovery, CallsOfChange
<1>5. LeaseDone \in LeaseWork
  BY DEF LeaseDone, LeaseWork
<1>6. ~Based(f)
  BY <1>4, <1>5 DEF Based
<1> QED
  BY <1>1, <1>2, <1>3, <1>6 DEF Based

LEMMA HostBelow ==
  ASSUME CallsOK, NEW p \in Procs, stack[p] # <<>>, F(p).fn \in WithinFns, NEW k \in 2..Len(stack[p]),
         NEW f, f = stack[p][k]
  PROVE  Based(f) \/ (F(p).fn = "clear" /\ f.fn \in {"cleanup", "rollback"} /\ f.at = "cleared")
<1>0. Len(stack[p]) \in Nat
  BY FramesFacts
<1>1. PICK b : b = stack[p][2]
  OBVIOUS
<1>2. Legal(b, F(p))
  <2>1. 2 \in 2..Len(stack[p]) /\ 2 - 1 = 1
    BY <1>0
  <2> QED
    BY <1>1, <2>1, LegalBelow
<1>3. Based(b) \/ (F(p).fn = "clear" /\ b.fn \in {"cleanup", "rollback"} /\ b.at = "cleared")
  BY <1>2, HostCallers DEF WithinFns
<1>4. CASE k = 2
  BY <1>1, <1>3, <1>4
<1>5. CASE k # 2
  <2>1. PICK d : d = stack[p][3]
    OBVIOUS
  <2>2. Legal(d, b)
    <3>1. 3 \in 2..Len(stack[p]) /\ 3 - 1 = 2
      BY <1>0, <1>5
    <3> QED
      BY <1>1, <2>1, <3>1, LegalBelow
  <2>3. Based(d)
    BY <1>3, <2>2, HostCallers
  <2>4. CASE k = 3
    BY <2>1, <2>3, <2>4
  <2>5. CASE k # 3
    <3>1. 4 \in 2..Len(stack[p]) /\ 4 - 1 = 3
      BY <1>0, <1>5, <2>5
    <3>2. Legal(stack[p][4], d)
      BY <2>1, <3>1, LegalBelow
    <3> QED
      BY <2>3, <3>2, HostCallers
  <2> QED
    BY <2>4, <2>5
<1> QED
  BY <1>4, <1>5

LEMMA HostLower ==
  ASSUME CallsOK, NEW p \in Procs, stack[p] # <<>>, Owned(p), F(p).fn \in WithinFns,
         journal' = journal, lease'.live = lease.live, F(p).fn = "clear" => lease' = lease
  PROVE  Lower(p)
<1>0. Len(stack[p]) \in Nat
  BY FramesFacts
<1> SUFFICES ASSUME NEW k \in 2..Len(stack[p]), NEW f, f = stack[p][k]
             PROVE  /\ FrameOwned(f)'
                    /\ k < Len(stack[p]) => \A g : g = stack[p][k + 1] => LinkOwned(g, f)'
  BY DEF Lower
<1>1. Based(f) \/ (F(p).fn = "clear" /\ f.fn \in {"cleanup", "rollback"} /\ f.at = "cleared")
  BY HostBelow
<1>2. FrameOwned(f)
  <2>1. k \in 1..Len(stack[p])
    BY <1>0
  <2> QED
    BY <2>1 DEF Owned
<1>3. FrameOwned(f)'
  <2>1. CASE Based(f)
    BY <1>2, <2>1 DEF Based, FrameOwned, FileFrame, CallFrame, LaunchFrame
  <2>2. CASE F(p).fn = "clear" /\ f.fn \in {"cleanup", "rollback"} /\ f.at = "cleared"
    BY <1>2, <2>2 DEF FrameOwned, FileFrame, CallFrame, LaunchFrame
  <2> QED
    BY <1>1, <2>1, <2>2
<1>4. ASSUME k < Len(stack[p]), NEW g, g = stack[p][k + 1]
      PROVE  LinkOwned(g, f)'
  <2>1. LinkOwned(g, f) /\ Legal(g, f)
    <3>1. k \in 1..(Len(stack[p]) - 1)
      BY <1>0, <1>4
    <3> QED
      BY <1>4, <3>1, LegalBelow DEF Owned
  <2>2. f.fn \in {"cleanup", "rollback"}
    BY <1>1, <2>1, HostCallers
  <2> QED
    BY <2>1, <2>2 DEF LinkOwned
<1> QED
  BY <1>3, <1>4

\* The top frame, its caller, and what goes on for it.
LEMMA WithinTop ==
  ASSUME IInv, NEW p \in Procs, Owned(p), NEW fn \in WithinFns, NEW a, At(p, fn, a)
  PROVE  \E f, r : /\ f.fn = fn /\ f.at = a /\ F(p) = f /\ R(p) = r /\ stack[p] # <<>> /\ CallsOK
                   /\ f \in FrameType /\ r \in ResultType /\ CallFrame(f) /\ TopOwned(f, r)
                   /\ Busy(p) /\ Len(stack[p]) > 1 /\ journal.held
                   /\ \A g : g.fn = fn => Callee(p, g)
                   /\ \A c : c = stack[p][2] => Legal(c, f) /\ LinkOwned(c, f) /\ FrameOwned(c)
<1>1. CallsOK /\ HostOK
  BY DEF IInv, Framework
<1>2. PICK f, r : f = F(p) /\ r = R(p)
  OBVIOUS
<1>3. stack[p] # <<>> /\ f.fn = fn /\ f.at = a /\ Busy(p) /\ Len(stack[p]) > 1
  BY <1>1, <1>2, AtFacts DEF WithinFns
<1>4. f \in FrameType /\ r \in ResultType
  BY <1>1, <1>2, <1>3, BottomFacts DEF CallsOK, CallTypes, R
<1>5. CallFrame(f) /\ TopOwned(f, r)
  BY <1>1, <1>2, <1>3, OwnedBelow DEF FrameOwned
<1>6. \A c : c = stack[p][2] => Legal(c, f) /\ LinkOwned(c, f) /\ FrameOwned(c)
  BY <1>1, <1>2, <1>3, OwnedBelow
<1>7. ASSUME NEW g, g.fn = fn
      PROVE  Callee(p, g)
  <2> SUFFICES ASSUME NEW c, c = stack[p][2]
               PROVE  LinkOwned(c, g)'
    BY DEF Callee
  <2>1. LinkOwned(c, f)
    BY <1>6
  <2> QED
    BY <1>3, <1>7, <2>1 DEF LinkOwned, WithinFns
<1>8. journal.held
  BY <1>1, <1>3, TwoProcs DEF HostOK, Exclusive
<1> QED
  BY <1>1, <1>2, <1>3, <1>4, <1>5, <1>6, <1>7, <1>8

LEMMA LiveAdded ==
  ASSUME IInv, HostOwned, NEW p \in Procs, Busy(p), Len(stack[p]) > 1
  PROVE  (lease.live => lease.added) /\ (lease.written => journal.known) /\ (lease.live \/ lease.written => p = "launch")
<1>0. HostOK /\ CallsOK
  BY DEF IInv, Framework
<1>1. ~IsBottom(F(p))
  BY <1>0, AboveBottom DEF Busy
<1>2. lease.live \/ lease.written => p = "launch"
  BY <1>0, TwoProcs DEF HostOK, Exclusive, Busy, HostOwned
<1>3. p = "launch" => ~Released /\ ~At("launch", "launch", "identify")
  BY <1>1 DEF At, F, IsBottom, Released, LeaseWork
<1> QED
  BY <1>2, <1>3 DEF HostOwned

LEMMA WithinReturns ==
  ASSUME CallsOK, NEW p \in Procs, stack[p] # <<>>, Lower(p), NEW q, Return(p, q),
         \A c, s : c = stack[p][2] /\ s.r = q => TopOwned(c, s)'
  PROVE  Owned(p)'
<1>1. PICK s : s = R(p)'
  OBVIOUS
<1>2. s.r = q /\ Frames(p, <<>>)
  BY <1>1 DEF Return, Give, R, CallsOK, CallTypes, Result
<1> QED
  BY <1>1, <1>2, OwnedReturns
HostKept(p) ==
    /\ journal' = journal /\ lease'.live = lease.live /\ (lease'.written => lease.written)
    /\ journal.held /\ ~journal.known /\ staged' = "none" => NoManifest'
    /\ seized' # "none" => manifest' # "host"
    /\ lease.live => lease'.added \/ Released'
    /\ lease.live /\ ~lease'.written => NoManifest'

LEMMA QuietHost ==
  ASSUME IInv, HostOwned, NEW p \in Procs, Busy(p), Len(stack[p]) > 1, UNCHANGED <<manifests, host>>
  PROVE  HostKept(p) /\ lease' = lease /\ journal' = journal /\ (NoManifest' <=> NoManifest) /\ staged' = staged
<1>1. lease' = lease /\ journal' = journal /\ manifest' = manifest /\ seized' = seized /\ staged' = staged
  BY DEF manifests, host
<1>2. NoManifest' <=> NoManifest
  BY <1>1 DEF NoManifest
<1> QED
  BY <1>1, <1>2, LiveAdded DEF HostKept, HostOwned

LEMMA CallerTold ==
  ASSUME NEW c, NEW f, Legal(c, f), f.fn \in WithinFns, NEW s,
         f.fn = "clear" => s.r \in {"ok"} \cup Errors /\ (s.r = "ok" => NoManifest'),
         f.fn = "cleanup" /\ s.r \notin Errors => Clean',
         f.fn = "rollback" /\ c.fn = "release" /\ s.r \notin Errors => Clean'
  PROVE  TopOwned(c, s)'
<1>1. CASE f.fn = "clear"
  <2>1. c.fn \in {"cleanup", "rollback"} /\ c.at = "cleared"
    BY <1>1, HostCallers
  <2> QED
    BY <1>1, <2>1 DEF TopOwned
<1>2. CASE f.fn = "cleanup"
  <2>1. c.fn \in {"launch", "reconcile"} /\ c.at = "cleaned"
    BY <1>2, HostCallers
  <2> QED
    BY <1>2, <2>1 DEF TopOwned
<1>3. CASE f.fn = "rollback"
  <2>1. (c.fn = "launch" /\ c.at = "fail") \/ (c.fn = "release" /\ c.at = LeaseDone)
    BY <1>3, HostCallers
  <2> QED
    BY <1>3, <2>1 DEF TopOwned
<1> QED
  BY <1>1, <1>2, <1>3 DEF WithinFns

LEMMA MadeOwned ==
  /\ journal'.known \/ staged' # "none" => FrameOwned(Clear)' /\ \A r : TopOwned(Clear, r)'
  /\ Clear.fn = "clear"
  /\ FrameOwned(RemoveRules)' /\ \A r : TopOwned(RemoveRules, r)'
  /\ RemoveRules.fn = "rules" /\ Way(RemoveRules) = "remove"
<1>1. ASSUME journal'.known \/ staged' # "none"
      PROVE  FrameOwned(Clear)' /\ \A r : TopOwned(Clear, r)'
  <2>1. Clear.fn = "clear" /\ Clear.at = "take"
    BY DEF Clear, Frame
  <2> QED
    BY <1>1, <2>1 DEF FrameOwned, FileFrame, CallFrame, LaunchFrame, TopOwned
<1>2. /\ FrameOwned(RemoveRules)' /\ \A r : TopOwned(RemoveRules, r)'
      /\ RemoveRules.fn = "rules" /\ Way(RemoveRules) = "remove"
  <2>1. PICK g : g = RemoveRules
    OBVIOUS
  <2>2. g.fn = "rules" /\ g.at = "remove"
    BY <2>1 DEF RemoveRules, Frame
  <2>3. Way(g) = "remove"
    BY <2>2 DEF Way
  <2>4. FrameOwned(g)' /\ \A r : TopOwned(g, r)'
    BY <2>2, <2>3 DEF FrameOwned, FileFrame, CallFrame, LaunchFrame, TopOwned
  <2> QED
    BY <2>1, <2>2, <2>3, <2>4
<1> QED
  BY <1>1, <1>2 DEF Clear, Frame

\* The top frame goes on, or calls g, at the point a.
LEMMA WithinGoes ==
  ASSUME CallsOK, NEW p \in Procs, stack[p] # <<>>, Lower(p), NEW f \in FrameType, F(p) = f, f.fn \in WithinFns,
         \A g : g.fn = f.fn => Callee(p, g), NEW a, a # "cleared", a # "ruled",
         \/ Go(p, a)
         \/ Continue(p, [F(p) EXCEPT !.at = a]),
         \A g : g.fn = f.fn /\ g.at = a /\ g.other = f.other => CallFrame(g)'
  PROVE  Owned(p)'
<1>1. PICK g : g = [f EXCEPT !.at = a]
  OBVIOUS
<1>2. g.fn = f.fn /\ g.at = a /\ g.other = f.other /\ Frames(p, <<g>>)
  BY <1>1 DEF Go, Continue, FrameType
<1>3. FrameOwned(g)' /\ \A s : TopOwned(g, s)'
  BY <1>2 DEF FrameOwned, FileFrame, LaunchFrame, TopOwned, WithinFns
<1>4. PICK s : s = R(p)'
  OBVIOUS
<1> QED
  BY <1>2, <1>3, <1>4, OwnedGoes

LEMMA WithinEnters ==
  ASSUME CallsOK, NEW p \in Procs, stack[p] # <<>>, Lower(p), NEW f \in FrameType, F(p) = f, f.fn \in {"cleanup", "rollback"},
         \A g : g.fn = f.fn => Callee(p, g), NEW a, NEW h, Enter(p, F(p), a, h),
         h.fn = "clear" \/ (h.fn = "rules" /\ Way(h) = "remove"),
         FrameOwned(h)', \A r : TopOwned(h, r)',
         \A g : g.fn = f.fn /\ g.at = a => CallFrame(g)'
  PROVE  Owned(p)'
<1>1. PICK g : g = [f EXCEPT !.at = a]
  OBVIOUS
<1>2. g.fn = f.fn /\ g.at = a /\ Frames(p, <<h, g>>)
  BY <1>1 DEF Enter, FrameType
<1>3. FrameOwned(g)'
  BY <1>2 DEF FrameOwned, FileFrame, LaunchFrame
<1>4. PICK s : s = R(p)'
  OBVIOUS
<1>5. LinkOwned(g, h)'
  BY <1>2 DEF LinkOwned
<1> QED
  BY <1>2, <1>3, <1>4, <1>5, OwnedEnters

LEMMA ClearTakesOwned ==
  ASSUME IInv, HostOwned, NEW p \in Procs, Owned(p), ClearTakes(p)
  PROVE  Owned(p)' /\ HostKept(p)
<1>1. At(p, "clear", "take") /\ "clear" \in WithinFns
  BY DEF ClearTakes, WithinFns
<1>2. PICK f, r : /\ f.fn = "clear" /\ f.at = "take" /\ F(p) = f /\ R(p) = r /\ stack[p] # <<>> /\ CallsOK
                  /\ f \in FrameType /\ r \in ResultType /\ CallFrame(f) /\ TopOwned(f, r)
                  /\ Busy(p) /\ Len(stack[p]) > 1 /\ journal.held
                  /\ \A g : g.fn = "clear" => Callee(p, g)
                  /\ \A c : c = stack[p][2] => Legal(c, f) /\ LinkOwned(c, f) /\ FrameOwned(c)
  BY <1>1, WithinTop
<1>3. UNCHANGED host /\ lease' = lease /\ journal' = journal
  BY DEF ClearTakes, host
<1>4. Lower(p)
  BY <1>1, <1>2, <1>3, HostLower
<1>10. /\ CallsOK /\ stack[p] # <<>> /\ f \in FrameType /\ F(p) = f /\ f.fn \in WithinFns
       /\ \A g : g.fn = f.fn => Callee(p, g)
  BY <1>1, <1>2
<1>5. journal.known \/ staged # "none"
  BY <1>2 DEF CallFrame
<1>6. lease.live => lease.written
  <2>1. PICK c : c = stack[p][2]
    OBVIOUS
  <2>2. c.fn \in {"cleanup", "rollback"} /\ c.at = "cleared" /\ CallFrame(c)
    BY <1>2, <2>1, HostCallers DEF FrameOwned
  <2> QED
    BY <2>2 DEF CallFrame
<1>7. CASE seized # "none"
  <2>1. Go(p, "judge") /\ UNCHANGED manifests /\ seized' = seized /\ staged' = staged
    BY <1>7 DEF ClearTakes, manifests
  <2>2. \A g : g.fn = f.fn /\ g.at = "judge" /\ g.other = f.other => CallFrame(g)'
    BY <1>2, <1>3, <1>5, <1>7, <2>1 DEF CallFrame
  <2>3. Owned(p)'
    BY <1>4, <1>10, <2>1, <2>2, WithinGoes
  <2> QED
    BY <1>2, <1>3, <2>1, <2>3, QuietHost
<1>8. CASE seized = "none" /\ manifest # "none"
  <2>1. Go(p, "judge") /\ seized' = manifest /\ manifest' = "none" /\ staged' = staged
    BY <1>8 DEF ClearTakes
  <2>2. \A g : g.fn = f.fn /\ g.at = "judge" /\ g.other = f.other => CallFrame(g)'
    BY <1>2, <1>3, <1>5, <1>8, <2>1 DEF CallFrame
  <2>3. Owned(p)'
    BY <1>4, <1>10, <2>1, <2>2, WithinGoes
  <2>4. HostKept(p)
    BY <1>2, <1>3, <1>5, <1>6, <2>1, LiveAdded DEF HostKept
  <2> QED
    BY <2>3, <2>4
<1>9. CASE seized = "none" /\ manifest = "none"
  <2>1. Return(p, "ok") /\ UNCHANGED manifests
    BY <1>9 DEF ClearTakes
  <2>2. HostKept(p) /\ (NoManifest' <=> NoManifest)
    BY <1>2, <1>3, <2>1, QuietHost
  <2>3. NoManifest'
    BY <1>9, <2>2 DEF NoManifest
  <2>4. ASSUME NEW c, NEW s, c = stack[p][2], s.r = "ok"
        PROVE  TopOwned(c, s)'
    BY <1>1, <1>2, <2>3, <2>4, CallerTold
  <2>5. Owned(p)'
    BY <1>2, <1>4, <2>1, <2>4, WithinReturns
  <2> QED
    BY <2>2, <2>5
<1> QED
  BY <1>7, <1>8, <1>9

LEMMA ClearJudgesOwned ==
  ASSUME IInv, HostOwned, NEW p \in Procs, Owned(p), ClearJudges(p)
  PROVE  Owned(p)' /\ HostKept(p)
<1>1. At(p, "clear", "judge") /\ "clear" \in WithinFns
  BY DEF ClearJudges, WithinFns
<1>2. PICK f, r : /\ f.fn = "clear" /\ f.at = "judge" /\ F(p) = f /\ R(p) = r /\ stack[p] # <<>> /\ CallsOK
                  /\ f \in FrameType /\ r \in ResultType /\ CallFrame(f) /\ TopOwned(f, r)
                  /\ Busy(p) /\ Len(stack[p]) > 1 /\ journal.held
                  /\ \A g : g.fn = "clear" => Callee(p, g)
                  /\ \A c : c = stack[p][2] => Legal(c, f) /\ LinkOwned(c, f) /\ FrameOwned(c)
  BY <1>1, WithinTop
<1>3. UNCHANGED host /\ lease' = lease /\ journal' = journal /\ staged' = staged
  BY DEF ClearJudges, host
<1>4. Lower(p)
  BY <1>1, <1>2, <1>3, HostLower
<1>5. seized # "none"
  BY <1>2 DEF CallFrame
<1>6. CASE seized \in {"none", "host"} \/ manifest = "none"
  <2>1. Return(p, "ok") /\ seized' = "none" /\ manifest' # "host"
    BY <1>5, <1>6 DEF ClearJudges, HostOwned
  <2>2. NoManifest'
    BY <2>1 DEF NoManifest
  <2>3. HostKept(p)
    BY <1>2, <1>3, <2>1, <2>2, LiveAdded DEF HostKept
  <2>4. ASSUME NEW c, NEW s, c = stack[p][2], s.r = "ok"
        PROVE  TopOwned(c, s)'
    BY <1>1, <1>2, <2>2, <2>4, CallerTold
  <2>5. Owned(p)'
    BY <1>2, <1>4, <2>1, <2>4, WithinReturns
  <2> QED
    BY <2>3, <2>5
<1>7. CASE ~(seized \in {"none", "host"} \/ manifest = "none")
  <2>1. Return(p, "collision") /\ UNCHANGED manifests
    BY <1>3, <1>7 DEF ClearJudges, manifests
  <2>2. HostKept(p)
    BY <1>2, <1>3, <2>1, QuietHost
  <2>3. "collision" \in Errors /\ "collision" # "ok"
    BY DEF Errors
  <2>4. ASSUME NEW c, NEW s, c = stack[p][2], s.r = "collision"
        PROVE  TopOwned(c, s)'
    BY <1>1, <1>2, <2>3, <2>4, CallerTold
  <2>5. Owned(p)'
    BY <1>2, <1>4, <2>1, <2>4, WithinReturns
  <2> QED
    BY <2>2, <2>5
<1> QED
  BY <1>6, <1>7

LEMMA CleanUpOwned ==
  ASSUME IInv, HostOwned, NEW p \in Procs, Owned(p),
         CleanUpDerives(p) \/ CleanUpCleared(p) \/ CleanUpUnstages(p) \/ CleanUpRuled(p)
  PROVE  Owned(p)' /\ HostKept(p)
<1>1. (\E a : At(p, "cleanup", a)) /\ "cleanup" \in WithinFns
  BY DEF CleanUpDerives, CleanUpCleared, CleanUpUnstages, CleanUpRuled, WithinFns
<1>2. PICK f, r : /\ f.fn = "cleanup" /\ At(p, "cleanup", f.at) /\ F(p) = f /\ R(p) = r /\ stack[p] # <<>> /\ CallsOK
                  /\ f \in FrameType /\ r \in ResultType /\ CallFrame(f) /\ TopOwned(f, r)
                  /\ Busy(p) /\ Len(stack[p]) > 1 /\ journal.held
                  /\ \A g : g.fn = "cleanup" => Callee(p, g)
                  /\ \A c : c = stack[p][2] => Legal(c, f) /\ LinkOwned(c, f) /\ FrameOwned(c)
  BY <1>1, WithinTop
<1>3. UNCHANGED host /\ UNCHANGED files /\ lease' = lease /\ journal' = journal
  BY DEF CleanUpDerives, CleanUpCleared, CleanUpUnstages, CleanUpRuled, host
<1>4. Lower(p)
  BY <1>1, <1>2, <1>3, HostLower
<1>5. ~lease.live
  BY <1>2 DEF CallFrame
<1>6. ASSUME NEW q, Return(p, q), q \in Errors
      PROVE  Owned(p)'
  <2>1. ASSUME NEW c, NEW s, c = stack[p][2], s.r = q
        PROVE  TopOwned(c, s)'
    BY <1>1, <1>2, <1>6, <2>1, CallerTold
  <2> QED
    BY <1>2, <1>4, <1>6, <2>1, WithinReturns
<1>7. CASE CleanUpDerives(p)
  <2>1. f.at = "derive" /\ UNCHANGED manifests /\ staged' = staged
    BY <1>2, <1>7 DEF CleanUpDerives, At, F, manifests
  <2>2. HostKept(p) /\ (NoManifest' <=> NoManifest)
    BY <1>2, <1>3, <2>1, QuietHost
  <2>3. f.other = 1 <=> journal.known
    BY <1>2, <2>1 DEF CallFrame
  <2>4. CASE Return(p, "collision")
    BY <1>6, <2>2, <2>4 DEF Errors
  <2>5. CASE Enter(p, F(p), "cleared", Clear) /\ (f.other = 1 \/ staged # "none")
    <3>1. FrameOwned(Clear)' /\ (\A s : TopOwned(Clear, s)') /\ Clear.fn = "clear"
      BY <1>3, <2>1, <2>3, <2>5, MadeOwned
    <3>2. \A g : g.fn = f.fn /\ g.at = "cleared" => CallFrame(g)'
      BY <1>2, <1>3, <1>5 DEF CallFrame
    <3>3. Owned(p)'
      BY <1>2, <1>4, <2>5, <3>1, <3>2, WithinEnters
    <3> QED
      BY <2>2, <3>3
  <2>6. CASE Continue(p, [F(p) EXCEPT !.at = "unstage"]) /\ f.other # 1 /\ staged = "none"
    <3>1. NoManifest'
      BY <1>2, <2>2, <2>3, <2>6 DEF HostOwned
    <3>2. \A g : g.fn = f.fn /\ g.at = "unstage" /\ g.other = f.other => CallFrame(g)'
      BY <1>2, <1>3, <1>5, <3>1 DEF CallFrame
    <3>3. Owned(p)'
      BY <1>1, <1>2, <1>4, <2>6, <3>2, WithinGoes
    <3> QED
      BY <2>2, <3>3
  <2> QED
    BY <1>2, <1>7, <2>4, <2>5, <2>6 DEF CleanUpDerives
<1>8. CASE CleanUpCleared(p)
  <2>1. f.at = "cleared" /\ UNCHANGED manifests
    BY <1>2, <1>8 DEF CleanUpCleared, At, F
  <2>2. HostKept(p) /\ (NoManifest' <=> NoManifest)
    BY <1>2, <1>3, <2>1, QuietHost
  <2>3. r.r \in {"ok"} \cup Errors /\ (r.r = "ok" => NoManifest)
    BY <1>2, <2>1 DEF TopOwned
  <2>4. CASE r.r = "ok"
    <3>1. Continue(p, [F(p) EXCEPT !.at = "unstage"])
      BY <1>2, <1>8, <2>4 DEF CleanUpCleared, Go
    <3>2. \A g : g.fn = f.fn /\ g.at = "unstage" /\ g.other = f.other => CallFrame(g)'
      BY <1>2, <1>3, <1>5, <2>2, <2>3, <2>4 DEF CallFrame
    <3>3. Owned(p)'
      BY <1>1, <1>2, <1>4, <3>1, <3>2, WithinGoes
    <3> QED
      BY <2>2, <3>3
  <2>5. CASE r.r # "ok"
    <3>1. Return(p, r.r) /\ r.r \in Errors
      BY <1>2, <1>8, <2>3, <2>5 DEF CleanUpCleared
    <3> QED
      BY <1>6, <2>2, <3>1
  <2> QED
    BY <2>4, <2>5
<1>9. CASE CleanUpUnstages(p)
  <2>1. f.at = "unstage" /\ staged' = "none" /\ manifest' = manifest /\ seized' = seized
        /\ Enter(p, F(p), "ruled", RemoveRules)
    BY <1>2, <1>9 DEF CleanUpUnstages, At, F
  <2>2. NoManifest /\ NoManifest'
    BY <1>2, <2>1 DEF CallFrame, NoManifest
  <2>3. HostKept(p)
    BY <1>2, <1>3, <1>5, <2>1, <2>2, LiveAdded DEF HostKept, NoManifest
  <2>4. PICK h : h = RemoveRules
    OBVIOUS
  <2>5. FrameOwned(h)' /\ (\A s : TopOwned(h, s)') /\ h.fn = "rules" /\ Way(h) = "remove"
    BY <2>4, MadeOwned
  <2>6. \A g : g.fn = f.fn /\ g.at = "ruled" => CallFrame(g)'
    BY <1>2, <1>3, <1>5, <2>1, <2>2 DEF CallFrame
  <2>7. Owned(p)'
    BY <1>2, <1>4, <2>1, <2>4, <2>5, <2>6, WithinEnters
  <2> QED
    BY <2>3, <2>7
<1>10. CASE CleanUpRuled(p)
  <2>1. f.at = "ruled" /\ UNCHANGED manifests /\ Return(p, IF r.r \in Errors THEN r.r ELSE "ok")
    BY <1>2, <1>10 DEF CleanUpRuled, At, F
  <2>2. HostKept(p) /\ (NoManifest' <=> NoManifest) /\ staged' = staged
    BY <1>2, <1>3, <2>1, QuietHost
  <2>3. CASE r.r \in Errors
    BY <1>6, <2>1, <2>2, <2>3
  <2>4. CASE r.r \notin Errors
    <3>1. NoRules /\ NoManifest /\ staged = "none"
      BY <1>2, <2>1, <2>4 DEF CallFrame, TopOwned
    <3>2. Clean'
      BY <1>3, <2>2, <3>1, QuietBlocks DEF Clean, NoRules
    <3>3. ASSUME NEW c, NEW s, c = stack[p][2], s.r = "ok"
          PROVE  TopOwned(c, s)'
      BY <1>1, <1>2, <3>2, <3>3, CallerTold
    <3>4. Owned(p)'
      BY <1>2, <1>4, <2>1, <2>4, <3>3, WithinReturns
    <3> QED
      BY <2>2, <3>4
  <2> QED
    BY <2>3, <2>4
<1> QED
  BY <1>7, <1>8, <1>9, <1>10

\* A rollback is of a lease that is live where a release called it, and there only.
LEMMA RolledBack ==
  ASSUME IInv, NEW p \in Procs, Owned(p), Busy(p), Len(stack[p]) > 1, F(p).fn = "rollback", NEW c, c = stack[p][2]
  PROVE  /\ c.fn = "release" <=> lease.live
         /\ lease.live /\ Return(p, "ok") => Released'
<1>0. CallsOK /\ HostOK /\ stack[p] # <<>>
  BY DEF IInv, Framework, Busy
<1>1. Len(stack[p]) \in Nat /\ 2 \in 2..Len(stack[p]) /\ 2 \in 1..Len(stack[p]) /\ Linked(stack[p])
  BY <1>0, FramesFacts DEF CallsOK
<1>2. Legal(c, F(p)) /\ LinkOwned(c, F(p)) /\ FrameOwned(c)
  BY <1>0, OwnedBelow
<1>3. (c.fn = "launch" /\ c.at = "fail") \/ (c.fn = "release" /\ c.at = LeaseDone)
  BY <1>2, HostCallers
<1>4. Bottom(p) = c
  <2>1. ASSUME 2 < Len(stack[p])
        PROVE  FALSE
    <3>1. 2 + 1 = 3
      OBVIOUS
    <3>2. Legal(stack[p][3], c)
      BY <1>1, <2>1, <3>1 DEF Linked
    <3> QED
      BY <1>3, <3>2, HostCallers DEF Based
  <2>3. \A n \in Nat : 2 \in 2..n => n = 2 \/ 2 < n
    OBVIOUS
  <2>2. Len(stack[p]) = 2
    BY <1>1, <2>1, <2>3
  <2> QED
    BY <2>2 DEF Bottom
<1>5. CASE c.fn = "launch" /\ c.at = "fail"
  <2>1. c.other # 1
    BY <1>2, <1>5 DEF LinkOwned
  <2>2. ~lease.live
    BY <1>2, <1>5, <2>1 DEF FrameOwned, LaunchFrame
  <2> QED
    BY <1>5, <2>2
<1>6. CASE c.fn = "release" /\ c.at = LeaseDone
  <2>1. lease.live /\ p = "launch"
    BY <1>0, <1>4, <1>6, TwoProcs DEF HostOK, Rooted
  <2>2. ASSUME Return(p, "ok")
        PROVE  Released'
    <3>1. Frames(p, <<>>) /\ R(p)'.r = "ok"
      BY <1>0, <2>2 DEF Return, Give, R, CallsOK, CallTypes, Result
    <3>2. stack'[p] # <<>> /\ F(p)' = c
      BY <1>0, <3>1, FramesFacts
    <3>3. At("launch", "release", LeaseDone)'
      BY <1>6, <2>1, <3>2 DEF At, F
    <3>4. "ok" \notin Errors
      BY DEF Errors
    <3>5. R("launch")'.r \notin Errors
      BY <2>1, <3>1, <3>4
    <3> QED
      BY <3>3, <3>5 DEF Released, LeaseDone
  <2> QED
    BY <1>6, <2>1, <2>2
<1> QED
  BY <1>3, <1>5, <1>6

LEMMA RollBackOwned ==
  ASSUME IInv, HostOwned, NEW p \in Procs, Owned(p),
         RollBackStarts(p) \/ RollBackCleared(p) \/ RollBackFinalizes(p) \/ RollBackRuled(p)
  PROVE  Owned(p)' /\ HostKept(p)
<1>1. (\E a : At(p, "rollback", a)) /\ "rollback" \in WithinFns
  BY DEF RollBackStarts, RollBackCleared, RollBackFinalizes, RollBackRuled, WithinFns
<1>2. PICK f, r : /\ f.fn = "rollback" /\ At(p, "rollback", f.at) /\ F(p) = f /\ R(p) = r /\ stack[p] # <<>> /\ CallsOK
                  /\ f \in FrameType /\ r \in ResultType /\ CallFrame(f) /\ TopOwned(f, r)
                  /\ Busy(p) /\ Len(stack[p]) > 1 /\ journal.held
                  /\ \A g : g.fn = "rollback" => Callee(p, g)
                  /\ \A c : c = stack[p][2] => Legal(c, f) /\ LinkOwned(c, f) /\ FrameOwned(c)
  BY <1>1, WithinTop
<1>0. HostTypes
  BY DEF IInv, HostOK
<1>3. UNCHANGED files /\ journal' = journal /\ lease'.live = lease.live /\ (lease'.written => lease.written)
  BY <1>0 DEF RollBackStarts, RollBackCleared, RollBackFinalizes, RollBackRuled, host, HostTypes
<1>4. Lower(p)
  BY <1>1, <1>2, <1>3, HostLower
<1>5. (lease.live => lease.added) /\ (lease.written => journal.known)
  BY <1>2, LiveAdded
<1>6. ASSUME NEW q, Return(p, q), q \in Errors
      PROVE  Owned(p)'
  <2>1. ASSUME NEW c, NEW s, c = stack[p][2], s.r = q
        PROVE  TopOwned(c, s)'
    BY <1>1, <1>2, <1>6, <2>1, CallerTold
  <2> QED
    BY <1>2, <1>4, <1>6, <2>1, WithinReturns
<1>7. CASE RollBackStarts(p)
  <2>1. f.at = "start" /\ UNCHANGED <<manifests, host>> /\ lease' = lease
    BY <1>2, <1>7 DEF RollBackStarts, At, F, host
  <2>2. HostKept(p) /\ (NoManifest' <=> NoManifest)
    BY <1>2, <2>1, QuietHost
  <2>3. CASE lease.written
    <3>1. Enter(p, F(p), "cleared", Clear)
      BY <1>7, <2>3 DEF RollBackStarts
    <3>2. FrameOwned(Clear)' /\ (\A s : TopOwned(Clear, s)') /\ Clear.fn = "clear"
      BY <1>3, <1>5, <2>3, MadeOwned
    <3>3. \A g : g.fn = f.fn /\ g.at = "cleared" => CallFrame(g)'
      BY <1>2, <2>1, <2>3 DEF CallFrame
    <3>4. Owned(p)'
      BY <1>2, <1>4, <3>1, <3>2, <3>3, WithinEnters
    <3> QED
      BY <2>2, <3>4
  <2>4. CASE ~lease.written
    <3>1. Continue(p, [F(p) EXCEPT !.at = "finalize"])
      BY <1>7, <2>4 DEF RollBackStarts, Go
    <3>2. NoManifest'
      BY <1>2, <2>1, <2>2, <2>4 DEF CallFrame
    <3>3. \A g : g.fn = f.fn /\ g.at = "finalize" /\ g.other = f.other => CallFrame(g)'
      BY <1>2, <3>2 DEF CallFrame
    <3>4. Owned(p)'
      BY <1>1, <1>2, <1>4, <3>1, <3>3, WithinGoes
    <3> QED
      BY <2>2, <3>4
  <2> QED
    BY <2>3, <2>4
<1>8. CASE RollBackCleared(p)
  <2>1. f.at = "cleared" /\ UNCHANGED manifests /\ manifest' = manifest /\ seized' = seized /\ staged' = staged
    BY <1>2, <1>8 DEF RollBackCleared, At, F, manifests
  <2>2. r.r \in {"ok"} \cup Errors /\ (r.r = "ok" => NoManifest)
    BY <1>2, <2>1 DEF TopOwned
  <2>3. CASE r.r = "ok"
    <3>1. Continue(p, [F(p) EXCEPT !.at = "finalize"]) /\ lease' = [lease EXCEPT !.written = FALSE]
      BY <1>2, <1>8, <2>3 DEF RollBackCleared, Go
    <3>2. NoManifest'
      BY <2>1, <2>2, <2>3 DEF NoManifest
    <3>3. \A g : g.fn = f.fn /\ g.at = "finalize" /\ g.other = f.other => CallFrame(g)'
      BY <1>2, <3>2 DEF CallFrame
    <3>4. Owned(p)'
      BY <1>1, <1>2, <1>4, <3>1, <3>3, WithinGoes
    <3>5. lease'.added = lease.added
      BY <1>0, <3>1 DEF HostTypes
    <3>6. HostKept(p)
      BY <1>3, <1>5, <3>2, <3>5 DEF HostKept, NoManifest
    <3> QED
      BY <3>4, <3>6
  <2>4. CASE r.r # "ok"
    <3>1. Return(p, r.r) /\ r.r \in Errors /\ UNCHANGED <<manifests, host>>
      BY <1>2, <1>3, <1>8, <2>1, <2>2, <2>4 DEF RollBackCleared, host
    <3> QED
      BY <1>2, <1>6, <3>1, QuietHost
  <2> QED
    BY <2>3, <2>4
<1>9. CASE RollBackFinalizes(p)
  <2>1. f.at = "finalize" /\ staged' = "none" /\ manifest' = manifest /\ seized' = seized /\ lease' = lease
    BY <1>2, <1>9 DEF RollBackFinalizes, At, F, host
  <2>2. NoManifest'
    BY <1>2, <2>1 DEF CallFrame, NoManifest
  <2>3. HostKept(p)
    BY <1>3, <1>5, <2>1, <2>2 DEF HostKept, NoManifest
  <2>4. CASE lease.added
    <3>1. Enter(p, F(p), "ruled", RemoveRules)
      BY <1>9, <2>4 DEF RollBackFinalizes
    <3>2. PICK h : h = RemoveRules
      OBVIOUS
    <3>3. FrameOwned(h)' /\ (\A s : TopOwned(h, s)') /\ h.fn = "rules" /\ Way(h) = "remove"
      BY <3>2, MadeOwned
    <3>4. \A g : g.fn = f.fn /\ g.at = "ruled" => CallFrame(g)'
      BY <1>2, <2>1, <2>2 DEF CallFrame
    <3>5. Owned(p)'
      BY <1>2, <1>4, <3>1, <3>2, <3>3, <3>4, WithinEnters
    <3> QED
      BY <2>3, <3>5
  <2>5. CASE ~lease.added
    <3>1. Return(p, "ok") /\ ~lease.live
      BY <1>5, <1>9, <2>5 DEF RollBackFinalizes
    <3>2. ASSUME NEW c, NEW s, c = stack[p][2], s.r = "ok"
          PROVE  TopOwned(c, s)'
      <4>1. c.fn # "release"
        BY <1>2, <3>1, <3>2, RolledBack
      <4> QED
        BY <1>1, <1>2, <3>2, <4>1, CallerTold
    <3>3. Owned(p)'
      BY <1>2, <1>4, <3>1, <3>2, WithinReturns
    <3> QED
      BY <2>3, <3>3
  <2> QED
    BY <2>4, <2>5
<1>10. CASE RollBackRuled(p)
  <2>1. f.at = "ruled" /\ UNCHANGED manifests /\ manifest' = manifest /\ seized' = seized /\ staged' = staged
    BY <1>2, <1>10 DEF RollBackRuled, At, F, manifests
  <2>2. NoManifest /\ staged = "none" /\ NoManifest'
    BY <1>2, <2>1 DEF CallFrame, NoManifest
  <2>3. CASE r.r \in Errors
    <3>1. Return(p, r.r) /\ UNCHANGED <<manifests, host>>
      BY <1>2, <1>3, <1>10, <2>1, <2>3 DEF RollBackRuled, host
    <3> QED
      BY <1>2, <1>6, <2>3, <3>1, QuietHost
  <2>4. CASE r.r \notin Errors
    <3>1. Return(p, "ok") /\ lease' = [lease EXCEPT !.added = FALSE]
      BY <1>2, <1>10, <2>4 DEF RollBackRuled
    <3>2. Clean'
      <4>1. NoRules
        BY <1>2, <2>1, <2>4 DEF TopOwned
      <4> QED
        BY <1>3, <2>1, <2>2, <4>1, QuietBlocks DEF Clean, NoRules
    <3>3. ASSUME NEW c, NEW s, c = stack[p][2], s.r = "ok"
          PROVE  TopOwned(c, s)'
      BY <1>1, <1>2, <3>2, <3>3, CallerTold
    <3>4. Owned(p)'
      BY <1>2, <1>4, <3>1, <3>3, WithinReturns
    <3>5. lease.live => Released'
      BY <1>2, <3>1, RolledBack
    <3>6. HostKept(p)
      BY <1>3, <2>2, <3>5 DEF HostKept, NoManifest
    <3> QED
      BY <3>4, <3>6
  <2> QED
    BY <2>3, <2>4
<1> QED
  BY <1>7, <1>8, <1>9, <1>10

LEMMA WithinStepOwned ==
  ASSUME IInv, AllOwned, NEW p \in Procs, WithinStep(p), UNCHANGED user
  PROVE  AllOwned'
<1>0. Framework /\ HostOK /\ CallsOK /\ TopAt(p) /\ Owned(p) /\ HostOwned
  BY DEF IInv, Framework, AllOwned
<1>1. \E fn \in {"clear", "cleanup", "rollback"} : \E a : At(p, fn, a)
  BY DEF WithinStep, ClearTakes, ClearJudges, CleanUpDerives, CleanUpCleared, CleanUpUnstages, CleanUpRuled,
     RollBackStarts, RollBackCleared, RollBackFinalizes, RollBackRuled
<1>2. Busy(p) /\ Len(stack[p]) > 1
  BY <1>0, <1>1, AtFacts
<1>3. Good(p)
  BY <1>0, ClearTakesKeeps, ClearJudgesKeeps, CleanUpDerivesKeeps, CleanUpClearedKeeps, CleanUpUnstagesKeeps,
     CleanUpRuledKeeps, RollBackStartsKeeps, RollBackClearedKeeps, RollBackFinalizesKeeps, RollBackRuledKeeps DEF WithinStep
<1>4. Owned(p)' /\ HostKept(p)
  <2>1. CASE ClearTakes(p) \/ ClearJudges(p)
    BY <1>0, <2>1, ClearTakesOwned, ClearJudgesOwned
  <2>2. CASE CleanUpDerives(p) \/ CleanUpCleared(p) \/ CleanUpUnstages(p) \/ CleanUpRuled(p)
    BY <1>0, <2>2, CleanUpOwned
  <2>3. CASE RollBackStarts(p) \/ RollBackCleared(p) \/ RollBackFinalizes(p) \/ RollBackRuled(p)
    BY <1>0, <2>3, RollBackOwned
  <2> QED
    BY <2>1, <2>2, <2>3 DEF WithinStep
<1>5. \A q \in Procs : q # p => Owned(q)'
  BY <1>2, <1>3, NeighbourOwned DEF AllOwned, Good
<1>6. HostOwned'
  BY <1>0, <1>2, <1>3, <1>4, HostOwnedWithin DEF Good, Framework, HostKept
<1> QED
  BY <1>4, <1>5, <1>6 DEF AllOwned

-----------------------------------------------------------------------------
(* The launch and the release                                               *)

LEMMA Lonely ==
  ASSUME NEW p \in Procs, Len(stack[p]) = 1
  PROVE  Lower(p) /\ \A g : Callee(p, g)
<1>1. \A k \in 2..Len(stack[p]) : FALSE
  OBVIOUS
<1>2. ~(Len(stack[p]) > 1)
  OBVIOUS
<1>3. Lower(p)
  BY <1>1 DEF Lower
<1> QED
  BY <1>2, <1>3 DEF Callee

LEMMA RestOwned == \A p \in Procs : stack'[p] = <<>> => Owned(p)' /\ ~Busy(p)'
<1> SUFFICES ASSUME NEW p \in Procs, stack'[p] = <<>>
             PROVE  Owned(p)' /\ ~Busy(p)'
  OBVIOUS
<1>1. Len(stack'[p]) = 0
  OBVIOUS
<1>2. ~Busy(p)'
  BY DEF Busy
<1>3. (\A k \in 1..Len(stack'[p]) : FALSE) /\ (\A k \in 1..(Len(stack'[p]) - 1) : FALSE)
  BY <1>1
<1>4. Owned(p)'
  BY <1>3 DEF Owned
<1> QED
  BY <1>2, <1>4

CallerFns == {"launch", "release", "reconcile"}
LEMMA CallerTop ==
  ASSUME IInv, AllOwned, NEW fn \in CallerFns, NEW a, At("launch", fn, a), fn = "release" => a \in LeaseWork
  PROVE  \E f, r : /\ f.fn = fn /\ f.at = a /\ F("launch") = f /\ R("launch") = r /\ f \in FrameType /\ r \in ResultType
                   /\ stack["launch"] # <<>> /\ Len(stack["launch"]) = 1 /\ CallsOK /\ stack \in [Procs -> Seq(FrameType)]
                   /\ LaunchFrame(f) /\ TopOwned(f, r) /\ HostOwned /\ HostTypes
                   /\ (Released <=> fn = "release" /\ a = LeaseDone /\ r.r \notin Errors)
                   /\ (At("launch", "launch", "identify") <=> fn = "launch" /\ a = "identify")
                   /\ a # "start" => stack["reconcile"] = <<>> /\ journal.held /\ Busy("launch")
                   /\ fn = "release" => lease.live
                   /\ a = "start" => ~Busy("launch")
<1>0. CallsOK /\ HostOK /\ HostTypes /\ HostOwned /\ Owned("launch") /\ "launch" \in Procs
  BY TwoProcs DEF IInv, Framework, AllOwned, HostOK
<1>1. PICK f, r : f = F("launch") /\ r = R("launch")
  OBVIOUS
<1>2. stack["launch"] # <<>> /\ f.fn = fn /\ f.at = a
  BY <1>1 DEF At, F
<1>3. f \in FrameType /\ r \in ResultType /\ stack \in [Procs -> Seq(FrameType)]
  BY <1>0, <1>1, <1>2, BottomFacts DEF CallsOK, CallTypes, R
<1>4. LaunchFrame(f) /\ TopOwned(f, r)
  BY <1>0, <1>1, <1>2, OwnedBelow DEF FrameOwned
<1>5. Len(stack["launch"]) = 1
  BY <1>0, <1>1, <1>2, BottomFacts DEF IsBottom, CallerFns
<1>6. /\ Released <=> fn = "release" /\ a = LeaseDone /\ r.r \notin Errors
      /\ At("launch", "launch", "identify") <=> fn = "launch" /\ a = "identify"
  BY <1>1, <1>2 DEF Released, At, F, LeaseDone
<1>7. a # "start" => Busy("launch")
  BY <1>1, <1>2 DEF Busy, F
<1>8. a = "start" => ~Busy("launch")
  <2>1. "start" \notin LeaseWork
    BY DEF LeaseWork
  <2>2. a = "start" => fn \in {"launch", "reconcile"}
    BY <2>1 DEF CallerFns
  <2> QED
    BY <1>1, <1>2, <2>2 DEF Busy, F
<1>9. a # "start" => stack["reconcile"] = <<>> /\ journal.held
  BY <1>0, <1>7, TwoProcs DEF HostOK, Exclusive
<1>10. fn = "release" => lease.live
  BY <1>0, <1>2, <1>1, <1>5, BottomFacts DEF HostOK, Rooted, IsBottom
<1> QED
  BY <1>0, <1>1, <1>2, <1>3, <1>4, <1>5, <1>6, <1>7, <1>8, <1>9, <1>10

\* What holds of the calls after a step of a launch or a release.
CallsOwned(identify) ==
    /\ Owned("launch")' /\ Owned("reconcile")' /\ Busy("launch")' /\ ~Released'
    /\ At("launch", "launch", "identify")' <=> identify

LEMMA CallerGoes ==
  ASSUME CallsOK, stack["launch"] # <<>>, Len(stack["launch"]) = 1, stack["reconcile"] = <<>>, NEW g, Frames("launch", <<g>>),
         g.fn \in {"launch", "release"}, g.at \notin {"start", "excluded", "cleaned", LeaseDone}, LaunchFrame(g)'
  PROVE  CallsOwned(g.fn = "launch" /\ g.at = "identify")
<1>0. "launch" \in Procs /\ "reconcile" \in Procs /\ stack \in [Procs -> Seq(FrameType)]
  BY TwoProcs DEF CallsOK, CallTypes
<1>1. stack'["reconcile"] = <<>>
  BY <1>0 DEF Frames
<1>2. stack'["launch"] # <<>> /\ F("launch")' = g
  BY <1>0, FramesFacts
<1>3. PICK s : s = R("launch")'
  OBVIOUS
<1>4. FrameOwned(g)' /\ TopOwned(g, s)'
  BY DEF FrameOwned, FileFrame, CallFrame, TopOwned
<1>5. Owned("launch")'
  BY <1>0, <1>3, <1>4, Lonely, OwnedGoes
<1>6. Owned("reconcile")'
  BY <1>0, <1>1, RestOwned
<1>7. Busy("launch")'
  BY <1>2 DEF Busy, F
<1>8. ~Released' /\ (At("launch", "launch", "identify")' <=> g.fn = "launch" /\ g.at = "identify")
  BY <1>2 DEF Released, At, F, LeaseDone
<1> QED
  BY <1>5, <1>6, <1>7, <1>8 DEF CallsOwned

LEMMA CallerEnters ==
  ASSUME CallsOK, stack["launch"] # <<>>, Len(stack["launch"]) = 1, stack["reconcile"] = <<>>, NEW g, NEW c, Frames("launch", <<g, c>>),
         c.fn \in {"launch", "release"}, g.fn \in {"rules", "rollback", "cleanup"}, LaunchFrame(c)', LinkOwned(c, g)',
         FrameOwned(g)', \A s : TopOwned(g, s)'
  PROVE  CallsOwned(FALSE)
<1>0. "launch" \in Procs /\ "reconcile" \in Procs /\ stack \in [Procs -> Seq(FrameType)]
  BY TwoProcs DEF CallsOK, CallTypes
<1>1. stack'["reconcile"] = <<>>
  BY <1>0 DEF Frames
<1>2. stack'["launch"] # <<>> /\ F("launch")' = g
  BY <1>0, FramesFacts
<1>3. PICK s : s = R("launch")'
  OBVIOUS
<1>4. FrameOwned(c)'
  BY DEF FrameOwned, FileFrame, CallFrame
<1>5. Owned("launch")'
  BY <1>0, <1>3, <1>4, Lonely, OwnedEnters
<1>6. Owned("reconcile")'
  BY <1>0, <1>1, RestOwned
<1>7. Busy("launch")'
  BY <1>2 DEF Busy, F
<1>8. ~Released' /\ ~At("launch", "launch", "identify")'
  BY <1>2 DEF Released, At, F
<1> QED
  BY <1>5, <1>6, <1>7, <1>8 DEF CallsOwned

LEMMA CallerReturns ==
  ASSUME CallsOK, stack["launch"] # <<>>, Len(stack["launch"]) = 1, stack["reconcile"] = <<>>, NEW q, Return("launch", q)
  PROVE  Owned("launch")' /\ Owned("reconcile")' /\ ~Busy("launch")'
<1>0. "launch" \in Procs /\ "reconcile" \in Procs /\ stack \in [Procs -> Seq(FrameType)]
  BY TwoProcs DEF CallsOK, CallTypes
<1>1. stack'["reconcile"] = <<>>
  BY <1>0 DEF Return, Give, Frames
<1>2. stack'["launch"] = <<>>
  BY <1>0, FramesFacts DEF Return, Give
<1> QED
  BY <1>0, <1>1, <1>2, RestOwned

LEMMA CallsAllOwned ==
  ASSUME Owned("launch")', Owned("reconcile")', HostOwned'
  PROVE  AllOwned'
  BY TwoProcs DEF AllOwned

LEMMA CallerFnsFacts == /\ "launch" \in CallerFns /\ "release" \in CallerFns /\ LeaseDone \in LeaseWork /\ "lease" \in LeaseWork
                        /\ LeaseDone \notin {"start", "lease", "inspect", "fail", "check", "stage", "publish", "identify", "finalize", "undo"}
  BY DEF CallerFns, LeaseDone, LeaseWork

\* All names are gone but the public one where no generation is in preparation.
LEMMA TidyNames ==
  ASSUME FilesOK, AllTidy
  PROVE  /\ \A n \in Names \ {Public} : names[n] = 0
         /\ PublicBlocks = 0 => Blockless
<1>1. ASSUME NEW n \in Names \ {Public}
      PROVE  names[n] = 0
  <2>1. \A l \in Levels : Dir(l) = "none" /\ Tmp(l) = 0 /\ DirFiles(l) /\ dirs[<<l, "rollback">>] = "none"
        /\ names[Captured(l, "rollback")] = 0 /\ names[Release(l, "rollback")] = 0
    BY DEF AllTidy, Tidy, FilesOK, Placed, AllDirs, NoRoll
  <2>2. \A l \in Levels : names[Captured(l, "replace")] = 0 /\ names[Release(l, "replace")] = 0
    BY <2>1 DEF DirFiles, Cap, Rel
  <2>3. \E l \in Levels : n = Temp(l) \/ \E d \in Areas : n \in {Captured(l, d), Release(l, d)}
    BY NameFacts
  <2> QED
    BY <2>1, <2>2, <2>3 DEF Tmp, Areas
<1>2. NonTemps \subseteq Names
  BY DEF NonTemps
<1> QED
  BY <1>1, <1>2 DEF Blockless, PublicBlocks

LEMMA LaunchInspectsOwned ==
  ASSUME IInv, AllOwned, NEW p \in Procs, LaunchInspects(p)
  PROVE  AllOwned'
<1>0. p = "launch" /\ At("launch", "launch", "inspect")
  BY LaunchAt DEF LaunchInspects
<1>1. PICK f, r : /\ f.fn = "launch" /\ f.at = "inspect" /\ F("launch") = f /\ R("launch") = r /\ f \in FrameType /\ r \in ResultType
                  /\ stack["launch"] # <<>> /\ Len(stack["launch"]) = 1 /\ CallsOK
                  /\ LaunchFrame(f) /\ TopOwned(f, r) /\ HostOwned /\ HostTypes
                  /\ ~Released /\ ~At("launch", "launch", "identify")
                  /\ stack["reconcile"] = <<>> /\ journal.held /\ Busy("launch")
  BY <1>0, CallerTop, CallerFnsFacts
<1>2. UNCHANGED <<files, manifests, host>> /\ lease' = lease /\ journal' = journal /\ manifest' = manifest /\ seized' = seized
      /\ staged' = staged
  BY DEF LaunchInspects, manifests, host
<1>3. CallsOwned(FALSE)
  <2>1. CASE Enter(p, F(p), "excluded", AppendRules)
    <3>1. PICK c, g : c = [f EXCEPT !.at = "excluded"] /\ g = AppendRules
      OBVIOUS
    <3>2. c.fn = "launch" /\ c.at = "excluded" /\ c.other = f.other /\ Frames("launch", <<g, c>>)
      BY <1>0, <1>1, <2>1, <3>1 DEF Enter, FrameType
    <3>3. g.fn = "rules" /\ g.at = "append" /\ Way(g) = "append"
      BY <3>1, HostMade DEF Way
    <3>4. LaunchFrame(c)'
      BY <1>1, <1>2, <3>2 DEF LaunchFrame, NoManifest
    <3>5. ~lease.live => Blockless' /\ AllTidy'
      <4>1. ~lease.live => NoRules
        BY <1>1 DEF LaunchFrame
      <4>2. ~lease.live => Blockless /\ AllTidy
        BY <4>1, TidyNames DEF NoRules, IInv, Framework
      <4> QED
        BY <1>2, <4>2, QuietBlocks
    <3>6. FrameOwned(g)' /\ \A s : TopOwned(g, s)'
      BY <1>2, <3>3, <3>5 DEF FrameOwned, FileFrame, CallFrame, LaunchFrame, TopOwned
    <3>7. LinkOwned(c, g)'
      BY <3>2, <3>3 DEF LinkOwned
    <3> QED
      BY <1>1, <3>2, <3>3, <3>4, <3>6, <3>7, CallerEnters
  <2>2. CASE \E q : Throw(p, "fail", q)
    <3>1. PICK q : Throw(p, "fail", q)
      BY <2>2
    <3>2. PICK g : g = [f EXCEPT !.at = "fail", !.code = q]
      OBVIOUS
    <3>3. g.fn = "launch" /\ g.at = "fail" /\ g.other = f.other /\ Frames("launch", <<g>>)
      BY <1>0, <1>1, <3>1, <3>2 DEF Throw, Continue, FrameType
    <3>4. LaunchFrame(g)'
      BY <1>1, <1>2, <3>3 DEF LaunchFrame
    <3> QED
      BY <1>1, <3>3, <3>4, CallerGoes, CallerFnsFacts
  <2> QED
    BY <2>1, <2>2 DEF LaunchInspects
<1>4. HostOwned'
  BY <1>1, <1>2, <1>3 DEF HostOwned, CallsOwned, NoManifest
<1> QED
  BY <1>3, <1>4, CallsAllOwned DEF CallsOwned

\* A step within the launch to the point a.
LaunchTo(a) == \E g : g.fn = "launch" /\ g.at = a /\ g.other = F("launch").other /\ Frames("launch", <<g>>)

LEMMA LaunchGoesTo ==
  ASSUME CallsOK, stack["launch"] # <<>>, F("launch").fn = "launch", NEW a, Go("launch", a) \/ \E q : Throw("launch", a, q)
  PROVE  LaunchTo(a)
<1>1. F("launch") \in FrameType
  BY TwoProcs, BottomFacts
<1>2. CASE Go("launch", a)
  <2>1. PICK f, g : f = F("launch") /\ g = [f EXCEPT !.at = a]
    OBVIOUS
  <2>2. g.fn = "launch" /\ g.at = a /\ g.other = f.other /\ Frames("launch", <<g>>)
    BY <1>1, <1>2, <2>1 DEF Go, Continue, FrameType
  <2> QED
    BY <2>1, <2>2 DEF LaunchTo
<1>3. CASE \E q : Throw("launch", a, q)
  <2>0. PICK q : Throw("launch", a, q)
    BY <1>3
  <2>1. PICK f, g : f = F("launch") /\ g = [f EXCEPT !.at = a, !.code = q]
    OBVIOUS
  <2>2. g.fn = "launch" /\ g.at = a /\ g.other = f.other /\ Frames("launch", <<g>>)
    BY <1>1, <2>0, <2>1 DEF Throw, Continue, FrameType
  <2> QED
    BY <2>1, <2>2 DEF LaunchTo
<1> QED
  BY <1>2, <1>3

LEMMA LaunchToOwned ==
  ASSUME CallsOK, stack["launch"] # <<>>, Len(stack["launch"]) = 1, stack["reconcile"] = <<>>, NEW a, LaunchTo(a),
         a \in {"stage", "publish", "identify", "finalize", "check", "undo", "fail"},
         \A g : g.fn = "launch" /\ g.at = a /\ g.other = F("launch").other => LaunchFrame(g)'
  PROVE  CallsOwned(a = "identify")
<1>1. PICK g : g.fn = "launch" /\ g.at = a /\ g.other = F("launch").other /\ Frames("launch", <<g>>)
  BY DEF LaunchTo
<1>2. LaunchFrame(g)'
  BY <1>1
<1>3. a # LeaseDone
  BY CallerFnsFacts
<1>4. CallsOwned(g.fn = "launch" /\ g.at = "identify")
  BY <1>1, <1>2, <1>3, CallerGoes
<1> QED
  BY <1>1, <1>4 DEF CallsOwned

LEMMA LaunchExcludedOwned ==
  ASSUME IInv, AllOwned, NEW p \in Procs, LaunchExcluded(p)
  PROVE  AllOwned'
<1>0. p = "launch" /\ At("launch", "launch", "excluded")
  BY LaunchAt DEF LaunchExcluded
<1>1. PICK f, r : /\ f.fn = "launch" /\ f.at = "excluded" /\ F("launch") = f /\ R("launch") = r /\ f \in FrameType /\ r \in ResultType
                  /\ stack["launch"] # <<>> /\ Len(stack["launch"]) = 1 /\ CallsOK
                  /\ LaunchFrame(f) /\ TopOwned(f, r) /\ HostOwned /\ HostTypes
                  /\ ~Released /\ ~At("launch", "launch", "identify")
                  /\ stack["reconcile"] = <<>> /\ journal.held /\ Busy("launch")
  BY <1>0, CallerTop, CallerFnsFacts
<1>2. journal' = journal /\ manifest' = manifest /\ seized' = seized /\ staged' = staged /\ (NoManifest' <=> NoManifest)
  BY DEF LaunchExcluded, manifests, NoManifest
<1>3. CASE lease' = lease /\ ((\E q : Throw("launch", "fail", q)) \/ (f.other = 1 /\ Go("launch", "check")))
  <2>1. PICK a : LaunchTo(a) /\ (a = "fail" \/ (f.other = 1 /\ a = "check"))
    BY <1>1, <1>3, LaunchGoesTo
  <2>2. \A g : g.fn = "launch" /\ g.at = a /\ g.other = f.other => LaunchFrame(g)'
    BY <1>1, <1>2, <1>3, <2>1 DEF LaunchFrame
  <2>3. CallsOwned(FALSE)
    BY <1>1, <2>1, <2>2, LaunchToOwned DEF CallsOwned
  <2>4. HostOwned'
    BY <1>1, <1>2, <1>3, <2>3 DEF HostOwned, CallsOwned
  <2> QED
    BY <2>3, <2>4, CallsAllOwned DEF CallsOwned
<1>4. CASE /\ r.r \notin Errors /\ f.other # 1 /\ Go("launch", "stage")
           /\ lease' = [lease EXCEPT !.added = r.r = "added"]
  <2>1. ~lease.live /\ r.r = "added" /\ NoManifest /\ ~lease.written
    BY <1>1, <1>4 DEF LaunchFrame, TopOwned
  <2>2. lease'.added /\ ~lease'.live /\ ~lease'.written
    BY <1>1, <1>4, <2>1 DEF HostTypes
  <2>3. LaunchTo("stage")
    BY <1>1, <1>4, LaunchGoesTo
  <2>4. \A g : g.fn = "launch" /\ g.at = "stage" /\ g.other = f.other => LaunchFrame(g)'
    BY <1>1, <1>2, <1>4, <2>1, <2>2 DEF LaunchFrame
  <2>5. CallsOwned(FALSE)
    BY <1>1, <2>3, <2>4, LaunchToOwned DEF CallsOwned
  <2>6. HostOwned'
    BY <1>1, <1>2, <2>2, <2>5 DEF HostOwned, CallsOwned
  <2> QED
    BY <2>5, <2>6, CallsAllOwned DEF CallsOwned
<1> QED
  BY <1>0, <1>1, <1>3, <1>4 DEF LaunchExcluded, Shares

LEMMA LaunchStagesOwned ==
  ASSUME IInv, AllOwned, NEW p \in Procs, LaunchStages(p)
  PROVE  AllOwned'
<1>0. p = "launch" /\ At("launch", "launch", "stage")
  BY LaunchAt DEF LaunchStages
<1>1. PICK f, r : /\ f.fn = "launch" /\ f.at = "stage" /\ F("launch") = f /\ R("launch") = r /\ f \in FrameType /\ r \in ResultType
                  /\ stack["launch"] # <<>> /\ Len(stack["launch"]) = 1 /\ CallsOK
                  /\ LaunchFrame(f) /\ TopOwned(f, r) /\ HostOwned /\ HostTypes
                  /\ ~Released /\ ~At("launch", "launch", "identify")
                  /\ stack["reconcile"] = <<>> /\ journal.held /\ Busy("launch")
  BY <1>0, CallerTop, CallerFnsFacts
<1>2. lease' = lease /\ journal' = journal /\ manifest' = manifest /\ seized' = seized /\ staged' = "host" /\ (NoManifest' <=> NoManifest)
  BY DEF LaunchStages, host, NoManifest
<1>3. LaunchTo("publish")
  BY <1>0, <1>1, LaunchGoesTo DEF LaunchStages
<1>4. \A g : g.fn = "launch" /\ g.at = "publish" /\ g.other = f.other => LaunchFrame(g)'
  BY <1>1, <1>2 DEF LaunchFrame
<1>5. CallsOwned(FALSE)
  BY <1>1, <1>3, <1>4, LaunchToOwned DEF CallsOwned
<1>6. HostOwned'
  BY <1>1, <1>2, <1>5 DEF HostOwned, CallsOwned
<1> QED
  BY <1>5, <1>6, CallsAllOwned DEF CallsOwned

LEMMA LaunchPublishesOwned ==
  ASSUME IInv, AllOwned, NEW p \in Procs, LaunchPublishes(p)
  PROVE  AllOwned'
<1>0. p = "launch" /\ At("launch", "launch", "publish")
  BY LaunchAt DEF LaunchPublishes
<1>1. PICK f, r : /\ f.fn = "launch" /\ f.at = "publish" /\ F("launch") = f /\ R("launch") = r /\ f \in FrameType /\ r \in ResultType
                  /\ stack["launch"] # <<>> /\ Len(stack["launch"]) = 1 /\ CallsOK
                  /\ LaunchFrame(f) /\ TopOwned(f, r) /\ HostOwned /\ HostTypes
                  /\ ~Released /\ ~At("launch", "launch", "identify")
                  /\ stack["reconcile"] = <<>> /\ journal.held /\ Busy("launch")
  BY <1>0, CallerTop, CallerFnsFacts
<1>2. journal' = journal /\ seized' = seized
  BY DEF LaunchPublishes
<1>3. f.other # 1 /\ ~lease.live /\ NoManifest /\ ~lease.written /\ lease.added /\ (f.other = 2 <=> journal.known)
  BY <1>1 DEF LaunchFrame
<1>4. CASE /\ staged # "none" /\ manifest' = "host" /\ staged' = staged /\ lease' = [lease EXCEPT !.written = TRUE]
           /\ Go("launch", "identify")
  <2>1. lease'.written /\ lease'.added /\ ~lease'.live
    BY <1>1, <1>3, <1>4 DEF HostTypes
  <2>2. LaunchTo("identify")
    BY <1>1, <1>4, LaunchGoesTo
  <2>3. \A g : g.fn = "launch" /\ g.at = "identify" /\ g.other = f.other => LaunchFrame(g)'
    BY <1>2, <1>3, <2>1 DEF LaunchFrame
  <2>4. CallsOwned(TRUE)
    BY <1>1, <2>2, <2>3, LaunchToOwned DEF CallsOwned
  <2>5. HostOwned'
    BY <1>1, <1>2, <1>3, <1>4, <2>1, <2>4 DEF HostOwned, CallsOwned, NoManifest
  <2> QED
    BY <2>4, <2>5, CallsAllOwned DEF CallsOwned
<1>5. CASE staged' = "none" /\ manifest' = manifest /\ lease' = lease /\ \E q : Throw("launch", "undo", q)
  <2>1. NoManifest'
    BY <1>2, <1>3, <1>5 DEF NoManifest
  <2>2. LaunchTo("undo")
    BY <1>1, <1>5, LaunchGoesTo
  <2>3. \A g : g.fn = "launch" /\ g.at = "undo" /\ g.other = f.other => LaunchFrame(g)'
    BY <1>2, <1>3, <1>5, <2>1 DEF LaunchFrame
  <2>4. CallsOwned(FALSE)
    BY <1>1, <2>2, <2>3, LaunchToOwned DEF CallsOwned
  <2>5. HostOwned'
    BY <1>1, <1>2, <1>3, <1>5, <2>1, <2>4 DEF HostOwned, CallsOwned, NoManifest
  <2> QED
    BY <2>4, <2>5, CallsAllOwned DEF CallsOwned
<1>6. CASE manifest = "none" /\ staged # "none"
  <2>1. staged # "none" /\ manifest' = "host" /\ staged' = staged /\ lease' = [lease EXCEPT !.written = TRUE]
        /\ Go("launch", "identify")
    BY <1>0, <1>6 DEF LaunchPublishes
  <2> QED
    BY <1>4, <2>1
<1>7. CASE ~(manifest = "none" /\ staged # "none")
  <2>1. staged' = "none" /\ manifest' = manifest /\ lease' = lease /\ \E q : Throw("launch", "undo", q)
    BY <1>0, <1>7 DEF LaunchPublishes
  <2> QED
    BY <1>5, <2>1
<1> QED
  BY <1>6, <1>7

LEMMA LaunchIdentifiesOwned ==
  ASSUME IInv, AllOwned, NEW p \in Procs, LaunchIdentifies(p)
  PROVE  AllOwned'
<1>0. p = "launch" /\ At("launch", "launch", "identify")
  BY LaunchAt DEF LaunchIdentifies
<1>1. PICK f, r : /\ f.fn = "launch" /\ f.at = "identify" /\ F("launch") = f /\ R("launch") = r /\ f \in FrameType /\ r \in ResultType
                  /\ stack["launch"] # <<>> /\ Len(stack["launch"]) = 1 /\ CallsOK
                  /\ LaunchFrame(f) /\ TopOwned(f, r) /\ HostOwned /\ HostTypes
                  /\ ~Released
                  /\ stack["reconcile"] = <<>> /\ journal.held /\ Busy("launch")
  BY <1>0, CallerTop, CallerFnsFacts
<1>2. lease' = lease /\ manifest' = manifest /\ seized' = seized /\ staged' = staged
  BY DEF LaunchIdentifies, manifests
<1>3. f.other # 1 /\ ~lease.live /\ lease.written /\ lease.added
  BY <1>1 DEF LaunchFrame
<1>4. Continue("launch", [f EXCEPT !.at = "finalize", !.other = 2]) /\ journal' = [journal EXCEPT !.known = TRUE]
  BY <1>0, <1>1 DEF LaunchIdentifies
<1>5. journal'.held /\ journal'.known
  BY <1>1, <1>4 DEF HostTypes
<1>6. PICK g : g = [f EXCEPT !.at = "finalize", !.other = 2]
  OBVIOUS
<1>7. g.fn = "launch" /\ g.at = "finalize" /\ g.other = 2 /\ Frames("launch", <<g>>)
  BY <1>1, <1>4, <1>6 DEF Continue, FrameType
<1>10. LaunchFrame(g)'
  BY <1>2, <1>3, <1>5, <1>7 DEF LaunchFrame
<1>8. CallsOwned(FALSE)
  BY <1>1, <1>7, <1>10, CallerGoes, CallerFnsFacts DEF CallsOwned
<1>9. HostOwned'
  BY <1>1, <1>2, <1>3, <1>5, <1>8 DEF HostOwned, CallsOwned
<1> QED
  BY <1>8, <1>9, CallsAllOwned DEF CallsOwned

LEMMA LaunchFinalizesOwned ==
  ASSUME IInv, AllOwned, NEW p \in Procs, LaunchFinalizes(p)
  PROVE  AllOwned'
<1>0. p = "launch" /\ At("launch", "launch", "finalize")
  BY LaunchAt DEF LaunchFinalizes
<1>1. PICK f, r : /\ f.fn = "launch" /\ f.at = "finalize" /\ F("launch") = f /\ R("launch") = r /\ f \in FrameType /\ r \in ResultType
                  /\ stack["launch"] # <<>> /\ Len(stack["launch"]) = 1 /\ CallsOK
                  /\ LaunchFrame(f) /\ TopOwned(f, r) /\ HostOwned /\ HostTypes
                  /\ ~Released /\ ~At("launch", "launch", "identify")
                  /\ stack["reconcile"] = <<>> /\ journal.held /\ Busy("launch")
  BY <1>0, CallerTop, CallerFnsFacts
<1>2. lease' = lease /\ journal' = journal /\ manifest' = manifest /\ seized' = seized
  BY DEF LaunchFinalizes, host
<1>3. f.other = 2 /\ ~lease.live /\ lease.written /\ lease.added /\ journal.known
  BY <1>1 DEF LaunchFrame
<1>4. PICK a \in {"undo", "check"} : LaunchTo(a)
  BY <1>0, <1>1, LaunchGoesTo DEF LaunchFinalizes
<1>5. \A g : g.fn = "launch" /\ g.at = a /\ g.other = f.other => LaunchFrame(g)'
  BY <1>2, <1>3, <1>4 DEF LaunchFrame
<1>6. CallsOwned(FALSE)
  BY <1>1, <1>4, <1>5, LaunchToOwned DEF CallsOwned
<1>7. HostOwned'
  BY <1>1, <1>2, <1>3, <1>6 DEF HostOwned, CallsOwned
<1> QED
  BY <1>6, <1>7, CallsAllOwned DEF CallsOwned

LEMMA LaunchChecksOwned ==
  ASSUME IInv, AllOwned, NEW p \in Procs, LaunchChecks(p)
  PROVE  AllOwned'
<1>0. p = "launch" /\ At("launch", "launch", "check")
  BY LaunchAt DEF LaunchChecks
<1>1. PICK f, r : /\ f.fn = "launch" /\ f.at = "check" /\ F("launch") = f /\ R("launch") = r /\ f \in FrameType /\ r \in ResultType
                  /\ stack["launch"] # <<>> /\ Len(stack["launch"]) = 1 /\ CallsOK
                  /\ LaunchFrame(f) /\ TopOwned(f, r) /\ HostOwned /\ HostTypes
                  /\ ~Released /\ ~At("launch", "launch", "identify")
                  /\ stack["reconcile"] = <<>> /\ journal.held /\ Busy("launch")
  BY <1>0, CallerTop, CallerFnsFacts
<1>2. journal' = journal /\ manifest' = manifest /\ seized' = seized /\ staged' = staged /\ (NoManifest' <=> NoManifest)
  BY DEF LaunchChecks, manifests, NoManifest
<1>3. f.other # 1 => ~lease.live /\ lease.written /\ lease.added /\ journal.known /\ f.other = 2
  BY <1>1 DEF LaunchFrame
<1>4. f.other = 1 <=> lease.live
  BY <1>1 DEF LaunchFrame
<1>5. CASE Return("launch", "ok") /\ lease' = IF f.other = 1 THEN lease ELSE [lease EXCEPT !.live = TRUE, !.count = 1]
  <2>1. Owned("launch")' /\ Owned("reconcile")' /\ ~Busy("launch")'
    BY <1>1, <1>5, CallerReturns
  <2>2. lease'.live /\ lease'.written = lease.written /\ lease'.added = lease.added
    BY <1>1, <1>4, <1>5 DEF HostTypes
  <2>3. HostOwned'
    BY <1>1, <1>2, <1>3, <1>4, <2>2 DEF HostOwned
  <2> QED
    BY <2>1, <2>3, CallsAllOwned
<1>6. CASE lease' = lease /\ Throw("launch", IF f.other = 1 THEN "fail" ELSE "undo", "failed")
  <2>1. PICK a : LaunchTo(a) /\ a = IF f.other = 1 THEN "fail" ELSE "undo"
    BY <1>1, <1>6, LaunchGoesTo
  <2>2. \A g : g.fn = "launch" /\ g.at = a /\ g.other = f.other => LaunchFrame(g)'
    BY <1>2, <1>3, <1>4, <1>6, <2>1 DEF LaunchFrame
  <2>3. CallsOwned(FALSE)
    BY <1>1, <2>1, <2>2, LaunchToOwned DEF CallsOwned
  <2>4. HostOwned'
    BY <1>1, <1>2, <1>6, <2>3 DEF HostOwned, CallsOwned
  <2> QED
    BY <2>3, <2>4, CallsAllOwned DEF CallsOwned
<1> QED
  BY <1>0, <1>1, <1>5, <1>6 DEF LaunchChecks, Shares

LEMMA LaunchRetainsOwned ==
  ASSUME IInv, AllOwned, NEW p \in Procs, LaunchRetains(p)
  PROVE  AllOwned'
<1>0. p = "launch" /\ At("launch", "launch", "start")
  BY LaunchAt DEF LaunchRetains
<1>1. PICK f, r : /\ f.fn = "launch" /\ f.at = "start" /\ F("launch") = f /\ R("launch") = r /\ f \in FrameType /\ r \in ResultType
                  /\ stack["launch"] # <<>> /\ Len(stack["launch"]) = 1 /\ CallsOK
                  /\ LaunchFrame(f) /\ TopOwned(f, r) /\ HostOwned /\ HostTypes
                  /\ ~Released /\ ~At("launch", "launch", "identify") /\ ~Busy("launch")
  BY <1>0, CallerTop, CallerFnsFacts
<1>2. UNCHANGED files /\ manifest' = manifest /\ seized' = seized /\ staged' = staged /\ (NoManifest' <=> NoManifest)
  BY DEF LaunchRetains, manifests, NoManifest
<1>3. f.other # 1 /\ f.other # 2
  BY <1>1 DEF LaunchFrame
<1>4. ~lease.live => ~lease.written
  BY <1>1 DEF HostOwned
<1>5. CASE lease.live
  <2>1. lease' = [lease EXCEPT !.count = @ + 1] /\ journal' = journal
        /\ Continue("launch", [F("launch") EXCEPT !.at = "inspect", !.other = 1])
    BY <1>0, <1>5 DEF LaunchRetains
  <2>2. lease'.live /\ lease'.written = lease.written /\ lease'.added = lease.added
    BY <1>1, <1>5, <2>1 DEF HostTypes
  <2>3. stack["reconcile"] = <<>>
    BY <1>5 DEF IInv, HostOK, Exclusive
  <2>4. PICK g : g = [f EXCEPT !.at = "inspect", !.other = 1]
    OBVIOUS
  <2>5. g.fn = "launch" /\ g.at = "inspect" /\ g.other = 1 /\ Frames("launch", <<g>>)
    BY <1>1, <2>1, <2>4 DEF Continue, FrameType
  <2>6. LaunchFrame(g)'
    BY <2>2, <2>5 DEF LaunchFrame
  <2>7. CallsOwned(FALSE)
    BY <1>1, <2>3, <2>5, <2>6, CallerGoes, CallerFnsFacts DEF CallsOwned
  <2>8. HostOwned'
    BY <1>1, <1>2, <2>1, <2>2, <2>7 DEF HostOwned, CallsOwned, IInv, HostOK, Exclusive
  <2> QED
    BY <2>7, <2>8, CallsAllOwned DEF CallsOwned
<1>6. CASE ~lease.live
  <2>1. stack["reconcile"] = <<>> /\ lease' = lease
    BY <1>6 DEF LaunchRetains, StoreIsFree, Rests
  <2>2. CASE journal.held
    <3>1. Return("launch", "collision") /\ journal' = journal
      BY <1>0, <1>6, <2>2 DEF LaunchRetains
    <3>2. Owned("launch")' /\ Owned("reconcile")' /\ ~Busy("launch")'
      BY <1>1, <2>1, <3>1, CallerReturns
    <3>3. HostOwned'
      BY <1>1, <1>2, <1>4, <1>6, <2>1, <2>2, <3>1 DEF HostOwned
    <3> QED
      BY <3>2, <3>3, CallsAllOwned
  <2>3. CASE ~journal.held
    <3>1. Go("launch", "inspect") /\ journal' = [held |-> TRUE, known |-> FALSE]
      BY <1>0, <1>6, <2>3 DEF LaunchRetains
    <3>2. NoRules /\ NoManifest /\ staged = "none" /\ seized = "none" /\ NoRules'
      <4>1. NoRules /\ NoManifest /\ staged = "none"
        BY <1>1, <2>3 DEF HostOwned, Clean
      <4> QED
        BY <1>2, <4>1, QuietBlocks DEF NoRules, NoManifest
    <3>3. PICK g : g.fn = "launch" /\ g.at = "inspect" /\ g.other = f.other /\ Frames("launch", <<g>>)
      BY <1>1, <3>1, LaunchGoesTo DEF LaunchTo
    <3>8. ~journal'.known
      BY <3>1
    <3>4. LaunchFrame(g)'
      BY <1>2, <1>3, <1>4, <1>6, <2>1, <3>2, <3>3, <3>8 DEF LaunchFrame
    <3>5. CallsOwned(FALSE)
      BY <1>1, <2>1, <3>3, <3>4, CallerGoes, CallerFnsFacts DEF CallsOwned
    <3>6. journal'.held
      BY <3>1
    <3>7. HostOwned'
      BY <1>1, <1>2, <1>4, <1>6, <2>1, <3>2, <3>5, <3>6 DEF HostOwned, CallsOwned
    <3> QED
      BY <3>5, <3>7, CallsAllOwned DEF CallsOwned
  <2> QED
    BY <2>2, <2>3
<1> QED
  BY <1>5, <1>6

LEMMA LaunchUndoesOwned ==
  ASSUME IInv, AllOwned, NEW p \in Procs, LaunchUndoes(p)
  PROVE  AllOwned'
<1>0. p = "launch" /\ At("launch", "launch", "undo")
  BY LaunchAt DEF LaunchUndoes
<1>1. PICK f, r : /\ f.fn = "launch" /\ f.at = "undo" /\ F("launch") = f /\ R("launch") = r /\ f \in FrameType /\ r \in ResultType
                  /\ stack["launch"] # <<>> /\ Len(stack["launch"]) = 1 /\ CallsOK
                  /\ LaunchFrame(f) /\ TopOwned(f, r) /\ HostOwned /\ HostTypes
                  /\ ~Released /\ ~At("launch", "launch", "identify")
                  /\ stack["reconcile"] = <<>> /\ journal.held /\ Busy("launch")
  BY <1>0, CallerTop, CallerFnsFacts
<1>2. lease' = lease /\ journal' = journal /\ manifest' = manifest /\ seized' = seized /\ staged' = staged /\ (NoManifest' <=> NoManifest)
  BY DEF LaunchUndoes, manifests, host, NoManifest
<1>3. f.other # 1 /\ ~lease.live /\ (~lease.written => NoManifest) /\ (f.other = 2 <=> journal.known)
  BY <1>1 DEF LaunchFrame
<1>4. PICK c, g : c = [f EXCEPT !.at = "fail"] /\ g = RollBack
  OBVIOUS
<1>5. c.fn = "launch" /\ c.at = "fail" /\ c.other = f.other /\ Frames("launch", <<g, c>>)
  BY <1>0, <1>1, <1>4 DEF LaunchUndoes, Enter, FrameType
<1>6. g.fn = "rollback" /\ g.at = "start"
  BY <1>4 DEF RollBack, Frame
<1>7. LaunchFrame(c)'
  BY <1>2, <1>3, <1>5 DEF LaunchFrame
<1>8. FrameOwned(g)' /\ \A s : TopOwned(g, s)'
  BY <1>2, <1>3, <1>6 DEF FrameOwned, FileFrame, CallFrame, LaunchFrame, TopOwned
<1>9. LinkOwned(c, g)'
  BY <1>3, <1>5, <1>6 DEF LinkOwned
<1>10. CallsOwned(FALSE)
  BY <1>1, <1>5, <1>6, <1>7, <1>8, <1>9, CallerEnters
<1>11. HostOwned'
  BY <1>1, <1>2, <1>10 DEF HostOwned, CallsOwned
<1> QED
  BY <1>10, <1>11, CallsAllOwned DEF CallsOwned

LEMMA CleanUpMade ==
  ASSUME NEW k \in BOOLEAN, ~lease'.live, k <=> journal'.known
  PROVE  CleanUp(k).fn = "cleanup" /\ FrameOwned(CleanUp(k))' /\ \A s : TopOwned(CleanUp(k), s)'
<1>1. PICK g : g = CleanUp(k)
  OBVIOUS
<1>2. g.fn = "cleanup" /\ g.at = "derive" /\ (g.other = 1 <=> k)
  BY <1>1 DEF CleanUp, Frame
<1>3. FrameOwned(g)' /\ \A s : TopOwned(g, s)'
  BY <1>2 DEF FrameOwned, FileFrame, CallFrame, LaunchFrame, TopOwned
<1> QED
  BY <1>1, <1>2, <1>3

LEMMA LaunchFailsOwned ==
  ASSUME IInv, AllOwned, NEW p \in Procs, LaunchFails(p)
  PROVE  AllOwned'
<1>0. p = "launch" /\ At("launch", "launch", "fail")
  BY LaunchAt DEF LaunchFails
<1>1. PICK f, r : /\ f.fn = "launch" /\ f.at = "fail" /\ F("launch") = f /\ R("launch") = r /\ f \in FrameType /\ r \in ResultType
                  /\ stack["launch"] # <<>> /\ Len(stack["launch"]) = 1 /\ CallsOK
                  /\ LaunchFrame(f) /\ TopOwned(f, r) /\ HostOwned /\ HostTypes
                  /\ ~Released /\ ~At("launch", "launch", "identify")
                  /\ stack["reconcile"] = <<>> /\ journal.held /\ Busy("launch")
  BY <1>0, CallerTop, CallerFnsFacts
<1>2. journal' = journal /\ manifest' = manifest /\ seized' = seized /\ staged' = staged /\ (NoManifest' <=> NoManifest)
  BY DEF LaunchFails, manifests, NoManifest
<1>3. /\ f.other = 1 <=> lease.live
      /\ f.other # 1 => (f.other = 2 <=> journal.known)
  BY <1>1 DEF LaunchFrame
<1>4. CASE f.other = 1
  <2>1. lease' = [lease EXCEPT !.count = @ - 1]
    BY <1>0, <1>1, <1>4 DEF LaunchFails, Shares
  <2>2. lease'.live /\ lease'.written = lease.written /\ lease'.added = lease.added
    BY <1>1, <1>3, <1>4, <2>1 DEF HostTypes
  <2>3. HostOwned'
    BY <1>1, <1>2, <1>3, <1>4, <2>2 DEF HostOwned
  <2>4. CASE Continue("launch", Frame("release", "lease", 0))
    <3>1. PICK g : g = Frame("release", "lease", 0)
      OBVIOUS
    <3>2. g.fn = "release" /\ g.at = "lease" /\ Frames("launch", <<g>>)
      BY <2>4, <3>1 DEF Frame, Continue
    <3>3. LaunchFrame(g)'
      BY <3>2 DEF LaunchFrame
    <3>4. CallsOwned(FALSE)
      BY <1>1, <3>2, <3>3, CallerGoes, CallerFnsFacts DEF CallsOwned
    <3> QED
      BY <2>3, <3>4, CallsAllOwned DEF CallsOwned
  <2>5. CASE Return("launch", f.code)
    <3>1. Owned("launch")' /\ Owned("reconcile")'
      BY <1>1, <2>5, CallerReturns
    <3> QED
      BY <2>3, <3>1, CallsAllOwned
  <2> QED
    BY <1>0, <1>1, <1>4, <2>4, <2>5 DEF LaunchFails, Shares
<1>5. CASE f.other # 1
  <2>1. lease' = NoLease /\ Enter("launch", F("launch"), "cleaned", CleanUp(f.other = 2))
    BY <1>0, <1>1, <1>5 DEF LaunchFails, Shares, Identified
  <2>2. ~lease'.live /\ ~lease'.written
    BY <2>1 DEF NoLease
  <2>3. PICK c, g : c = [f EXCEPT !.at = "cleaned"] /\ g = CleanUp(f.other = 2)
    OBVIOUS
  <2>4. c.fn = "launch" /\ c.at = "cleaned" /\ c.other = f.other /\ Frames("launch", <<g, c>>)
    BY <1>1, <2>1, <2>3 DEF Enter, FrameType
  <2>5. g.fn = "cleanup" /\ FrameOwned(g)' /\ \A s : TopOwned(g, s)'
    <3>1. (f.other = 2) \in BOOLEAN /\ ((f.other = 2) <=> journal'.known)
      BY <1>2, <1>3, <1>5
    <3> QED
      BY <2>2, <2>3, <3>1, CleanUpMade
  <2>6. LaunchFrame(c)' /\ LinkOwned(c, g)'
    BY <1>2, <1>3, <1>5, <2>2, <2>4, <2>5 DEF LaunchFrame, LinkOwned
  <2>7. CallsOwned(FALSE)
    BY <1>1, <2>4, <2>5, <2>6, CallerEnters
  <2>8. HostOwned'
    BY <1>1, <1>2, <2>2, <2>7 DEF HostOwned, CallsOwned
  <2> QED
    BY <2>7, <2>8, CallsAllOwned DEF CallsOwned
<1> QED
  BY <1>4, <1>5

LEMMA LaunchCleanedOwned ==
  ASSUME IInv, AllOwned, NEW p \in Procs, LaunchCleaned(p)
  PROVE  AllOwned'
<1>0. p = "launch" /\ At("launch", "launch", "cleaned")
  BY LaunchAt DEF LaunchCleaned
<1>1. PICK f, r : /\ f.fn = "launch" /\ f.at = "cleaned" /\ F("launch") = f /\ R("launch") = r /\ f \in FrameType /\ r \in ResultType
                  /\ stack["launch"] # <<>> /\ Len(stack["launch"]) = 1 /\ CallsOK
                  /\ LaunchFrame(f) /\ TopOwned(f, r) /\ HostOwned /\ HostTypes
                  /\ ~Released /\ ~At("launch", "launch", "identify")
                  /\ stack["reconcile"] = <<>> /\ journal.held /\ Busy("launch")
  BY <1>0, CallerTop, CallerFnsFacts
<1>2. UNCHANGED files /\ lease' = lease /\ manifest' = manifest /\ seized' = seized /\ staged' = staged
  BY DEF LaunchCleaned, manifests
<1>3. lease = NoLease /\ ~lease.live /\ ~lease.written
  <2>1. Bottom("launch") = f
    BY <1>0, <1>1, TwoProcs, LaunchAt
  <2> QED
    BY <1>1, <2>1, TwoProcs DEF IInv, HostOK, Rooted, NoLease
<1>4. Owned("launch")' /\ Owned("reconcile")'
  BY <1>0, <1>1, CallerReturns DEF LaunchCleaned
<1>5. HostOwned'
  <2>1. CASE r.r \in Errors
    <3>1. journal' = journal
      BY <1>0, <1>1, <2>1 DEF LaunchCleaned
    <3> QED
      BY <1>1, <1>2, <1>3, <3>1 DEF HostOwned, NoManifest
  <2>2. CASE r.r \notin Errors
    <3>1. ~journal'.held
      BY <1>0, <1>1, <2>2 DEF LaunchCleaned, NoJournal
    <3>2. Clean
      BY <1>1, <2>2 DEF TopOwned
    <3>3. Clean' /\ seized' = "none"
      BY <1>2, <3>2, QuietBlocks DEF Clean, NoRules, NoManifest
    <3> QED
      BY <1>2, <1>3, <3>1, <3>3 DEF HostOwned
  <2> QED
    BY <2>1, <2>2
<1> QED
  BY <1>4, <1>5, CallsAllOwned

LEMMA ReleasesLeaseOwned ==
  ASSUME IInv, AllOwned, NEW p \in Procs, ReleasesLease(p)
  PROVE  AllOwned'
<1>0. p = "launch" /\ At("launch", "release", "lease")
  BY ReleaseAt, CallerFnsFacts DEF ReleasesLease
<1>1. PICK f, r : /\ f.fn = "release" /\ f.at = "lease" /\ F("launch") = f /\ R("launch") = r /\ f \in FrameType /\ r \in ResultType
                  /\ stack["launch"] # <<>> /\ Len(stack["launch"]) = 1 /\ CallsOK /\ HostOwned /\ HostTypes
                  /\ ~Released /\ ~At("launch", "launch", "identify") /\ lease.live
                  /\ stack["reconcile"] = <<>> /\ journal.held /\ Busy("launch")
  BY <1>0, CallerTop, CallerFnsFacts
<1>2. lease' = lease /\ journal' = journal /\ manifest' = manifest /\ seized' = seized /\ staged' = staged /\ (NoManifest' <=> NoManifest)
  BY DEF ReleasesLease, manifests, host, NoManifest
<1>3. ~lease.written => NoManifest
  BY <1>1 DEF HostOwned
<1>4. PICK c, g : c = [f EXCEPT !.at = LeaseDone] /\ g = RollBack
  OBVIOUS
<1>5. c.fn = "release" /\ Frames("launch", <<g, c>>)
  BY <1>0, <1>1, <1>4 DEF ReleasesLease, Enter, FrameType, LeaseDone
<1>6. g.fn = "rollback" /\ g.at = "start"
  BY <1>4 DEF RollBack, Frame
<1>7. LaunchFrame(c)' /\ LinkOwned(c, g)'
  BY <1>5 DEF LaunchFrame, LinkOwned
<1>8. FrameOwned(g)' /\ \A s : TopOwned(g, s)'
  BY <1>2, <1>3, <1>6 DEF FrameOwned, FileFrame, CallFrame, LaunchFrame, TopOwned
<1>9. CallsOwned(FALSE)
  BY <1>1, <1>5, <1>6, <1>7, <1>8, CallerEnters
<1>10. HostOwned'
  BY <1>1, <1>2, <1>9 DEF HostOwned, CallsOwned
<1> QED
  BY <1>9, <1>10, CallsAllOwned DEF CallsOwned

LEMMA LeaseReleasedOwned ==
  ASSUME IInv, AllOwned, NEW p \in Procs, LeaseReleased(p)
  PROVE  AllOwned'
<1>0. p = "launch" /\ At("launch", "release", LeaseDone)
  <2>1. At(p, "release", LeaseDone)
    BY DEF LeaseReleased, LeaseDone
  <2> QED
    BY <2>1, ReleaseAt, CallerFnsFacts
<1>1. PICK f, r : /\ f.fn = "release" /\ f.at = LeaseDone /\ F("launch") = f /\ R("launch") = r /\ f \in FrameType /\ r \in ResultType
                  /\ stack["launch"] # <<>> /\ Len(stack["launch"]) = 1 /\ CallsOK /\ HostOwned /\ HostTypes
                  /\ TopOwned(f, r)
                  /\ (Released <=> r.r \notin Errors) /\ ~At("launch", "launch", "identify") /\ lease.live
                  /\ stack["reconcile"] = <<>> /\ journal.held /\ Busy("launch")
  BY <1>0, CallerTop, CallerFnsFacts
<1>2. UNCHANGED files /\ manifest' = manifest /\ seized' = seized /\ staged' = staged
  BY DEF LeaseReleased, manifests
<1>3. Owned("launch")' /\ Owned("reconcile")'
  BY <1>0, <1>1, CallerReturns DEF LeaseReleased
<1>4. HostOwned'
  <2>1. CASE r.r \in Errors
    <3>1. journal' = journal /\ lease' = [lease EXCEPT !.retry = r.r = "failed"]
      BY <1>0, <1>1, <2>1 DEF LeaseReleased
    <3>2. lease'.live /\ lease'.added = lease.added /\ lease'.written = lease.written
      BY <1>1, <3>1 DEF HostTypes
    <3> QED
      BY <1>1, <1>2, <2>1, <3>1, <3>2 DEF HostOwned, NoManifest
  <2>2. CASE r.r \notin Errors
    <3>1. ~journal'.held /\ ~lease'.live /\ ~lease'.written
      <4>1. journal' = NoJournal /\ lease' = NoLease
        BY <1>0, <1>1, <2>2 DEF LeaseReleased
      <4> QED
        BY <4>1 DEF NoJournal, NoLease
    <3>2. Clean
      BY <1>1, <2>2 DEF TopOwned
    <3>3. Clean' /\ seized' = "none"
      BY <1>2, <3>2, QuietBlocks DEF Clean, NoRules, NoManifest
    <3> QED
      BY <1>2, <3>1, <3>3 DEF HostOwned
  <2> QED
    BY <2>1, <2>2
<1> QED
  BY <1>3, <1>4, CallsAllOwned

-----------------------------------------------------------------------------
(* The reconciliation, beside a launch that has not begun                    *)

LEMMA IdleStarts ==
  ASSUME CallsOK, NEW q \in Procs, ~Busy(q), stack[q] # <<>>
  PROVE  F(q).fn \in {"launch", "reconcile"} /\ F(q).at = "start" /\ Len(stack[q]) = 1 /\ stack[q][1] = F(q)
<1>1. F(q).fn \in {"launch", "reconcile"} /\ F(q).at = "start"
  BY DEF Busy, F
<1> QED
  BY <1>1, BottomFacts DEF IsBottom

LEMMA IdleOwned ==
  ASSUME CallsOK, NEW q \in Procs, ~Busy(q), Owned(q), stack'[q] = stack[q]
  PROVE  Owned(q)'
  BY IdleStarts, AtStartOwned

\* There is no lease, and the files and the journal stay as they are.
LEMMA LeaselessHost ==
  ASSUME HostOwned, ~lease'.live, ~lease'.written, UNCHANGED <<files, manifests, journal>>
  PROVE  HostOwned'
<1>1. journal' = journal /\ manifest' = manifest /\ seized' = seized /\ staged' = staged /\ UNCHANGED files
  BY DEF manifests
<1>2. (NoManifest' <=> NoManifest) /\ (Clean => Clean')
  BY <1>1, QuietBlocks DEF NoManifest, Clean, NoRules
<1> QED
  BY <1>1, <1>2 DEF HostOwned

LEMMA ReconcileStartsOwned ==
  ASSUME IInv, AllOwned, NEW p \in Procs, ReconcileStarts(p)
  PROVE  AllOwned'
<1>0. CallsOK /\ HostOwned /\ HostTypes /\ Owned("launch") /\ "reconcile" \in Procs /\ "launch" \in Procs
  BY TwoProcs DEF IInv, Framework, AllOwned, HostOK
<1>1. /\ p = "reconcile" /\ stack[p] # <<>> /\ Len(stack[p]) = 1 /\ F(p).fn = "reconcile"
      /\ ~lease.live /\ ~Busy("launch")
  BY ReconcileAt DEF ReconcileStarts
<1>2. UNCHANGED <<files, manifests, journal>> /\ lease' = lease /\ journal' = journal
  BY DEF ReconcileStarts
<1>3. ~lease'.live /\ ~lease'.written
  BY <1>0, <1>1, <1>2 DEF HostOwned
<1>4. HostOwned'
  BY <1>0, <1>2, <1>3, LeaselessHost
<1>5. PICK f : f = F(p) /\ f \in FrameType
  BY <1>0, <1>1, BottomFacts
<1>6. CASE Enter(p, f, "cleaned", CleanUp(journal.known))
  <2>1. PICK c, g : c = [f EXCEPT !.at = "cleaned"] /\ g = CleanUp(journal.known)
    OBVIOUS
  <2>2. c.fn = "reconcile" /\ c.at = "cleaned" /\ Frames(p, <<g, c>>)
    BY <1>1, <1>5, <1>6, <2>1 DEF Enter, FrameType
  <2>3. g.fn = "cleanup" /\ FrameOwned(g)' /\ \A s : TopOwned(g, s)'
    <3>1. journal.known \in BOOLEAN
      BY <1>0 DEF HostTypes
    <3> QED
      BY <1>2, <1>3, <2>1, <3>1, CleanUpMade
  <2>4. FrameOwned(c)' /\ LinkOwned(c, g)'
    BY <2>2, <2>3 DEF FrameOwned, FileFrame, CallFrame, LaunchFrame, LinkOwned
  <2>5. PICK s : s = R(p)'
    OBVIOUS
  <2>6. Owned(p)'
    BY <1>0, <1>1, <2>2, <2>3, <2>4, <2>5, Lonely, OwnedEnters
  <2>7. stack'["launch"] = stack["launch"]
    BY <1>0, <1>1, <2>2 DEF Frames, CallsOK, CallTypes
  <2>8. Owned("launch")'
    BY <1>0, <1>1, <2>7, IdleOwned
  <2> QED
    BY <1>1, <1>4, <2>6, <2>8, CallsAllOwned
<1>7. CASE Return(p, "ok")
  <2>1. stack'["launch"] = stack["launch"] /\ stack'[p] = <<>>
    BY <1>0, <1>1, <1>7, FramesFacts DEF Return, Give, Frames, CallsOK, CallTypes
  <2>2. Owned("launch")' /\ Owned(p)'
    BY <1>0, <1>1, <2>1, IdleOwned, RestOwned
  <2> QED
    BY <1>1, <1>4, <2>2, CallsAllOwned
<1> QED
  BY <1>5, <1>6, <1>7 DEF ReconcileStarts

LEMMA ReconcileCleanedOwned ==
  ASSUME IInv, AllOwned, NEW p \in Procs, ReconcileCleaned(p)
  PROVE  AllOwned'
<1>0. CallsOK /\ HostOwned /\ Owned("launch") /\ Owned(p) /\ "reconcile" \in Procs /\ "launch" \in Procs
  BY TwoProcs DEF IInv, Framework, AllOwned
<1>1. /\ p = "reconcile" /\ stack[p] # <<>> /\ Len(stack[p]) = 1 /\ F(p).fn = "reconcile" /\ F(p).at = "cleaned"
      /\ ~lease.live /\ ~Busy("launch") /\ journal.held
  BY ReconcileAt DEF ReconcileCleaned
<1>2. UNCHANGED files /\ UNCHANGED manifests /\ lease' = lease /\ manifest' = manifest /\ seized' = seized /\ staged' = staged
  BY DEF ReconcileCleaned, manifests
<1>3. ~lease'.live /\ ~lease'.written
  BY <1>0, <1>1, <1>2 DEF HostOwned
<1>4. PICK f, r : f = F(p) /\ r = R(p)
  OBVIOUS
<1>5. stack'["launch"] = stack["launch"] /\ stack'[p] = <<>>
  BY <1>0, <1>1, FramesFacts DEF ReconcileCleaned, Return, Give, Frames, CallsOK, CallTypes
<1>6. Owned("launch")' /\ Owned(p)'
  BY <1>0, <1>1, <1>5, IdleOwned, RestOwned
<1>7. HostOwned'
  <2>1. CASE r.r \in Errors
    <3>1. journal' = journal
      BY <1>4, <2>1 DEF ReconcileCleaned
    <3> QED
      BY <1>0, <1>2, <1>3, <3>1, LeaselessHost
  <2>2. CASE r.r \notin Errors
    <3>1. ~journal'.held
      BY <1>4, <2>2 DEF ReconcileCleaned, NoJournal
    <3>2. TopOwned(f, r)
      BY <1>0, <1>1, <1>4 DEF Owned
    <3>3. Clean
      BY <1>1, <1>4, <2>2, <3>2 DEF TopOwned
    <3>4. Clean' /\ seized' = "none"
      BY <1>2, <3>3, QuietBlocks DEF Clean, NoRules, NoManifest
    <3> QED
      BY <1>3, <3>1, <3>4 DEF HostOwned
  <2> QED
    BY <2>1, <2>2
<1> QED
  BY <1>1, <1>6, <1>7, CallsAllOwned

-----------------------------------------------------------------------------
(* What the user does leaves what the frames say as it is                    *)

CalmFiles ==
    /\ PublicBlocks' = PublicBlocks /\ (AllTidy => AllTidy') /\ (Blockless => Blockless')
    /\ \A l \in Levels : /\ Dir(l)' = Dir(l) /\ Tmp(l)' = Tmp(l)
                         /\ Tmp(l) # 0 => text'[Tmp(l)].blocks = text[Tmp(l)].blocks
CalmHost ==
    /\ seized' = seized /\ (NoManifest => NoManifest') /\ (staged' = "none" <=> staged = "none")
    /\ lease'.live = lease.live /\ lease'.written = lease.written /\ lease'.added = lease.added
    /\ journal' = journal
Calm == CalmFiles /\ CalmHost

LEMMA CalmFrame ==
  ASSUME Calm, NEW f, f.l \in Levels, FrameOwned(f)
  PROVE  FrameOwned(f)'
<1>1. FileFrame(f)'
  BY DEF Calm, CalmFiles, CalmHost, FrameOwned, FileFrame
<1>2. CallFrame(f)'
  BY DEF Calm, CalmHost, FrameOwned, CallFrame
<1>3. LaunchFrame(f)'
  <2>1. NoRules => NoRules'
    BY DEF Calm, CalmFiles, NoRules
  <2> QED
    BY <2>1 DEF Calm, CalmHost, FrameOwned, LaunchFrame
<1> QED
  BY <1>1, <1>2, <1>3 DEF FrameOwned

LEMMA CalmTop ==
  ASSUME Calm, NEW f, NEW r, f.l \in Levels, TopOwned(f, r)
  PROVE  TopOwned(f, r)'
<1>1. /\ NoRules => NoRules'
      /\ Clean => Clean'
  BY DEF Calm, CalmFiles, CalmHost, NoRules, Clean
<1> QED
  BY <1>1 DEF Calm, CalmFiles, CalmHost, TopOwned

LEMMA CalmLink ==
  ASSUME Calm, NEW f, NEW g, LinkOwned(f, g)
  PROVE  LinkOwned(f, g)'
  BY DEF Calm, CalmFiles, CalmHost, LinkOwned

LEMMA CalmOwned ==
  ASSUME CallsOK, Calm, NEW p \in Procs, Owned(p), stack'[p] = stack[p], res'[p] = res[p]
  PROVE  Owned(p)'
<1>1. \A k \in 1..Len(stack[p]) : stack[p][k].l \in Levels
  BY DEF CallsOK, Linked, FrameOK
<1>2. ASSUME NEW k \in 1..Len(stack'[p])
      PROVE  FrameOwned(stack[p][k])'
  <2>1. PICK f : f = stack[p][k] /\ FrameOwned(f) /\ f.l \in Levels
    BY <1>1, <1>2 DEF Owned
  <2>2. FrameOwned(f)'
    BY <2>1, CalmFrame
  <2>3. stack'[p][k] = f
    BY <2>1
  <2> QED
    BY <2>2, <2>3
<1>3. ASSUME NEW k \in 1..(Len(stack'[p]) - 1)
      PROVE  LinkOwned(stack[p][k + 1], stack[p][k])'
  <2>1. PICK f, c : f = stack[p][k] /\ c = stack[p][k + 1]
    OBVIOUS
  <2>2. LinkOwned(c, f)
    BY <1>3, <2>1 DEF Owned
  <2>3. LinkOwned(c, f)'
    BY <2>2, CalmLink
  <2>4. stack'[p][k] = f /\ stack'[p][k + 1] = c
    BY <2>1
  <2> QED
    BY <2>3, <2>4
<1>4. ASSUME stack'[p] # <<>>
      PROVE  TopOwned(F(p), R(p))'
  <2>1. PICK f, r : f = F(p) /\ r = R(p)
    OBVIOUS
  <2>2. TopOwned(f, r) /\ f.l \in Levels
    <3>1. f = stack[p][1] /\ 1 \in 1..Len(stack[p])
      BY <1>4, <2>1, FramesFacts
    <3> QED
      BY <1>1, <1>4, <2>1, <3>1 DEF Owned
  <2>3. TopOwned(f, r)'
    BY <2>2, CalmTop
  <2>4. F(p)' = f /\ R(p)' = r
    BY <2>1 DEF F, R
  <2> QED
    BY <2>3, <2>4
<1> QED
  BY <1>2, <1>3, <1>4 DEF Owned

LEMMA CalmFilesFacts == UNCHANGED files => CalmFiles
<1> SUFFICES ASSUME UNCHANGED files
             PROVE  CalmFiles
  OBVIOUS
<1>1. names' = names /\ dirs' = dirs /\ text' = text
  BY DEF files
<1>2. \A l \in Levels : Dir(l)' = Dir(l) /\ Tmp(l)' = Tmp(l)
  BY <1>1 DEF Dir, Tmp
<1> QED
  BY <1>1, <1>2, QuietBlocks DEF CalmFiles

LEMMA CalmAllOwned ==
  ASSUME CallsOK, AllOwned, Calm, UNCHANGED calls, manifest' = "host" => manifest = "host"
  PROVE  AllOwned'
<1>1. stack' = stack /\ res' = res
  BY DEF calls
<1>2. \A p \in Procs : Owned(p)'
  BY <1>1, CalmOwned DEF AllOwned
<1>3. (Released' <=> Released) /\ (At("launch", "launch", "identify")' <=> At("launch", "launch", "identify"))
      /\ (Busy("launch")' <=> Busy("launch"))
  BY <1>1 DEF Released, At, R, Busy
<1>4. Clean => Clean'
  BY DEF Calm, CalmFiles, CalmHost, Clean, NoRules
<1>5. HostOwned'
  BY <1>3, <1>4 DEF AllOwned, HostOwned, Calm, CalmHost
<1> QED
  BY <1>2, <1>5 DEF AllOwned

LEMMA StandingOwned ==
  ASSUME IInv, AllOwned, UNCHANGED <<files, calls, manifests, host>>
  PROVE  AllOwned'
<1>1. UNCHANGED files /\ UNCHANGED calls /\ lease' = lease /\ journal' = journal /\ manifest' = manifest
      /\ seized' = seized /\ staged' = staged
  BY DEF manifests, host
<1>2. Calm
  BY <1>1, CalmFilesFacts DEF Calm, CalmHost, NoManifest
<1> QED
  BY <1>1, <1>2, CalmAllOwned DEF IInv, Framework

LEMMA UserMakesManifestOwned ==
  ASSUME IInv, AllOwned, UserMakesManifest
  PROVE  AllOwned'
<1>1. UNCHANGED files /\ UNCHANGED calls /\ lease' = lease /\ journal' = journal /\ seized' = seized
      /\ manifest' \in {"edited", "user"} /\ (staged' = "none" <=> staged = "none")
  BY DEF UserMakesManifest, host
<1>2. Calm
  BY <1>1, CalmFilesFacts DEF Calm, CalmHost, NoManifest
<1> QED
  BY <1>1, <1>2, CalmAllOwned DEF IInv, Framework

\* The blocks of every file that has a name stay as they are.
LEMMA CalmWrites ==
  ASSUME FileTypes, dirs' = dirs, \A n \in Names \ {Public} : names'[n] = names[n],
         \A n \in Names \ {Public} : names[n] # 0 => text'[names[n]].blocks = text[names[n]].blocks,
         PublicBlocks' = PublicBlocks
  PROVE  CalmFiles
<1>1. /\ \A l \in Levels : Temp(l) \in Names \ {Public}
      /\ NonTemps \subseteq Names
  <2>1. \A l \in Levels : Temp(l) \in Names /\ Temp(l) # Public
    BY NameFacts, NonTempNames
  <2> QED
    BY <2>1 DEF NonTemps
<1>2. \A l \in Levels : Dir(l)' = Dir(l) /\ Tmp(l)' = Tmp(l)
  BY <1>1 DEF Dir, Tmp
<1>3. \A l \in Levels : Tmp(l) # 0 => text'[Tmp(l)].blocks = text[Tmp(l)].blocks
  BY <1>1 DEF Tmp
<1>4. AllTidy => AllTidy'
  BY <1>2 DEF AllTidy, Tidy
<1>5. ASSUME Blockless
      PROVE  Blockless'
  <2> SUFFICES ASSUME NEW n \in NonTemps, names'[n] # 0
               PROVE  text'[names'[n]].blocks = 0
    BY DEF Blockless
  <2>1. CASE n = Public
    <3>1. PublicBlocks = 0
      BY <1>5, NonTempNames DEF Blockless, PublicBlocks
    <3> QED
      BY <2>1, <3>1 DEF PublicBlocks
  <2>2. CASE n # Public
    BY <1>1, <1>5, <2>2 DEF Blockless
  <2> QED
    BY <2>1, <2>2
<1> QED
  BY <1>2, <1>3, <1>4, <1>5 DEF CalmFiles

LEMMA UserAppendsOwned ==
  ASSUME IInv, AllOwned, fds \subseteq Inodes, UserAppends
  PROVE  AllOwned'
<1>1. PICK i \in fds, line \in Lines :
        /\ text' = [text EXCEPT ![i].lines = @ \cup {line}]
        /\ UNCHANGED <<names, dirs, calls, manifests, host>>
  BY DEF UserAppends
<1>2. FileTypes /\ i \in Inodes /\ names' = names /\ dirs' = dirs /\ CallsOK
  BY <1>1 DEF IInv, Framework, FilesOK, Placed
<1>3. \A j \in Inodes : text'[j].blocks = text[j].blocks
  <2>1. text[i] \in Texts /\ text \in [Inodes -> Texts]
    BY <1>2 DEF FileTypes
  <2> QED
    BY <1>1, <1>2, <2>1 DEF Texts
<1>4. \A n \in Names : names[n] # 0 => names[n] \in Inodes
  BY <1>2 DEF FileTypes
<1>5. PublicBlocks' = PublicBlocks
  BY <1>2, <1>3, <1>4, NameFacts DEF PublicBlocks
<1>6. CalmFiles
  BY <1>2, <1>3, <1>4, <1>5, CalmWrites
<1>7. UNCHANGED calls /\ lease' = lease /\ journal' = journal /\ manifest' = manifest
      /\ seized' = seized /\ staged' = staged
  BY <1>1 DEF manifests, host
<1>8. Calm
  BY <1>6, <1>7 DEF Calm, CalmHost, NoManifest
<1> QED
  BY <1>2, <1>7, <1>8, CalmAllOwned

LEMMA UserSavesOwned ==
  ASSUME IInv, AllOwned, UserSaves
  PROVE  AllOwned'
<1>1. PICK line \in Lines :
        /\ NewFile(Public, IF names[Public] = 0 THEN [lines |-> {line}, blocks |-> 0]
                           ELSE [text[names[Public]] EXCEPT !.lines = @ \cup {line}])
        /\ Fresh # {}
        /\ UNCHANGED <<calls, manifests, host>>
  BY DEF UserSaves
<1>2. FileTypes /\ Public \in Names /\ CallsOK
  BY NameFacts DEF IInv, Framework, FilesOK, Placed
<1>3. PICK t : t = IF names[Public] = 0 THEN [lines |-> {line}, blocks |-> 0]
                   ELSE [text[names[Public]] EXCEPT !.lines = @ \cup {line}]
  OBVIOUS
<1>4. t \in Texts /\ t.blocks = PublicBlocks
  <2>1. CASE names[Public] = 0
    BY <1>3, <2>1 DEF Texts, PublicBlocks
  <2>2. CASE names[Public] # 0
    <3>1. text[names[Public]] \in Texts
      BY <1>2, <2>2 DEF FileTypes
    <3> QED
      BY <1>3, <2>2, <3>1 DEF Texts, PublicBlocks
  <2> QED
    BY <2>1, <2>2
<1>5. /\ FileTypes' /\ dirs' = dirs /\ names'[Public] # 0 /\ text'[names'[Public]] = t
      /\ \A m \in Names : names[m] # names'[Public] /\ (m # Public => names'[m] = names[m])
      /\ \A m \in Names : names[m] # 0 => text'[names[m]] = text[names[m]]
  BY <1>1, <1>2, <1>3, <1>4, FreshFile
<1>6. PublicBlocks' = PublicBlocks
  BY <1>4, <1>5 DEF PublicBlocks
<1>7. CalmFiles
  BY <1>2, <1>5, <1>6, CalmWrites
<1>8. UNCHANGED calls /\ lease' = lease /\ journal' = journal /\ manifest' = manifest
      /\ seized' = seized /\ staged' = staged
  BY <1>1 DEF manifests, host
<1>9. Calm
  BY <1>7, <1>8 DEF Calm, CalmHost, NoManifest
<1> QED
  BY <1>2, <1>8, <1>9, CalmAllOwned

-----------------------------------------------------------------------------
(* Launches, the holders of a lease, the timer and crashes                   *)

LEMMA BegunOwned ==
  ASSUME CallsOK, NEW p \in Procs, NEW g, stack' = [stack EXCEPT ![p] = <<g>>], FrameOwned(g)', \A s : TopOwned(g, s)'
  PROVE  /\ Owned(p)' /\ F(p)' = g /\ stack'[p] # <<>>
         /\ \A q \in Procs : q # p => stack'[q] = stack[q]
<1>1. stack'[p] = <<g>> /\ \A q \in Procs : q # p => stack'[q] = stack[q]
  BY DEF CallsOK, CallTypes
<1>2. Len(stack'[p]) = 1 /\ stack'[p][1] = g /\ F(p)' = g /\ stack'[p] # <<>>
  BY <1>1 DEF F
<1>8. PICK n : n = Len(stack'[p]) /\ n = 1
  BY <1>2
<1>9. (\A k \in 1..n : k = 1) /\ (\A k \in 1..(n - 1) : FALSE)
  BY <1>8
<1>3. \A k \in 1..Len(stack'[p]) : FrameOwned(stack[p][k])'
  BY <1>2, <1>8, <1>9
<1>4. \A k \in 1..(Len(stack'[p]) - 1) : LinkOwned(stack[p][k + 1], stack[p][k])'
  BY <1>8, <1>9
<1>5. PICK s : s = R(p)'
  OBVIOUS
<1>6. TopOwned(F(p), R(p))'
  BY <1>2, <1>5
<1>7. Owned(p)'
  BY <1>3, <1>4, <1>6 DEF Owned
<1> QED
  BY <1>1, <1>2, <1>7

\* The release of a lease begins, or nothing does.
LEMMA LeaseOwned ==
  ASSUME IInv, AllOwned, stack["launch"] = <<>>, UNCHANGED <<files, manifests, journal>>,
         lease.live, lease'.live, lease'.written = lease.written, lease'.added = lease.added,
         Begin("launch", Frame("release", "lease", 0)) \/ UNCHANGED calls
  PROVE  AllOwned'
<1>0. CallsOK /\ HostOwned /\ "launch" \in Procs /\ "reconcile" \in Procs
  BY TwoProcs DEF IInv, Framework, AllOwned
<1>1. stack["reconcile"] = <<>>
  BY DEF IInv, HostOK, Exclusive
<1>2. journal' = journal /\ manifest' = manifest /\ seized' = seized /\ staged' = staged /\ UNCHANGED files
  BY DEF manifests
<1>3. NoManifest' <=> NoManifest
  BY <1>2 DEF NoManifest
<1>4. ~Released /\ ~At("launch", "launch", "identify")
  BY DEF Released, At
<1>5. journal.held
  BY DEF IInv, HostOK, Exclusive
<1>6. HostOwned'
  BY <1>0, <1>2, <1>3, <1>4, <1>5 DEF HostOwned
<1>7. CASE Begin("launch", Frame("release", "lease", 0))
  <2>1. PICK g : g = Frame("release", "lease", 0)
    OBVIOUS
  <2>2. g.fn = "release" /\ g.at = "lease" /\ stack' = [stack EXCEPT !["launch"] = <<g>>]
    BY <1>7, <2>1 DEF Begin, Frame
  <2>3. FrameOwned(g)' /\ \A s : TopOwned(g, s)'
    BY <2>2 DEF FrameOwned, FileFrame, CallFrame, LaunchFrame, TopOwned, LeaseDone
  <2>4. Owned("launch")' /\ stack'["reconcile"] = <<>>
    BY <1>0, <1>1, <2>2, <2>3, BegunOwned
  <2> QED
    BY <1>0, <1>6, <2>4, RestOwned, CallsAllOwned
<1>8. CASE UNCHANGED calls
  <2>1. stack'["launch"] = <<>> /\ stack'["reconcile"] = <<>>
    BY <1>1, <1>8 DEF calls
  <2> QED
    BY <1>0, <1>6, <2>1, RestOwned, CallsAllOwned
<1> QED
  BY <1>7, <1>8

LEMMA LeaseParts ==
  ASSUME HostTypes
  PROVE  /\ lease' = [lease EXCEPT !.count = @ - 1] => lease'.live = lease.live /\ lease'.written = lease.written /\ lease'.added = lease.added
         /\ lease' = [lease EXCEPT !.retry = FALSE] => lease'.live = lease.live /\ lease'.written = lease.written /\ lease'.added = lease.added
<1>1. CASE lease' = [lease EXCEPT !.count = @ - 1]
  BY <1>1 DEF HostTypes
<1>2. CASE lease' = [lease EXCEPT !.retry = FALSE]
  BY <1>2 DEF HostTypes
<1> QED
  BY <1>1, <1>2

LEMMA HolderLeavesOwned ==
  ASSUME IInv, AllOwned, HolderLeaves
  PROVE  AllOwned'
<1>1. /\ stack["launch"] = <<>> /\ lease.count > 0 /\ lease' = [lease EXCEPT !.count = @ - 1]
      /\ UNCHANGED <<files, manifests, journal>>
      /\ Begin("launch", Frame("release", "lease", 0)) \/ UNCHANGED calls
  BY DEF HolderLeaves, Rests
<1>2. HostTypes /\ lease.live
  BY <1>1 DEF IInv, HostOK, Exclusive
<1> QED
  BY <1>1, <1>2, LeaseParts, LeaseOwned

LEMMA LeaseRetriesOwned ==
  ASSUME IInv, AllOwned, LeaseRetries
  PROVE  AllOwned'
<1>1. /\ stack["launch"] = <<>> /\ lease.retry /\ lease' = [lease EXCEPT !.retry = FALSE]
      /\ UNCHANGED <<files, manifests, journal>> /\ Begin("launch", Frame("release", "lease", 0))
  BY DEF LeaseRetries, Rests
<1>2. HostTypes /\ lease.live
  BY <1>1 DEF IInv, HostOK, Exclusive
<1> QED
  BY <1>1, <1>2, LeaseParts, LeaseOwned

LEMMA LaunchOwned ==
  ASSUME IInv, AllOwned, Launch
  PROVE  AllOwned'
<1>0. CallsOK /\ HostOwned /\ HostTypes /\ "launch" \in Procs /\ "reconcile" \in Procs /\ Owned("reconcile")
  BY TwoProcs DEF IInv, Framework, HostOK, AllOwned
<1>1. stack["launch"] = <<>> /\ UNCHANGED <<files, manifests, journal>>
  BY DEF Launch, Rests
<1>2. CASE lease.live /\ lease.count = 0
  <2>1. Begin("launch", Frame("release", "lease", 0)) /\ lease' = [lease EXCEPT !.retry = FALSE]
    BY <1>2 DEF Launch
  <2> QED
    BY <1>0, <1>1, <1>2, <2>1, LeaseParts, LeaseOwned
<1>3. CASE ~(lease.live /\ lease.count = 0)
  <2>1. Begin("launch", Frame("launch", "start", 0)) /\ lease' = lease
    BY <1>3 DEF Launch
  <2>2. PICK g : g = Frame("launch", "start", 0)
    OBVIOUS
  <2>3. g.fn = "launch" /\ g.at = "start" /\ g.other = 0 /\ stack' = [stack EXCEPT !["launch"] = <<g>>] /\ res' = res
    BY <2>1, <2>2 DEF Begin, Frame
  <2>4. FrameOwned(g)' /\ \A s : TopOwned(g, s)'
    BY <2>3 DEF FrameOwned, FileFrame, CallFrame, LaunchFrame, TopOwned
  <2>5. Owned("launch")' /\ F("launch")' = g /\ stack'["launch"] # <<>> /\ stack'["reconcile"] = stack["reconcile"]
    BY <1>0, <2>3, <2>4, BegunOwned
  <2>6. journal' = journal /\ manifest' = manifest /\ seized' = seized /\ staged' = staged /\ UNCHANGED files
    BY <1>1 DEF manifests
  <2>7. Calm
    BY <2>1, <2>6, CalmFilesFacts DEF Calm, CalmHost, NoManifest
  <2>8. Owned("reconcile")'
    BY <1>0, <2>3, <2>5, <2>7, CalmOwned
  <2>9. ~Released /\ ~At("launch", "launch", "identify") /\ ~Busy("launch") /\ ~Busy("launch")'
    BY <1>1, <2>3, <2>5 DEF Released, At, Busy, F
  <2>10. (NoManifest' <=> NoManifest) /\ (Clean => Clean')
    BY <2>6, QuietBlocks DEF NoManifest, Clean, NoRules
  <2>11. HostOwned'
    BY <1>0, <2>1, <2>6, <2>9, <2>10 DEF HostOwned
  <2> QED
    BY <2>5, <2>8, <2>11, CallsAllOwned
<1> QED
  BY <1>2, <1>3

LEMMA ReconcilesOwned == \A g : g = Frame("reconcile", "start", 0) => FrameOwned(g)' /\ \A s : TopOwned(g, s)'
<1> SUFFICES ASSUME NEW g, g = Frame("reconcile", "start", 0)
             PROVE  FrameOwned(g)' /\ \A s : TopOwned(g, s)'
  OBVIOUS
<1>1. g.fn = "reconcile" /\ g.at = "start"
  BY DEF Frame
<1> QED
  BY <1>1 DEF FrameOwned, FileFrame, CallFrame, LaunchFrame, TopOwned

LEMMA OtherFailsOwned ==
  ASSUME IInv, AllOwned, OtherFails
  PROVE  AllOwned'
<1>1. UNCHANGED files /\ UNCHANGED calls /\ lease' = lease /\ journal' = journal /\ manifest' = manifest
      /\ seized' = seized /\ staged' = staged
  BY DEF OtherFails, manifests
<1>2. Calm
  BY <1>1, CalmFilesFacts DEF Calm, CalmHost, NoManifest
<1> QED
  BY <1>1, <1>2, CalmAllOwned DEF IInv, Framework

\* It has not fired beside a lease, or a launch that is under way.
LEMMA TimerFiresOwned ==
  ASSUME IInv, AllOwned, TimerFires, ~lease.live, ~Busy("launch")
  PROVE  AllOwned'
<1>0. CallsOK /\ HostOwned /\ "launch" \in Procs /\ "reconcile" \in Procs /\ Owned("launch")
  BY TwoProcs DEF IInv, Framework, HostOK, AllOwned
<1>1. UNCHANGED <<files, manifests, journal>> /\ lease' = lease /\ Begin("reconcile", Frame("reconcile", "start", 0))
  BY DEF TimerFires
<1>2. ~lease'.live /\ ~lease'.written
  BY <1>0, <1>1 DEF HostOwned
<1>3. HostOwned'
  BY <1>0, <1>1, <1>2, LeaselessHost
<1>4. PICK g : g = Frame("reconcile", "start", 0)
  OBVIOUS
<1>5. stack' = [stack EXCEPT !["reconcile"] = <<g>>]
  BY <1>1, <1>4 DEF Begin
<1>6. FrameOwned(g)' /\ \A s : TopOwned(g, s)'
  BY <1>4, ReconcilesOwned
<1>7. Owned("reconcile")' /\ stack'["launch"] = stack["launch"]
  BY <1>0, <1>5, <1>6, BegunOwned
<1>8. Owned("launch")'
  BY <1>0, <1>7, IdleOwned
<1> QED
  BY <1>3, <1>7, <1>8, CallsAllOwned

LEMMA CrashOwned ==
  ASSUME IInv, AllOwned, Crash
  PROVE  AllOwned'
<1>0. HostOwned /\ "launch" \in Procs /\ "reconcile" \in Procs
  BY TwoProcs DEF AllOwned
<1>1. UNCHANGED <<files, manifests, journal>> /\ lease' = NoLease
  BY DEF Crash
<1>2. HostOwned'
  BY <1>0, <1>1, LeaselessHost DEF NoLease
<1>3. PICK g : g = Frame("reconcile", "start", 0)
  OBVIOUS
<1>4. stack'["launch"] = <<>> /\ stack'["reconcile"] = <<g>>
  BY <1>0, <1>3 DEF Crash
<1>5. FrameOwned(g)' /\ \A s : TopOwned(g, s)'
  BY <1>3, ReconcilesOwned
<1>6. PICK s : s = R("reconcile")'
  OBVIOUS
<1>7. Owned("reconcile")'
  <2>1. Len(stack'["reconcile"]) = 1 /\ stack'["reconcile"][1] = g /\ F("reconcile")' = g
    BY <1>4 DEF F
  <2>2. \A k \in 1..Len(stack'["reconcile"]) : k = 1
    BY <2>1
  <2>3. \A k \in 1..(Len(stack'["reconcile"]) - 1) : FALSE
    BY <2>1
  <2>4. \A k \in 1..Len(stack'["reconcile"]) : FrameOwned(stack["reconcile"][k])'
    BY <1>5, <2>1, <2>2
  <2>5. \A k \in 1..(Len(stack'["reconcile"]) - 1) : LinkOwned(stack["reconcile"][k + 1], stack["reconcile"][k])'
    BY <2>3
  <2>6. TopOwned(F("reconcile"), R("reconcile"))'
    BY <1>5, <1>6, <2>1
  <2> QED
    BY <2>4, <2>5, <2>6 DEF Owned
<1>8. Owned("launch")'
  BY <1>0, <1>4, RestOwned
<1> QED
  BY <1>2, <1>7, <1>8, CallsAllOwned

LEMMA InitOwned ==
  ASSUME Init
  PROVE  AllOwned
<1>1. /\ manifest = "none" /\ staged = "none" /\ seized = "none" /\ journal = NoJournal /\ lease = NoLease
      /\ stack = [p \in Procs |-> <<>>]
  BY DEF Init
<1>3. \A p \in Procs : stack[p] = <<>> /\ Owned(p)
  <2> SUFFICES ASSUME NEW p \in Procs
               PROVE  stack[p] = <<>> /\ Owned(p)
    OBVIOUS
  <2>1. stack[p] = <<>> /\ Len(stack[p]) = 0
    BY <1>1
  <2>2. (\A k \in 1..Len(stack[p]) : FALSE) /\ (\A k \in 1..(Len(stack[p]) - 1) : FALSE)
    BY <2>1
  <2> QED
    BY <2>1, <2>2 DEF Owned
<1>4. PICK lines \in {{}} \cup {{line} : line \in Lines} :
        /\ names = [n \in Names |-> IF n = Public /\ lines # {} THEN 1 ELSE 0]
        /\ text = [i \in Inodes |-> IF i = 1 THEN [lines |-> lines, blocks |-> 0] ELSE Empty]
  BY DEF Init
<1>5. 1 \in Inodes /\ Public \in Names
  BY ProjectFileAssumption, NameFacts DEF Inodes
<1>6. PublicBlocks = 0
  BY <1>4, <1>5 DEF PublicBlocks
<1>7. AllTidy
  BY <1>4, NameFacts DEF Init, Dir, Tmp, AllTidy, Tidy
<1>8. Clean
  BY <1>1, <1>6, <1>7 DEF Clean, NoRules, NoManifest
<1>9. HostOwned
  BY <1>1, <1>8 DEF HostOwned, NoLease, NoJournal
<1> QED
  BY <1>3, <1>9 DEF AllOwned

-----------------------------------------------------------------------------
(* What is left of a preparation is left under a journal                     *)

LEMMA LaunchStepOwned ==
  ASSUME IInv, AllOwned, NEW p \in Procs,
         \/ LaunchRetains(p) \/ LaunchInspects(p) \/ LaunchExcluded(p) \/ LaunchStages(p)
         \/ LaunchPublishes(p) \/ LaunchIdentifies(p) \/ LaunchFinalizes(p) \/ LaunchChecks(p)
         \/ LaunchUndoes(p) \/ LaunchFails(p) \/ LaunchCleaned(p)
  PROVE  AllOwned'
BY LaunchRetainsOwned, LaunchInspectsOwned, LaunchExcludedOwned, LaunchStagesOwned, LaunchPublishesOwned,
   LaunchIdentifiesOwned, LaunchFinalizesOwned, LaunchChecksOwned, LaunchUndoesOwned, LaunchFailsOwned,
   LaunchCleanedOwned, Zenon

LEMMA CallerStepOwned ==
  ASSUME IInv, AllOwned, NEW p \in Procs,
         ReleasesLease(p) \/ LeaseReleased(p) \/ ReconcileStarts(p) \/ ReconcileCleaned(p)
  PROVE  AllOwned'
BY ReleasesLeaseOwned, LeaseReleasedOwned, ReconcileStartsOwned, ReconcileCleanedOwned, Zenon

LEMMA StepOwned ==
  ASSUME IInv, Wrote, AllOwned, NEW p \in Procs, Step(p)
  PROVE  AllOwned'
<1>1. UNCHANGED user
  BY DEF Step
<1>2. \/ FileStep(p) /\ UNCHANGED <<manifests, host>>
      \/ WithinStep(p)
      \/ (\/ LaunchRetains(p) \/ LaunchInspects(p) \/ LaunchExcluded(p) \/ LaunchStages(p)
          \/ LaunchPublishes(p) \/ LaunchIdentifies(p) \/ LaunchFinalizes(p) \/ LaunchChecks(p)
          \/ LaunchUndoes(p) \/ LaunchFails(p) \/ LaunchCleaned(p))
      \/ (ReleasesLease(p) \/ LeaseReleased(p) \/ ReconcileStarts(p) \/ ReconcileCleaned(p))
  BY Zenon DEF Step, WithinStep
<1>3. CASE FileStep(p) /\ UNCHANGED <<manifests, host>>
  <2>1. UNCHANGED <<manifests, host, user>>
    BY <1>1, <1>3
  <2> QED
    BY <1>3, <2>1, FileStepOwned
<1>4. CASE WithinStep(p)
  BY <1>1, <1>4, WithinStepOwned
<1> QED
  BY <1>2, <1>3, <1>4, LaunchStepOwned, CallerStepOwned, Zenon

Owns == Kempt /\ (Undisturbed => AllOwned)

LEMMA NextOwns ==
  ASSUME Owns, [Next]_vars
  PROVE  Owns'
<1>1. Kempt' /\ Onward
  BY NextHolds, NextOnward DEF Owns, Kempt
<1> SUFFICES ASSUME Undisturbed'
             PROVE  AllOwned'
  BY <1>1 DEF Owns
<1>2. IInv /\ AllOwned /\ CountsOK /\ fds \subseteq Inodes /\ Wrote
  BY <1>1 DEF Owns, Kempt, Onward, Undisturbed
<1>3. CASE \E p \in Procs : Step(p)
  BY <1>2, <1>3, StepOwned
<1>4. CASE Launch \/ HolderLeaves \/ LeaseRetries \/ OtherFails \/ Crash
  BY <1>2, <1>4, LaunchOwned, HolderLeavesOwned, LeaseRetriesOwned, OtherFailsOwned, CrashOwned
<1>5. CASE TimerFires
  <2>1. counts' = [counts EXCEPT !.beside = @ \/ lease.live \/ ~(Rests("launch") \/ At("launch", "launch", "start"))]
    BY <1>5 DEF TimerFires
  <2>2. ~lease.live /\ (Rests("launch") \/ At("launch", "launch", "start"))
    BY <1>2, <2>1 DEF Undisturbed, CountsOK
  <2>3. ~Busy("launch")
    BY <2>2 DEF Rests, At, Busy
  <2> QED
    BY <1>2, <1>5, <2>2, <2>3, TimerFiresOwned
<1>6. CASE UserOpens \/ UNCHANGED vars
  <2>1. UNCHANGED <<files, calls, manifests, host>>
    BY <1>6 DEF UserOpens, vars
  <2> QED
    BY <1>2, <2>1, StandingOwned
<1>7. CASE UserAppends \/ UserSaves \/ UserMakesManifest
  BY <1>2, <1>7, UserAppendsOwned, UserSavesOwned, UserMakesManifestOwned
<1> QED
  BY <1>3, <1>4, <1>5, <1>6, <1>7 DEF Next

LEMMA WhatIsOwned ==
  ASSUME IInv, AllOwned
  PROVE  journal.held \/ Unprepared
<1> SUFFICES ASSUME ~journal.held
             PROVE  Unprepared
  OBVIOUS
<1>1. Clean
  BY DEF AllOwned, HostOwned
<1>2. \A n \in Names \ {Public} : names[n] = 0
  BY <1>1, TidyNames DEF Clean, NoRules, IInv, Framework
<1> QED
  BY <1>1, <1>2 DEF Unprepared, Clean, NoRules, NoManifest, PublicBlocks

\* What the Host left in a Project, files, exclude block or manifest, it left
\* under a preparation that is retained, where there was an exclude file at
\* first, and as long as no program writes to a generation the Host has captured
\* and the timer does not fire beside a launch (harness-runs/operations/launch.mjs,
\* production-provider-preparation.mjs).
THEOREM PreparationsAreOwned == Spec => [](~counts.bare => OwnedUntilClean)
<1>1. Init => Owns
  BY InitHolds, InitOwned DEF Owns, Kempt, Undisturbed
<1>2. Owns /\ [Next]_vars => Owns'
  BY NextOwns
<1>3. Owns => (~counts.bare => OwnedUntilClean)
  BY WhatIsOwned DEF Owns, Kempt, Undisturbed, OwnedUntilClean
<1> QED
  BY <1>1, <1>2, <1>3, PTL DEF Spec
=============================================================================

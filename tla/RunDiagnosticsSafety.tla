------------------------- MODULE RunDiagnosticsSafety -------------------------
(***************************************************************************)
(* What the log readers of a Harness run are shown, for every capacity,    *)
(* any producers, chunks and Host losses.                                  *)
(*                                                                         *)
(* DiagnosticsInv follows the bytes of each producer through the queue to  *)
(* its file and its published end.                                         *)
(***************************************************************************)
EXTENDS RunDiagnostics, TLAPS

Chunks == [producer : Producers, bytes : Seq(Nat)]

Shape ==
  /\ sent \in [Producers -> Nat]
  /\ queue \in Seq(Chunks)
  /\ file \in [Producers -> Seq(Nat)]
  /\ end \in Ranges
  /\ writing \in Chunks \cup {Idle}

\* The byte at a position of a file is the byte the producer wrote there.
Prefixes ==
  \A p \in Producers :
    /\ \A i \in 1..Len(file[p]) : file[p][i] = i
    /\ end[p] <= Len(file[p]) /\ Len(file[p]) <= Capacity

Pending(p) == IF writing.producer = p THEN Len(writing.bytes) ELSE 0

\* Until the Host is lost, a file is ahead of its published end by what is being
\* recorded and by nothing else.
Synced ==
  /\ Attached => \A p \in Producers : end[p] + Pending(p) = Len(file[p])
  /\ ~Attached => writing = Idle

\* The i-th chunk begins after at[i], and at[i + 1] is where it ends.
Follows(at, chunks, i) ==
  /\ at[i + 1] = [at[i] EXCEPT ![chunks[i].producer] = @ + Len(chunks[i].bytes)]
  /\ \A j \in 1..Len(chunks[i].bytes) : chunks[i].bytes[j] = at[i][chunks[i].producer] + j

\* at[i][p] bytes of p precede the i-th chunk of the queue: a chunk begins where the
\* one before it ended, the first where the file ends or was cut off.
Flowing(at) ==
  /\ at \in [1..(Len(queue) + 1) -> [Producers -> Nat]]
  /\ at[Len(queue) + 1] = sent
  /\ \A i \in 1..Len(queue) : Follows(at, queue, i)
  /\ \A p \in Producers :
       \/ Len(file[p]) = at[1][p]
       \/ Len(file[p]) = Capacity /\ at[1][p] >= Capacity

\* Chunks are appended until a state that cannot be read stops that for good.
Stopped == writing = Idle /\ ~Readable
Flow == Attached => Stopped \/ \E at : Flowing(at)

\* The ranges of an outcome were published, and nothing is quoted before it.
Quoted ==
  /\ refs # Unset => \A p \in Producers : refs[p] \in Nat /\ refs[p] <= end[p]
  /\ stage \in {"live", "settled"} => refs = Unset

DiagnosticsInv == Shape /\ Prefixes /\ Synced /\ Flow /\ Quoted

\* With no log at all the invariant holds.
LEMMA DiagnosticsStart == Init => DiagnosticsInv
<1> SUFFICES ASSUME Init PROVE DiagnosticsInv
  OBVIOUS
<1>1. Shape /\ Prefixes /\ Synced /\ Quoted
  BY DiagnosticsAssumption DEF Init, Shape, Prefixes, Synced, Pending, Quoted, Ranges, Idle, Chunks
<1>2. Flowing([i \in 1..1 |-> sent])
  BY DiagnosticsAssumption DEF Init, Flowing
<1> QED
  BY <1>1, <1>2 DEF DiagnosticsInv, Flow

\* A chunk that arrives is the last of the queue.
LEMMA DataKeeps ==
  ASSUME DiagnosticsInv, NEW p \in Producers, NEW n \in 1..MaxBytes, Data(p, n)
  PROVE  DiagnosticsInv'
<1> DEFINE c == [producer |-> p, bytes |-> [i \in 1..n |-> sent[p] + i]]
<1>1. /\ sent' = [sent EXCEPT ![p] = @ + n] /\ queue' = Append(queue, c)
      /\ UNCHANGED <<file, end, refs, audit, writing, stage>> /\ Attached
  BY DEF Data
<1>2. n \in Nat /\ sent[p] \in Nat /\ c \in Chunks /\ c.producer = p /\ Len(c.bytes) = n
  BY DiagnosticsAssumption DEF DiagnosticsInv, Shape, Chunks
<1>3. \A j \in 1..n : c.bytes[j] = sent[p] + j
  OBVIOUS
<1> HIDE DEF c
<1>4. Shape' /\ Prefixes' /\ Synced' /\ Quoted'
  BY <1>1, <1>2 DEF DiagnosticsInv, Shape, Prefixes, Synced, Pending, Quoted, Attached
<1>5. Stopped => Stopped'
  BY <1>1 DEF Stopped, Readable
<1>6. ASSUME NEW at, Flowing(at) PROVE \E next : Flowing(next)'
  <2>0. PICK next : next = [i \in 1..(Len(queue) + 2) |-> IF i = Len(queue) + 2 THEN sent' ELSE at[i]]
    OBVIOUS
  <2>1. /\ queue \in Seq(Chunks) /\ Len(queue) \in Nat /\ Len(queue') = Len(queue) + 1
        /\ \A i \in 1..Len(queue) : queue'[i] = queue[i]
        /\ queue'[Len(queue) + 1] = c
    BY <1>1, <1>2 DEF DiagnosticsInv, Shape
  <2>2. /\ next \in [1..(Len(queue) + 2) -> [Producers -> Nat]]
        /\ next[Len(queue) + 2] = sent' /\ \A i \in 1..(Len(queue) + 1) : next[i] = at[i]
    BY <1>1, <1>2, <1>6, <2>0, <2>1 DEF Flowing, DiagnosticsInv, Shape
  <2>3. ASSUME NEW i \in 1..Len(queue')
        PROVE  Follows(next, queue', i)
    <3>1. CASE i \in 1..Len(queue)
      <4>1. i + 1 \in 1..(Len(queue) + 1) /\ i \in 1..(Len(queue) + 1)
        BY <2>1, <3>1
      <4>2. next[i] = at[i] /\ next[i + 1] = at[i + 1] /\ queue'[i] = queue[i]
        BY <2>1, <2>2, <3>1, <4>1
      <4> QED
        BY <1>6, <3>1, <4>2 DEF Flowing, Follows
    <3>2. CASE i = Len(queue) + 1
      <4>1. next[i] = sent /\ next[i + 1] = sent' /\ queue'[i] = c
        BY <1>6, <2>1, <2>2, <3>2 DEF Flowing
      <4> QED
        BY <1>1, <1>2, <1>3, <4>1 DEF Follows
    <3>3. i \in 1..Len(queue) \/ i = Len(queue) + 1
      BY <2>1
    <3> QED
      BY <3>1, <3>2, <3>3, Zenon
  <2>4. next[1] = at[1] /\ next[Len(queue') + 1] = sent' /\ file' = file
    BY <1>1, <2>1, <2>2
  <2>5. next \in [1..(Len(queue') + 1) -> [Producers -> Nat]]
    <3>1. Len(queue') + 1 = Len(queue) + 2
      BY <2>1
    <3> QED
      BY <2>2, <3>1
  <2>6. Flowing(next)'
    BY <1>6, <2>3, <2>4, <2>5 DEF Flowing
  <2> QED
    BY <2>6
<1> QED
  BY <1>1, <1>4, <1>5, <1>6 DEF DiagnosticsInv, Flow, Attached

\* The beginning of a sequence.
LEMMA Beginning ==
  ASSUME NEW s \in Seq(Nat), NEW n \in Nat, n <= Len(s)
  PROVE  /\ SubSeq(s, 1, n) \in Seq(Nat) /\ Len(SubSeq(s, 1, n)) = n
         /\ \A i \in 1..n : SubSeq(s, 1, n)[i] = s[i]
OBVIOUS

\* One sequence after another.
LEMMA Joined ==
  ASSUME NEW s \in Seq(Nat), NEW t \in Seq(Nat)
  PROVE  /\ s \o t \in Seq(Nat) /\ Len(s \o t) = Len(s) + Len(t)
         /\ \A i \in 1..(Len(s) + Len(t)) : (s \o t)[i] = IF i <= Len(s) THEN s[i] ELSE t[i - Len(s)]
OBVIOUS

\* What appending the next chunk does to the files.
LEMMA AppendFile ==
  ASSUME DiagnosticsInv, AppendBytes, NEW at, Flowing(at)
  PROVE  /\ file' \in [Producers -> Seq(Nat)] /\ writing' \in Chunks
         /\ \A p \in Producers :
              /\ \A i \in 1..Len(file'[p]) : file'[p][i] = i
              /\ Len(file'[p]) = end[p] + (IF writing'.producer = p THEN Len(writing'.bytes) ELSE 0)
              /\ Len(file'[p]) <= Capacity
              /\ \/ Len(file'[p]) = at[2][p]
                 \/ Len(file'[p]) = Capacity /\ at[2][p] >= Capacity
<1> DEFINE c == Head(queue)
           q == c.producer
<1>1. queue \in Seq(Chunks) /\ queue # <<>> /\ Len(queue) \in Nat \ {0} /\ c = queue[1]
  BY DEF AppendBytes, DiagnosticsInv, Shape
<1>2. c \in Chunks /\ q \in Producers /\ c.bytes \in Seq(Nat)
  <2>1. queue[1] \in Chunks
    BY <1>1
  <2> QED
    BY <1>1, <2>1 DEF Chunks
<1>3. /\ file \in [Producers -> Seq(Nat)] /\ end \in [Producers -> 0..Capacity]
      /\ \A p \in Producers : Len(file[p]) = end[p] /\ \A i \in 1..Len(file[p]) : file[p][i] = i
  BY DiagnosticsAssumption DEF AppendBytes, DiagnosticsInv, Shape, Ranges, Synced, Pending, Idle, Prefixes
<1>4. /\ at[1] \in [Producers -> Nat] /\ at[2] = [at[1] EXCEPT ![q] = @ + Len(c.bytes)]
      /\ \A j \in 1..Len(c.bytes) : c.bytes[j] = at[1][q] + j
      /\ \A p \in Producers : Len(file[p]) = at[1][p] \/ (Len(file[p]) = Capacity /\ at[1][p] >= Capacity)
  <2>1. 1 \in 1..Len(queue) /\ 1 \in 1..(Len(queue) + 1)
    BY <1>1
  <2>2. Follows(at, queue, 1) /\ at[1] \in [Producers -> Nat]
    BY <2>1 DEF Flowing
  <2>3. c = queue[1] /\ 1 + 1 = 2
    BY <1>1
  <2> HIDE DEF c
  <2>4. /\ at[2] = [at[1] EXCEPT ![q] = @ + Len(c.bytes)]
        /\ \A j \in 1..Len(c.bytes) : c.bytes[j] = at[1][q] + j
    BY <2>2, <2>3 DEF Follows
  <2>5. \A p \in Producers : Len(file[p]) = at[1][p] \/ (Len(file[p]) = Capacity /\ at[1][p] >= Capacity)
    BY DEF Flowing
  <2> QED
    BY <2>2, <2>4, <2>5
<1>5. PICK n \in Nat :
        /\ n <= Len(c.bytes) /\ n <= Capacity - end[q]
        /\ n = Len(c.bytes) \/ n = Capacity - end[q]
        /\ n = IF Len(c.bytes) < Capacity - end[q] THEN Len(c.bytes) ELSE Capacity - end[q]
  <2>1. Len(c.bytes) \in Nat /\ end[q] \in 0..Capacity
    BY <1>2, <1>3
  <2> QED
    BY <2>1, DiagnosticsAssumption
<1>6. PICK bounded \in Seq(Nat) :
        /\ bounded = SubSeq(c.bytes, 1, n)
        /\ Len(bounded) = n /\ \A j \in 1..n : bounded[j] = c.bytes[j]
  BY <1>2, <1>5, Beginning
<1>7. /\ file' = [file EXCEPT ![q] = @ \o bounded]
      /\ writing' = [producer |-> q, bytes |-> bounded]
  BY <1>5, <1>6 DEF AppendBytes, NextChunk, Bounded
<1> HIDE DEF q, c
<1>8. /\ file' \in [Producers -> Seq(Nat)] /\ writing' \in Chunks
      /\ file'[q] = file[q] \o bounded
      /\ \A p \in Producers : p # q => file'[p] = file[p]
  BY <1>2, <1>3, <1>6, <1>7 DEF Chunks
<1>9. ASSUME NEW p \in Producers, p # q
      PROVE  /\ \A i \in 1..Len(file'[p]) : file'[p][i] = i
             /\ Len(file'[p]) = end[p] + (IF writing'.producer = p THEN Len(writing'.bytes) ELSE 0)
             /\ Len(file'[p]) <= Capacity
             /\ \/ Len(file'[p]) = at[2][p]
                \/ Len(file'[p]) = Capacity /\ at[2][p] >= Capacity
  <2>1. file'[p] = file[p] /\ at[2][p] = at[1][p] /\ writing'.producer = q /\ end[p] \in 0..Capacity
    BY <1>2, <1>3, <1>4, <1>7, <1>8, <1>9
  <2> QED
    BY <1>3, <1>4, <1>9, <2>1, DiagnosticsAssumption
<1>10. /\ \A i \in 1..Len(file'[q]) : file'[q][i] = i
       /\ Len(file'[q]) = end[q] + Len(bounded)
       /\ Len(file'[q]) <= Capacity
       /\ \/ Len(file'[q]) = at[2][q]
          \/ Len(file'[q]) = Capacity /\ at[2][q] >= Capacity
  <2> DEFINE old == file[q]
  <2>1. /\ old \in Seq(Nat) /\ Len(old) = end[q] /\ end[q] \in 0..Capacity
        /\ \A i \in 1..Len(old) : old[i] = i
    BY <1>2, <1>3
  <2>2. /\ Len(old \o bounded) = Len(old) + n
        /\ \A i \in 1..(Len(old) + n) :
             (old \o bounded)[i] = IF i <= Len(old) THEN old[i] ELSE bounded[i - Len(old)]
    <3> HIDE DEF old
    <3>1. /\ Len(old \o bounded) = Len(old) + Len(bounded)
          /\ \A i \in 1..(Len(old) + Len(bounded)) :
               (old \o bounded)[i] = IF i <= Len(old) THEN old[i] ELSE bounded[i - Len(old)]
      BY <1>6, <2>1, Joined
    <3> QED
      BY <1>6, <3>1
  <2>3. at[2][q] = at[1][q] + Len(c.bytes) /\ at[1][q] \in Nat /\ Len(c.bytes) \in Nat
    BY <1>2, <1>4
  <2>4. Len(old) = at[1][q] \/ (Len(old) = Capacity /\ at[1][q] >= Capacity)
    BY <1>2, <1>4
  <2>5. \A j \in 1..n : bounded[j] = at[1][q] + j
    BY <1>2, <1>4, <1>5, <1>6
  <2> HIDE DEF old
  <2>6. n > 0 => Len(old) = at[1][q]
    BY <1>5, <2>1, <2>3, <2>4, DiagnosticsAssumption
  <2>7. ASSUME NEW i \in 1..(Len(old) + n) PROVE (old \o bounded)[i] = i
    <3>1. CASE i \in 1..Len(old)
      BY <2>1, <2>2, <3>1
    <3>2. CASE i \notin 1..Len(old)
      <4>1. i - Len(old) \in 1..n /\ n > 0
        BY <2>1, <3>2
      <4>2. (old \o bounded)[i] = bounded[i - Len(old)]
        BY <2>1, <2>2, <3>2
      <4>3. bounded[i - Len(old)] = Len(old) + (i - Len(old))
        BY <2>5, <2>6, <4>1
      <4> QED
        BY <2>1, <4>2, <4>3
    <3> QED
      BY <3>1, <3>2
  <2>8. \/ Len(old) + n = at[2][q]
        \/ Len(old) + n = Capacity /\ at[2][q] >= Capacity
    BY <1>5, <2>1, <2>3, <2>4, DiagnosticsAssumption
  <2>9. file'[q] = old \o bounded
    BY <1>8 DEF old
  <2>10. Len(file'[q]) = Len(old) + n /\ Len(bounded) = n
    BY <1>6, <2>2, <2>9
  <2>11. \A i \in 1..Len(file'[q]) : file'[q][i] = i
    BY <2>7, <2>9, <2>10
  <2>12. Len(old) + n <= Capacity /\ Len(old) = end[q]
    BY <1>5, <2>1, DiagnosticsAssumption
  <2> QED
    BY <2>8, <2>10, <2>11, <2>12
<1>11. writing'.producer = q /\ writing'.bytes = bounded
  BY <1>7
<1> QED
  BY <1>8, <1>9, <1>10, <1>11

\* The next chunk leaves the queue for its file.
LEMMA AppendKeeps ==
  ASSUME DiagnosticsInv, AppendBytes
  PROVE  DiagnosticsInv'
<1>1. /\ queue' = Tail(queue) /\ queue # <<>> /\ Attached /\ writing = Idle
      /\ UNCHANGED <<sent, end, refs, stage>>
  BY DEF AppendBytes
<1>2. PICK at : Flowing(at)
  BY <1>1 DEF AppendBytes, ReadState, DiagnosticsInv, Flow, Stopped
<1>3. /\ file' \in [Producers -> Seq(Nat)] /\ writing' \in Chunks
      /\ \A p \in Producers :
           /\ \A i \in 1..Len(file'[p]) : file'[p][i] = i
           /\ Len(file'[p]) = end[p] + (IF writing'.producer = p THEN Len(writing'.bytes) ELSE 0)
           /\ Len(file'[p]) <= Capacity
           /\ \/ Len(file'[p]) = at[2][p]
              \/ Len(file'[p]) = Capacity /\ at[2][p] >= Capacity
  BY <1>2, AppendFile
<1>4. /\ queue \in Seq(Chunks) /\ Len(queue) \in Nat \ {0}
      /\ queue' \in Seq(Chunks) /\ Len(queue') + 1 = Len(queue)
      /\ \A i \in 1..Len(queue') : queue'[i] = queue[i + 1]
  BY <1>1 DEF DiagnosticsInv, Shape
<1>5. Shape'
  BY <1>1, <1>3, <1>4 DEF DiagnosticsInv, Shape
<1>6. Prefixes'
  <2> SUFFICES ASSUME NEW p \in Producers
               PROVE  end'[p] <= Len(file'[p])
    BY <1>3 DEF Prefixes
  <2>1. end[p] \in Nat /\ Len(file'[p]) \in Nat
    BY <1>3, DiagnosticsAssumption DEF DiagnosticsInv, Shape, Ranges
  <2>2. writing'.producer = p => Len(writing'.bytes) \in Nat
    BY <1>3 DEF Chunks
  <2> QED
    BY <1>1, <1>3, <2>1, <2>2
<1>7. Synced'
  BY <1>1, <1>3 DEF Synced, Pending, Attached
<1>8. \E next : Flowing(next)'
  <2>1. PICK next : next = [i \in 1..Len(queue) |-> at[i + 1]]
    OBVIOUS
  <2>2. \A i \in 1..Len(queue) : i + 1 \in 1..(Len(queue) + 1) /\ next[i] = at[i + 1]
    BY <1>4, <2>1
  <2>3. at \in [1..(Len(queue) + 1) -> [Producers -> Nat]]
    BY <1>2 DEF Flowing
  <2>4. next \in [1..(Len(queue') + 1) -> [Producers -> Nat]]
    BY <1>4, <2>1, <2>2, <2>3
  <2>5. next[Len(queue') + 1] = sent'
    <3>1. next[Len(queue)] = at[Len(queue) + 1]
      BY <1>4, <2>2
    <3> QED
      BY <1>1, <1>2, <1>4, <3>1 DEF Flowing
  <2>6. ASSUME NEW i \in 1..Len(queue') PROVE Follows(next, queue', i)
    <3>1. i + 1 \in 1..Len(queue) /\ i \in 1..Len(queue) /\ i \in Nat
      BY <1>4
    <3>2. next[i] = at[i + 1] /\ next[i + 1] = at[(i + 1) + 1] /\ queue'[i] = queue[i + 1]
      BY <1>4, <2>2, <3>1
    <3>3. Follows(at, queue, i + 1)
      BY <1>2, <3>1 DEF Flowing
    <3> QED
      BY <3>2, <3>3 DEF Follows
  <2>7. next[1] = at[2]
    BY <1>4, <2>2
  <2>8. Flowing(next)'
    BY <1>3, <2>4, <2>5, <2>6, <2>7 DEF Flowing
  <2> QED
    BY <2>8
<1>9. Quoted'
  BY <1>1 DEF DiagnosticsInv, Quoted
<1> QED
  BY <1>5, <1>6, <1>7, <1>8, <1>9 DEF DiagnosticsInv, Flow

\* Recording what was appended.
LEMMA PersistKeeps ==
  ASSUME DiagnosticsInv, PersistRange
  PROVE  DiagnosticsInv'
<1> DEFINE q == writing.producer
           n == Len(writing.bytes)
<1>1. /\ writing \in Chunks /\ q \in Producers /\ n \in Nat
      /\ end' = [end EXCEPT ![q] = @ + n] /\ writing' = Idle
      /\ UNCHANGED <<sent, queue, file, refs, audit, stage>>
  BY DEF PersistRange, DiagnosticsInv, Shape, Chunks
<1> HIDE DEF q, n
<1>2. end \in [Producers -> Nat] /\ \A p \in Producers : Len(file[p]) \in Nat /\ Len(file[p]) <= Capacity
  BY DiagnosticsAssumption DEF DiagnosticsInv, Shape, Ranges, Prefixes
<1>3. CASE Attached
  <2>1. \A p \in Producers : end'[p] = Len(file[p])
    BY <1>1, <1>2, <1>3 DEF DiagnosticsInv, Synced, Pending, q, n
  <2>2. end' \in Ranges
    BY <1>1, <1>2, <2>1 DEF Ranges
  <2>3. Shape' /\ Prefixes'
    BY <1>1, <1>2, <2>1, <2>2 DEF DiagnosticsInv, Shape, Prefixes
  <2>4. Synced'
    BY <1>1, <1>2, <1>3, <2>1 DEF Synced, Pending, Idle, Attached
  <2>5. ~Stopped
    BY DEF PersistRange, Stopped
  <2>6. Flow'
    BY <1>1, <1>3, <2>5 DEF DiagnosticsInv, Flow, Flowing, Attached
  <2>7. Quoted'
    <3>1. \A p \in Producers : end[p] <= end'[p] /\ end'[p] \in Nat
      BY <1>1, <1>2
    <3> QED
      BY <1>1, <1>2, <3>1 DEF DiagnosticsInv, Quoted
  <2> QED
    BY <2>3, <2>4, <2>6, <2>7 DEF DiagnosticsInv
<1> QED
  BY <1>3 DEF PersistRange, DiagnosticsInv, Synced

\* What is queued is dropped or comes to nothing; or a Host ends or starts.
LEMMA OtherKeeps ==
  ASSUME DiagnosticsInv,
         \/ QueueRejects \/ QueueAwaited \/ CommitOutcome \/ OutcomeAudit \/ Observe \/ Crash \/ Restart
         \/ UNCHANGED vars
  PROVE  DiagnosticsInv'
<1>1. UNCHANGED <<sent, file, end>>
  BY DEF QueueRejects, QueueAwaited, CommitOutcome, OutcomeAudit, Observe, Crash, Restart, vars
<1>2. (queue' = queue \/ queue' = <<>>) /\ (writing' = writing \/ writing' = Idle)
  BY DEF QueueRejects, QueueAwaited, CommitOutcome, OutcomeAudit, Observe, Crash, Restart, vars
<1>3. Shape' /\ Prefixes'
  <2>1. <<>> \in Seq(Chunks)
    OBVIOUS
  <2>2. queue' \in Seq(Chunks)
    BY <1>2, <2>1 DEF DiagnosticsInv, Shape
  <2>3. writing' \in Chunks \cup {Idle}
    BY <1>2 DEF DiagnosticsInv, Shape
  <2> QED
    BY <1>1, <2>2, <2>3 DEF DiagnosticsInv, Shape, Prefixes
<1>4. refs' = refs \/ refs' = end
  BY DEF QueueRejects, QueueAwaited, CommitOutcome, OutcomeAudit, Observe, Crash, Restart, vars
<1>5. Quoted'
  <2>1. \A p \in Producers : end[p] \in Nat /\ end[p] <= end[p]
    BY DiagnosticsAssumption DEF DiagnosticsInv, Shape, Ranges
  <2>2. stage' \in {"live", "settled"} => stage \in {"live", "settled"} /\ UNCHANGED refs
    BY DEF QueueRejects, QueueAwaited, CommitOutcome, OutcomeAudit, Observe, Crash, Restart, vars
  <2> QED
    BY <1>1, <1>4, <2>1, <2>2 DEF DiagnosticsInv, Quoted
<1>6. CASE Crash \/ Restart
  <2>1. ~Attached' /\ writing' = Idle
    BY <1>6 DEF Crash, Restart, Attached, DiagnosticsInv, Synced
  <2> QED
    BY <1>3, <1>5, <2>1 DEF DiagnosticsInv, Synced, Flow
<1>7. CASE QueueRejects \/ QueueAwaited \/ CommitOutcome \/ OutcomeAudit \/ Observe \/ UNCHANGED vars
  <2>1. UNCHANGED writing /\ Attached' = Attached
    BY <1>7 DEF QueueRejects, QueueAwaited, CommitOutcome, OutcomeAudit, Observe, vars, Attached
  <2>2. Synced'
    BY <1>1, <2>1 DEF DiagnosticsInv, Synced, Pending
  <2>3. Stopped => Stopped'
    <3> SUFFICES ASSUME Stopped PROVE Stopped'
      OBVIOUS
    <3>1. ~Readable /\ refs # Unset /\ audit # Unset
      BY DEF Stopped, Readable
    <3>2. ~CommitOutcome /\ ~Observe
      BY <3>1 DEF DiagnosticsInv, Quoted, CommitOutcome, Observe, ReadState
    <3>3. UNCHANGED <<refs, audit>>
      BY <1>7, <3>1, <3>2 DEF QueueRejects, QueueAwaited, OutcomeAudit, vars
    <3> QED
      BY <1>1, <2>1, <3>3 DEF Stopped, Readable
  <2>4. UNCHANGED queue \/ Stopped
    BY <1>7 DEF QueueRejects, QueueAwaited, CommitOutcome, OutcomeAudit, Observe, vars, Stopped
  <2>5. UNCHANGED queue => \A at : Flowing(at) => Flowing(at)'
    BY <1>1 DEF Flowing
  <2>6. Flow'
    BY <2>1, <2>3, <2>4, <2>5 DEF DiagnosticsInv, Flow
  <2> QED
    BY <1>3, <1>5, <2>2, <2>6 DEF DiagnosticsInv
<1> QED
  BY <1>6, <1>7

\* Every step keeps the invariant.
LEMMA DiagnosticsStep == DiagnosticsInv /\ [Next]_vars => DiagnosticsInv'
BY DataKeeps, AppendKeeps, PersistKeeps, OtherKeeps DEF Next

(***************************************************************************)
(* run-supervision.mjs, queries.mjs: what readLogs exposes is the          *)
(* beginning of what the producer wrote, whatever the capacity, however    *)
(* the chunks of the producers interleave, and wherever a Host is lost     *)
(* between an append and its record.                                       *)
(***************************************************************************)
THEOREM LogsAreWhatWasWritten == Spec => []ExposedIsReceived
<1>1. DiagnosticsInv => ExposedIsReceived
  <2> SUFFICES ASSUME DiagnosticsInv, NEW p \in Producers
               PROVE  SubSeq(file[p], 1, end[p]) = [i \in 1..end[p] |-> i]
    BY DEF ExposedIsReceived
  <2>1. /\ file[p] \in Seq(Nat) /\ end[p] \in Nat /\ end[p] <= Len(file[p])
        /\ \A i \in 1..Len(file[p]) : file[p][i] = i
    BY DiagnosticsAssumption DEF DiagnosticsInv, Shape, Ranges, Prefixes
  <2>2. PICK s \in Seq(Nat) :
          s = SubSeq(file[p], 1, end[p]) /\ Len(s) = end[p] /\ \A i \in 1..end[p] : s[i] = i
    <3>1. /\ SubSeq(file[p], 1, end[p]) \in Seq(Nat) /\ Len(SubSeq(file[p], 1, end[p])) = end[p]
          /\ \A i \in 1..end[p] : SubSeq(file[p], 1, end[p])[i] = file[p][i]
      BY <2>1, Beginning
    <3> DEFINE t == SubSeq(file[p], 1, end[p])
    <3>2. \A i \in 1..end[p] : t[i] = i
      BY <2>1, <3>1
    <3> HIDE DEF t
    <3>3. t \in Seq(Nat) /\ Len(t) = end[p] /\ t = SubSeq(file[p], 1, end[p])
      BY <3>1 DEF t
    <3> QED
      BY <3>2, <3>3
  <2>3. s = [i \in 1..end[p] |-> i]
    BY <2>1, <2>2
  <2> QED
    BY <2>2, <2>3
<1> QED
  BY <1>1, DiagnosticsStart, DiagnosticsStep, PTL DEF Spec

(***************************************************************************)
(* The ranges quoted by an outcome stay within what is published, and that *)
(* within the file, for any capacity and however many Hosts are lost.      *)
(***************************************************************************)
THEOREM RangesStayReadable == Spec => []OutcomeRangesReadable
<1>1. DiagnosticsInv => OutcomeRangesReadable
  BY DEF DiagnosticsInv, Prefixes, Quoted, OutcomeRangesReadable
<1> QED
  BY <1>1, DiagnosticsStart, DiagnosticsStep, PTL DEF Spec

\* Cutting, joining and taking apart keep the elements of a sequence.
LEMMA SameElements ==
  ASSUME NEW S, NEW s \in Seq(S)
  PROVE  /\ \A t \in Seq(S) : s \o t \in Seq(S)
         /\ \A n \in Nat : n <= Len(s) => SubSeq(s, 1, n) \in Seq(S)
         /\ s # <<>> => Head(s) \in S /\ Tail(s) \in Seq(S)
         /\ \A x \in S : Append(s, x) \in Seq(S)
OBVIOUS

\* What is retained of a chunk is made of its bytes.
LEMMA RetainedType ==
  ASSUME NEW bytes \in Seq(1..MaxBytes), NEW remaining \in Nat
  PROVE  Bounded(bytes, remaining) \in Seq(1..MaxBytes)
<1> DEFINE n == IF Len(bytes) < remaining THEN Len(bytes) ELSE remaining
<1>1. n \in Nat /\ n <= Len(bytes)
  OBVIOUS
<1> HIDE DEF n
<1>2. SubSeq(bytes, 1, n) \in Seq(1..MaxBytes)
  BY <1>1, SameElements
<1> QED
  BY <1>2 DEF Bounded, n

\* The next chunk moves from the queue to its file.
LEMMA AppendTyped ==
  ASSUME DiagnosticsInv, DiagnosticsInv', TypeOK, AppendBytes
  PROVE  TypeOK'
<1> DEFINE c == Head(queue)
           bounded == Bounded(c.bytes, Capacity - end[c.producer])
<1>1. /\ queue # <<>> /\ queue' = Tail(queue)
      /\ file' = [file EXCEPT ![c.producer] = @ \o bounded]
      /\ writing' = [producer |-> c.producer, bytes |-> bounded]
      /\ audit' \in {audit, end}
      /\ UNCHANGED <<sent, end, refs, stage, crashes>>
  BY DEF AppendBytes, NextChunk, ReadState
<1>2. c \in Chunk /\ queue' \in Seq(Chunk)
  BY <1>1, SameElements DEF TypeOK
<1>3. c.producer \in Producers /\ c.bytes \in Seq(1..MaxBytes)
  BY <1>2 DEF Chunk
<1> HIDE DEF c
<1>4. Capacity - end[c.producer] \in Nat
  BY <1>3, DiagnosticsAssumption DEF TypeOK, Ranges
<1>5. bounded \in Seq(1..MaxBytes)
  BY <1>3, <1>4, RetainedType
<1> HIDE DEF bounded
<1>6. file[c.producer] \o bounded \in Seq(1..MaxBytes)
  BY <1>3, <1>5, SameElements DEF TypeOK
<1>7. file' \in [Producers -> Seq(1..MaxBytes)] /\ writing' \in Chunk
  BY <1>1, <1>3, <1>5, <1>6 DEF TypeOK, Chunk
<1> QED
  BY <1>1, <1>2, <1>7 DEF TypeOK

(***************************************************************************)
(* The bytes, chunks and ranges keep their shape: no range exceeds the     *)
(* capacity retained for a producer and no byte is one it did not write.   *)
(***************************************************************************)
THEOREM DiagnosticsAreTyped == Spec => []TypeOK
<1>1. Init => TypeOK
  BY DiagnosticsAssumption DEF Init, TypeOK, Ranges
<1>2. TypeOK /\ DiagnosticsInv /\ DiagnosticsInv' /\ [Next]_vars => TypeOK'
  <2> SUFFICES ASSUME TypeOK, DiagnosticsInv, DiagnosticsInv', [Next]_vars PROVE TypeOK'
    OBVIOUS
  <2>1. ASSUME NEW p \in Producers, NEW n \in 1..MaxBytes, Data(p, n)
        PROVE  TypeOK'
    <3> DEFINE c == [producer |-> p, bytes |-> [i \in 1..n |-> sent[p] + i]]
    <3>1. /\ sent[p] + n <= MaxBytes /\ sent' = [sent EXCEPT ![p] = @ + n]
          /\ queue' = Append(queue, c)
          /\ UNCHANGED <<file, end, refs, audit, writing, stage, crashes>>
      BY <2>1 DEF Data
    <3>2. sent[p] \in 0..MaxBytes
      BY DEF TypeOK
    <3>3. c \in Chunk
      BY <3>1, <3>2, DiagnosticsAssumption DEF Chunk
    <3> HIDE DEF c
    <3>4. queue' \in Seq(Chunk)
      BY <3>1, <3>3, SameElements DEF TypeOK
    <3> QED
      BY <3>1, <3>2, <3>4, DiagnosticsAssumption DEF TypeOK
  <2>2. CASE PersistRange
    BY <2>2 DEF PersistRange, TypeOK, DiagnosticsInv, Shape
  <2>3. CASE QueueAwaited \/ CommitOutcome \/ OutcomeAudit \/ Observe
    <3>1. /\ UNCHANGED <<sent, queue, file, end, writing, crashes>>
          /\ refs' \in {refs, end} /\ audit' \in {audit, refs, end}
          /\ stage' \in {stage, "settled", "committed", "audited"}
      BY <2>3 DEF QueueAwaited, CommitOutcome, OutcomeAudit, Observe, ReadState
    <3> QED
      BY <3>1 DEF TypeOK
  <2>4. CASE QueueRejects \/ Crash \/ Restart
    <3>1. /\ UNCHANGED <<sent, file, end>>
          /\ queue' \in {queue, <<>>} /\ writing' \in {writing, Idle}
          /\ refs' \in {refs, end} /\ audit' \in {audit, end}
          /\ stage' \in {stage, "lost", "reconciled"}
          /\ \/ crashes' = crashes
             \/ crashes' = crashes + 1 /\ crashes < MaxCrashes
      BY <2>4, Zenon DEF QueueRejects, Crash, Restart
    <3>2. queue' \in Seq(Chunk)
      <4>1. <<>> \in Seq(Chunk)
        OBVIOUS
      <4> QED
        BY <3>1, <4>1, Zenon DEF TypeOK
    <3>3. crashes' \in 0..MaxCrashes
      BY <3>1, DiagnosticsAssumption DEF TypeOK
    <3> QED
      BY <3>1, <3>2, <3>3, Zenon DEF TypeOK
  <2>5. CASE UNCHANGED vars
    BY <2>5 DEF vars, TypeOK
  <2> QED
    BY <2>1, <2>2, <2>3, <2>4, <2>5, AppendTyped DEF Next
<1> QED
  BY <1>1, <1>2, DiagnosticsStart, DiagnosticsStep, PTL DEF Spec

===============================================================================

--------------------------- MODULE RunDiagnostics ---------------------------
(***************************************************************************)
(* The diagnostic output of one Harness run: bytes of the adapter's stdout *)
(* and stderr are appended to private log files and published by moving    *)
(* availableEnd in the run's durable record; the outcome, and the audit of *)
(* the outcome, quote those positions (src/src/harness-runs).              *)
(*                                                                         *)
(* The pipes belong to the whole process tree: a descendant may write      *)
(* after the adapter has exited and the outcome is committed.              *)
(***************************************************************************)
EXTENDS Naturals, Sequences

CONSTANTS
  Producers,  \* {"stdout", "stderr"}
  Capacity,   \* 65_536 bytes of diagnostics are retained for each producer
  MaxBytes,   \* bound: bytes each producer writes
  MaxCrashes  \* bound: Host process losses

ASSUME DiagnosticsAssumption == Capacity \in Nat /\ MaxBytes \in Nat /\ MaxCrashes \in Nat

VARIABLES
  sent,     \* bytes written by each producer; byte i is the number i
  queue,    \* diagnosticQueue: chunks read from the pipes, in order
  file,     \* the log files
  end,      \* availableEnd, durable
  refs,     \* ranges in the committed outcome, or Unset
  audit,    \* ranges in the recorded outcome audit, or Unset
  writing,  \* the bytes appended by an updateRun that has not persisted yet
  stage,    \* where supervision is
  crashes

vars == <<sent, queue, file, end, refs, audit, writing, stage, crashes>>

Unset == [p \in {} |-> 0]
Ranges == [Producers -> 0..Capacity]
Chunk == [producer: Producers, bytes: Seq(1..MaxBytes)]
Idle == [producer |-> "none", bytes |-> <<>>]

TypeOK ==
  /\ sent \in [Producers -> 0..MaxBytes]
  /\ queue \in Seq(Chunk)
  /\ file \in [Producers -> Seq(1..MaxBytes)]
  /\ end \in Ranges
  /\ refs \in Ranges \cup {Unset}
  /\ audit \in Ranges \cup {Unset}
  /\ writing \in Chunk \cup {Idle}
  /\ stage \in {"live", "settled", "committed", "audited", "lost", "reconciled"}
  /\ crashes \in 0..MaxCrashes

Init ==
  /\ sent = [p \in Producers |-> 0]
  /\ queue = <<>>
  /\ file = [p \in Producers |-> <<>>]
  /\ end = [p \in Producers |-> 0]
  /\ refs = Unset /\ audit = Unset
  /\ writing = Idle
  /\ stage = "live"
  /\ crashes = 0

Attached == stage \in {"live", "settled", "committed", "audited"}

\* recordAudit with the id the outcome reserved: the first call writes the ranges
\* as they are, a later one must repeat them or throws audit_id_conflict.
Readable == refs = Unset \/ audit \in {Unset, end}
ReadState ==
  /\ Readable
  /\ audit' = IF refs = Unset THEN audit ELSE end

\* A pipe delivers a chunk; nothing ties this to the life of the adapter itself.
Data(p, n) ==
  /\ Attached
  /\ sent[p] + n <= MaxBytes
  /\ sent' = [sent EXCEPT ![p] = @ + n]
  /\ queue' = Append(queue, [producer |-> p, bytes |-> [i \in 1..n |-> sent[p] + i]])
  /\ UNCHANGED <<file, end, refs, audit, writing, stage, crashes>>

\* Mutant of NextChunk: chunks are appended as their turns come up.
LatestChunk == queue[Len(queue)]
NextChunk == Head(queue)

\* Mutant of Bounded: the capacity is not applied.
Unbounded(bytes, remaining) == bytes
Bounded(bytes, remaining) ==
  SubSeq(bytes, 1, IF Len(bytes) < remaining THEN Len(bytes) ELSE remaining)

\* appendDiagnostic under the mutation lock: the file first ...
AppendBytes ==
  /\ Attached
  /\ queue # <<>> /\ writing = Idle
  /\ ReadState
  /\ LET p == NextChunk.producer
         bounded == Bounded(NextChunk.bytes, Capacity - end[p])
     IN  /\ file' = [file EXCEPT ![p] = @ \o bounded]
         /\ writing' = [producer |-> p, bytes |-> bounded]
  /\ queue' = Tail(queue)
  /\ UNCHANGED <<sent, end, refs, stage, crashes>>

\* ... then the record.
PersistRange ==
  /\ writing # Idle
  /\ end' = [end EXCEPT ![writing.producer] = @ + Len(writing.bytes)]
  /\ writing' = Idle
  /\ UNCHANGED <<sent, queue, file, refs, audit, stage, crashes>>

\* The queue rejects for good once one append was refused.
QueueRejects ==
  /\ Attached
  /\ queue # <<>> /\ writing = Idle
  /\ ~Readable
  /\ queue' = <<>>
  /\ UNCHANGED <<sent, file, end, refs, audit, writing, stage, crashes>>

\* "await diagnosticQueue": the chunks read so far, no others.
QueueAwaited ==
  /\ stage = "live"
  /\ queue = <<>> /\ writing = Idle
  /\ stage' = "settled"
  /\ UNCHANGED <<sent, queue, file, end, refs, audit, writing, crashes>>

\* Mutant of CommitOutcome: the ranges count what was received, not what is retained.
CommitOutcomeReceived ==
  /\ stage = "settled" /\ writing = Idle
  /\ refs' = sent
  /\ stage' = "committed"
  /\ UNCHANGED <<sent, queue, file, end, audit, writing, crashes>>

CommitOutcome ==
  /\ stage = "settled" /\ writing = Idle
  /\ refs' = end
  /\ stage' = "committed"
  /\ UNCHANGED <<sent, queue, file, end, audit, writing, crashes>>

\* The audit is taken from the committed record, outside the lock; it throws when
\* another reader published other ranges in between.
OutcomeAudit ==
  /\ stage = "committed"
  /\ audit' = IF audit = Unset THEN refs ELSE audit
  /\ stage' = "audited"
  /\ UNCHANGED <<sent, queue, file, end, refs, writing, crashes>>

\* Any operation or observation of any run reads, and so re-publishes, all of it.
Observe ==
  /\ Attached \/ stage = "reconciled"
  /\ ReadState
  /\ UNCHANGED <<sent, queue, file, end, refs, writing, stage, crashes>>

Crash ==
  /\ Attached \/ stage = "reconciled"
  /\ crashes < MaxCrashes
  /\ stage' = "lost"
  /\ queue' = <<>> /\ writing' = Idle
  /\ crashes' = crashes + 1
  /\ UNCHANGED <<sent, file, end, refs, audit>>

\* A Host that starts reads the state before anything else, then finalizes the run.
Restart ==
  /\ stage = "lost"
  /\ Readable
  /\ refs' = IF refs = Unset THEN end ELSE refs
  /\ audit' = end
  /\ stage' = "reconciled"
  /\ UNCHANGED <<sent, queue, file, end, writing, crashes>>

Next ==
  \/ \E p \in Producers, n \in 1..MaxBytes : Data(p, n)
  \/ AppendBytes \/ PersistRange \/ QueueRejects \/ QueueAwaited
  \/ CommitOutcome \/ OutcomeAudit \/ Observe \/ Crash \/ Restart

Spec == Init /\ [][Next]_vars

(***************************************************************************)
(* Properties.                                                             *)
(***************************************************************************)
\* What readLogs exposes is, byte for byte, the beginning of what the producer
\* wrote: nothing lost, repeated or torn, whichever crash fell between the append
\* and the record.
ExposedIsReceived ==
  \A p \in Producers :
    SubSeq(file[p], 1, end[p]) = [i \in 1..end[p] |-> i]

\* The ranges of a committed outcome stay readable.
OutcomeRangesReadable ==
  refs # Unset => \A p \in Producers : refs[p] <= end[p] /\ end[p] <= Len(file[p])
=============================================================================

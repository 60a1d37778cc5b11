---------------------------- MODULE RunLifecycle ----------------------------
(***************************************************************************)
(* What a client of the Harness-run manager is promised, without the lock, *)
(* the audits, the adapter or the restarts that make it hard:              *)
(*   - a launch key owns at most one run, for good, and every answer to the *)
(*     key names that run;                                                 *)
(*   - a run goes one way through its phases; once its cancellation is      *)
(*     accepted it can only end as cancelled;                              *)
(*   - a run the Host lost may wait for recovery, and is never active again *)
(*     nor reported as succeeded.                                          *)
(***************************************************************************)
CONSTANTS Runs, LaunchKeys, None

VARIABLES
  phase,   \* of each run
  owner,   \* the run of each launch key, or None
  answers  \* the runs reported to the client of each launch key

vars == <<phase, owner, answers>>

Phases == {"absent", "active", "cancelling", "suspended", "cancelSuspended",
           "succeeded", "failed", "cancelled"}

\* How a supervised run ends, and how one the Host lost does.
EndsAs(p) ==
  CASE p = "active" -> {"succeeded", "failed", "cancelled"}
    [] p = "cancelling" -> {"cancelled"}
    [] OTHER -> {}

LostAs(p) ==
  CASE p = "active" -> {"failed", "suspended"}
    [] p = "cancelling" -> {"cancelled", "cancelSuspended"}
    [] OTHER -> {}

RecoversAs(p) ==
  CASE p = "suspended" -> {"failed"}
    [] p = "cancelSuspended" -> {"cancelled"}
    [] OTHER -> {}

Init ==
  /\ phase = [r \in Runs |-> "absent"]
  /\ owner = [k \in LaunchKeys |-> None]
  /\ answers = [k \in LaunchKeys |-> {}]

Accept(k, r) ==
  /\ owner[k] = None /\ phase[r] = "absent"
  /\ owner' = [owner EXCEPT ![k] = r]
  /\ phase' = [phase EXCEPT ![r] = "active"]
  /\ UNCHANGED answers

Answer(k) ==
  /\ owner[k] # None
  /\ answers' = [answers EXCEPT ![k] = @ \cup {owner[k]}]
  /\ UNCHANGED <<phase, owner>>

Cancel(r) ==
  /\ phase[r] = "active"
  /\ phase' = [phase EXCEPT ![r] = "cancelling"]
  /\ UNCHANGED <<owner, answers>>

End(r) ==
  /\ \E p \in EndsAs(phase[r]) \cup RecoversAs(phase[r]) : phase' = [phase EXCEPT ![r] = p]
  /\ UNCHANGED <<owner, answers>>

\* A restart accounts for every run that was active at once.
Restart ==
  /\ phase' \in [Runs -> Phases]
  /\ \A r \in Runs :
       IF LostAs(phase[r]) = {} THEN phase'[r] = phase[r] ELSE phase'[r] \in LostAs(phase[r])
  /\ UNCHANGED <<owner, answers>>

Next ==
  \/ \E k \in LaunchKeys : Answer(k) \/ \E r \in Runs : Accept(k, r)
  \/ \E r \in Runs : Cancel(r) \/ End(r)
  \/ Restart

Spec == Init /\ [][Next]_vars
=============================================================================

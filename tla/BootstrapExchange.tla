-------------------------- MODULE BootstrapExchange --------------------------
(***************************************************************************)
(* The bootstrap credential of a launch: a token file written under the    *)
(* lifecycle lock and exchanged once, over HTTP, for a browser session     *)
(* (createBootstrap in runtime.mjs and daemon/bootstrap.mjs).              *)
(*                                                                         *)
(* A token is derived from the runtime and the key of the launch, so that  *)
(* the pair <<runtime, key>> is the token.  A second request for a token   *)
(* whose exchange is under way awaits it and changes nothing.              *)
(***************************************************************************)
EXTENDS Naturals, FiniteSets

CONSTANTS Runtimes,   \* runtime ids, one per daemon
          Keys        \* idempotency keys of the callers

VARIABLES tokens,     \* token files that can be claimed
          exchange,   \* bootstrapExchanges of the daemon that owns the token
          sessions    \* history: browser sessions made with each token

bootVars == <<tokens, exchange, sessions>>

Tokens == Runtimes \X Keys

BootTypeOK ==
    /\ tokens \subseteq Tokens
    /\ exchange \in [Tokens -> {"none", "claimed", "made", "thrown"}]
    /\ sessions \in [Tokens -> 0..2]

BootInit ==
    /\ tokens = {}
    /\ exchange = [t \in Tokens |-> "none"]
    /\ sessions = [t \in Tokens |-> 0]

\* createBootstrap: the file is written over whatever it was.
IssueToken(d, k) ==
    /\ tokens' = tokens \cup {<<d, k>>}
    /\ UNCHANGED <<exchange, sessions>>

\* The file is renamed to a claim before anything in it is looked at.
ClaimToken(t) ==
    /\ exchange[t] = "none"
    /\ t \in tokens
    /\ tokens' = tokens \ {t}
    /\ exchange' = [exchange EXCEPT ![t] = "claimed"]
    /\ UNCHANGED sessions

\* Wrong key, wrong revision or past its time: the claim is removed all the
\* same, and the entry dropped so that a token issued again is looked at again.
RejectClaim(t) ==
    /\ exchange[t] = "claimed"
    /\ exchange' = [exchange EXCEPT ![t] = "none"]
    /\ UNCHANGED <<tokens, sessions>>

\* An audit that cannot be written rejects the promise, which stays in the map.
ClaimThrows(t) ==
    /\ exchange[t] = "claimed"
    /\ exchange' = [exchange EXCEPT ![t] = "thrown"]
    /\ UNCHANGED <<tokens, sessions>>

Mutant_CreateSession(t) ==
    /\ exchange[t] = "claimed"
    /\ sessions' = [sessions EXCEPT ![t] = @ + 1]
    /\ exchange' = [exchange EXCEPT ![t] = "none"]
    /\ UNCHANGED tokens

\* createSession registers the session once its audit is written.
CreateSession(t) ==
    /\ exchange[t] = "claimed"
    /\ sessions' = [sessions EXCEPT ![t] = @ + 1]
    /\ exchange' = [exchange EXCEPT ![t] = "made"]
    /\ UNCHANGED tokens

\* A rename that fails, although there is a file, does the same.
RenameThrows(t) ==
    /\ exchange[t] = "none"
    /\ t \in tokens
    /\ exchange' = [exchange EXCEPT ![t] = "thrown"]
    /\ UNCHANGED <<tokens, sessions>>

\* The token of another daemon, presented to this one, is claimed all the same:
\* only then is its runtime looked at, the exchange refused and the claim removed.
ForeignToken(t) ==
    /\ t \in tokens
    /\ tokens' = tokens \ {t}
    /\ UNCHANGED <<exchange, sessions>>

ExchangeStep(t) ==
    \/ RenameThrows(t)
    \/ ClaimToken(t)
    \/ RejectClaim(t)
    \/ ClaimThrows(t)
    \/ CreateSession(t)

(***************************************************************************)
(* A token makes at most one session, although a launch that is repeated   *)
(* after its outcome was lost or evicted writes the same token file again. *)
(***************************************************************************)
TokenMakesOneSession == \A t \in Tokens : sessions[t] <= 1
=============================================================================

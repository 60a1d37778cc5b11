----------------------------- MODULE HostIdentity -----------------------------
(***************************************************************************)
(* The identity of the Host of a data directory, and the Controller's      *)
(* binding to it (host-identity.mjs).  A starter proposes an identity,     *)
(* starts a Host with it and binds to it; the Host makes it its own in the *)
(* handshake (local-host.mjs).                                             *)
(*                                                                         *)
(* Starters are the daemons launches spawn: the launches take turns, but a *)
(* daemon that outlives its launcher meets the next one.  An identity is   *)
(* the starter that first proposed it.  Both files are created exclusively *)
(* and filled in a second step.                                            *)
(***************************************************************************)

CONSTANTS Starters,
          NoFile,    \* no file
          Torn       \* the content of a file that is created and not filled

ASSUME IdentityAssumption == NoFile \notin Starters /\ Torn \notin Starters \cup {NoFile}

VARIABLES
    identity,  \* host-identity.json
    binding,   \* controller-host-binding.json
    hello      \* of each starter: the identity it expects, and where its Host is

identityVars == <<identity, binding, hello>>

Files == Starters \cup {NoFile, Torn}

\* A Host that has accepted serves the identity it was started with.
Greetings == [host : Starters \cup {NoFile}, at : {"greeting", "filling", "accepted", "refused"}]

IdentityTypeOK ==
    /\ identity \in Files /\ binding \in Files
    /\ hello \in [Starters -> Greetings]

IdentityInit ==
    /\ identity = NoFile /\ binding = NoFile
    /\ hello = [s \in Starters |-> [host |-> NoFile, at |-> "greeting"]]

\* prepareControllerHostBinding cannot parse a file left torn.
Readable == binding # Torn /\ (binding = NoFile => identity # Torn)

\* The identity a starter asks for: the one bound to, the Host's, or its own.
Prepared(s) ==
    CASE binding # NoFile -> binding
      [] binding = NoFile /\ identity # NoFile -> identity
      [] OTHER -> s

Proposes(s) == hello' = [hello EXCEPT ![s].host = Prepared(s)]

\* Only a starter that proposed its own lets the Host create it.
Creates(s) == hello[s].host = s

Mutant_HostOpens(s) ==
    /\ hello[s].at = "greeting" /\ Creates(s)
    /\ identity' = Torn
    /\ hello' = [hello EXCEPT ![s].at = "filling"]

\* handleHostIdentityAcceptance down to the exclusive creation in
\* writeIdentityOnce: a Host that finds a file, whoever made it, has lost.
HostOpens(s) ==
    /\ hello[s].at = "greeting" /\ Creates(s)
    /\ identity = NoFile
    /\ identity' = Torn
    /\ hello' = [hello EXCEPT ![s].at = "filling"]

HostFills(s) ==
    /\ hello[s].at = "filling"
    /\ identity' = hello[s].host
    /\ hello' = [hello EXCEPT ![s].at = "accepted"]

\* The handshake of a Host that has an identity: it is the one expected.
HostAgrees(s) ==
    /\ hello[s].at = "greeting" /\ ~Creates(s)
    /\ identity = hello[s].host
    /\ hello' = [hello EXCEPT ![s].at = "accepted"]
    /\ UNCHANGED identity

HostRefuses(s) ==
    /\ hello[s].at = "greeting"
    /\ identity # IF Creates(s) THEN NoFile ELSE hello[s].host
    /\ hello' = [hello EXCEPT ![s].at = "refused"]
    /\ UNCHANGED identity

Handshake(s) ==
    /\ HostOpens(s) \/ HostFills(s) \/ HostAgrees(s) \/ HostRefuses(s)
    /\ UNCHANGED binding

\* acceptControllerHostBinding, by the same writeIdentityOnce: whether the
\* file is s's to fill, is the one it expects, or is in its way.
BindingIsFree == binding = NoFile
BindingAgrees(s) == binding = hello[s].host

-----------------------------------------------------------------------------
(***************************************************************************)
(* Nobody is bound to, or speaks with, a Host whose identity is not the    *)
(* one on file: not where a daemon that lost its launcher and the one of   *)
(* the next launch propose different identities at once, and not where     *)
(* they die between creating a file and filling it.                        *)
(***************************************************************************)
OneHostIdentity ==
    /\ binding \in Starters => identity = binding
    /\ \A s \in Starters : hello[s].at = "accepted" => identity = hello[s].host
=============================================================================

--------------------------- MODULE BrowserSessions ---------------------------
(***************************************************************************)
(* One browser session of the daemon, its expiry and its end, and the      *)
(* WebSockets opened under its cookie (daemon/browser-sessions, the        *)
(* upgrade and end routes of daemon/http).                                 *)
(*                                                                         *)
(* Both ways out of "active" await an audit with the record in hand, so    *)
(* that each can overtake the other.                                       *)
(***************************************************************************)
EXTENDS Naturals

CONSTANTS Sockets

VARIABLES browser,   \* the record: status, expiring and ending (audits awaited)
          socket     \* readyState of each WebSocket at the server

browserVars == <<browser, socket>>

BrowserTypeOK ==
    /\ browser \in [status : {"active", "ended", "expired"},
                    expiring : BOOLEAN, ending : BOOLEAN]
    /\ socket \in [Sockets -> {"none", "open", "closing", "closed"}]

BrowserInit ==
    /\ browser = [status |-> "active", expiring |-> FALSE, ending |-> FALSE]
    /\ socket = [s \in Sockets |-> "none"]

\* expireBrowserSessionIfDue and getActiveBrowserSession, for a request.
SessionServes == browser.status = "active"

\* revokeBrowserSession: every socket of the record is asked to close.
Closed(sockets) ==
    [s \in Sockets |-> IF s \in sockets /\ socket[s] = "open" THEN "closing" ELSE socket[s]]

\* Its time is up: found by the timer or by the next request.
ExpireSession ==
    /\ browser.status = "active"
    /\ browser' = [browser EXCEPT !.status = "expired", !.expiring = TRUE]
    /\ UNCHANGED socket

Mutant_RevokeExpired ==
    /\ browser.expiring
    /\ browser' = [browser EXCEPT !.expiring = FALSE]
    /\ socket' \in {socket, Closed(Sockets)}

\* The audit is written or not: the sockets are closed either way.
RevokeExpired ==
    /\ browser.expiring
    /\ browser' = [browser EXCEPT !.expiring = FALSE]
    /\ socket' = Closed(Sockets)

\* A request past every refusal; one at a time under the session's queue.
EndSession ==
    /\ SessionServes /\ ~browser.ending
    /\ browser' = [browser EXCEPT !.ending = TRUE]
    /\ UNCHANGED socket

\* The record becomes "ended" even where it expired while the audit was
\* awaited; an audit that fails leaves it as it is.
SessionEnded ==
    /\ browser.ending
    /\ \/ /\ browser' = [browser EXCEPT !.ending = FALSE, !.status = "ended"]
          /\ socket' = Closed(Sockets)
       \/ /\ browser' = [browser EXCEPT !.ending = FALSE]
          /\ UNCHANGED socket

\* The upgrade: the session is looked at and the socket joins its record.
Upgrade(s) ==
    /\ SessionServes
    /\ socket[s] = "none"
    /\ socket' = [socket EXCEPT ![s] = "open"]
    /\ UNCHANGED browser

BrowserStep == ExpireSession \/ RevokeExpired \/ EndSession \/ SessionEnded
=============================================================================

---------------------------- MODULE TerminalRouter ----------------------------
(***************************************************************************)
(* The WebSocket router (daemon/websocket-router.mjs): what the messages   *)
(* of each socket do to the browser session and to the terminal.           *)
(*                                                                         *)
(* The messages of one socket are processed one after the other, and each  *)
(* may wait: for an audit, or for the Host.  Nothing asks the socket again *)
(* whether it is still open, so that what was queued is processed after    *)
(* the socket has closed and its close handler has run.                    *)
(***************************************************************************)
EXTENDS ControllerTerminal

VARIABLE busy        \* what the message being processed waits in

vars == <<browserVars, pageVars, sessionVars, busy>>

TypeOK ==
    /\ BrowserTypeOK /\ PageTypeOK /\ SessionTypeOK
    /\ busy \in [Sockets -> {"idle", "greeting", "greeting-focused"} \cup {"read-write", "read-only"}]

Init ==
    /\ BrowserInit /\ PageInit /\ SessionInit
    /\ busy = [s \in Sockets |-> "idle"]

Idle(s) == busy' = [busy EXCEPT ![s] = "idle"]
Tell(s, p) == page' = [page EXCEPT ![s] = IF socket[s] = "open" THEN p ELSE @]

\* rejectBrowserProtocol: the page learns of it, the socket closes, and what
\* it sent is not looked at any more.
Reject(s, at) ==
    /\ socket' = Closed({s})
    /\ inbox' = [inbox EXCEPT ![s] = <<>>]
    /\ Tell(s, IF Reads(s) THEN Blank(at) ELSE page[s])

-----------------------------------------------------------------------------
\* A page is loaded: the upgrade, and the hello it sends at once.
Connect(s) ==
    /\ life = "up"
    /\ Upgrade(s)
    /\ page' = [page EXCEPT ![s].at = "hello"]
    /\ Send(s, [type |-> "hello"])
    /\ UNCHANGED <<sessionVars, busy>>

\* The next message of a socket, in a session that serves.
Message1(s, type) ==
    /\ Alive
    /\ busy[s] = "idle" /\ inbox[s] # <<>>
    /\ Head(inbox[s]).type = type
    /\ SessionServes
Taken1(s) == inbox' = [inbox EXCEPT ![s] = Tail(@)]

\* In one that no longer does, the first message closes the socket.
Ignore(s) ==
    /\ Alive
    /\ busy[s] = "idle" /\ inbox[s] # <<>>
    /\ ~SessionServes
    /\ inbox' = [inbox EXCEPT ![s] = <<>>]
    /\ socket' = Closed({s})
    /\ UNCHANGED <<browser, page, sessionVars, busy>>

HandshakeTimeout(s) ==
    /\ Alive
    /\ busy[s] = "idle" /\ inbox[s] # <<>> /\ Head(inbox[s]).type = "hello"
    /\ Reject(s, "gone")
    /\ UNCHANGED <<browser, sessionVars, busy>>

\* The acknowledgement is composed, then its audit awaited.
Hello(s) ==
    /\ Message1(s, "hello") /\ Taken1(s)
    /\ busy' = [busy EXCEPT ![s] = IF focused THEN "greeting-focused" ELSE "greeting"]
    /\ UNCHANGED <<page, browserVars, sessionVars>>

\* A hello that does not fit this runtime, or an audit that fails.
HelloRefused(s) ==
    /\ Alive
    /\ Message1(s, "hello") \/ busy[s] \in {"greeting", "greeting-focused"}
    /\ Idle(s)
    /\ Reject(s, "gone")
    /\ UNCHANGED <<browser, sessionVars>>

\* A page that is told of a focused session attaches to it.
Negotiated(s) ==
    /\ Alive
    /\ busy[s] \in {"greeting", "greeting-focused"}
    /\ Idle(s)
    /\ IF busy[s] = "greeting-focused" /\ socket[s] = "open" /\ page[s].at = "hello"
       THEN /\ Send(s, [type |-> "attach", mode |-> "read-write-if-available"])
            /\ page' = [page EXCEPT ![s].at = "attaching"]
       ELSE Tell(s, Acknowledged(page[s])) /\ UNCHANGED inbox
    /\ UNCHANGED <<browserVars, sessionVars>>

AttachBegins(s) ==
    /\ Message1(s, "attach")
    /\ LET asked == Head(inbox[s]).mode
           mode == Granted(s, asked)
       IN IF Conflicts(s, asked)
          THEN /\ Reject(s, "gone")
               /\ UNCHANGED <<term, busy>>
          ELSE /\ Taken1(s)
               /\ term' = Staged(s, mode)
               /\ busy' = [busy EXCEPT ![s] = mode]
               /\ UNCHANGED <<socket, page>>
    /\ UNCHANGED <<browser, opening, pty, control, record, file, writes, focused, life>>

AttachEnds(s) ==
    /\ Alive
    /\ busy[s] \in {"read-write", "read-only"}
    /\ Idle(s)
    /\ IF HoldsPlace(s, busy[s])
       THEN /\ term' = Activated(s, busy[s])
            /\ Tell(s, Replayed(s, busy[s]))
            /\ UNCHANGED <<socket, inbox>>
       ELSE Reject(s, "gone") /\ UNCHANGED term
    /\ UNCHANGED <<browser, opening, pty, control, record, file, writes, focused, life>>

\* Its audit fails: the place is kept until the socket has closed.
AttachFails(s) ==
    /\ Alive
    /\ busy[s] \in {"read-write", "read-only"}
    /\ Idle(s)
    /\ Reject(s, "gone")
    /\ UNCHANGED <<browser, sessionVars>>

\* The PTY takes the input at once; the audits that follow change nothing,
\* unless they fail.
Input(s) ==
    /\ Message1(s, "input")
    /\ IF Accepts(s, Head(inbox[s]).seq, term.input)
       THEN /\ term' = Written
            /\ \/ Taken1(s) /\ UNCHANGED <<socket, page>>
               \/ Reject(s, "gone")
       ELSE Reject(s, "input refused") /\ UNCHANGED term
    /\ UNCHANGED <<browser, busy, opening, pty, control, record, file, writes, focused, life>>

\* The same of a resize, but one the PTY itself refuses is not counted.
Resize(s) ==
    /\ Message1(s, "resize")
    /\ LET seq == Head(inbox[s]).seq
       IN IF Accepts(s, seq, term.resize)
          THEN \/ /\ term' = Sized
                  /\ Taken1(s) /\ Tell(s, Resized(page[s], seq)) /\ UNCHANGED socket
               \/ /\ term' \in {term, Sized}
                  /\ Reject(s, "gone")
          ELSE Reject(s, "input refused") /\ UNCHANGED term
    /\ UNCHANGED <<browser, busy, opening, pty, control, record, file, writes, focused, life>>

\* The page is closed, reloaded, or cut off.
Leave(s) ==
    /\ socket[s] = "open"
    /\ socket' = Closed({s})
    /\ page' = [page EXCEPT ![s] = Blank("gone")]
    /\ UNCHANGED <<browser, inbox, sessionVars, busy>>

\* The close event, whatever is still queued or awaited.
SocketCloses(s) ==
    /\ Alive /\ socket[s] = "closing"
    /\ socket' = [socket EXCEPT ![s] = "closed"]
    /\ page' = [page EXCEPT ![s] = IF Reads(s) THEN Blank("gone") ELSE @]
    /\ term' = Left(s)
    /\ UNCHANGED <<browser, inbox, busy,
                   opening, pty, control, record, file, writes, focused, life>>

-----------------------------------------------------------------------------
BrowserOnly == Alive /\ UNCHANGED <<pageVars, sessionVars, busy>>
Browser == BrowserOnly /\ BrowserStep

PageSends(s) ==
    /\ Type(s) \/ Fit(s)
    /\ UNCHANGED <<browserVars, sessionVars, busy>>

Session ==
    /\ \/ \E s \in Sockets : OpenSession(s)
       \/ Probed \/ StartFails \/ Spawned \/ Ready \/ Persist \/ OpenFails \/ Opened
       \/ Output \/ Exit
       \/ ShutDown \/ KillProviders \/ Drains \/ ShutdownEnds \/ RuntimeDies \/ Boot
    /\ IF Alive' THEN UNCHANGED busy
       ELSE busy' = [s \in Sockets |-> "idle"]

Router(s) ==
    \/ Connect(s) \/ Ignore(s) \/ HandshakeTimeout(s)
    \/ Hello(s) \/ HelloRefused(s) \/ Negotiated(s)
    \/ AttachBegins(s) \/ AttachEnds(s) \/ AttachFails(s)
    \/ Input(s) \/ Resize(s) \/ Leave(s) \/ SocketCloses(s)

Next ==
    \/ Browser
    \/ Session
    \/ \E s \in Sockets : Router(s) \/ PageSends(s)

Spec == Init /\ [][Next]_vars

-----------------------------------------------------------------------------
(* Properties *)

(***************************************************************************)
(* A page shows the output frames one after the other from the cursor its  *)
(* attachment was given, through attachments that wait for their audit     *)
(* while the PTY goes on, replays of a bounded buffer and live delivery.   *)
(***************************************************************************)
OutputInOrder == \A s \in Sockets : page[s].at # "output mismatched"

(***************************************************************************)
(* A page that was made the writer is never told that its input is out of  *)
(* order or not its to send, while the PTY runs: whoever wrote before it.  *)
(***************************************************************************)
InputKept == \A s \in Sockets : page[s].at = "input refused" => pty \notin {"running", "killed"}

(***************************************************************************)
(* A browser session that has expired or ended, its audits behind it,      *)
(* leaves no socket open: when it does both, and when sockets open or      *)
(* attach while an audit is awaited.                                       *)
(***************************************************************************)
RevokedSocketsClose ==
    browser.status # "active" /\ ~browser.expiring =>
        \A s \in Sockets : socket[s] # "open"

(***************************************************************************)
(* A PTY whose exit the runtime saw is retained as exited once the queue   *)
(* is empty, and after an orderly stop: but for an exit whose own write    *)
(* was refused, and but for one seen when the stop no longer waits for     *)
(* writes, which the next start takes for an interruption.                 *)
(***************************************************************************)
ExitIsRetained ==
    pty = "exited" /\ ~writes.refused =>
        /\ Alive /\ writes.queued = 0 => file = "exited"
        /\ life = "stopped" /\ ~writes.behind => file = "exited"
=============================================================================

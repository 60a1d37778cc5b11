--------------------------- MODULE CockpitTerminal ---------------------------
(***************************************************************************)
(* The Cockpit's end of a terminal: the page a WebSocket belongs to, its   *)
(* handshake and its one surface for the focused session                   *)
(* (cockpit/socket.mjs, cockpit/terminal.mjs).  Reloading opens another.   *)
(*                                                                         *)
(* A page takes each message as it is sent.  It answers by sending, and    *)
(* what it sends may wait in the runtime's queue as long as it likes, so   *)
(* that a delay on the way to the page adds no behaviour.                  *)
(***************************************************************************)
EXTENDS BrowserSessions, Sequences

CONSTANTS MaxInputs,   \* bound: input frames a page sends
          MaxResizes,  \* bound: resizes a page asks for
          MaxInbox     \* bound: messages of a page under way

VARIABLES page,        \* the page and its terminal surface
          inbox        \* messages sent and not yet processed by the runtime

pageVars == <<page, inbox>>

Modes == {"read-write", "read-only", "read-write-if-available"}

Message ==
    [type : {"hello"}] \cup [type : {"attach"}, mode : Modes]
    \cup [type : {"input"}, seq : 0..MaxInputs]
    \cup [type : {"resize"}, seq : 0..MaxResizes]

\* "mismatched" pages ask for a reload; "gone" is also what a page is after
\* a protocol error, "input refused" after one about its input.
Stages == {"away", "hello", "ready", "attaching", "read-write", "read-only",
           "output mismatched", "resize mismatched", "input refused", "gone"}

PageTypeOK ==
    /\ \A s \in Sockets :
         /\ DOMAIN page[s] = {"at", "output", "input", "resize", "eof"}
         /\ page[s].at \in Stages
         /\ page[s].output \in Nat
         /\ page[s].input \in 0..MaxInputs
         /\ page[s].resize \in 0..MaxResizes
         /\ page[s].eof \in BOOLEAN
    /\ inbox \in [Sockets -> Seq(Message)]
    /\ \A s \in Sockets : Len(inbox[s]) <= MaxInbox

Blank(at) == [at |-> at, output |-> 0, input |-> 0, resize |-> 0, eof |-> FALSE]

PageInit ==
    /\ page = [s \in Sockets |-> Blank("away")]
    /\ inbox = [s \in Sockets |-> <<>>]

\* A page that still reads its socket.
Reads(s) == page[s].at \in {"hello", "ready", "attaching", "read-write", "read-only"}

-----------------------------------------------------------------------------
(* What a page makes of a message: pure functions of its record. *)

\* runtime.hello-ack.
Acknowledged(p) == IF p.at = "hello" THEN [p EXCEPT !.at = "ready"] ELSE p

Mutant_Attached(p, mode, output, input, resize) ==
    IF p.at = "attaching"
    THEN [p EXCEPT !.at = mode, !.output = output, !.input = 0, !.resize = 0]
    ELSE p

\* runtime.terminal-attached: the sequences start where the runtime says.
Attached(p, mode, output, input, resize) ==
    IF p.at = "attaching"
    THEN [p EXCEPT !.at = mode, !.output = output, !.input = input, !.resize = resize]
    ELSE p

\* applyOpaqueFrame, over the frames from..to-1: any gap or repetition is a
\* mismatch, and so is a frame before the attachment was acknowledged.
Shown(p, from, to, eof) ==
    IF from >= to \/ p.at \notin {"attaching", "read-write", "read-only"} THEN p
    ELSE IF p.at = "attaching" \/ p.output # from THEN [p EXCEPT !.at = "output mismatched"]
    ELSE [p EXCEPT !.output = to, !.eof = eof]

\* runtime.terminal-resized: only the last resize asked for is expected.
Resized(p, seq) ==
    IF p.at \notin {"read-write", "read-only"} THEN p
    ELSE IF p.resize # seq + 1 THEN [p EXCEPT !.at = "resize mismatched"]
    ELSE p

-----------------------------------------------------------------------------
(* What a page does *)

Send(s, message) ==
    /\ Len(inbox[s]) < MaxInbox
    /\ inbox' = [inbox EXCEPT ![s] = Append(@, message)]

\* attachTerminalSurface: its first page asks for the writer, a page that
\* finds the session open takes what it gets.
Attach(s, mode) ==
    /\ page[s].at = "ready"
    /\ Send(s, [type |-> "attach", mode |-> mode])
    /\ page' = [page EXCEPT ![s].at = "attaching"]

\* sendTerminalData: the keys of the toolbar send after the end of the
\* stream as well.
Type(s) ==
    /\ page[s].at = "read-write" /\ page[s].input < MaxInputs
    /\ Send(s, [type |-> "input", seq |-> page[s].input])
    /\ page' = [page EXCEPT ![s].input = @ + 1]

\* scheduleTerminalFit, once its timer fires.
Fit(s) ==
    /\ page[s].at = "read-write" /\ page[s].resize < MaxResizes
    /\ Send(s, [type |-> "resize", seq |-> page[s].resize])
    /\ page' = [page EXCEPT ![s].resize = @ + 1]
=============================================================================

-------------------------- MODULE ControllerTerminal --------------------------
(***************************************************************************)
(* The focused Controller session (controller-sessions.mjs and the route   *)
(* that opens it): starting a provider in a PTY, what is retained of it,   *)
(* and the PTY's stream as sockets attach to it, write to it and leave it. *)
(*                                                                         *)
(* The numbers of the frames are the output.  The buffer holds the frames  *)
(* low..output-1; the frame that ends the stream is never evicted.         *)
(***************************************************************************)
EXTENDS CockpitTerminal

CONSTANTS MaxOutput,   \* bound: frames the PTY produces, the last one aside
          Buffered,    \* frames retained for replay (256 in the code)
          MaxOpens,    \* bound: attempts to open a session
          Nobody

ASSUME TerminalAssumption ==
    /\ MaxOutput \in Nat /\ Buffered \in Nat \ {0} /\ MaxOpens \in Nat
    /\ MaxInputs \in Nat /\ MaxResizes \in Nat /\ MaxInbox \in Nat
    /\ Nobody \notin Sockets

VARIABLES
    opening,    \* the open operation: at, by (the page that asked), opens so far
    pty,        \* the provider's process
    control,    \* the channel its ready message comes over
    record,     \* the status of the retained record in memory
    file,       \* the same in controller-sessions.json
    writes,     \* of the file: queued; awaited by the shutdown; whether the last
                \* is behind those, and whether the last one made was refused
    term,       \* the stream: low, output, eof, writer, live (onOutput is set),
                \* readers, handlers, input and resize sequences
    focused,    \* currentProjectControllerSession
    life        \* of the runtime process

sessionVars == <<opening, pty, control, record, file, writes, term, focused, life>>

Records == {"none", "running", "exited", "interrupted"}

SessionTypeOK ==
    /\ opening \in [at : {"idle", "probing", "preparing", "awaiting", "persisting", "auditing"},
                    by : Sockets \cup {Nobody}, opens : 0..MaxOpens]
    /\ pty \in {"none", "running", "killed", "exited", "lost"}
    /\ control \in {"none", "listening", "ready", "closed"}
    /\ record \in Records /\ file \in Records
    /\ writes \in [queued : 0..2, awaited : 0..2, behind : BOOLEAN, refused : BOOLEAN]
    /\ term \in [low : 0..(MaxOutput + 1), output : 0..(MaxOutput + 1), eof : BOOLEAN,
                 writer : Sockets \cup {Nobody}, live : BOOLEAN,
                 readers : SUBSET Sockets, handlers : SUBSET Sockets,
                 input : 0..MaxInputs, resize : 0..MaxResizes]
    /\ term.handlers \subseteq term.readers
    /\ term.low <= term.output
    /\ focused \in BOOLEAN
    /\ life \in {"up", "closing", "killing", "draining", "stopped", "crashed"}

NoTerm == [low |-> 0, output |-> 0, eof |-> FALSE, writer |-> Nobody, live |-> FALSE,
           readers |-> {}, handlers |-> {}, input |-> 0, resize |-> 0]

SessionInit ==
    /\ opening = [at |-> "idle", by |-> Nobody, opens |-> 0]
    /\ pty = "none"
    /\ control = "none"
    /\ record = "none" /\ file = "none"
    /\ writes = [queued |-> 0, awaited |-> 0, behind |-> FALSE, refused |-> FALSE]
    /\ term = NoTerm
    /\ focused = FALSE
    /\ life = "up"

Alive == life \in {"up", "closing", "killing", "draining"}
Stage(stage) == opening' = [opening EXCEPT !.at = stage]
Answered == opening' = [opening EXCEPT !.at = "idle", !.by = Nobody]

\* persist: the end of the queue, where the shutdown waits for it no more.
Queue == writes' = [writes EXCEPT !.queued = @ + 1, !.behind = life = "draining"]

-----------------------------------------------------------------------------
(* openProjectControllerSession and start *)

\* The request is serialised; its refusals, conflicts and replays answer
\* without touching any of this.
OpenSession(s) ==
    /\ life = "up" /\ SessionServes
    /\ opening.at = "idle" /\ opening.opens < MaxOpens
    /\ page[s].at = "ready"
    /\ pty = "none"
    /\ opening' = [at |-> "probing", by |-> s, opens |-> opening.opens + 1]
    /\ UNCHANGED <<pty, control, record, file, writes, term, focused, life, browserVars, pageVars>>

\* openProviderControl: one connection is taken, and its first line must be
\* the ready message; close ends both.
Listens == control' = "listening"
Hears == control = "listening" /\ control' = "ready"
Closes == control' = IF control = "none" THEN "none" ELSE "closed"

\* probeProvider, then the channel.
Probed ==
    /\ Alive /\ opening.at = "probing"
    /\ Listens
    /\ Stage("preparing")
    /\ UNCHANGED <<pty, record, file, writes, term, focused, life, browserVars, pageVars>>

\* A start that fails closes what it opened, forgets the session and kills
\* the provider; the page is told and may ask again.
StartFails ==
    /\ Alive /\ opening.at \in {"probing", "preparing", "awaiting"}
    /\ pty' = "none"
    /\ control' = "none"
    /\ term' = NoTerm
    /\ Answered
    /\ UNCHANGED <<record, file, writes, focused, life, browserVars, pageVars>>

\* The prepared command is checked and spawned in a PTY.
Spawned ==
    /\ life \in {"up", "closing"} /\ opening.at = "preparing"
    /\ pty' = "running"
    /\ Stage("awaiting")
    /\ UNCHANGED <<control, record, file, writes, term, focused, life, browserVars, pageVars>>

\* The ready message, while the process still runs.
Ready ==
    /\ Alive /\ opening.at = "awaiting" /\ pty \in {"running", "killed"}
    /\ Hears
    /\ record' = "running"
    /\ Queue
    /\ Stage("persisting")
    /\ UNCHANGED <<pty, file, term, focused, life, browserVars, pageVars>>

\* The queue of writes: each writes what is retained when its turn comes, or
\* is refused.  The first one is the start's, which goes on to its audit, or
\* fails and leaves the PTY running; the refusal of an exit's is swallowed.
Persist ==
    /\ Alive /\ writes.queued > 0
    /\ \E refused \in BOOLEAN :
          /\ file' = IF refused THEN file ELSE record
          /\ writes' = [writes EXCEPT !.queued = @ - 1, !.awaited = IF @ = 0 THEN 0 ELSE @ - 1,
                                      !.refused = refused]
          /\ CASE opening.at = "persisting" /\ refused -> Answered
               [] opening.at = "persisting" /\ ~refused -> Stage("auditing")
               [] OTHER -> UNCHANGED opening
    /\ UNCHANGED <<pty, control, record, term, focused, life, browserVars, pageVars>>

\* The audit of the start or of the opening fails: the page is told that it
\* failed, and the PTY runs and is retained.
OpenFails ==
    /\ Alive /\ opening.at = "auditing"
    /\ Answered
    /\ UNCHANGED <<pty, control, record, file, writes, term, focused, life, browserVars, pageVars>>

\* The audits, the outcome, the answer: the page that asked attaches first.
Opened ==
    /\ Alive /\ opening.at = "auditing"
    /\ focused' = TRUE
    /\ Answered
    /\ IF opening.by # Nobody /\ page[opening.by].at = "ready"
       THEN Attach(opening.by, "read-write")
       ELSE UNCHANGED pageVars
    /\ UNCHANGED <<pty, control, record, file, writes, term, life, browserVars>>

-----------------------------------------------------------------------------
(* The stream *)

\* Who a frame reaches: sockets that are open and past their activation.
Listening ==
    {s \in term.handlers \cup (IF term.live THEN {term.writer} ELSE {}) : socket[s] = "open"}

Output ==
    /\ Alive /\ pty = "running" /\ term.output < MaxOutput
    /\ LET n == term.output
       IN /\ term' = [term EXCEPT !.output = n + 1,
                                  !.low = IF n + 1 - @ > Buffered THEN @ + 1 ELSE @]
          /\ page' = [s \in Sockets |-> IF s \in Listening THEN Shown(page[s], n, n + 1, FALSE)
                                        ELSE page[s]]
    /\ UNCHANGED <<inbox, opening, pty, control, record, file, writes, focused, life, browserVars>>

\* onExit, once the session is retained: an exit before that fails the start.
Exit ==
    /\ Alive /\ pty \in {"running", "killed"} /\ opening.at # "awaiting"
    /\ pty' = "exited"
    /\ record' = "exited"
    /\ Queue
    /\ term' = [term EXCEPT !.output = @ + 1, !.eof = TRUE]
    /\ page' = [s \in Sockets |-> IF s \in Listening
                                  THEN Shown(page[s], term.output, term.output + 1, TRUE)
                                  ELSE page[s]]
    /\ Closes
    /\ UNCHANGED <<inbox, opening, file, focused, life, browserVars>>

\* attach, up to its audit: what mode the socket gets, or a conflict.
Taken(s) == term.writer \notin {Nobody, s}
Granted(s, mode) ==
    IF mode = "read-write-if-available"
    THEN IF Taken(s) THEN "read-only" ELSE "read-write"
    ELSE mode
Conflicts(s, mode) == Granted(s, mode) = "read-write" /\ Taken(s)

Mutant_Staged(s, mode) ==
    IF mode = "read-write"
    THEN [term EXCEPT !.writer = s, !.live = TRUE, !.readers = @ \ {s}, !.handlers = @ \ {s}]
    ELSE [term EXCEPT !.writer = IF @ = s THEN Nobody ELSE @,
                      !.live = @ /\ term.writer # s,
                      !.readers = @ \cup {s}, !.handlers = @ \ {s}]

\* The socket holds its place, and hears nothing until it is activated.
Staged(s, mode) ==
    IF mode = "read-write"
    THEN [term EXCEPT !.writer = s, !.live = FALSE, !.readers = @ \ {s}, !.handlers = @ \ {s}]
    ELSE [term EXCEPT !.writer = IF @ = s THEN Nobody ELSE @,
                      !.live = @ /\ term.writer # s,
                      !.readers = @ \cup {s}, !.handlers = @ \ {s}]

Mutant_HoldsPlace(s, mode) == mode = "read-write" => term.writer = s

\* activate: refused where the socket lost its place meanwhile; otherwise the
\* acknowledgement, the retained frames and from then on each new one.
HoldsPlace(s, mode) == IF mode = "read-write" THEN term.writer = s ELSE s \in term.readers

Activated(s, mode) ==
    IF mode = "read-write" THEN [term EXCEPT !.live = TRUE]
    ELSE [term EXCEPT !.handlers = @ \cup {s}]

Replayed(s, mode) ==
    Shown(Attached(page[s], mode, term.low, term.input, term.resize), term.low, term.output, term.eof)

\* detach, as a socket closes.
Left(s) ==
    [term EXCEPT !.writer = IF @ = s THEN Nobody ELSE @,
                 !.live = @ /\ term.writer # s,
                 !.readers = @ \ {s}, !.handlers = @ \ {s}]

\* write and resize: the writer's, in sequence, while the PTY runs.
Accepts(s, seq, expected) == term.writer = s /\ seq = expected /\ pty \in {"running", "killed"}
Written == [term EXCEPT !.input = @ + 1]

Sized == [term EXCEPT !.resize = @ + 1]

-----------------------------------------------------------------------------
(* The runtime stops, dies and starts again *)

\* shutdown: the sockets first, then the PTYs and the control channels.
ShutDown ==
    /\ life = "up"
    /\ life' = "closing"
    /\ socket' = Closed(Sockets)
    /\ UNCHANGED <<browser, opening, pty, control, record, file, writes, term, focused, pageVars>>

KillProviders ==
    /\ life = "closing"
    /\ \A s \in Sockets : socket[s] \in {"none", "closed"}
    /\ life' = "killing"
    /\ pty' = IF pty = "running" THEN "killed" ELSE pty
    /\ Closes
    /\ UNCHANGED <<browser, socket, opening, record, file, writes, term, focused, pageVars>>

\* What is left of the process: the file.
Gone(how) ==
    /\ life' = how
    /\ pty' = IF pty \in {"running", "killed"} THEN "lost" ELSE pty
    /\ browser' = [status |-> "ended", expiring |-> FALSE, ending |-> FALSE]
    /\ socket' = [s \in Sockets |-> "closed"]
    /\ page' = [s \in Sockets |-> Blank("gone")]
    /\ inbox' = [s \in Sockets |-> <<>>]
    /\ opening' = [at |-> "idle", by |-> Nobody, opens |-> MaxOpens]
    /\ control' = "none"
    /\ record' = "none" /\ writes' = [writes EXCEPT !.queued = 0, !.awaited = 0]
    /\ term' = NoTerm /\ focused' = FALSE
    /\ UNCHANGED file

\* After the exits or a second, whichever comes first, the writes that are
\* queued by then are awaited.
Drains ==
    /\ life = "killing"
    /\ life' = "draining"
    /\ writes' = [writes EXCEPT !.awaited = writes.queued]
    /\ UNCHANGED <<opening, pty, control, record, file, term, focused, browserVars, pageVars>>

Mutant_ShutdownEnds ==
    /\ life = "draining"
    /\ Gone("stopped")

\* The Host is stopped and the process exits.  The exit of a provider that took
\* longer is still seen meanwhile, and its write not awaited.
ShutdownEnds ==
    /\ life = "draining"
    /\ writes.awaited = 0
    /\ Gone("stopped")

RuntimeDies ==
    /\ Alive
    /\ Gone("crashed")

\* createControllerSessionManager: a session left running was interrupted.
Boot ==
    /\ life \in {"stopped", "crashed"}
    /\ file = "running"
    /\ file' = "interrupted"
    /\ UNCHANGED <<browser, socket, opening, pty, control, record, writes, term, focused, life, pageVars>>
=============================================================================

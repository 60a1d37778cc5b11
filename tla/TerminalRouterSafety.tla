-------------------------- MODULE TerminalRouterSafety --------------------------
(***************************************************************************)
(* Safety of the sockets of a browser session in TerminalRouter, for any   *)
(* number of sockets and any bounds.                                       *)
(*                                                                         *)
(* CloseSteps reduces the steps of session, router and pages to what they  *)
(* do to the sockets: nothing, or close some, or open one in a session     *)
(* that serves, or what BrowserSessions itself does.                       *)
(*                                                                         *)
(* RouterInv relates what a page that reads an open socket has sent, what  *)
(* is awaited for it, and its place in the terminal: a page that shows     *)
(* output is at the stream's cursor, a page that writes has numbered its   *)
(* messages on from the sequence the terminal expects.                     *)
(***************************************************************************)
EXTENDS TerminalRouter, TLAPS

BrowserType == browser \in [status : {"active", "ended", "expired"}, expiring : BOOLEAN, ending : BOOLEAN]

SocketType == socket \in [Sockets -> {"none", "open", "closing", "closed"}]

\* No socket is open that was not.
OpensNone == \A s \in Sockets : socket'[s] = "open" => socket[s] = "open"

\* What a step of anybody else does to the browser session and its sockets.
CloseStep ==
    \/ UNCHANGED browserVars
    \/ SocketType' /\ OpensNone /\ UNCHANGED browser
    \/ \E s \in Sockets : Upgrade(s)
    \/ BrowserStep
    \/ BrowserType' /\ SocketType' /\ \A s \in Sockets : socket'[s] # "open"

\* Asking sockets to close opens none.
LEMMA ClosedCloses ==
  ASSUME SocketType, NEW sockets
  PROVE  /\ Closed(sockets) \in [Sockets -> {"none", "open", "closing", "closed"}]
         /\ \A s \in Sockets : Closed(sockets)[s] = "open" => socket[s] = "open"
         /\ \A s \in Sockets : s \in sockets => Closed(sockets)[s] # "open"
BY DEF Closed, SocketType

\* A protocol error closes the socket it came over.
LEMMA RejectCloses ==
  ASSUME SocketType, NEW s \in Sockets, NEW at, Reject(s, at), UNCHANGED browser
  PROVE  CloseStep
BY ClosedCloses DEF Reject, CloseStep, OpensNone, SocketType

\* The messages of a socket.
LEMMA RouterCloses ==
  ASSUME SocketType, NEW s \in Sockets, Router(s) \/ PageSends(s)
  PROVE  CloseStep
<1>1. CASE Connect(s)
  BY <1>1 DEF Connect, CloseStep
<1>2. CASE Ignore(s)
  BY <1>2, ClosedCloses DEF Ignore, CloseStep, OpensNone, SocketType
<1>3. CASE HandshakeTimeout(s)
  BY <1>3, RejectCloses DEF HandshakeTimeout
<1>4. CASE Hello(s) \/ Negotiated(s) \/ PageSends(s)
  BY <1>4 DEF Hello, Negotiated, PageSends, CloseStep
<1>5. CASE HelloRefused(s)
  BY <1>5, RejectCloses DEF HelloRefused
<1>6. CASE AttachBegins(s)
  BY <1>6, RejectCloses DEF AttachBegins, CloseStep, browserVars
<1>7. CASE AttachEnds(s)
  BY <1>7, RejectCloses DEF AttachEnds, CloseStep, browserVars
<1>8. CASE AttachFails(s)
  BY <1>8, RejectCloses DEF AttachFails
<1>9. CASE Input(s)
  BY <1>9, RejectCloses DEF Input, CloseStep, browserVars
<1>10. CASE Resize(s)
  BY <1>10, RejectCloses DEF Resize, CloseStep, browserVars
<1>11. CASE Leave(s)
  BY <1>11, ClosedCloses DEF Leave, CloseStep, OpensNone, SocketType
<1>12. CASE SocketCloses(s)
  BY <1>12 DEF SocketCloses, CloseStep, OpensNone, SocketType
<1> QED
  BY <1>1, <1>2, <1>3, <1>4, <1>5, <1>6, <1>7, <1>8, <1>9, <1>10, <1>11, <1>12 DEF Router

\* The provider session, and the end of the process.
LEMMA SessionCloses ==
  ASSUME SocketType, Session
  PROVE  CloseStep
<1>1. CASE ShutDown
  BY <1>1, ClosedCloses DEF ShutDown, CloseStep, OpensNone, SocketType
<1>2. CASE ShutdownEnds \/ RuntimeDies
  <2>1. Gone("stopped") \/ Gone("crashed")
    BY <1>2 DEF ShutdownEnds, RuntimeDies
  <2>2. /\ browser' = [status |-> "ended", expiring |-> FALSE, ending |-> FALSE]
        /\ socket' = [s \in Sockets |-> "closed"]
    BY <2>1 DEF Gone
  <2> QED
    BY <2>2 DEF CloseStep, SocketType, BrowserType
<1>3. CASE KillProviders \/ Drains \/ Boot
  BY <1>3 DEF KillProviders, Drains, Boot, CloseStep, browserVars
<1>4. CASE Probed \/ StartFails \/ Spawned \/ Ready \/ Persist \/ OpenFails \/ Opened
  BY <1>4 DEF Probed, StartFails, Spawned, Ready, Persist, OpenFails, Opened, CloseStep
<1>5. CASE Output \/ Exit
  BY <1>5 DEF Output, Exit, CloseStep
<1>6. CASE \E s \in Sockets : OpenSession(s)
  BY <1>6 DEF OpenSession, CloseStep
<1> QED
  BY <1>1, <1>2, <1>3, <1>4, <1>5, <1>6 DEF Session

\* What any step does to the sockets.
LEMMA CloseSteps ==
  ASSUME SocketType, [Next]_vars
  PROVE  CloseStep
<1>1. CASE Browser
  BY <1>1 DEF Browser, CloseStep
<1>2. CASE UNCHANGED vars
  BY <1>2 DEF vars, CloseStep
<1> QED
  BY <1>1, <1>2, RouterCloses, SessionCloses DEF Next

SocketInv == BrowserType /\ SocketType /\ RevokedSocketsClose

\* A session that is over has no socket to lose: only one that serves gains any.
LEMMA SocketInvStep ==
  SocketInv /\ [Next]_vars => SocketInv'
<1> SUFFICES ASSUME SocketInv, [Next]_vars
             PROVE  SocketInv'
  OBVIOUS
<1>1. CloseStep
  BY CloseSteps DEF SocketInv
<1>2. CASE UNCHANGED browserVars
  BY <1>2 DEF SocketInv, BrowserType, SocketType, RevokedSocketsClose, browserVars
<1>3. CASE SocketType' /\ OpensNone /\ UNCHANGED browser
  BY <1>3 DEF SocketInv, BrowserType, RevokedSocketsClose, OpensNone
<1>4. CASE \E s \in Sockets : Upgrade(s)
  BY <1>4 DEF Upgrade, SessionServes, SocketInv, BrowserType, SocketType, RevokedSocketsClose
<1>5. CASE BrowserStep
  <2>1. CASE ExpireSession
    BY <2>1 DEF ExpireSession, SocketInv, SocketType, RevokedSocketsClose, BrowserType
  <2>2. CASE RevokeExpired
    <3>1. SocketType' /\ \A s \in Sockets : socket'[s] # "open"
      BY <2>2, ClosedCloses DEF RevokeExpired, SocketInv, SocketType
    <3>2. BrowserType'
      BY <2>2 DEF RevokeExpired, SocketInv, BrowserType
    <3> QED
      BY <3>1, <3>2 DEF SocketInv, RevokedSocketsClose
  <2>3. CASE EndSession
    BY <2>3 DEF EndSession, SocketInv, SocketType, RevokedSocketsClose, BrowserType
  <2>4. CASE SessionEnded
    <3>1. /\ SocketType'
          /\ \/ UNCHANGED socket /\ browser' = [browser EXCEPT !.ending = FALSE]
             \/ \A s \in Sockets : socket'[s] # "open"
      BY <2>4, ClosedCloses DEF SessionEnded, SocketInv, SocketType
    <3>2. BrowserType'
      BY <2>4 DEF SessionEnded, SocketInv, BrowserType
    <3> QED
      BY <3>1, <3>2 DEF SocketInv, BrowserType, RevokedSocketsClose
  <2> QED
    BY <1>5, <2>1, <2>2, <2>3, <2>4 DEF BrowserStep
<1>6. CASE BrowserType' /\ SocketType' /\ \A s \in Sockets : socket'[s] # "open"
  BY <1>6 DEF SocketInv, RevokedSocketsClose
<1> QED
  BY <1>1, <1>2, <1>3, <1>4, <1>5, <1>6 DEF CloseStep

\* RevokedSocketsClose holds for any number of sockets: once a session has
\* expired or ended and its audits are behind it, none of its sockets is open
\* (expireBrowserSession, endBrowserSession and the upgrade of daemon/http).
THEOREM NoSocketOutlivesItsSession == Spec => []RevokedSocketsClose
<1>1. Init => SocketInv
  BY DEF Init, BrowserInit, SocketInv, BrowserType, SocketType, RevokedSocketsClose
<1>2. SocketInv => RevokedSocketsClose
  BY DEF SocketInv
<1> QED
  BY <1>1, <1>2, SocketInvStep, PTL DEF Spec

-----------------------------------------------------------------------------
(* The terminal of the sockets *)

PageRecord ==
    [at : Stages, output : Nat, input : 0..MaxInputs, resize : 0..MaxResizes, eof : BOOLEAN]

\* A page sends no more than it may.
Sent ==
    [type : {"hello"}] \cup [type : {"attach"}, mode : Modes]
    \cup [type : {"input"}, seq : 0..(MaxInputs - 1)]
    \cup [type : {"resize"}, seq : 0..(MaxResizes - 1)]

Works == {"idle", "greeting", "greeting-focused", "read-write", "read-only"}

Term ==
    [low : 0..(MaxOutput + 1), output : 0..(MaxOutput + 1), eof : BOOLEAN,
     writer : Sockets \cup {Nobody}, live : BOOLEAN,
     readers : SUBSET Sockets, handlers : SUBSET Sockets,
     input : 0..MaxInputs, resize : 0..MaxResizes]

Typed ==
    /\ BrowserType /\ SocketType /\ SessionTypeOK
    /\ page \in [Sockets -> PageRecord]
    /\ inbox \in [Sockets -> Seq(Sent)]
    /\ \A s \in Sockets : Len(inbox[s]) <= MaxInbox
    /\ busy \in [Sockets -> Works]

\* What is known of the file once an exit was seen.  What the shutdown waits for is the
\* whole queue, unless the exit's write is behind it.
ExitInv ==
    /\ Alive => record = "exited" /\ (writes.queued = 0 /\ ~writes.refused => file = "exited")
    /\ life = "draining" /\ ~writes.behind => writes.awaited = writes.queued
    /\ life = "stopped" /\ ~writes.behind /\ ~writes.refused => file = "exited"

\* Where the start of the session and its process are with one another, and with the
\* writes of the file.
PtyInv ==
    /\ opening.at \in {"probing", "preparing"} => pty = "none"
    /\ opening.at = "awaiting" => pty \in {"running", "killed"}
    /\ opening.at \in {"persisting", "auditing"} => pty \in {"running", "killed", "exited"}
    /\ focused => opening.at = "idle" /\ pty # "none"
    /\ opening.at \in {"probing", "preparing", "awaiting"} \/ pty = "none" => writes.queued = 0
    /\ pty = "none" => term.output = 0
    /\ pty \in {"running", "killed"} => writes.queued <= 1 /\ term.output <= MaxOutput
    /\ pty = "exited" => ExitInv

\* The messages of one type are numbered, one after the other, from the one number to
\* the other.
Counted(messages, type, from, to) ==
    \E at \in [1..(Len(messages) + 1) -> Nat] :
      /\ at[1] = from /\ at[Len(messages) + 1] = to
      /\ \A i \in 1..Len(messages) :
           IF messages[i].type = type
           THEN messages[i].seq = at[i] /\ at[i + 1] = at[i] + 1
           ELSE at[i + 1] = at[i]

\* What a page sent as a writer continues what the terminal was given.
Sequenced(s) ==
    /\ Counted(inbox[s], "input", term.input, page[s].input)
    /\ Counted(inbox[s], "resize", term.resize, page[s].resize)
    /\ \A i \in 1..Len(inbox[s]) : inbox[s][i].type \in {"input", "resize"}

\* A socket that has no part in the terminal.
Apart(s) == s \notin term.readers /\ s \notin term.handlers /\ term.writer # s

\* What a page that reads an open socket has sent, and what the runtime makes of it.
Phase(s) ==
    \/ /\ page[s].at = "hello" /\ Apart(s)
       /\ \/ inbox[s] = <<[type |-> "hello"]>> /\ busy[s] = "idle"
          \/ inbox[s] = <<>> /\ busy[s] = "greeting"
          \/ inbox[s] = <<>> /\ busy[s] = "greeting-focused" /\ focused
    \/ /\ page[s].at = "ready" /\ Apart(s)
       /\ inbox[s] = <<>> /\ busy[s] = "idle"
    \/ /\ page[s].at = "attaching" /\ focused
       /\ \/ /\ Apart(s) /\ busy[s] = "idle"
             /\ \E mode \in Modes : inbox[s] = <<[type |-> "attach", mode |-> mode]>>
          \/ /\ inbox[s] = <<>> /\ busy[s] = "read-write" /\ s \notin term.handlers
             /\ term.writer = s => ~term.live
          \/ /\ inbox[s] = <<>> /\ busy[s] = "read-only" /\ s \notin term.handlers
             /\ term.writer # s
    \/ /\ page[s].at = "read-write" /\ focused
       /\ term.writer = s /\ term.live /\ page[s].output = term.output
       /\ busy[s] = "idle" /\ Sequenced(s)
    \/ /\ page[s].at = "read-only" /\ focused
       /\ s \in term.handlers /\ page[s].output = term.output
       /\ busy[s] = "idle" /\ inbox[s] = <<>>

Surface(s) ==
    /\ socket[s] = "none" =>
         page[s] = Blank("away") /\ inbox[s] = <<>> /\ busy[s] = "idle" /\ Apart(s)
    /\ socket[s] = "open" /\ Reads(s) => Phase(s)
    /\ page[s].at # "output mismatched"
    /\ page[s].at = "input refused" => pty \in {"exited", "lost"}

\* What was awaited in a process that is gone is not awaited any more.
Stopped == ~Alive => \A s \in Sockets : busy[s] = "idle"

RouterInv == Typed /\ PtyInv /\ Stopped /\ \A s \in Sockets : Surface(s)

\* An empty queue carries a number from itself to itself.
LEMMA CountedNone ==
  ASSUME NEW type, NEW n \in Nat
  PROVE  Counted(<<>>, type, n, n)
<1>1. PICK at : at = [i \in 1..1 |-> n]
  OBVIOUS
<1>2. Len(<<>>) = 0 /\ at \in [1..(Len(<<>>) + 1) -> Nat] /\ at[1] = n /\ 1..0 = {}
  BY <1>1
<1> QED
  BY <1>2 DEF Counted

\* A message with the number that is next goes behind the others.
LEMMA CountedMore ==
  ASSUME NEW messages \in Seq(Sent), NEW type, NEW from, NEW to \in Nat,
         Counted(messages, type, from, to),
         NEW m \in Sent, m.type = type => m.seq = to
  PROVE  Counted(Append(messages, m), type, from, IF m.type = type THEN to + 1 ELSE to)
<1> DEFINE n == Len(messages)
           later == Append(messages, m)
           next == IF m.type = type THEN to + 1 ELSE to
<1>1. n \in Nat /\ Len(later) = n + 1 /\ later[n + 1] = m /\ \A i \in 1..n : later[i] = messages[i]
  OBVIOUS
<1>2. PICK at \in [1..(n + 1) -> Nat] :
        /\ at[1] = from /\ at[n + 1] = to
        /\ \A i \in 1..n : IF messages[i].type = type
                           THEN messages[i].seq = at[i] /\ at[i + 1] = at[i] + 1
                           ELSE at[i + 1] = at[i]
  BY DEF Counted
<1>3. next \in Nat
  OBVIOUS
<1>4. PICK on : on = [i \in 1..(n + 2) |-> IF i = n + 2 THEN next ELSE at[i]]
  OBVIOUS
<1> HIDE DEF n, later
<1>5. /\ on \in [1..(n + 2) -> Nat] /\ on[n + 2] = next
      /\ \A i \in 1..(n + 1) : on[i] = at[i]
  BY <1>1, <1>3, <1>4
<1> HIDE DEF next
<1>6. ASSUME NEW i \in 1..(n + 1)
      PROVE  IF later[i].type = type THEN later[i].seq = on[i] /\ on[i + 1] = on[i] + 1
             ELSE on[i + 1] = on[i]
  <2>1. CASE i \in 1..n
    <3>1. i \in 1..(n + 1) /\ i + 1 \in 1..(n + 1)
      BY <1>1, <2>1
    <3>2. on[i] = at[i] /\ on[i + 1] = at[i + 1] /\ later[i] = messages[i]
      BY <1>1, <1>5, <2>1, <3>1
    <3> QED
      BY <1>2, <2>1, <3>2
  <2>2. CASE i = n + 1
    <3>1. on[i] = to /\ on[i + 1] = next /\ later[i] = m
      BY <1>1, <1>2, <1>5, <2>2
    <3> QED
      BY <3>1 DEF next
  <2> QED
    BY <1>1, <2>1, <2>2
<1>7. on[1] = from /\ on[Len(later) + 1] = next /\ on \in [1..(Len(later) + 1) -> Nat]
  BY <1>1, <1>2, <1>5
<1>8. Counted(later, type, from, next)
  BY <1>1, <1>6, <1>7 DEF Counted
<1> QED
  BY <1>8 DEF later, next

\* The first message of the type has the first number; without it the others go on from
\* the next.
LEMMA CountedLess ==
  ASSUME NEW messages \in Seq(Sent), messages # <<>>, NEW type, NEW from, NEW to,
         Counted(messages, type, from, to)
  PROVE  IF Head(messages).type = type
         THEN Head(messages).seq = from /\ Counted(Tail(messages), type, from + 1, to)
         ELSE Counted(Tail(messages), type, from, to)
<1> DEFINE n == Len(messages)
           rest == Tail(messages)
<1>1. /\ n \in Nat \ {0} /\ Len(rest) = n - 1 /\ Head(messages) = messages[1]
      /\ \A i \in 1..(n - 1) : rest[i] = messages[i + 1]
  OBVIOUS
<1>2. PICK at \in [1..(n + 1) -> Nat] :
        /\ at[1] = from /\ at[n + 1] = to
        /\ \A i \in 1..n : IF messages[i].type = type
                           THEN messages[i].seq = at[i] /\ at[i + 1] = at[i] + 1
                           ELSE at[i + 1] = at[i]
  BY DEF Counted
<1>3. PICK on : on = [i \in 1..n |-> at[i + 1]]
  OBVIOUS
<1> HIDE DEF n, rest
<1>4. on \in [1..n -> Nat] /\ \A i \in 1..n : on[i] = at[i + 1]
  BY <1>1, <1>3
<1>5. ASSUME NEW i \in 1..(n - 1)
      PROVE  IF rest[i].type = type THEN rest[i].seq = on[i] /\ on[i + 1] = on[i] + 1
             ELSE on[i + 1] = on[i]
  <2>1. i \in 1..n /\ i + 1 \in 1..n
    BY <1>1
  <2>2. on[i] = at[i + 1] /\ on[i + 1] = at[(i + 1) + 1] /\ rest[i] = messages[i + 1]
    BY <1>1, <1>4, <2>1
  <2> QED
    BY <1>2, <2>1, <2>2
<1>6. /\ on \in [1..(Len(rest) + 1) -> Nat]
      /\ on[1] = at[2] /\ on[Len(rest) + 1] = to
      /\ \A i \in 1..Len(rest) : IF rest[i].type = type
                                 THEN rest[i].seq = on[i] /\ on[i + 1] = on[i] + 1
                                 ELSE on[i + 1] = on[i]
  BY <1>1, <1>2, <1>4, <1>5
<1>7. Counted(rest, type, at[2], to)
  BY <1>6 DEF Counted
<1>8. IF messages[1].type = type THEN messages[1].seq = from /\ at[2] = from + 1 ELSE at[2] = from
  BY <1>1, <1>2
<1> QED
  BY <1>1, <1>7, <1>8 DEF rest

\* Sending and taking messages.
LEMMA Queues ==
  ASSUME NEW messages \in Seq(Sent)
  PROVE  /\ Len(messages) \in Nat
         /\ \A m \in Sent : /\ Append(messages, m) \in Seq(Sent) /\ Len(Append(messages, m)) = Len(messages) + 1
                            /\ messages = <<>> => Append(messages, m) = <<m>>
         /\ messages # <<>> => /\ Head(messages) \in Sent /\ Tail(messages) \in Seq(Sent)
                               /\ Len(Tail(messages)) = Len(messages) - 1
         /\ \A m : Head(<<m>>) = m /\ Tail(<<m>>) = <<>> /\ <<m>> # <<>>
<1>1. /\ Len(messages) \in Nat
      /\ \A m \in Sent : /\ Append(messages, m) \in Seq(Sent) /\ Len(Append(messages, m)) = Len(messages) + 1
      /\ messages # <<>> => /\ Head(messages) \in Sent /\ Tail(messages) \in Seq(Sent)
                            /\ Len(Tail(messages)) = Len(messages) - 1
  OBVIOUS
<1>2. \A m : Head(<<m>>) = m /\ Tail(<<m>>) = <<>> /\ <<m>> # <<>>
  OBVIOUS
<1>3. \A m \in Sent : messages = <<>> => Append(messages, m) = <<m>>
  OBVIOUS
<1> QED
  BY <1>1, <1>2, <1>3

\* What staging an attachment does to the parts of the stream.
LEMMA StagedFields ==
  ASSUME term \in Term, NEW s \in Sockets, NEW mode \in {"read-write", "read-only"},
         term' = Staged(s, mode)
  PROVE  /\ term' \in Term /\ term'.low = term.low /\ term'.output = term.output
         /\ term'.writer = (IF mode = "read-write" THEN s
                            ELSE IF term.writer = s THEN Nobody ELSE term.writer)
         /\ term'.live = (mode # "read-write" /\ term.live /\ term.writer # s)
         /\ term'.readers = (IF mode = "read-write" THEN term.readers \ {s} ELSE term.readers \cup {s})
         /\ term'.handlers = term.handlers \ {s}
         /\ term'.input = term.input /\ term'.resize = term.resize
<1>1. CASE mode = "read-write"
  BY <1>1 DEF Staged, Term
<1>2. CASE mode = "read-only"
  BY <1>2 DEF Staged, Term
<1> QED
  BY <1>1, <1>2

\* What activating an attachment does to them, and detaching.
LEMMA TermFields ==
  ASSUME term \in Term, NEW s \in Sockets
  PROVE  /\ LET t == Activated(s, "read-write") IN
              /\ t \in Term
              /\ t.low = term.low /\ t.output = term.output /\ t.writer = term.writer /\ t.live
              /\ t.readers = term.readers /\ t.handlers = term.handlers
              /\ t.input = term.input /\ t.resize = term.resize
         /\ LET t == Activated(s, "read-only") IN
              /\ t \in Term
              /\ t.low = term.low /\ t.output = term.output /\ t.writer = term.writer
              /\ t.live = term.live
              /\ t.readers = term.readers /\ t.handlers = term.handlers \cup {s}
              /\ t.input = term.input /\ t.resize = term.resize
         /\ LET t == Left(s) IN
              /\ t \in Term
              /\ t.low = term.low /\ t.output = term.output
              /\ t.writer = (IF term.writer = s THEN Nobody ELSE term.writer)
              /\ t.live = (term.live /\ term.writer # s)
              /\ t.readers = term.readers \ {s} /\ t.handlers = term.handlers \ {s}
              /\ t.input = term.input /\ t.resize = term.resize
BY DEF Activated, Left, Term

\* The place of a socket in the terminal, and how far the stream is, stay as they are.
Same(t) ==
    /\ (term'.writer = t) <=> (term.writer = t)
    /\ term.writer = t =>
         term'.live = term.live /\ term'.input = term.input /\ term'.resize = term.resize
    /\ (t \in term'.readers) <=> (t \in term.readers)
    /\ (t \in term'.handlers) <=> (t \in term.handlers)
    /\ term'.output = term.output

\* A socket nothing happens to.
Untouched(t) ==
    /\ page'[t] = page[t] /\ inbox'[t] = inbox[t] /\ busy'[t] = busy[t] /\ socket'[t] = socket[t]
    /\ Same(t)

\* What holds of a socket nothing happens to goes on to hold.
LEMMA UntouchedKeeps ==
  ASSUME Typed, NEW t \in Sockets, Surface(t), Untouched(t),
         focused => focused', pty' = pty \/ (pty \in {"exited", "lost"} => pty' \in {"exited", "lost"})
  PROVE  Surface(t)'
<1>1. Reads(t)' <=> Reads(t)
  BY DEF Reads, Untouched
<1>2. Apart(t)' <=> Apart(t)
  BY DEF Apart, Untouched, Same
<1>3. term.writer = t /\ Sequenced(t) => Sequenced(t)'
  BY DEF Sequenced, Untouched, Same
<1>4. Phase(t) => Phase(t)'
  BY <1>2, <1>3 DEF Phase, Untouched, Same
<1> QED
  BY <1>1, <1>2, <1>4 DEF Surface, Untouched

\* A message or a close of one socket: what it leaves alone, and the types.
Local(s) ==
    /\ UNCHANGED <<opening, pty, control, record, file, writes, focused, life>>
    /\ page' \in [Sockets -> PageRecord] /\ inbox' \in [Sockets -> Seq(Sent)] /\ busy' \in [Sockets -> Works]
    /\ Len(inbox'[s]) <= MaxInbox
    /\ term' \in Term /\ term'.handlers \subseteq term'.readers
    /\ term'.low = term.low /\ term'.output = term.output
    /\ \A t \in Sockets \ {s} : Untouched(t)

\* A protocol error: the page, if it still reads, is told, and the socket closes.
LEMMA Rejected ==
  ASSUME Typed, NEW s \in Sockets, NEW at \in Stages, Reject(s, at)
  PROVE  /\ page' \in [Sockets -> PageRecord] /\ inbox' \in [Sockets -> Seq(Sent)]
         /\ inbox'[s] = <<>> /\ Len(inbox'[s]) <= MaxInbox
         /\ \A t \in Sockets \ {s} : page'[t] = page[t] /\ inbox'[t] = inbox[t] /\ socket'[t] = socket[t]
         /\ socket'[s] # "open" /\ (socket'[s] = "none" => socket[s] = "none")
         /\ \/ page'[s] = page[s]
            \/ page'[s] = Blank(at) /\ socket[s] = "open" /\ Reads(s)
<1>1. Blank(at) \in PageRecord
  BY TerminalAssumption DEF Blank, PageRecord
<1>2. page' \in [Sockets -> PageRecord] /\ \A t \in Sockets \ {s} : page'[t] = page[t]
  BY <1>1 DEF Reject, Tell, Typed
<1>3. \/ page'[s] = page[s]
      \/ page'[s] = Blank(at) /\ socket[s] = "open" /\ Reads(s)
  BY DEF Reject, Tell, Typed
<1>4. /\ inbox' \in [Sockets -> Seq(Sent)] /\ inbox'[s] = <<>> /\ Len(inbox'[s]) <= MaxInbox
      /\ \A t \in Sockets \ {s} : inbox'[t] = inbox[t]
  <2>1. <<>> \in Seq(Sent) /\ Len(<<>>) = 0 /\ MaxInbox \in Nat
    BY TerminalAssumption
  <2>2. inbox' = [inbox EXCEPT ![s] = <<>>]
    BY DEF Reject
  <2> QED
    BY <2>1, <2>2 DEF Typed
<1>5. /\ \A t \in Sockets \ {s} : socket'[t] = socket[t]
      /\ socket'[s] # "open" /\ (socket'[s] = "none" => socket[s] = "none")
  BY DEF Reject, Closed
<1> QED
  BY <1>2, <1>3, <1>4, <1>5

\* A socket that was rejected has nothing more to say about its page.
LEMMA RejectedSurface ==
  ASSUME Typed, NEW s \in Sockets, Surface(s), socket[s] # "none",
         NEW at \in {"gone", "input refused"}, Reject(s, at), pty' = pty,
         at = "input refused" /\ socket[s] = "open" /\ Reads(s) => pty \in {"exited", "lost"}
  PROVE  Surface(s)'
<1>1. at \in Stages
  BY DEF Stages
<1>2. /\ socket'[s] \notin {"none", "open"}
      /\ \/ page'[s] = page[s]
         \/ page'[s] = Blank(at) /\ socket[s] = "open" /\ Reads(s)
  BY <1>1, Rejected
<1>3. Blank(at).at = at
  BY DEF Blank
<1>4. page'[s].at # "output mismatched"
  BY <1>2, <1>3 DEF Surface
<1>5. page'[s].at = "input refused" => pty' \in {"exited", "lost"}
  BY <1>2, <1>3 DEF Surface
<1> QED
  BY <1>2, <1>4, <1>5 DEF Surface

\* The terminal after a message of one socket: the others keep their places.
TermLocal(s) ==
    /\ term' \in Term /\ term'.handlers \subseteq term'.readers
    /\ term'.low = term.low /\ term'.output = term.output
    /\ \A t \in Sockets \ {s} : Same(t)

\* Each operation of one socket on the stream leaves the others their places.
LEMMA TermLocals ==
  ASSUME Typed, NEW s \in Sockets
  PROVE  /\ term' = term => TermLocal(s)
         /\ \A mode \in {"read-write", "read-only"} :
              /\ term' = Staged(s, mode) /\ (mode = "read-write" => ~Taken(s)) => TermLocal(s)
              /\ term' = Activated(s, mode) /\ HoldsPlace(s, mode) => TermLocal(s)
         /\ term' = Left(s) => TermLocal(s)
         /\ term' = Written /\ term.writer = s /\ term.input < MaxInputs => TermLocal(s)
         /\ term' = Sized /\ term.writer = s /\ term.resize < MaxResizes => TermLocal(s)
<1>1. term \in Term /\ term.handlers \subseteq term.readers /\ Nobody \notin Sockets
  BY TerminalAssumption DEF Typed, SessionTypeOK, Term
<1>2. term' = term => TermLocal(s)
  BY <1>1 DEF TermLocal, Same
<1>3. ASSUME NEW mode \in {"read-write", "read-only"}, term' = Staged(s, mode), mode = "read-write" => ~Taken(s)
      PROVE  TermLocal(s)
  <2>1. /\ term' \in Term /\ term'.low = term.low /\ term'.output = term.output
        /\ term'.writer = (IF mode = "read-write" THEN s
                           ELSE IF term.writer = s THEN Nobody ELSE term.writer)
        /\ term'.live = (mode # "read-write" /\ term.live /\ term.writer # s)
        /\ term'.readers = (IF mode = "read-write" THEN term.readers \ {s} ELSE term.readers \cup {s})
        /\ term'.handlers = term.handlers \ {s}
        /\ term'.input = term.input /\ term'.resize = term.resize
    BY <1>1, <1>3, StagedFields
  <2>2. term.writer = s \/ term.writer = Nobody \/ mode # "read-write"
    BY <1>3 DEF Taken
  <2>3. ASSUME NEW t \in Sockets \ {s} PROVE Same(t)
    <3>1. t # s /\ t # Nobody /\ ((term'.writer = t) <=> (term.writer = t))
      BY <1>1, <2>1, <2>2
    <3>2. term.writer = t => term'.live = term.live
      BY <2>1, <2>2, <3>1, <1>1 DEF Term
    <3> QED
      BY <2>1, <3>1, <3>2 DEF Same
  <2> QED
    BY <1>1, <1>3, <2>1, <2>3 DEF TermLocal
<1>4. ASSUME NEW mode \in {"read-write", "read-only"}, term' = Activated(s, mode), HoldsPlace(s, mode)
      PROVE  TermLocal(s)
  <2>1. CASE mode = "read-write"
    BY <1>1, <1>4, <2>1, TermFields DEF TermLocal, Same, HoldsPlace
  <2>2. CASE mode = "read-only"
    BY <1>1, <1>4, <2>2, TermFields DEF TermLocal, Same, HoldsPlace
  <2> QED
    BY <1>4, <2>1, <2>2
<1>5. ASSUME term' = Left(s) PROVE TermLocal(s)
  <2>1. /\ term' \in Term /\ term'.low = term.low /\ term'.output = term.output
        /\ term'.writer = (IF term.writer = s THEN Nobody ELSE term.writer)
        /\ term'.live = (term.live /\ term.writer # s)
        /\ term'.readers = term.readers \ {s} /\ term'.handlers = term.handlers \ {s}
        /\ term'.input = term.input /\ term'.resize = term.resize
    BY <1>1, <1>5, TermFields
  <2>2. ASSUME NEW t \in Sockets \ {s} PROVE Same(t)
    <3>1. t # s /\ t # Nobody /\ ((term'.writer = t) <=> (term.writer = t))
      BY <1>1, <2>1
    <3>2. term.writer = t => term'.live = term.live
      BY <2>1, <3>1, <1>1 DEF Term
    <3> QED
      BY <2>1, <3>1, <3>2 DEF Same
  <2> QED
    BY <1>1, <2>1, <2>2 DEF TermLocal
<1>6. ASSUME term' = Written, term.writer = s, term.input < MaxInputs
      PROVE  TermLocal(s)
  <2>1. /\ term' \in Term /\ term'.low = term.low /\ term'.output = term.output
        /\ term'.writer = term.writer /\ term'.readers = term.readers /\ term'.handlers = term.handlers
    BY <1>1, <1>6, TerminalAssumption DEF Written, Term
  <2> QED
    BY <1>1, <1>6, <2>1 DEF TermLocal, Same
<1>7. ASSUME term' = Sized, term.writer = s, term.resize < MaxResizes
      PROVE  TermLocal(s)
  <2>1. /\ term' \in Term /\ term'.low = term.low /\ term'.output = term.output
        /\ term'.writer = term.writer /\ term'.readers = term.readers /\ term'.handlers = term.handlers
    BY <1>1, <1>7, TerminalAssumption DEF Sized, Term
  <2> QED
    BY <1>1, <1>7, <2>1 DEF TermLocal, Same
<1> QED
  BY <1>2, <1>3, <1>4, <1>5, <1>6, <1>7

\* A step of one socket keeps the invariant, where it keeps that socket's part of it.
LEMMA LocalKeeps ==
  ASSUME RouterInv, NEW s \in Sockets, Local(s), Surface(s)', BrowserType', SocketType', Alive \/ busy' = busy
  PROVE  RouterInv'
<1>1. SessionTypeOK'
  BY DEF RouterInv, Typed, SessionTypeOK, Local, Term
<1>2. \A t \in Sockets : Len(inbox'[t]) <= MaxInbox
  BY DEF RouterInv, Typed, Local, Untouched
<1>3. Typed'
  BY <1>1, <1>2 DEF Typed, Local
<1>4. PtyInv'
  BY DEF RouterInv, PtyInv, ExitInv, Local, Alive
<1>5. ASSUME NEW t \in Sockets PROVE Surface(t)'
  BY UntouchedKeeps DEF RouterInv, Local
<1>6. Stopped'
  BY DEF RouterInv, Stopped, Local, Alive
<1> QED
  BY <1>3, <1>4, <1>5, <1>6 DEF RouterInv

\* A rejected socket.
LEMMA RejectedKeeps ==
  ASSUME Typed, NEW s \in Sockets, Surface(s), socket[s] # "none",
         NEW at \in {"gone", "input refused"}, Reject(s, at),
         UNCHANGED <<opening, pty, control, record, file, writes, focused, life>>,
         at = "input refused" /\ socket[s] = "open" /\ Reads(s) => pty \in {"exited", "lost"},
         TermLocal(s), busy' \in [Sockets -> Works], \A t \in Sockets \ {s} : busy'[t] = busy[t]
  PROVE  Local(s) /\ Surface(s)'
<1>1. at \in Stages
  BY DEF Stages
<1>2. Surface(s)'
  BY RejectedSurface
<1>3. /\ page' \in [Sockets -> PageRecord] /\ inbox' \in [Sockets -> Seq(Sent)]
      /\ Len(inbox'[s]) <= MaxInbox
      /\ \A t \in Sockets \ {s} : page'[t] = page[t] /\ inbox'[t] = inbox[t] /\ socket'[t] = socket[t]
  BY <1>1, Rejected
<1> QED
  BY <1>2, <1>3 DEF Local, TermLocal, Untouched

\* Who is idle after a message, and who waits.
LEMMA Waiting ==
  ASSUME Typed, NEW s \in Sockets
  PROVE  /\ Idle(s) => busy' \in [Sockets -> Works] /\ busy'[s] = "idle"
                         /\ \A t \in Sockets \ {s} : busy'[t] = busy[t]
         /\ \A w \in Works : busy' = [busy EXCEPT ![s] = w] =>
              busy' \in [Sockets -> Works] /\ busy'[s] = w /\ \A t \in Sockets \ {s} : busy'[t] = busy[t]
BY DEF Typed, Idle, Works

\* A message is taken from the queue.
LEMMA Takes ==
  ASSUME Typed, NEW s \in Sockets, inbox[s] # <<>>, Taken1(s)
  PROVE  /\ inbox' \in [Sockets -> Seq(Sent)] /\ inbox'[s] = Tail(inbox[s])
         /\ Len(inbox'[s]) <= MaxInbox
         /\ \A t \in Sockets \ {s} : inbox'[t] = inbox[t]
<1>1. inbox[s] \in Seq(Sent) /\ Len(inbox[s]) <= MaxInbox /\ MaxInbox \in Nat
  BY TerminalAssumption DEF Typed
<1>2. Tail(inbox[s]) \in Seq(Sent) /\ Len(Tail(inbox[s])) <= MaxInbox
  <2>1. Tail(inbox[s]) \in Seq(Sent) /\ Len(Tail(inbox[s])) = Len(inbox[s]) - 1 /\ Len(inbox[s]) \in Nat
    BY <1>1, Queues
  <2> QED
    BY <1>1, <2>1
<1>3. inbox' = [inbox EXCEPT ![s] = Tail(inbox[s])]
  BY DEF Taken1
<1> QED
  BY <1>2, <1>3 DEF Typed

\* A message is sent.
LEMMA Sends ==
  ASSUME Typed, NEW s \in Sockets, NEW m \in Sent, Send(s, m)
  PROVE  /\ inbox' \in [Sockets -> Seq(Sent)] /\ inbox'[s] = Append(inbox[s], m)
         /\ inbox[s] = <<>> => inbox'[s] = <<m>>
         /\ Len(inbox'[s]) <= MaxInbox
         /\ \A t \in Sockets \ {s} : inbox'[t] = inbox[t]
<1>1. inbox[s] \in Seq(Sent) /\ Len(inbox[s]) < MaxInbox /\ MaxInbox \in Nat
  BY TerminalAssumption DEF Typed, Send
<1>2. /\ Append(inbox[s], m) \in Seq(Sent) /\ Len(Append(inbox[s], m)) <= MaxInbox
      /\ inbox[s] = <<>> => Append(inbox[s], m) = <<m>>
  <2>1. /\ Append(inbox[s], m) \in Seq(Sent) /\ Len(Append(inbox[s], m)) = Len(inbox[s]) + 1
        /\ Len(inbox[s]) \in Nat /\ (inbox[s] = <<>> => Append(inbox[s], m) = <<m>>)
    BY <1>1, Queues
  <2> QED
    BY <1>1, <2>1
<1>3. inbox' = [inbox EXCEPT ![s] = Append(inbox[s], m)]
  BY DEF Send
<1> QED
  BY <1>2, <1>3 DEF Typed

\* What the kinds of messages and the kinds of queues have in common.
LEMMA Kinds ==
  ASSUME Typed, NEW s \in Sockets, inbox[s] # <<>>
  PROVE  LET m == Head(inbox[s]) IN
         /\ m \in Sent
         /\ m.type = "attach" => m.mode \in Modes
         /\ m.type = "input" => m.seq \in Nat /\ m.seq < MaxInputs
         /\ m.type = "resize" => m.seq \in Nat /\ m.seq < MaxResizes
         /\ (\A i \in 1..Len(inbox[s]) : inbox[s][i].type \in {"input", "resize"})
              => m.type \in {"input", "resize"}
<1>1. inbox[s] \in Seq(Sent)
  BY DEF Typed
<1>2. Head(inbox[s]) \in Sent /\ Head(inbox[s]) = inbox[s][1] /\ 1 \in 1..Len(inbox[s])
  BY <1>1
<1>3. \A m \in Sent : /\ m.type = "attach" => m.mode \in Modes
                      /\ m.type = "input" => m.seq \in Nat /\ m.seq < MaxInputs
                      /\ m.type = "resize" => m.seq \in Nat /\ m.seq < MaxResizes
  BY TerminalAssumption DEF Sent
<1> QED
  BY <1>2, <1>3

\* What concerns no socket stays as it is.
Rest == UNCHANGED <<opening, pty, control, record, file, writes, focused, life>>

\* A socket something is queued or awaited for was opened.
LEMMA WasOpened ==
  ASSUME NEW s \in Sockets, Surface(s), inbox[s] # <<>> \/ busy[s] # "idle" \/ page[s].at # "away"
  PROVE  socket[s] # "none"
<1>1. Blank("away").at = "away"
  BY DEF Blank
<1> QED
  BY <1>1 DEF Surface

\* A page that is loaded.
LEMMA ConnectKeeps ==
  ASSUME Typed, NEW s \in Sockets, Surface(s), Connect(s)
  PROVE  Local(s) /\ Surface(s)'
<1> DEFINE m == [type |-> "hello"]
<1>1. /\ socket[s] = "none" /\ page[s] = Blank("away") /\ inbox[s] = <<>> /\ busy[s] = "idle" /\ Apart(s)
  BY DEF Connect, Upgrade, Surface
<1>2. m \in Sent /\ Send(s, m) /\ Rest /\ term' = term /\ busy' = busy
  BY DEF Connect, Sent, Rest, sessionVars
<1>3. /\ inbox' \in [Sockets -> Seq(Sent)] /\ inbox'[s] = <<m>> /\ Len(inbox'[s]) <= MaxInbox
      /\ \A t \in Sockets \ {s} : inbox'[t] = inbox[t]
  BY <1>1, <1>2, Sends
<1>4. page' \in [Sockets -> PageRecord] /\ page'[s].at = "hello" /\ \A t \in Sockets \ {s} : page'[t] = page[t]
  <2>1. page' = [page EXCEPT ![s].at = "hello"]
    BY DEF Connect
  <2> QED
    BY <2>1 DEF Typed, PageRecord, Stages
<1>5. socket'[s] = "open" /\ \A t \in Sockets \ {s} : socket'[t] = socket[t]
  BY DEF Connect, Upgrade, Typed, SocketType
<1>6. TermLocal(s) /\ busy' \in [Sockets -> Works]
  BY <1>2, TermLocals DEF Typed
<1>7. Local(s)
  BY <1>2, <1>3, <1>4, <1>5, <1>6 DEF Local, Rest, TermLocal, Untouched
<1>8. Apart(s)'
  BY <1>1, <1>2 DEF Apart
<1>9. Phase(s)'
  BY <1>1, <1>2, <1>3, <1>4, <1>8 DEF Phase
<1> QED
  BY <1>4, <1>5, <1>7, <1>9 DEF Surface

\* A message of a session that is over.
LEMMA IgnoreKeeps ==
  ASSUME Typed, NEW s \in Sockets, Surface(s), Ignore(s)
  PROVE  Local(s) /\ Surface(s)'
<1>1. socket[s] # "none"
  BY WasOpened DEF Ignore
<1>2. /\ socket' = Closed({s}) /\ inbox' = [inbox EXCEPT ![s] = <<>>]
      /\ Rest /\ term' = term /\ busy' = busy /\ page' = page
  BY DEF Ignore, Rest, sessionVars
<1>3. /\ inbox' \in [Sockets -> Seq(Sent)] /\ inbox'[s] = <<>> /\ Len(inbox'[s]) <= MaxInbox
      /\ \A t \in Sockets \ {s} : inbox'[t] = inbox[t]
  <2>1. <<>> \in Seq(Sent) /\ Len(<<>>) = 0 /\ MaxInbox \in Nat
    BY TerminalAssumption
  <2> QED
    BY <1>2, <2>1 DEF Typed
<1>4. /\ socket'[s] \notin {"open", "none"} /\ \A t \in Sockets \ {s} : socket'[t] = socket[t]
  BY <1>1, <1>2 DEF Closed
<1>5. TermLocal(s) /\ busy' \in [Sockets -> Works] /\ page' \in [Sockets -> PageRecord]
  BY <1>2, TermLocals DEF Typed
<1>6. Local(s)
  BY <1>2, <1>3, <1>4, <1>5 DEF Local, Rest, TermLocal, Untouched
<1> QED
  BY <1>2, <1>4, <1>6 DEF Surface, Rest

\* A handshake, or an attachment, that is refused.
LEMMA RefusedKeeps ==
  ASSUME Typed, NEW s \in Sockets, Surface(s),
         HandshakeTimeout(s) \/ HelloRefused(s) \/ AttachFails(s)
  PROVE  Local(s) /\ Surface(s)'
<1>1. socket[s] # "none"
  BY WasOpened DEF HandshakeTimeout, HelloRefused, AttachFails, Message1
<1>2. Reject(s, "gone") /\ Rest /\ term' = term /\ (busy' = busy \/ Idle(s))
  BY DEF HandshakeTimeout, HelloRefused, AttachFails, Rest, sessionVars
<1>3. TermLocal(s)
  BY <1>2, TermLocals
<1>4. busy' \in [Sockets -> Works] /\ \A t \in Sockets \ {s} : busy'[t] = busy[t]
  BY <1>2, Waiting DEF Typed
<1> QED
  BY <1>1, <1>2, <1>3, <1>4, RejectedKeeps DEF Rest

\* A hello.
LEMMA HelloKeeps ==
  ASSUME Typed, NEW s \in Sockets, Surface(s), Hello(s)
  PROVE  Local(s) /\ Surface(s)'
<1> DEFINE w == IF focused THEN "greeting-focused" ELSE "greeting"
<1>1. /\ busy[s] = "idle" /\ inbox[s] # <<>> /\ Head(inbox[s]).type = "hello" /\ Taken1(s)
      /\ busy' = [busy EXCEPT ![s] = w] /\ w \in Works
      /\ UNCHANGED page /\ UNCHANGED socket /\ UNCHANGED term /\ Rest
  BY DEF Hello, Message1, browserVars, sessionVars, Rest, Works
<1>2. socket[s] # "none"
  BY <1>1, WasOpened
<1>3. /\ inbox' \in [Sockets -> Seq(Sent)] /\ inbox'[s] = Tail(inbox[s]) /\ Len(inbox'[s]) <= MaxInbox
      /\ \A t \in Sockets \ {s} : inbox'[t] = inbox[t]
  BY <1>1, Takes
<1>4. busy' \in [Sockets -> Works] /\ busy'[s] = w /\ \A t \in Sockets \ {s} : busy'[t] = busy[t]
  BY <1>1, Waiting
<1>5. Local(s)
  <2>1. TermLocal(s) /\ page' \in [Sockets -> PageRecord]
    BY <1>1, TermLocals DEF Typed
  <2> QED
    BY <1>1, <1>3, <1>4, <2>1 DEF Local, Rest, TermLocal, Untouched
<1>6. ASSUME socket[s] = "open", Reads(s) PROVE Phase(s)'
  <2>1. Phase(s)
    BY <1>6 DEF Surface
  <2>2. ~(\A i \in 1..Len(inbox[s]) : inbox[s][i].type \in {"input", "resize"})
    BY <1>1, Kinds
  <2>3. \A mode \in Modes : inbox[s] # <<[type |-> "attach", mode |-> mode]>>
    BY <1>1
  <2>4. page[s].at = "hello" /\ Apart(s) /\ inbox[s] = <<[type |-> "hello"]>>
    BY <1>1, <2>1, <2>2, <2>3 DEF Phase, Sequenced
  <2>5. inbox'[s] = <<>>
    BY <1>3, <2>4
  <2>6. Apart(s)'
    BY <1>1, <2>4 DEF Apart
  <2> QED
    BY <1>1, <1>4, <2>4, <2>5, <2>6 DEF Phase, Rest
<1> QED
  BY <1>1, <1>2, <1>5, <1>6 DEF Surface, Reads, Rest

\* The acknowledgement reaches the page: it attaches at once, or waits.
LEMMA NegotiatedKeeps ==
  ASSUME Typed, NEW s \in Sockets, Surface(s), Negotiated(s)
  PROVE  Local(s) /\ Surface(s)'
<1> DEFINE m == [type |-> "attach", mode |-> "read-write-if-available"]
           at == busy[s] = "greeting-focused" /\ socket[s] = "open" /\ page[s].at = "hello"
<1>1. /\ busy[s] \in {"greeting", "greeting-focused"} /\ Idle(s)
      /\ UNCHANGED socket /\ UNCHANGED term /\ Rest
      /\ IF at THEN Send(s, m) /\ page' = [page EXCEPT ![s].at = "attaching"]
         ELSE Tell(s, Acknowledged(page[s])) /\ UNCHANGED inbox
  BY DEF Negotiated, browserVars, sessionVars, Rest
<1>2. socket[s] # "none" /\ m \in Sent
  BY <1>1, WasOpened DEF Sent, Modes
<1>3. busy' \in [Sockets -> Works] /\ busy'[s] = "idle" /\ \A t \in Sockets \ {s} : busy'[t] = busy[t]
  BY <1>1, Waiting
<1>4. TermLocal(s)
  BY <1>1, TermLocals
<1>5. ASSUME socket[s] = "open", Reads(s)
      PROVE  /\ page[s].at = "hello" /\ Apart(s) /\ inbox[s] = <<>>
             /\ busy[s] = "greeting-focused" => focused
  BY <1>1, <1>5 DEF Surface, Phase
<1>6. CASE at
  <2>1. /\ inbox' \in [Sockets -> Seq(Sent)] /\ (inbox[s] = <<>> => inbox'[s] = <<m>>)
        /\ Len(inbox'[s]) <= MaxInbox /\ \A t \in Sockets \ {s} : inbox'[t] = inbox[t]
    BY <1>1, <1>2, <1>6, Sends
  <2>2. page' \in [Sockets -> PageRecord] /\ page'[s].at = "attaching" /\ \A t \in Sockets \ {s} : page'[t] = page[t]
    BY <1>1, <1>6 DEF Typed, PageRecord, Stages
  <2>3. Local(s)
    BY <1>1, <1>3, <1>4, <2>1, <2>2 DEF Local, Rest, TermLocal, Untouched
  <2>4. Reads(s)
    BY <1>6 DEF Reads
  <2>5. Apart(s)'
    BY <1>1, <1>5, <1>6, <2>4 DEF Apart
  <2>6. inbox'[s] = <<m>> /\ m.mode \in Modes /\ focused'
    BY <1>1, <1>5, <1>6, <2>1, <2>4 DEF Rest, Modes
  <2>7. Phase(s)'
    BY <1>3, <2>2, <2>5, <2>6 DEF Phase, Modes
  <2> QED
    BY <1>1, <1>2, <2>2, <2>3, <2>7 DEF Surface
<1>7. CASE ~at
  <2>1. page' = [page EXCEPT ![s] = IF socket[s] = "open" THEN Acknowledged(page[s]) ELSE @] /\ inbox' = inbox
    BY <1>1, <1>7 DEF Tell
  <2>2. /\ page' \in [Sockets -> PageRecord] /\ \A t \in Sockets \ {s} : page'[t] = page[t]
        /\ IF socket[s] = "open" /\ page[s].at = "hello" THEN page'[s].at = "ready" ELSE page'[s] = page[s]
    BY <2>1 DEF Acknowledged, Typed, PageRecord, Stages
  <2>3. Local(s)
    BY <1>1, <1>3, <1>4, <2>1, <2>2 DEF Local, Rest, TermLocal, Untouched, Typed
  <2>4. ASSUME socket[s] = "open", Reads(s)' PROVE Phase(s)'
    <3>1. Reads(s)
      BY <2>2, <2>4 DEF Reads
    <3>2. page[s].at = "hello" /\ Apart(s) /\ inbox[s] = <<>>
      BY <1>5, <2>4, <3>1
    <3>3. page'[s].at = "ready" /\ inbox'[s] = <<>> /\ busy'[s] = "idle"
      BY <1>3, <2>1, <2>2, <2>4, <3>2
    <3>4. Apart(s)'
      BY <1>1, <3>2 DEF Apart
    <3> QED
      BY <3>3, <3>4 DEF Phase
  <2>5. page'[s].at # "output mismatched" /\ (page'[s].at = "input refused" => page[s].at = "input refused")
    BY <2>2 DEF Surface
  <2> QED
    BY <1>1, <1>2, <2>3, <2>4, <2>5 DEF Surface, Rest
<1> QED
  BY <1>6, <1>7

\* An attachment is staged, or refused.
LEMMA AttachBeginsKeeps ==
  ASSUME Typed, NEW s \in Sockets, Surface(s), AttachBegins(s)
  PROVE  Local(s) /\ Surface(s)'
<1> DEFINE asked == Head(inbox[s]).mode
           mode == Granted(s, asked)
<1>1. /\ busy[s] = "idle" /\ inbox[s] # <<>> /\ Head(inbox[s]).type = "attach" /\ Rest
      /\ IF Conflicts(s, asked)
         THEN Reject(s, "gone") /\ UNCHANGED <<term, busy>>
         ELSE /\ Taken1(s) /\ term' = Staged(s, mode) /\ busy' = [busy EXCEPT ![s] = mode]
              /\ UNCHANGED <<socket, page>>
  BY DEF AttachBegins, Message1, Rest
<1>2. socket[s] # "none"
  BY <1>1, WasOpened
<1>3. CASE Conflicts(s, asked)
  <2>1. TermLocal(s) /\ busy' \in [Sockets -> Works] /\ \A t \in Sockets \ {s} : busy'[t] = busy[t]
    BY <1>1, <1>3, TermLocals DEF Typed
  <2> QED
    BY <1>1, <1>2, <1>3, <2>1, RejectedKeeps DEF Rest
<1>4. CASE ~Conflicts(s, asked)
  <2>1. asked \in Modes
    BY <1>1, Kinds
  <2>2. mode \in {"read-write", "read-only"} /\ (mode = "read-write" => ~Taken(s))
    BY <1>4, <2>1 DEF Modes, Granted, Conflicts
  <2>3. TermLocal(s)
    BY <1>1, <1>4, <2>2, TermLocals
  <2>4. busy' \in [Sockets -> Works] /\ busy'[s] = mode /\ \A t \in Sockets \ {s} : busy'[t] = busy[t]
    BY <1>1, <1>4, <2>2, Waiting DEF Works
  <2>5. /\ inbox' \in [Sockets -> Seq(Sent)] /\ inbox'[s] = Tail(inbox[s]) /\ Len(inbox'[s]) <= MaxInbox
        /\ \A t \in Sockets \ {s} : inbox'[t] = inbox[t]
    BY <1>1, <1>4, Takes
  <2>6. Local(s)
    BY <1>1, <1>4, <2>3, <2>4, <2>5 DEF Local, Rest, TermLocal, Untouched, Typed
  <2>7. ASSUME socket[s] = "open", Reads(s) PROVE Phase(s)'
    <3>1. ~(\A i \in 1..Len(inbox[s]) : inbox[s][i].type \in {"input", "resize"})
      BY <1>1, Kinds
    <3>2. inbox[s] # <<[type |-> "hello"]>>
      BY <1>1
    <3>3. Phase(s)
      BY <2>7 DEF Surface
    <3>4. PICK any \in Modes : page[s].at = "attaching" /\ focused /\ Apart(s) /\ inbox[s] = <<[type |-> "attach", mode |-> any]>>
      BY <1>1, <3>1, <3>2, <3>3 DEF Phase, Sequenced
    <3>5. inbox'[s] = <<>> /\ page'[s].at = "attaching" /\ focused'
      BY <1>1, <1>4, <2>5, <3>4 DEF Rest
    <3>6. /\ term'.writer = (IF mode = "read-write" THEN s
                            ELSE IF term.writer = s THEN Nobody ELSE term.writer)
          /\ term'.live = (mode # "read-write" /\ term.live /\ term.writer # s)
          /\ term'.handlers = term.handlers \ {s}
      BY <1>1, <1>4, <2>2, StagedFields DEF Typed, SessionTypeOK, Term
    <3>7. s \notin term'.handlers /\ (mode = "read-write" => ~term'.live) /\ (mode = "read-only" => term'.writer # s)
      BY <3>4, <3>6, TerminalAssumption DEF Apart
    <3> QED
      BY <2>2, <2>4, <3>5, <3>7 DEF Phase
  <2> QED
    BY <1>1, <1>2, <1>4, <2>6, <2>7 DEF Surface, Reads, Rest
<1> QED
  BY <1>3, <1>4

\* The acknowledgement and the replay bring an attaching page up to the stream.
LEMMA ReplayCatchesUp ==
  ASSUME Typed, NEW s \in Sockets, NEW mode \in {"read-write", "read-only"}
  PROVE  /\ Replayed(s, mode) \in PageRecord
         /\ page[s].at # "attaching" =>
              Replayed(s, mode).at \in {page[s].at, "output mismatched"}
         /\ page[s].at \notin {"attaching", "read-write", "read-only"} => Replayed(s, mode) = page[s]
         /\ page[s].at = "attaching" =>
              /\ Replayed(s, mode).at = mode /\ Replayed(s, mode).output = term.output
              /\ Replayed(s, mode).input = term.input /\ Replayed(s, mode).resize = term.resize
<1>1. page[s] \in PageRecord
  BY DEF Typed
<1>2. /\ term.low \in Nat /\ term.output \in Nat /\ term.low <= term.output /\ term.eof \in BOOLEAN
      /\ term.input \in 0..MaxInputs /\ term.resize \in 0..MaxResizes
  BY TerminalAssumption DEF Typed, SessionTypeOK
<1>3. PICK p : p = Attached(page[s], mode, term.low, term.input, term.resize)
  OBVIOUS
<1>4. /\ p \in PageRecord
      /\ IF page[s].at = "attaching"
         THEN /\ p.at = mode /\ p.output = term.low /\ p.input = term.input /\ p.resize = term.resize
         ELSE p = page[s]
  <2>1. CASE page[s].at = "attaching"
    <3>1. p = [page[s] EXCEPT !.at = mode, !.output = term.low, !.input = term.input, !.resize = term.resize]
      BY <1>3, <2>1 DEF Attached
    <3>2. mode \in Stages
      BY DEF Stages
    <3> QED
      BY <1>1, <1>2, <2>1, <3>1, <3>2 DEF PageRecord
  <2>2. CASE page[s].at # "attaching"
    BY <1>1, <1>3, <2>2 DEF Attached
  <2> QED
    BY <2>1, <2>2
<1>5. PICK q : q = Shown(p, term.low, term.output, term.eof)
  OBVIOUS
<1>6. /\ q \in PageRecord
      /\ q.at \in {p.at, "output mismatched"} /\ q.input = p.input /\ q.resize = p.resize
      /\ p.at \notin {"attaching", "read-write", "read-only"} => q = p
      /\ p.at \in {"read-write", "read-only"} /\ p.output = term.low => q.at = p.at /\ q.output = term.output
  <2>1. CASE term.low >= term.output \/ p.at \notin {"attaching", "read-write", "read-only"}
    <3>1. q = p
      BY <1>5, <2>1 DEF Shown
    <3> QED
      BY <1>2, <1>4, <2>1, <3>1
  <2>2. CASE ~(term.low >= term.output \/ p.at \notin {"attaching", "read-write", "read-only"})
    <3>1. q = IF p.at = "attaching" \/ p.output # term.low THEN [p EXCEPT !.at = "output mismatched"]
              ELSE [p EXCEPT !.output = term.output, !.eof = term.eof]
      BY <1>5, <2>2, Zenon DEF Shown
    <3>2. CASE p.at = "attaching" \/ p.output # term.low
      BY <1>4, <2>2, <3>1, <3>2 DEF PageRecord, Stages
    <3>3. CASE ~(p.at = "attaching" \/ p.output # term.low)
      BY <1>2, <1>4, <2>2, <3>1, <3>3 DEF PageRecord
    <3> QED
      BY <3>2, <3>3
  <2> QED
    BY <2>1, <2>2
<1>7. q = Replayed(s, mode)
  BY <1>3, <1>5 DEF Replayed
<1> QED
  BY <1>4, <1>6, <1>7

\* An attachment is activated, or refused.
LEMMA AttachEndsKeeps ==
  ASSUME Typed, NEW s \in Sockets, Surface(s), AttachEnds(s)
  PROVE  Local(s) /\ Surface(s)'
<1> DEFINE mode == busy[s]
<1>1. /\ mode \in {"read-write", "read-only"} /\ Idle(s) /\ Rest
      /\ IF HoldsPlace(s, mode)
         THEN term' = Activated(s, mode) /\ Tell(s, Replayed(s, mode)) /\ UNCHANGED <<socket, inbox>>
         ELSE Reject(s, "gone") /\ UNCHANGED term
  BY DEF AttachEnds, Rest
<1>2. socket[s] # "none"
  BY <1>1, WasOpened
<1>3. busy' \in [Sockets -> Works] /\ busy'[s] = "idle" /\ \A t \in Sockets \ {s} : busy'[t] = busy[t]
  BY <1>1, Waiting
<1>4. CASE ~HoldsPlace(s, mode)
  <2>1. TermLocal(s)
    BY <1>1, <1>4, TermLocals
  <2> QED
    BY <1>1, <1>2, <1>3, <1>4, <2>1, RejectedKeeps DEF Rest
<1>5. CASE HoldsPlace(s, mode)
  <2>1. TermLocal(s)
    BY <1>1, <1>5, TermLocals
  <2>2. page' = [page EXCEPT ![s] = IF socket[s] = "open" THEN Replayed(s, mode) ELSE @]
    BY <1>1, <1>5 DEF Tell
  <2>3. /\ page' \in [Sockets -> PageRecord] /\ \A t \in Sockets \ {s} : page'[t] = page[t]
        /\ IF socket[s] = "open" THEN page'[s] = Replayed(s, mode) ELSE page'[s] = page[s]
    BY <1>1, <2>2, ReplayCatchesUp DEF Typed
  <2>4. Local(s)
    BY <1>1, <1>3, <1>5, <2>1, <2>3 DEF Local, Rest, TermLocal, Untouched, Typed
  <2>5. ASSUME socket[s] = "open", Reads(s) PROVE Phase(s)' /\ page'[s].at \in {"read-write", "read-only"}
    <3>1. /\ page[s].at = "attaching" /\ inbox[s] = <<>> /\ focused
      BY <1>1, <2>5 DEF Surface, Phase
    <3>2. /\ page'[s].at = mode /\ page'[s].output = term.output
          /\ page'[s].input = term.input /\ page'[s].resize = term.resize
      BY <1>1, <2>3, <2>5, <3>1, ReplayCatchesUp
    <3>3. inbox'[s] = <<>> /\ focused' /\ busy'[s] = "idle" /\ term \in Term
      BY <1>1, <1>3, <1>5, <3>1 DEF Rest, Typed, SessionTypeOK, Term
    <3>4. CASE mode = "read-write"
      <4>1. /\ term'.writer = s /\ term'.live /\ term'.output = term.output
            /\ term'.input = term.input /\ term'.resize = term.resize
        BY <1>1, <1>5, <3>3, <3>4, TermFields DEF HoldsPlace
      <4>2. term.input \in Nat /\ term.resize \in Nat
        BY <3>3, TerminalAssumption DEF Term
      <4>3. Sequenced(s)'
        <5>1. Counted(<<>>, "input", term.input, term.input) /\ Counted(<<>>, "resize", term.resize, term.resize)
          BY <4>2, CountedNone
        <5>2. \A i \in 1..Len(<<>>) : <<>>[i].type \in {"input", "resize"}
          OBVIOUS
        <5> QED
          BY <3>2, <3>3, <4>1, <5>1, <5>2 DEF Sequenced
      <4>4. page'[s].at = "read-write" /\ page'[s].output = term'.output
        BY <3>2, <3>4, <4>1
      <4> QED
        BY <3>3, <4>1, <4>3, <4>4 DEF Phase
    <3>5. CASE mode = "read-only"
      <4>1. s \in term'.handlers /\ term'.output = term.output
        BY <1>1, <1>5, <3>3, <3>5, TermFields
      <4>2. page'[s].at = "read-only" /\ page'[s].output = term'.output
        BY <3>2, <3>5, <4>1
      <4> QED
        BY <3>3, <4>1, <4>2 DEF Phase
    <3> QED
      BY <1>1, <3>4, <3>5
  <2>6. ~(socket[s] = "open" /\ Reads(s)) => page'[s] = page[s]
    BY <1>1, <2>3, ReplayCatchesUp DEF Reads
  <2>7. UNCHANGED <<socket, pty>>
    BY <1>1, <1>5 DEF Rest
  <2> QED
    BY <1>2, <2>4, <2>5, <2>6, <2>7 DEF Surface, Reads
<1> QED
  BY <1>4, <1>5

\* The page is left, or its socket has closed.
LEMMA LeaveKeeps ==
  ASSUME Typed, NEW s \in Sockets, Surface(s), Leave(s) \/ SocketCloses(s)
  PROVE  Local(s) /\ Surface(s)'
<1>1. socket[s] # "none"
  BY DEF Leave, SocketCloses
<1>2. /\ Rest /\ UNCHANGED <<inbox, busy>> /\ (term' = term \/ term' = Left(s))
      /\ page' = [page EXCEPT ![s] = Blank("gone")] \/ page' = page
  <2>1. CASE Leave(s)
    BY <2>1 DEF Leave, Rest, sessionVars
  <2>2. CASE SocketCloses(s)
    <3>1. page' = [page EXCEPT ![s] = IF Reads(s) THEN Blank("gone") ELSE @]
      BY <2>2 DEF SocketCloses
    <3>2. page' = [page EXCEPT ![s] = Blank("gone")] \/ page' = page
      BY <3>1 DEF Typed
    <3> QED
      BY <2>2, <3>2 DEF SocketCloses, Rest
  <2> QED
    BY <2>1, <2>2
<1>3. socket'[s] \notin {"none", "open"} /\ \A t \in Sockets \ {s} : socket'[t] = socket[t]
  BY DEF Leave, SocketCloses, Closed, Typed, SocketType
<1>4. Blank("gone") \in PageRecord /\ Blank("gone").at = "gone"
  BY TerminalAssumption DEF Blank, PageRecord, Stages
<1>5. /\ page' \in [Sockets -> PageRecord] /\ \A t \in Sockets \ {s} : page'[t] = page[t]
      /\ page'[s].at \in {page[s].at, "gone"}
  BY <1>2, <1>4 DEF Typed
<1>6. TermLocal(s)
  BY <1>2, TermLocals
<1>7. Local(s)
  BY <1>2, <1>3, <1>5, <1>6 DEF Local, Rest, TermLocal, Untouched, Typed
<1> QED
  BY <1>2, <1>3, <1>5, <1>7 DEF Surface, Rest

\* A writer that is heard sent its messages one after the other.
LEMMA WriterSends ==
  ASSUME Typed, NEW s \in Sockets, Phase(s), inbox[s] # <<>>, Head(inbox[s]).type \in {"input", "resize"}
  PROVE  /\ page[s].at = "read-write" /\ focused /\ term.writer = s /\ term.live
         /\ page[s].output = term.output /\ busy[s] = "idle" /\ Sequenced(s)
         /\ Head(inbox[s]).type = "input" =>
              /\ Head(inbox[s]).seq = term.input
              /\ Counted(Tail(inbox[s]), "input", term.input + 1, page[s].input)
              /\ Counted(Tail(inbox[s]), "resize", term.resize, page[s].resize)
         /\ Head(inbox[s]).type = "resize" =>
              /\ Head(inbox[s]).seq = term.resize
              /\ Counted(Tail(inbox[s]), "input", term.input, page[s].input)
              /\ Counted(Tail(inbox[s]), "resize", term.resize + 1, page[s].resize)
         /\ \A i \in 1..Len(Tail(inbox[s])) : Tail(inbox[s])[i].type \in {"input", "resize"}
<1>1. inbox[s] \in Seq(Sent)
  BY DEF Typed
<1>2. inbox[s] # <<[type |-> "hello"]>> /\ \A mode \in Modes : inbox[s] # <<[type |-> "attach", mode |-> mode]>>
  OBVIOUS
<1>3. /\ page[s].at = "read-write" /\ focused /\ term.writer = s /\ term.live
      /\ page[s].output = term.output /\ busy[s] = "idle" /\ Sequenced(s)
  BY <1>2 DEF Phase
<1>4. /\ Counted(inbox[s], "input", term.input, page[s].input)
      /\ Counted(inbox[s], "resize", term.resize, page[s].resize)
      /\ \A i \in 1..Len(inbox[s]) : inbox[s][i].type \in {"input", "resize"}
  BY <1>3 DEF Sequenced
<1>5. IF Head(inbox[s]).type = "input"
      THEN Head(inbox[s]).seq = term.input /\ Counted(Tail(inbox[s]), "input", term.input + 1, page[s].input)
      ELSE Counted(Tail(inbox[s]), "input", term.input, page[s].input)
  BY <1>1, <1>4, CountedLess
<1>6. IF Head(inbox[s]).type = "resize"
      THEN Head(inbox[s]).seq = term.resize /\ Counted(Tail(inbox[s]), "resize", term.resize + 1, page[s].resize)
      ELSE Counted(Tail(inbox[s]), "resize", term.resize, page[s].resize)
  BY <1>1, <1>4, CountedLess
<1>7. \A i \in 1..Len(Tail(inbox[s])) : Tail(inbox[s])[i].type \in {"input", "resize"}
  <2>1. Len(Tail(inbox[s])) = Len(inbox[s]) - 1 /\ Len(inbox[s]) \in Nat
        /\ \A i \in 1..Len(Tail(inbox[s])) : Tail(inbox[s])[i] = inbox[s][i + 1]
    BY <1>1
  <2> QED
    BY <1>4, <2>1
<1> QED
  BY <1>3, <1>5, <1>6, <1>7

\* Input: it reaches the PTY in order, or the PTY is gone.
LEMMA InputKeeps ==
  ASSUME Typed, PtyInv, NEW s \in Sockets, Surface(s), Input(s)
  PROVE  Local(s) /\ Surface(s)'
<1> DEFINE seq == Head(inbox[s]).seq
<1>1. /\ busy[s] = "idle" /\ inbox[s] # <<>> /\ Head(inbox[s]).type = "input" /\ Rest /\ UNCHANGED busy
      /\ IF Accepts(s, seq, term.input)
         THEN term' = Written /\ ((Taken1(s) /\ UNCHANGED <<socket, page>>) \/ Reject(s, "gone"))
         ELSE Reject(s, "input refused") /\ UNCHANGED term
  BY DEF Input, Message1, Rest
<1>2. socket[s] # "none" /\ busy' \in [Sockets -> Works]
  BY <1>1, WasOpened DEF Typed
<1>3. seq \in Nat /\ seq < MaxInputs
  BY <1>1, Kinds
<1>4. ASSUME socket[s] = "open", Reads(s)
      PROVE  /\ page[s].at = "read-write" /\ focused /\ term.writer = s /\ term.live
             /\ page[s].output = term.output /\ seq = term.input
             /\ Counted(Tail(inbox[s]), "input", term.input + 1, page[s].input)
             /\ Counted(Tail(inbox[s]), "resize", term.resize, page[s].resize)
             /\ \A i \in 1..Len(Tail(inbox[s])) : Tail(inbox[s])[i].type \in {"input", "resize"}
  BY <1>1, <1>4, WriterSends DEF Surface
<1>5. CASE ~Accepts(s, seq, term.input)
  <2>1. TermLocal(s)
    BY <1>1, <1>5, TermLocals
  <2>2. socket[s] = "open" /\ Reads(s) => pty \in {"exited", "lost"}
    BY <1>4, <1>5 DEF Accepts, PtyInv, Typed, SessionTypeOK
  <2> QED
    BY <1>1, <1>2, <1>5, <2>1, <2>2, RejectedKeeps DEF Rest
<1>6. CASE Accepts(s, seq, term.input)
  <2>1. term' = Written /\ term.writer = s /\ term.input < MaxInputs
    BY <1>1, <1>3, <1>6 DEF Accepts
  <2>2. TermLocal(s)
    BY <2>1, TermLocals
  <2>3. CASE Reject(s, "gone")
    BY <1>1, <1>2, <2>2, <2>3, RejectedKeeps DEF Rest
  <2>4. CASE Taken1(s) /\ UNCHANGED <<socket, page>>
    <3>1. /\ inbox' \in [Sockets -> Seq(Sent)] /\ inbox'[s] = Tail(inbox[s]) /\ Len(inbox'[s]) <= MaxInbox
          /\ \A t \in Sockets \ {s} : inbox'[t] = inbox[t]
      BY <1>1, <2>4, Takes
    <3>2. Local(s)
      BY <1>1, <1>2, <2>2, <2>4, <3>1 DEF Local, Rest, TermLocal, Untouched, Typed
    <3>3. ASSUME socket[s] = "open", Reads(s) PROVE Phase(s)'
      <4>1. /\ term'.writer = s /\ term'.live /\ term'.output = term.output
            /\ term'.input = term.input + 1 /\ term'.resize = term.resize
        BY <1>4, <2>1, <3>3 DEF Written, Typed, SessionTypeOK
      <4>2. Sequenced(s)'
        BY <1>4, <2>4, <3>1, <3>3, <4>1 DEF Sequenced
      <4> QED
        BY <1>1, <1>4, <2>4, <3>3, <4>1, <4>2 DEF Phase, Rest
    <3> QED
      BY <1>1, <1>2, <2>4, <3>2, <3>3 DEF Surface, Reads, Rest
  <2> QED
    BY <1>1, <1>6, <2>3, <2>4
<1> QED
  BY <1>5, <1>6

\* A resize.
LEMMA ResizeKeeps ==
  ASSUME Typed, PtyInv, NEW s \in Sockets, Surface(s), Resize(s)
  PROVE  Local(s) /\ Surface(s)'
<1> DEFINE seq == Head(inbox[s]).seq
<1>1. /\ busy[s] = "idle" /\ inbox[s] # <<>> /\ Head(inbox[s]).type = "resize" /\ Rest /\ UNCHANGED busy
      /\ IF Accepts(s, seq, term.resize)
         THEN \/ term' = Sized /\ Taken1(s) /\ Tell(s, Resized(page[s], seq)) /\ UNCHANGED socket
              \/ (term' = term \/ term' = Sized) /\ Reject(s, "gone")
         ELSE Reject(s, "input refused") /\ UNCHANGED term
  BY DEF Resize, Message1, Rest
<1>2. socket[s] # "none" /\ busy' \in [Sockets -> Works]
  BY <1>1, WasOpened DEF Typed
<1>3. seq \in Nat /\ seq < MaxResizes
  BY <1>1, Kinds
<1>4. ASSUME socket[s] = "open", Reads(s)
      PROVE  /\ page[s].at = "read-write" /\ focused /\ term.writer = s /\ term.live
             /\ page[s].output = term.output /\ seq = term.resize
             /\ Counted(Tail(inbox[s]), "input", term.input, page[s].input)
             /\ Counted(Tail(inbox[s]), "resize", term.resize + 1, page[s].resize)
             /\ \A i \in 1..Len(Tail(inbox[s])) : Tail(inbox[s])[i].type \in {"input", "resize"}
  BY <1>1, <1>4, WriterSends DEF Surface
<1>5. CASE ~Accepts(s, seq, term.resize)
  <2>1. TermLocal(s)
    BY <1>1, <1>5, TermLocals
  <2>2. socket[s] = "open" /\ Reads(s) => pty \in {"exited", "lost"}
    BY <1>4, <1>5 DEF Accepts, PtyInv, Typed, SessionTypeOK
  <2> QED
    BY <1>1, <1>2, <1>5, <2>1, <2>2, RejectedKeeps DEF Rest
<1>6. CASE Accepts(s, seq, term.resize)
  <2>1. (term' = term \/ term' = Sized) /\ term.writer = s /\ term.resize < MaxResizes
    BY <1>1, <1>3, <1>6 DEF Accepts
  <2>2. TermLocal(s)
    BY <2>1, TermLocals
  <2>3. CASE Reject(s, "gone")
    BY <1>1, <1>2, <2>2, <2>3, RejectedKeeps DEF Rest
  <2>4. CASE term' = Sized /\ Taken1(s) /\ Tell(s, Resized(page[s], seq)) /\ UNCHANGED socket
    <3>1. /\ inbox' \in [Sockets -> Seq(Sent)] /\ inbox'[s] = Tail(inbox[s]) /\ Len(inbox'[s]) <= MaxInbox
          /\ \A t \in Sockets \ {s} : inbox'[t] = inbox[t]
      BY <1>1, <2>4, Takes
    <3>2. PICK p : p = Resized(page[s], seq)
      OBVIOUS
    <3>3. /\ p \in PageRecord /\ p.at \in {page[s].at, "resize mismatched"}
          /\ p.at \in {"read-write", "read-only"} => p = page[s]
      <4>1. page[s] \in PageRecord
        BY DEF Typed
      <4> QED
        BY <3>2, <4>1 DEF Resized, PageRecord, Stages
    <3>4. /\ page' \in [Sockets -> PageRecord] /\ \A t \in Sockets \ {s} : page'[t] = page[t]
          /\ page'[s] = IF socket[s] = "open" THEN p ELSE page[s]
      <4>1. page' = [page EXCEPT ![s] = IF socket[s] = "open" THEN p ELSE page[s]]
        BY <2>4, <3>2 DEF Tell, Typed
      <4> QED
        BY <3>3, <4>1 DEF Typed
    <3>5. Local(s)
      BY <1>1, <1>2, <2>2, <2>4, <3>1, <3>4 DEF Local, Rest, TermLocal, Untouched
    <3>6. ASSUME socket[s] = "open", Reads(s)' PROVE Phase(s)'
      <4>1. page'[s].at \in {page[s].at, "resize mismatched"} /\ Reads(s)
        BY <3>3, <3>4, <3>6 DEF Reads
      <4>2. page[s].at = "read-write" /\ page'[s] = page[s]
        BY <1>4, <3>3, <3>4, <3>6, <4>1 DEF Reads
      <4>3. /\ term'.writer = s /\ term'.live /\ term'.output = term.output
            /\ term'.input = term.input /\ term'.resize = term.resize + 1
        BY <1>4, <2>4, <3>6, <4>1 DEF Sized, Typed, SessionTypeOK
      <4>4. Sequenced(s)'
        BY <1>4, <3>1, <3>6, <4>1, <4>2, <4>3 DEF Sequenced
      <4> QED
        BY <1>1, <1>4, <3>6, <4>1, <4>2, <4>3, <4>4 DEF Phase, Rest
    <3>7. page'[s].at \in {page[s].at, "resize mismatched"}
      BY <3>3, <3>4
    <3> QED
      BY <1>1, <1>2, <2>4, <3>5, <3>6, <3>7 DEF Surface, Rest
  <2> QED
    BY <1>1, <1>6, <2>3, <2>4
<1> QED
  BY <1>5, <1>6

\* A page types, or asks for a size.
LEMMA PageSendsKeeps ==
  ASSUME Typed, NEW s \in Sockets, Surface(s), PageSends(s)
  PROVE  Local(s) /\ Surface(s)'
<1>1. UNCHANGED socket /\ UNCHANGED term /\ Rest /\ UNCHANGED busy /\ (Type(s) \/ Fit(s))
  BY DEF PageSends, browserVars, sessionVars, Rest
<1>2. page[s].at = "read-write" /\ page[s] \in PageRecord /\ inbox[s] \in Seq(Sent)
  BY <1>1 DEF Type, Fit, Typed
<1>3. socket[s] # "none" /\ busy' \in [Sockets -> Works]
  BY <1>1, <1>2, WasOpened DEF Typed
<1>4. TermLocal(s)
  BY <1>1, TermLocals
<1>5. PICK m \in Sent :
        /\ Send(s, m)
        /\ \/ /\ m.type = "input" /\ m.seq = page[s].input
              /\ page' = [page EXCEPT ![s].input = @ + 1] /\ page[s].input + 1 \in 0..MaxInputs
           \/ /\ m.type = "resize" /\ m.seq = page[s].resize
              /\ page' = [page EXCEPT ![s].resize = @ + 1] /\ page[s].resize + 1 \in 0..MaxResizes
  <2>1. page[s].input \in 0..MaxInputs /\ page[s].resize \in 0..MaxResizes /\ MaxInputs \in Nat /\ MaxResizes \in Nat
    BY <1>2, TerminalAssumption DEF PageRecord
  <2>2. CASE Type(s)
    <3>1. page[s].input \in 0..(MaxInputs - 1)
      BY <2>1, <2>2 DEF Type
    <3>2. [type |-> "input", seq |-> page[s].input] \in Sent
      BY <3>1 DEF Sent
    <3>3. page[s].input + 1 \in 0..MaxInputs
      BY <2>1, <3>1
    <3> QED
      BY <2>2, <3>2, <3>3 DEF Type
  <2>3. CASE Fit(s)
    <3>1. page[s].resize \in 0..(MaxResizes - 1)
      BY <2>1, <2>3 DEF Fit
    <3>2. [type |-> "resize", seq |-> page[s].resize] \in Sent
      BY <3>1 DEF Sent
    <3>3. page[s].resize + 1 \in 0..MaxResizes
      BY <2>1, <3>1
    <3> QED
      BY <2>3, <3>2, <3>3 DEF Fit
  <2> QED
    BY <1>1, <2>2, <2>3
<1>6. /\ inbox' \in [Sockets -> Seq(Sent)] /\ inbox'[s] = Append(inbox[s], m) /\ Len(inbox'[s]) <= MaxInbox
      /\ \A t \in Sockets \ {s} : inbox'[t] = inbox[t]
  BY <1>5, Sends
<1>7. /\ page' \in [Sockets -> PageRecord] /\ \A t \in Sockets \ {s} : page'[t] = page[t]
      /\ page'[s].at = page[s].at /\ page'[s].output = page[s].output
      /\ page'[s].input = IF m.type = "input" THEN page[s].input + 1 ELSE page[s].input
      /\ page'[s].resize = IF m.type = "resize" THEN page[s].resize + 1 ELSE page[s].resize
  <2>1. CASE m.type = "input"
    <3>1. page' = [page EXCEPT ![s].input = @ + 1] /\ page[s].input + 1 \in 0..MaxInputs
      BY <1>5, <2>1
    <3>2. PICK p : p = [page[s] EXCEPT !.input = @ + 1]
      OBVIOUS
    <3>3. /\ p \in PageRecord /\ p.at = page[s].at /\ p.output = page[s].output
          /\ p.input = IF m.type = "input" THEN page[s].input + 1 ELSE page[s].input
          /\ p.resize = IF m.type = "resize" THEN page[s].resize + 1 ELSE page[s].resize
      BY <1>2, <2>1, <3>1, <3>2 DEF PageRecord
    <3>4. page' = [page EXCEPT ![s] = p]
      BY <3>1, <3>2
    <3> QED
      BY <3>3, <3>4 DEF Typed
  <2>2. CASE m.type = "resize"
    <3>1. page' = [page EXCEPT ![s].resize = @ + 1] /\ page[s].resize + 1 \in 0..MaxResizes
      BY <1>5, <2>2
    <3>2. PICK p : p = [page[s] EXCEPT !.resize = @ + 1]
      OBVIOUS
    <3>3. /\ p \in PageRecord /\ p.at = page[s].at /\ p.output = page[s].output
          /\ p.input = IF m.type = "input" THEN page[s].input + 1 ELSE page[s].input
          /\ p.resize = IF m.type = "resize" THEN page[s].resize + 1 ELSE page[s].resize
      BY <1>2, <2>2, <3>1, <3>2 DEF PageRecord
    <3>4. page' = [page EXCEPT ![s] = p]
      BY <3>1, <3>2
    <3> QED
      BY <3>3, <3>4 DEF Typed
  <2> QED
    BY <1>5, <2>1, <2>2
<1>8. Local(s)
  BY <1>1, <1>3, <1>4, <1>6, <1>7 DEF Local, Rest, TermLocal, Untouched
<1>9. ASSUME socket[s] = "open" PROVE Phase(s)'
  <2>1. /\ focused /\ term.writer = s /\ term.live /\ page[s].output = term.output
        /\ busy[s] = "idle" /\ Sequenced(s)
    BY <1>2, <1>9 DEF Surface, Reads, Phase
  <2>2. page[s].input \in Nat /\ page[s].resize \in Nat
    BY <1>2, TerminalAssumption DEF PageRecord
  <2>3. /\ Counted(inbox'[s], "input", term.input, page'[s].input)
        /\ Counted(inbox'[s], "resize", term.resize, page'[s].resize)
    <3>1. /\ m.type = "input" => m.seq = page[s].input
          /\ m.type = "resize" => m.seq = page[s].resize
      BY <1>5
    <3>2. Counted(Append(inbox[s], m), "input", term.input, IF m.type = "input" THEN page[s].input + 1 ELSE page[s].input)
      BY <1>2, <2>1, <2>2, <3>1, CountedMore DEF Sequenced
    <3>3. Counted(Append(inbox[s], m), "resize", term.resize, IF m.type = "resize" THEN page[s].resize + 1 ELSE page[s].resize)
      BY <1>2, <2>1, <2>2, <3>1, CountedMore DEF Sequenced
    <3> QED
      BY <1>6, <1>7, <3>2, <3>3
  <2>4. \A i \in 1..Len(inbox'[s]) : inbox'[s][i].type \in {"input", "resize"}
    <3>1. m.type \in {"input", "resize"}
      BY <1>5
    <3>2. \A i \in 1..Len(inbox[s]) : inbox[s][i].type \in {"input", "resize"}
      BY <2>1 DEF Sequenced
    <3>3. Len(inbox'[s]) = Len(inbox[s]) + 1 /\ Len(inbox[s]) \in Nat
          /\ inbox'[s][Len(inbox[s]) + 1] = m /\ \A i \in 1..Len(inbox[s]) : inbox'[s][i] = inbox[s][i]
      BY <1>2, <1>6
    <3>4. \A i \in 1..Len(inbox'[s]) : i \in 1..Len(inbox[s]) \/ i = Len(inbox[s]) + 1
      BY <3>3
    <3> QED
      BY <3>1, <3>2, <3>3, <3>4
  <2>5. Sequenced(s)'
    BY <1>1, <2>3, <2>4 DEF Sequenced
  <2> QED
    BY <1>1, <1>2, <1>7, <2>1, <2>5 DEF Phase, Rest
<1> QED
  BY <1>1, <1>2, <1>3, <1>7, <1>8, <1>9 DEF Surface, Rest

\* Every message of a socket keeps the invariant.
LEMMA RouterKeeps ==
  ASSUME RouterInv, NEW s \in Sockets, Router(s) \/ PageSends(s), BrowserType', SocketType'
  PROVE  RouterInv'
<1>1. Typed /\ PtyInv /\ Surface(s)
  BY DEF RouterInv
<1>2. Local(s) /\ Surface(s)'
  BY <1>1, ConnectKeeps, IgnoreKeeps, RefusedKeeps, HelloKeeps, NegotiatedKeeps, AttachBeginsKeeps,
     AttachEndsKeeps, InputKeeps, ResizeKeeps, LeaveKeeps, PageSendsKeeps DEF Router
<1>3. Alive \/ busy' = busy
  BY DEF Router, PageSends, Connect, Ignore, HandshakeTimeout, Hello, HelloRefused, Negotiated,
         AttachBegins, AttachEnds, AttachFails, Input, Resize, Leave, SocketCloses, Message1, Alive
<1> QED
  BY <1>2, <1>3, LocalKeeps

-----------------------------------------------------------------------------
(* The provider session, the end of the process, the browser session *)

\* A socket that is at most closed, in a terminal whose stream stays where it is.
LEMMA AtMostClosedKeeps ==
  ASSUME NEW t \in Sockets, Surface(t), UNCHANGED <<page, inbox, busy, term, focused>>,
         socket'[t] \in {"none", "open"} => socket'[t] = socket[t],
         pty \in {"exited", "lost"} => pty' \in {"exited", "lost"}
  PROVE  Surface(t)'
<1>1. Reads(t)' <=> Reads(t)
  BY DEF Reads
<1>2. Apart(t)' <=> Apart(t)
  BY DEF Apart
<1>3. Sequenced(t) => Sequenced(t)'
  BY DEF Sequenced
<1>4. Phase(t) => Phase(t)'
  BY <1>2, <1>3 DEF Phase
<1> QED
  BY <1>1, <1>2, <1>4 DEF Surface

\* A step of the session that no page sees.
LEMMA UnseenKeeps ==
  ASSUME RouterInv, UNCHANGED <<page, inbox, busy, term, focused>>, BrowserType', SessionTypeOK', PtyInv',
         SocketType', \A t \in Sockets : socket'[t] \in {"none", "open"} => socket'[t] = socket[t],
         pty \in {"exited", "lost"} => pty' \in {"exited", "lost"},
         Alive'
  PROVE  RouterInv'
<1>1. Typed'
  BY DEF RouterInv, Typed
<1>2. \A t \in Sockets : Surface(t)'
  BY AtMostClosedKeeps DEF RouterInv
<1> QED
  BY <1>1, <1>2 DEF RouterInv, Stopped

Writes == [queued : 0..2, awaited : 0..2, behind : BOOLEAN, refused : BOOLEAN]

\* One more in the queue.
LEMMA Queued ==
  ASSUME SessionTypeOK, writes.queued <= 1, NEW behind \in BOOLEAN,
         writes' = [writes EXCEPT !.queued = writes.queued + 1, !.behind = behind]
  PROVE  /\ writes' \in Writes /\ writes'.queued = writes.queued + 1 /\ writes'.queued # 0
         /\ writes'.behind = behind /\ writes'.awaited = writes.awaited
<1>1. writes \in Writes
  BY DEF SessionTypeOK, Writes
<1>2. writes.queued \in 0..2 /\ writes.awaited \in 0..2 /\ writes.refused \in BOOLEAN
      /\ writes = [queued |-> writes.queued, awaited |-> writes.awaited, behind |-> writes.behind,
                   refused |-> writes.refused]
  BY <1>1 DEF Writes
<1>3. writes' = [queued |-> writes.queued + 1, awaited |-> writes.awaited, behind |-> behind,
                 refused |-> writes.refused]
  BY <1>2
<1>4. writes.queued + 1 \in 0..2 /\ writes.queued + 1 # 0
  BY <1>2
<1> QED
  BY <1>2, <1>3, <1>4 DEF Writes

\* One less: of those that are awaited too, as long as there are any.
LEMMA Wrote ==
  ASSUME writes \in Writes, writes.queued > 0, NEW refused \in BOOLEAN,
         writes' = [writes EXCEPT !.queued = writes.queued - 1,
                                  !.awaited = IF writes.awaited = 0 THEN 0 ELSE writes.awaited - 1,
                                  !.refused = refused]
  PROVE  /\ writes' \in Writes
         /\ writes'.queued = writes.queued - 1 /\ writes'.behind = writes.behind /\ writes'.refused = refused
         /\ writes.awaited = writes.queued => writes'.awaited = writes'.queued
         /\ writes.queued \in 1..2
<1>1. writes.queued \in 1..2 /\ writes.queued - 1 \in 0..2
      /\ (IF writes.awaited = 0 THEN 0 ELSE writes.awaited - 1) \in 0..2
  BY DEF Writes
<1>2. writes = [queued |-> writes.queued, awaited |-> writes.awaited, behind |-> writes.behind,
                refused |-> writes.refused]
      /\ writes.behind \in BOOLEAN /\ writes.awaited \in 0..2
  BY DEF Writes
<1>3. writes' = [queued |-> writes.queued - 1,
                 awaited |-> IF writes.awaited = 0 THEN 0 ELSE writes.awaited - 1,
                 behind |-> writes.behind, refused |-> refused]
  BY <1>2
<1>4. writes' \in Writes
  BY <1>1, <1>2, <1>3 DEF Writes
<1>5. writes.awaited = writes.queued => writes'.awaited = writes'.queued
  BY <1>1, <1>3
<1> QED
  BY <1>1, <1>3, <1>4, <1>5

\* The steps of a start, and the writes of the file.
LEMMA StartKeeps ==
  ASSUME RouterInv, BrowserType', SocketType', UNCHANGED busy,
         (\E s \in Sockets : OpenSession(s)) \/ Probed \/ Spawned \/ Ready \/ Persist \/ OpenFails
  PROVE  RouterInv'
<1>1. /\ UNCHANGED page /\ UNCHANGED inbox /\ UNCHANGED term /\ UNCHANGED focused /\ UNCHANGED socket
      /\ UNCHANGED life /\ Alive
  BY DEF OpenSession, Probed, Spawned, Ready, Persist, OpenFails, pageVars, browserVars, Alive
<1>2. SessionTypeOK /\ PtyInv
  BY DEF RouterInv, Typed
<1>3. SessionTypeOK' /\ PtyInv' /\ (pty \in {"exited", "lost"} => pty' \in {"exited", "lost"})
  <2>1. ASSUME NEW s \in Sockets, OpenSession(s)
        PROVE  SessionTypeOK' /\ PtyInv' /\ pty' = pty
    <3>1. /\ opening.at = "idle" /\ opening.opens < MaxOpens /\ pty = "none"
          /\ opening' = [at |-> "probing", by |-> s, opens |-> opening.opens + 1]
          /\ UNCHANGED <<pty, control, record, file, writes, term, focused, life>>
      BY <2>1 DEF OpenSession
    <3>2. opening' \in [at : {"idle", "probing", "preparing", "awaiting", "persisting", "auditing"},
                        by : Sockets \cup {Nobody}, opens : 0..MaxOpens] /\ opening'.at = "probing"
      BY <1>2, <3>1, TerminalAssumption DEF SessionTypeOK
    <3> QED
      BY <1>2, <3>1, <3>2 DEF SessionTypeOK, PtyInv, ExitInv, Alive
  <2>2. CASE Probed
    <3>1. /\ opening.at = "probing" /\ opening' = [opening EXCEPT !.at = "preparing"]
          /\ control' = "listening" /\ UNCHANGED <<pty, record, file, writes, term, focused, life>>
      BY <2>2 DEF Probed, Stage, Listens
    <3>2. opening' \in [at : {"idle", "probing", "preparing", "awaiting", "persisting", "auditing"},
                        by : Sockets \cup {Nobody}, opens : 0..MaxOpens] /\ opening'.at = "preparing"
      BY <1>2, <3>1 DEF SessionTypeOK
    <3> QED
      BY <1>2, <3>1, <3>2 DEF SessionTypeOK, PtyInv, ExitInv, Alive
  <2>3. CASE Spawned
    <3>1. /\ opening.at = "preparing" /\ opening' = [opening EXCEPT !.at = "awaiting"]
          /\ pty' = "running" /\ UNCHANGED <<control, record, file, writes, term, focused, life>>
      BY <2>3 DEF Spawned, Stage
    <3>2. opening' \in [at : {"idle", "probing", "preparing", "awaiting", "persisting", "auditing"},
                        by : Sockets \cup {Nobody}, opens : 0..MaxOpens] /\ opening'.at = "awaiting"
      BY <1>2, <3>1 DEF SessionTypeOK
    <3>3. pty = "none" /\ ~focused /\ writes.queued = 0 /\ term.output = 0
      BY <1>2, <3>1 DEF PtyInv
    <3>4. SessionTypeOK'
      BY <1>2, <3>1, <3>2 DEF SessionTypeOK
    <3>5. PtyInv'
      BY <3>1, <3>2, <3>3, TerminalAssumption DEF PtyInv
    <3> QED
      BY <3>3, <3>4, <3>5
  <2>4. CASE Ready
    <3>1. /\ opening.at = "awaiting" /\ opening' = [opening EXCEPT !.at = "persisting"]
          /\ control' = "ready" /\ record' = "running"
          /\ writes' = [writes EXCEPT !.queued = writes.queued + 1, !.behind = life = "draining"]
          /\ pty \in {"running", "killed"} /\ UNCHANGED <<pty, file, term, focused, life>>
      BY <2>4 DEF Ready, Stage, Hears, Queue
    <3>2. opening' \in [at : {"idle", "probing", "preparing", "awaiting", "persisting", "auditing"},
                        by : Sockets \cup {Nobody}, opens : 0..MaxOpens] /\ opening'.at = "persisting"
      BY <1>2, <3>1 DEF SessionTypeOK
    <3>3. ~focused /\ term.output <= MaxOutput
          /\ writes'.queued = 1 /\ writes' \in Writes
      <4>1. writes.queued = 0 /\ ~focused /\ term.output <= MaxOutput
        BY <1>2, <3>1 DEF PtyInv
      <4>2. (life = "draining") \in BOOLEAN /\ writes.queued <= 1
        BY <4>1
      <4>3. writes' \in Writes /\ writes'.queued = writes.queued + 1
        BY <1>2, <3>1, <4>2, Queued
      <4> QED
        BY <4>1, <4>3
    <3>4. SessionTypeOK'
      BY <1>2, <3>1, <3>2, <3>3 DEF SessionTypeOK, Records, Writes
    <3>5. PtyInv'
      BY <3>1, <3>2, <3>3 DEF PtyInv
    <3> QED
      BY <3>1, <3>4, <3>5
  <2>5. CASE Persist
    <3>1. PICK refused \in BOOLEAN :
            /\ writes.queued > 0 /\ file' = (IF refused THEN file ELSE record)
            /\ writes' = [writes EXCEPT !.queued = writes.queued - 1,
                                        !.awaited = IF writes.awaited = 0 THEN 0 ELSE writes.awaited - 1,
                                        !.refused = refused]
            /\ \/ opening' = opening /\ opening.at # "persisting"
               \/ /\ opening.at = "persisting"
                  /\ \/ opening' = [opening EXCEPT !.at = "auditing"]
                     \/ opening' = [opening EXCEPT !.at = "idle", !.by = Nobody]
            /\ UNCHANGED <<pty, control, record, term, focused, life>>
      BY <2>5 DEF Persist, Stage, Answered
    <3>2. /\ opening' \in [at : {"idle", "probing", "preparing", "awaiting", "persisting", "auditing"},
                           by : Sockets \cup {Nobody}, opens : 0..MaxOpens]
          /\ \/ opening.at = "persisting" /\ opening'.at \in {"auditing", "idle"}
             \/ opening.at # "persisting" /\ opening' = opening
      BY <1>2, <3>1 DEF SessionTypeOK
    <3>3. /\ writes' \in Writes
          /\ writes'.queued = writes.queued - 1 /\ writes'.behind = writes.behind /\ writes'.refused = refused
          /\ writes.awaited = writes.queued => writes'.awaited = writes'.queued
          /\ writes.queued \in 1..2
      <4>1. writes \in Writes
        BY <1>2 DEF SessionTypeOK, Writes
      <4> QED
        BY <3>1, <4>1, Wrote
    <3>4. opening.at \notin {"probing", "preparing", "awaiting"} /\ pty # "none"
      BY <1>2, <3>1 DEF PtyInv, SessionTypeOK
    <3>5. SessionTypeOK'
      BY <1>2, <3>1, <3>2, <3>3 DEF SessionTypeOK, Writes
    <3>6. PtyInv'
      <4>1. pty = "exited" => ExitInv'
        BY <1>1, <1>2, <3>1, <3>3 DEF PtyInv, ExitInv, Alive
      <4> QED
        BY <1>2, <3>1, <3>2, <3>3, <3>4, <4>1 DEF PtyInv
    <3> QED
      BY <3>1, <3>5, <3>6
  <2>6. CASE OpenFails
    <3>1. /\ opening.at = "auditing" /\ opening' = [opening EXCEPT !.at = "idle", !.by = Nobody]
          /\ UNCHANGED <<pty, control, record, file, writes, term, focused, life>>
      BY <2>6 DEF OpenFails, Answered
    <3>2. opening' \in [at : {"idle", "probing", "preparing", "awaiting", "persisting", "auditing"},
                        by : Sockets \cup {Nobody}, opens : 0..MaxOpens] /\ opening'.at = "idle"
      BY <1>2, <3>1 DEF SessionTypeOK
    <3> QED
      BY <1>2, <3>1, <3>2 DEF SessionTypeOK, PtyInv, ExitInv, Alive
  <2> QED
    BY <2>1, <2>2, <2>3, <2>4, <2>5, <2>6
<1>4. Alive' /\ \A t \in Sockets : socket'[t] \in {"none", "open"} => socket'[t] = socket[t]
  BY <1>1 DEF Alive
<1> QED
  BY <1>1, <1>3, <1>4, UnseenKeeps

\* The runtime stops: what is queued when it begins to drain is awaited.
LEMMA StopKeeps ==
  ASSUME RouterInv, BrowserType', SocketType', UNCHANGED busy, ShutDown \/ KillProviders \/ Drains
  PROVE  RouterInv'
<1>1. /\ UNCHANGED page /\ UNCHANGED inbox /\ UNCHANGED term /\ UNCHANGED focused /\ Alive /\ Alive'
      /\ UNCHANGED <<opening, record, file>>
      /\ pty' \in {pty, IF pty = "running" THEN "killed" ELSE pty}
      /\ control' \in {control, "none", "closed"}
      /\ \/ UNCHANGED writes /\ life' \in {"closing", "killing"}
         \/ writes' = [writes EXCEPT !.awaited = writes.queued] /\ life' = "draining"
  BY DEF ShutDown, KillProviders, Drains, pageVars, Alive, Closes
<1>2. \A t \in Sockets : socket'[t] \in {"none", "open"} => socket'[t] = socket[t]
  BY DEF ShutDown, KillProviders, Drains, Closed, browserVars
<1>3. SessionTypeOK /\ PtyInv
  BY DEF RouterInv, Typed
<1>4. /\ writes' \in Writes /\ writes'.queued = writes.queued /\ writes'.refused = writes.refused
      /\ life' = "draining" => writes'.awaited = writes'.queued
  <2>1. writes \in Writes
    BY <1>3 DEF SessionTypeOK, Writes
  <2> QED
    BY <1>1, <2>1 DEF Writes
<1>5. SessionTypeOK'
  BY <1>1, <1>3, <1>4 DEF SessionTypeOK, Writes
<1>6. PtyInv'
  <2>1. pty' = "exited" => pty = "exited" /\ ExitInv'
    BY <1>1, <1>3, <1>4 DEF PtyInv, ExitInv
  <2> QED
    BY <1>1, <1>3, <1>4, <2>1 DEF PtyInv
<1> QED
  BY <1>1, <1>2, <1>5, <1>6, UnseenKeeps

\* A start that fails: no page had attached to it.
LEMMA StartFailsKeeps ==
  ASSUME RouterInv, BrowserType', SocketType', UNCHANGED busy, StartFails
  PROVE  RouterInv'
<1>1. /\ Alive /\ opening.at \in {"probing", "preparing", "awaiting"}
      /\ pty' = "none" /\ control' = "none" /\ term' = NoTerm
      /\ opening' = [opening EXCEPT !.at = "idle", !.by = Nobody]
      /\ UNCHANGED <<record, file, writes, focused, life>>
      /\ UNCHANGED page /\ UNCHANGED inbox /\ UNCHANGED socket
  BY DEF StartFails, Answered, pageVars, browserVars
<1>2. SessionTypeOK /\ PtyInv /\ Typed
  BY DEF RouterInv, Typed
<1>3. NoTerm \in Term /\ NoTerm.handlers \subseteq NoTerm.readers /\ NoTerm.low <= NoTerm.output /\ NoTerm.output = 0
  BY TerminalAssumption DEF NoTerm, Term
<1>4. opening' \in [at : {"idle", "probing", "preparing", "awaiting", "persisting", "auditing"},
                    by : Sockets \cup {Nobody}, opens : 0..MaxOpens] /\ opening'.at = "idle"
  BY <1>1, <1>2 DEF SessionTypeOK
<1>5. ~focused /\ writes.queued = 0 /\ pty \in {"none", "running", "killed"}
  BY <1>1, <1>2 DEF PtyInv
<1>6. SessionTypeOK'
  BY <1>1, <1>2, <1>3, <1>4 DEF SessionTypeOK, Term
<1>7. Typed'
  BY <1>1, <1>2, <1>6 DEF Typed
<1>8. PtyInv'
  BY <1>1, <1>3, <1>4, <1>5 DEF PtyInv
<1>9. ASSUME NEW s \in Sockets PROVE Surface(s)'
  <2>1. Surface(s)
    BY DEF RouterInv
  <2>2. Apart(s)'
    BY <1>1, TerminalAssumption DEF Apart, NoTerm
  <2>3. socket[s] = "open" /\ Reads(s) => Phase(s)'
    <3>1. socket[s] = "open" /\ Reads(s) =>
            page[s].at \in {"hello", "ready"} /\ Phase(s)
      BY <1>5, <2>1 DEF Surface, Phase
    <3> QED
      BY <1>1, <1>5, <2>2, <3>1 DEF Phase
  <2>4. page[s].at # "input refused"
    BY <1>5, <2>1 DEF Surface
  <2> QED
    BY <1>1, <2>1, <2>2, <2>3, <2>4 DEF Surface, Reads
<1>10. Stopped'
  BY <1>1 DEF Stopped, Alive
<1> QED
  BY <1>7, <1>8, <1>9, <1>10 DEF RouterInv

\* The session is open: the page that asked for it attaches.
LEMMA OpenedKeeps ==
  ASSUME RouterInv, BrowserType', SocketType', UNCHANGED busy, Opened
  PROVE  RouterInv'
<1>1. /\ Alive /\ opening.at = "auditing" /\ focused' = TRUE
      /\ opening' = [opening EXCEPT !.at = "idle", !.by = Nobody]
      /\ UNCHANGED <<pty, control, record, file, writes, term, life>> /\ UNCHANGED socket
      /\ IF opening.by # Nobody /\ page[opening.by].at = "ready"
         THEN Attach(opening.by, "read-write") ELSE UNCHANGED pageVars
  BY DEF Opened, Answered, browserVars
<1>2. SessionTypeOK /\ PtyInv /\ Typed
  BY DEF RouterInv, Typed
<1>3. opening' \in [at : {"idle", "probing", "preparing", "awaiting", "persisting", "auditing"},
                    by : Sockets \cup {Nobody}, opens : 0..MaxOpens] /\ opening'.at = "idle"
  BY <1>1, <1>2 DEF SessionTypeOK
<1>4. SessionTypeOK'
  BY <1>1, <1>2, <1>3 DEF SessionTypeOK
<1>5. PtyInv'
  BY <1>1, <1>2, <1>3 DEF PtyInv, ExitInv, Alive
<1>6. Stopped'
  BY <1>1 DEF Stopped, Alive
<1>7. ASSUME NEW t \in Sockets, page'[t] = page[t], inbox'[t] = inbox[t] PROVE Surface(t)'
  <2>1. Untouched(t)
    BY <1>1, <1>7 DEF Untouched, Same
  <2> QED
    BY <1>1, <1>2, <2>1, UntouchedKeeps DEF RouterInv
<1>8. CASE UNCHANGED pageVars
  <2>1. Typed'
    BY <1>2, <1>4, <1>8 DEF Typed, pageVars
  <2>2. \A t \in Sockets : Surface(t)'
    BY <1>7, <1>8 DEF pageVars
  <2> QED
    BY <1>5, <1>6, <2>1, <2>2 DEF RouterInv
<1>9. CASE opening.by # Nobody /\ page[opening.by].at = "ready" /\ Attach(opening.by, "read-write")
  <2>0. PICK s \in Sockets : s = opening.by
    BY <1>2, <1>9 DEF SessionTypeOK
  <2> DEFINE m == [type |-> "attach", mode |-> "read-write"]
  <2>1. Surface(s) /\ m \in Sent /\ Send(s, m) /\ page' = [page EXCEPT ![s].at = "attaching"]
    BY <1>9, <2>0 DEF RouterInv, Attach, Sent, Modes
  <2> HIDE DEF m
  <2>2. /\ inbox' \in [Sockets -> Seq(Sent)] /\ (inbox[s] = <<>> => inbox'[s] = <<m>>)
        /\ Len(inbox'[s]) <= MaxInbox /\ \A t \in Sockets \ {s} : inbox'[t] = inbox[t]
    BY <1>2, <2>1, Sends
  <2>3. page' \in [Sockets -> PageRecord] /\ page'[s].at = "attaching" /\ \A t \in Sockets \ {s} : page'[t] = page[t]
    BY <1>2, <2>1 DEF Typed, PageRecord, Stages
  <2>4. Typed'
    <3>1. \A t \in Sockets : Len(inbox'[t]) <= MaxInbox
      BY <1>2, <2>2 DEF Typed
    <3> QED
      BY <1>2, <1>4, <2>2, <2>3, <3>1 DEF Typed
  <2>5. page[s].at = "ready"
    BY <1>9, <2>0
  <2>6. socket[s] # "none"
    BY <2>1, <2>5, WasOpened
  <2>7. ASSUME socket[s] = "open" PROVE Phase(s)'
    <3>1. Apart(s) /\ inbox[s] = <<>> /\ busy[s] = "idle"
      BY <2>1, <2>5, <2>7 DEF Surface, Reads, Phase
    <3>2. Apart(s)'
      BY <1>1, <3>1 DEF Apart
    <3>3. inbox'[s] = <<[type |-> "attach", mode |-> "read-write"]>>
      BY <2>2, <3>1 DEF m
    <3> QED
      BY <1>1, <2>3, <3>1, <3>2, <3>3 DEF Phase, Modes
  <2>8. Surface(s)'
    BY <1>1, <2>3, <2>6, <2>7 DEF Surface
  <2>9. \A t \in Sockets : Surface(t)'
    BY <1>7, <2>2, <2>3, <2>8
  <2> QED
    BY <1>5, <1>6, <2>4, <2>9 DEF RouterInv
<1> QED
  BY <1>1, <1>8, <1>9

\* A frame reaches the pages that are up to it, and no page that is not.
LEMMA FrameShown ==
  ASSUME RouterInv, NEW s \in Sockets, NEW eof \in BOOLEAN, NEW shown,
         shown = IF s \in Listening THEN Shown(page[s], term.output, term.output + 1, eof) ELSE page[s]
  PROVE  /\ shown \in PageRecord
         /\ socket[s] = "none" => shown = page[s]
         /\ shown.at = page[s].at
         /\ shown.input = page[s].input /\ shown.resize = page[s].resize
         /\ socket[s] = "open" /\ page[s].at \in {"read-write", "read-only"} => shown.output = term.output + 1
<1>1. page[s] \in PageRecord /\ term.output \in Nat /\ Surface(s) /\ term \in Term
  BY TerminalAssumption DEF RouterInv, Typed, SessionTypeOK, Term
<1>2. CASE s \notin Listening
  <2>1. shown = page[s]
    BY <1>2
  <2>2. ~(socket[s] = "open" /\ page[s].at \in {"read-write", "read-only"})
    <3>1. socket[s] = "open" => s \notin term.handlers /\ ~(term.live /\ term.writer = s)
      BY <1>1, <1>2 DEF Listening, Term
    <3> QED
      BY <1>1, <3>1 DEF Surface, Reads, Phase
  <2> QED
    BY <1>1, <2>1, <2>2
<1>3. CASE s \in Listening
  <2>1. socket[s] = "open" /\ (s \in term.handlers \/ (term.live /\ term.writer = s))
    BY <1>1, <1>3 DEF Listening, Term
  <2>2. /\ page[s].at # "attaching"
        /\ page[s].at \in {"read-write", "read-only"} => page[s].output = term.output
    BY <1>1, <2>1 DEF Surface, Reads, Phase, Apart
  <2>3. shown = Shown(page[s], term.output, term.output + 1, eof)
    BY <1>3
  <2>4. CASE page[s].at \notin {"read-write", "read-only"}
    <3>1. shown = page[s]
      BY <2>2, <2>3, <2>4 DEF Shown
    <3> QED
      BY <1>1, <2>1, <2>4, <3>1
  <2>5. CASE page[s].at \in {"read-write", "read-only"}
    <3>1. ~(term.output >= term.output + 1)
      BY <1>1
    <3>2. shown = [page[s] EXCEPT !.output = term.output + 1, !.eof = eof]
      BY <2>2, <2>3, <2>5, <3>1 DEF Shown
    <3>3. term.output + 1 \in Nat
      BY <1>1
    <3>4. /\ shown \in PageRecord /\ shown.at = page[s].at /\ shown.input = page[s].input
          /\ shown.resize = page[s].resize /\ shown.output = term.output + 1
      BY <1>1, <3>2, <3>3 DEF PageRecord
    <3> QED
      BY <2>1, <3>4
  <2> QED
    BY <2>4, <2>5
<1> QED
  BY <1>2, <1>3

\* The stream goes on by a frame: every page that follows it goes on with it.
LEMMA FrameKeeps ==
  ASSUME RouterInv, NEW eof \in BOOLEAN,
         page' = [s \in Sockets |-> IF s \in Listening THEN Shown(page[s], term.output, term.output + 1, eof)
                                    ELSE page[s]],
         UNCHANGED <<inbox, busy, socket, focused>>,
         term'.output = term.output + 1, term'.writer = term.writer, term'.live = term.live,
         term'.readers = term.readers, term'.handlers = term.handlers,
         term'.input = term.input, term'.resize = term.resize,
         pty \in {"running", "killed"}
  PROVE  page' \in [Sockets -> PageRecord] /\ \A s \in Sockets : Surface(s)'
<1>1. ASSUME NEW s \in Sockets
      PROVE  /\ page'[s] \in PageRecord
             /\ socket[s] = "none" => page'[s] = page[s]
             /\ page'[s].at = page[s].at
             /\ page'[s].input = page[s].input /\ page'[s].resize = page[s].resize
             /\ socket[s] = "open" /\ page[s].at \in {"read-write", "read-only"} => page'[s].output = term.output + 1
  BY FrameShown
<1>2. page' \in [Sockets -> PageRecord]
  BY <1>1
<1>3. ASSUME NEW s \in Sockets PROVE Surface(s)'
  <2>1. Surface(s)
    BY DEF RouterInv
  <2>2. Apart(s)' <=> Apart(s)
    BY DEF Apart
  <2>3. Sequenced(s) => Sequenced(s)'
    BY <1>1 DEF Sequenced
  <2>4. Reads(s)' <=> Reads(s)
    BY <1>1 DEF Reads
  <2>5. socket[s] = "open" /\ Phase(s) => Phase(s)'
    BY <1>1, <2>2, <2>3 DEF Phase
  <2>6. page'[s].at # "output mismatched" /\ page'[s].at # "input refused"
    BY <1>1, <2>1 DEF Surface
  <2> QED
    BY <1>1, <2>1, <2>2, <2>4, <2>5, <2>6 DEF Surface
<1> QED
  BY <1>2, <1>3

\* The PTY puts a frame out, or its exit ends the stream.
LEMMA StreamKeeps ==
  ASSUME RouterInv, BrowserType', SocketType', UNCHANGED busy, Output \/ Exit
  PROVE  RouterInv'
<1>1. SessionTypeOK /\ PtyInv /\ Typed /\ term \in Term
  BY DEF RouterInv, Typed, SessionTypeOK, Term
<1>2. term.output <= MaxOutput /\ writes.queued <= 1 /\ term.output \in Nat /\ term.low \in Nat /\ MaxOutput \in Nat
  <2>1. pty \in {"running", "killed"}
    BY DEF Output, Exit
  <2>2. term.output <= MaxOutput /\ writes.queued <= 1
    BY <1>1, <2>1 DEF PtyInv
  <2> QED
    BY <1>1, <2>2, TerminalAssumption DEF Term
<1>3. PICK eof \in BOOLEAN :
        /\ page' = [s \in Sockets |-> IF s \in Listening THEN Shown(page[s], term.output, term.output + 1, eof)
                                      ELSE page[s]]
        /\ UNCHANGED <<inbox, busy, socket, focused>>
        /\ term'.output = term.output + 1 /\ term'.writer = term.writer /\ term'.live = term.live
        /\ term'.readers = term.readers /\ term'.handlers = term.handlers
        /\ term'.input = term.input /\ term'.resize = term.resize
        /\ pty \in {"running", "killed"}
        /\ SessionTypeOK' /\ PtyInv' /\ Alive'
  <2>1. CASE Output
    <3> DEFINE low == IF term.output + 1 - term.low > Buffered THEN term.low + 1 ELSE term.low
    <3>1. /\ Alive /\ pty = "running" /\ term.output < MaxOutput
          /\ term' = [term EXCEPT !.output = term.output + 1, !.low = low]
          /\ page' = [s \in Sockets |-> IF s \in Listening
                                        THEN Shown(page[s], term.output, term.output + 1, FALSE) ELSE page[s]]
          /\ UNCHANGED <<inbox, opening, pty, control, record, file, writes, focused, life, socket>>
      BY <2>1 DEF Output, browserVars
    <3>2. low \in 0..(MaxOutput + 1) /\ low <= term.output + 1 /\ term.output + 1 \in 0..(MaxOutput + 1)
      BY <1>1, <1>2, <3>1, TerminalAssumption DEF SessionTypeOK
    <3> HIDE DEF low
    <3>3. /\ term' \in Term /\ term'.low = low /\ term'.output = term.output + 1 /\ term'.writer = term.writer
          /\ term'.live = term.live /\ term'.readers = term.readers /\ term'.handlers = term.handlers
          /\ term'.input = term.input /\ term'.resize = term.resize
      BY <1>1, <3>1, <3>2 DEF Term
    <3>4. SessionTypeOK'
      BY <1>1, <3>1, <3>2, <3>3 DEF SessionTypeOK, Term
    <3>5. PtyInv' /\ Alive'
      BY <1>1, <1>2, <3>1, <3>3 DEF PtyInv, ExitInv, Alive
    <3> QED
      BY <3>1, <3>3, <3>4, <3>5
  <2>2. CASE Exit
    <3>1. /\ Alive /\ pty \in {"running", "killed"} /\ opening.at # "awaiting"
          /\ pty' = "exited" /\ record' = "exited"
          /\ writes' = [writes EXCEPT !.queued = writes.queued + 1, !.behind = life = "draining"]
          /\ term' = [term EXCEPT !.output = term.output + 1, !.eof = TRUE]
          /\ page' = [s \in Sockets |-> IF s \in Listening
                                        THEN Shown(page[s], term.output, term.output + 1, TRUE) ELSE page[s]]
          /\ control' \in {"none", "closed"}
          /\ UNCHANGED <<inbox, opening, file, focused, life, socket>>
      BY <2>2 DEF Exit, browserVars, Closes, Queue
    <3>2. term.output + 1 \in 0..(MaxOutput + 1) /\ term.low <= term.output + 1
          /\ writes' \in Writes /\ writes'.queued # 0 /\ (life = "draining" => writes'.behind)
      <4>1. SessionTypeOK /\ writes.queued <= 1 /\ term.output <= MaxOutput /\ (life = "draining") \in BOOLEAN
        BY <1>1, <1>2, <3>1 DEF PtyInv
      <4>2. writes' \in Writes /\ writes'.queued # 0 /\ writes'.behind = (life = "draining")
        BY <3>1, <4>1, Queued
      <4>3. term.output + 1 \in 0..(MaxOutput + 1) /\ term.low <= term.output + 1
        BY <4>1, TerminalAssumption DEF SessionTypeOK
      <4> QED
        BY <4>2, <4>3
    <3>3. /\ term' \in Term /\ term'.low = term.low /\ term'.output = term.output + 1 /\ term'.writer = term.writer
          /\ term'.live = term.live /\ term'.readers = term.readers /\ term'.handlers = term.handlers
          /\ term'.input = term.input /\ term'.resize = term.resize
      BY <1>1, <3>1, <3>2 DEF Term
    <3>4. SessionTypeOK'
      BY <1>1, <3>1, <3>2, <3>3 DEF SessionTypeOK, Term, Records, Writes
    <3>5. opening.at \notin {"probing", "preparing", "awaiting"}
      BY <1>1, <3>1 DEF PtyInv
    <3>6. PtyInv' /\ Alive'
      BY <1>1, <3>1, <3>2, <3>5 DEF PtyInv, ExitInv, Alive
    <3> QED
      BY <3>1, <3>3, <3>4, <3>6
  <2> QED
    BY <2>1, <2>2
<1>4. page' \in [Sockets -> PageRecord] /\ \A s \in Sockets : Surface(s)'
  BY <1>3, FrameKeeps
<1>5. Typed'
  BY <1>1, <1>3, <1>4 DEF Typed
<1> QED
  BY <1>3, <1>4, <1>5 DEF RouterInv, Stopped

\* The process ends: an orderly stop has made the writes it waited for.
LEMMA GoneKeeps ==
  ASSUME RouterInv, BrowserType', SocketType', ShutdownEnds \/ RuntimeDies,
         busy' = [s \in Sockets |-> "idle"]
  PROVE  RouterInv'
<1>1. SessionTypeOK /\ PtyInv /\ Typed
  BY DEF RouterInv, Typed
<1>2. PICK how \in {"stopped", "crashed"} :
        Gone(how) /\ Alive /\ (how = "stopped" => life = "draining" /\ writes.awaited = 0)
  BY DEF ShutdownEnds, RuntimeDies, Alive
<1>3. /\ life' = how /\ pty' = (IF pty \in {"running", "killed"} THEN "lost" ELSE pty)
      /\ socket' = [s \in Sockets |-> "closed"]
      /\ page' = [s \in Sockets |-> Blank("gone")] /\ inbox' = [s \in Sockets |-> <<>>]
      /\ opening' = [at |-> "idle", by |-> Nobody, opens |-> MaxOpens]
      /\ control' = "none" /\ record' = "none" /\ writes' = [writes EXCEPT !.queued = 0, !.awaited = 0]
      /\ term' = NoTerm /\ focused' = FALSE /\ file' = file
  BY <1>2 DEF Gone
<1>4. NoTerm \in Term /\ NoTerm.handlers \subseteq NoTerm.readers /\ NoTerm.low <= NoTerm.output /\ NoTerm.output = 0
  BY TerminalAssumption DEF NoTerm, Term
<1>5. opening' \in [at : {"idle", "probing", "preparing", "awaiting", "persisting", "auditing"},
                    by : Sockets \cup {Nobody}, opens : 0..MaxOpens] /\ opening'.at = "idle"
  BY <1>3, TerminalAssumption
<1>6. SessionTypeOK'
  <2>1. term' \in Term /\ term'.handlers \subseteq term'.readers /\ term'.low <= term'.output
    BY <1>3, <1>4
  <2>2. pty' \in {"none", "exited", "lost"} /\ file' \in Records /\ life' \in {"stopped", "crashed"}
        /\ record' \in Records /\ control' = "none" /\ writes' \in Writes /\ focused' \in BOOLEAN
    <3>1. pty \in {"none", "running", "killed", "exited", "lost"} /\ file \in Records
      BY <1>1 DEF SessionTypeOK
    <3>2. pty' \in {"none", "exited", "lost"}
      BY <1>3, <3>1
    <3>3. file' \in Records /\ "none" \in Records
      BY <1>3, <3>1 DEF Records
    <3>4. focused' \in BOOLEAN
      <4>1. focused' = FALSE
        BY <1>3
      <4> QED
        BY <4>1, Zenon
    <3>5. writes' \in Writes
      <4>1. /\ writes = [queued |-> writes.queued, awaited |-> writes.awaited, behind |-> writes.behind,
                         refused |-> writes.refused]
            /\ writes.behind \in BOOLEAN /\ writes.refused \in BOOLEAN
        BY <1>1 DEF SessionTypeOK
      <4>2. writes' = [queued |-> 0, awaited |-> 0, behind |-> writes.behind, refused |-> writes.refused]
        BY <1>3, <4>1
      <4>3. 0 \in 0..2
        OBVIOUS
      <4> QED
        BY <4>1, <4>2, <4>3 DEF Writes
    <3>6. life' \in {"stopped", "crashed"} /\ record' = "none" /\ control' = "none"
      BY <1>2, <1>3
    <3> QED
      BY <3>2, <3>3, <3>4, <3>5, <3>6
  <2> QED
    BY <1>5, <2>1, <2>2 DEF SessionTypeOK, Term, Writes
<1>7. Typed'
  <2>1. Blank("gone") \in PageRecord
    BY TerminalAssumption DEF Blank, PageRecord, Stages
  <2>2. <<>> \in Seq(Sent) /\ Len(<<>>) = 0 /\ Len(<<>>) <= MaxInbox
    BY TerminalAssumption
  <2>3. page' \in [Sockets -> PageRecord]
    BY <1>3, <2>1
  <2>4. inbox' \in [Sockets -> Seq(Sent)] /\ \A s \in Sockets : Len(inbox'[s]) <= MaxInbox
    BY <1>3, <2>2
  <2>5. busy' \in [Sockets -> Works]
    BY DEF Works
  <2> QED
    BY <1>6, <2>3, <2>4, <2>5 DEF Typed
<1>8. PtyInv'
  <2>1. pty = "exited" /\ how = "stopped" /\ ~writes.behind /\ ~writes.refused => file = "exited"
    BY <1>1, <1>2 DEF PtyInv, ExitInv
  <2>2. ~Alive' /\ life' # "draining"
    BY <1>2, <1>3 DEF Alive
  <2>3. writes'.queued = 0 /\ writes'.behind = writes.behind /\ writes'.refused = writes.refused
    BY <1>1, <1>3 DEF SessionTypeOK
  <2>4. pty' = "exited" => pty = "exited" /\ ExitInv'
    BY <1>2, <1>3, <2>1, <2>2, <2>3 DEF ExitInv
  <2> QED
    BY <1>2, <1>3, <1>4, <1>5, <2>3, <2>4 DEF PtyInv
<1>9. \A s \in Sockets : Surface(s)'
  <2>1. Blank("gone").at = "gone"
    BY DEF Blank
  <2> QED
    BY <1>3, <2>1 DEF Surface
<1> QED
  BY <1>7, <1>8, <1>9 DEF RouterInv, Stopped

\* The next process reads the file.
LEMMA BootKeeps ==
  ASSUME RouterInv, BrowserType', SocketType', Boot, busy' = [s \in Sockets |-> "idle"]
  PROVE  RouterInv'
<1>1. /\ ~Alive /\ file = "running" /\ file' = "interrupted"
      /\ UNCHANGED <<socket, opening, pty, control, record, writes, term, focused, life>>
      /\ UNCHANGED page /\ UNCHANGED inbox
  BY DEF Boot, Alive, pageVars
<1>2. busy' = busy
  <2>1. busy \in [Sockets -> Works] /\ \A s \in Sockets : busy[s] = "idle"
    BY <1>1 DEF RouterInv, Typed, Stopped
  <2> QED
    BY <2>1
<1>3. SessionTypeOK /\ PtyInv /\ Typed
  BY DEF RouterInv, Typed
<1>4. SessionTypeOK'
  BY <1>1, <1>3 DEF SessionTypeOK, Records
<1>5. PtyInv'
  BY <1>1, <1>3 DEF PtyInv, ExitInv, Alive
<1>6. Typed'
  BY <1>1, <1>2, <1>3, <1>4 DEF Typed
<1>7. \A t \in Sockets : Surface(t)'
  BY <1>1, <1>2, AtMostClosedKeeps DEF RouterInv
<1> QED
  BY <1>5, <1>6, <1>7 DEF RouterInv, Stopped

\* The browser session ends or expires.
LEMMA BrowserKeeps ==
  ASSUME RouterInv, BrowserType', SocketType', Browser
  PROVE  RouterInv'
<1>1. /\ Alive /\ UNCHANGED <<opening, pty, control, record, file, writes, term, focused, life>>
      /\ UNCHANGED page /\ UNCHANGED inbox /\ UNCHANGED busy
  BY DEF Browser, BrowserOnly, pageVars, sessionVars
<1>2. \A t \in Sockets : socket'[t] \in {"none", "open"} => socket'[t] = socket[t]
  BY DEF Browser, BrowserStep, ExpireSession, RevokeExpired, EndSession, SessionEnded, Closed
<1>3. SessionTypeOK /\ PtyInv
  BY DEF RouterInv, Typed
<1>4. SessionTypeOK' /\ PtyInv' /\ Alive'
  BY <1>1, <1>3 DEF SessionTypeOK, PtyInv, ExitInv, Alive
<1> QED
  BY <1>1, <1>2, <1>4, UnseenKeeps

\* RouterInv is inductive, with what is known of the sockets.
LEMMA RouterInvStep ==
  RouterInv /\ SocketInv /\ [Next]_vars => (RouterInv /\ SocketInv)'
<1> SUFFICES ASSUME RouterInv, SocketInv, [Next]_vars
             PROVE  RouterInv' /\ SocketInv'
  OBVIOUS
<1>1. SocketInv' /\ BrowserType' /\ SocketType'
  BY SocketInvStep DEF SocketInv
<1>2. CASE Browser
  BY <1>1, <1>2, BrowserKeeps
<1>3. CASE Session
  <2>1. CASE Alive'
    <3>1. UNCHANGED busy
      BY <1>3, <2>1 DEF Session
    <3>2. ~(ShutdownEnds \/ RuntimeDies \/ Boot)
      BY <2>1 DEF ShutdownEnds, RuntimeDies, Gone, Boot, Alive
    <3> QED
      BY <1>1, <1>3, <3>1, <3>2, StartKeeps, StopKeeps, StartFailsKeeps, OpenedKeeps, StreamKeeps DEF Session
  <2>2. CASE ~Alive'
    <3>1. busy' = [s \in Sockets |-> "idle"]
      BY <1>3, <2>2 DEF Session
    <3>2. ShutdownEnds \/ RuntimeDies \/ Boot
      <4>1. /\ \A s \in Sockets : ~OpenSession(s)
            /\ ~(Probed \/ StartFails \/ Spawned \/ Ready \/ Persist \/ OpenFails \/ Opened \/ Output \/ Exit
                   \/ ShutDown \/ KillProviders \/ Drains)
        BY <2>2 DEF OpenSession, Probed, StartFails, Spawned, Ready, Persist, OpenFails, Opened, Output, Exit,
                    ShutDown, KillProviders, Drains, Alive
      <4> QED
        BY <1>3, <4>1 DEF Session
    <3> QED
      BY <1>1, <3>1, <3>2, GoneKeeps, BootKeeps
  <2> QED
    BY <2>1, <2>2
<1>4. CASE \E s \in Sockets : Router(s) \/ PageSends(s)
  BY <1>1, <1>4, RouterKeeps
<1>5. CASE UNCHANGED vars
  <2>1. /\ UNCHANGED <<page, inbox, busy, term, focused>> /\ UNCHANGED socket
        /\ UNCHANGED <<opening, pty, control, record, file, writes, life>>
    BY <1>5 DEF vars, browserVars, pageVars, sessionVars
  <2>2. Typed' /\ PtyInv' /\ Stopped'
    BY <1>1, <2>1 DEF RouterInv, Typed, PtyInv, ExitInv, Stopped, SessionTypeOK, Alive
  <2>3. \A t \in Sockets : Surface(t)'
    BY <2>1, AtMostClosedKeeps DEF RouterInv
  <2> QED
    BY <1>1, <2>2, <2>3 DEF RouterInv
<1> QED
  BY <1>1, <1>2, <1>3, <1>4, <1>5 DEF Next

\* No page is loaded at first, and nothing is open.
LEMMA RouterInvInit ==
  Init => RouterInv /\ SocketInv
<1> SUFFICES ASSUME Init PROVE RouterInv /\ SocketInv
  OBVIOUS
<1>1. SocketInv
  BY DEF Init, BrowserInit, SocketInv, BrowserType, SocketType, RevokedSocketsClose
<1>2. /\ opening = [at |-> "idle", by |-> Nobody, opens |-> 0]
      /\ pty = "none" /\ control = "none" /\ record = "none" /\ file = "none"
      /\ writes = [queued |-> 0, awaited |-> 0, behind |-> FALSE, refused |-> FALSE]
      /\ term = NoTerm /\ focused = FALSE /\ life = "up"
      /\ page = [s \in Sockets |-> Blank("away")] /\ inbox = [s \in Sockets |-> <<>>]
      /\ socket = [s \in Sockets |-> "none"] /\ busy = [s \in Sockets |-> "idle"]
  BY DEF Init, BrowserInit, SessionInit, PageInit
<1>3. NoTerm \in Term /\ NoTerm.handlers \subseteq NoTerm.readers /\ NoTerm.low <= NoTerm.output /\ NoTerm.output = 0
      /\ NoTerm.handlers = {} /\ NoTerm.readers = {} /\ NoTerm.writer = Nobody
  BY TerminalAssumption DEF NoTerm, Term
<1>4. opening \in [at : {"idle", "probing", "preparing", "awaiting", "persisting", "auditing"},
                   by : Sockets \cup {Nobody}, opens : 0..MaxOpens] /\ opening.at = "idle"
  BY <1>2, TerminalAssumption
<1>5. SessionTypeOK
  <2>1. term \in Term /\ term.handlers \subseteq term.readers /\ term.low <= term.output
    BY <1>2, <1>3
  <2>2. record \in Records /\ file \in Records /\ writes \in Writes
    BY <1>2 DEF Records, Writes
  <2> QED
    BY <1>2, <1>4, <2>1, <2>2 DEF SessionTypeOK, Term, Writes
<1>6. Blank("away") \in PageRecord /\ Blank("away").at = "away"
  BY TerminalAssumption DEF Blank, PageRecord, Stages
<1>7. Typed
  <2>1. <<>> \in Seq(Sent) /\ Len(<<>>) = 0 /\ Len(<<>>) <= MaxInbox
    BY TerminalAssumption
  <2>2. inbox \in [Sockets -> Seq(Sent)] /\ \A s \in Sockets : Len(inbox[s]) <= MaxInbox
    BY <1>2, <2>1
  <2> QED
    BY <1>1, <1>2, <1>5, <1>6, <2>2 DEF Typed, SocketInv, Works
<1>8. PtyInv /\ Stopped
  BY <1>2, <1>3, <1>4 DEF PtyInv, Stopped
<1>9. ASSUME NEW s \in Sockets PROVE Surface(s)
  BY <1>2, <1>3, <1>6, TerminalAssumption DEF Surface, Apart
<1> QED
  BY <1>1, <1>7, <1>8, <1>9 DEF RouterInv

\* RouterInv holds in every state.
THEOREM PagesFollowTheStream == Spec => [](RouterInv /\ SocketInv)
BY RouterInvInit, RouterInvStep, PTL DEF Spec

\* The types of the sockets, the pages and the session.
LEMMA RouterInvTypes == RouterInv => TypeOK
<1> SUFFICES ASSUME RouterInv PROVE TypeOK
  OBVIOUS
<1>1. Typed
  BY DEF RouterInv
<1>2. BrowserTypeOK /\ SessionTypeOK
  BY <1>1 DEF Typed, BrowserType, SocketType, BrowserTypeOK
<1>3. Sent \subseteq Message
  BY TerminalAssumption DEF Sent, Message
<1>4. \A messages \in Seq(Sent) : messages \in Seq(Message)
  BY <1>3
<1>5. inbox \in [Sockets -> Seq(Message)] /\ \A s \in Sockets : Len(inbox[s]) <= MaxInbox
  BY <1>1, <1>4 DEF Typed
<1>6. ASSUME NEW s \in Sockets
      PROVE  /\ DOMAIN page[s] = {"at", "output", "input", "resize", "eof"}
             /\ page[s].at \in Stages /\ page[s].output \in Nat
             /\ page[s].input \in 0..MaxInputs /\ page[s].resize \in 0..MaxResizes
             /\ page[s].eof \in BOOLEAN
  <2>1. page[s] \in PageRecord
    BY <1>1 DEF Typed
  <2> QED
    BY <2>1 DEF PageRecord
<1>7. PageTypeOK
  BY <1>5, <1>6 DEF PageTypeOK
<1>8. busy \in [Sockets -> {"idle", "greeting", "greeting-focused"} \cup {"read-write", "read-only"}]
  BY <1>1 DEF Typed, Works
<1> QED
  BY <1>2, <1>7, <1>8 DEF TypeOK

\* TypeOK holds for any number of sockets and any bounds: no sequence number, queue or
\* cursor of the router, the pages and the stream leaves its range.
THEOREM RouterIsTyped == Spec => []TypeOK
BY PagesFollowTheStream, RouterInvTypes, PTL

\* OutputInOrder holds for any number of sockets, any output and any buffer: a page shows
\* the frames one after the other, from its attachment on, through audits and replays.
THEOREM OutputStaysInOrder == Spec => []OutputInOrder
<1>1. RouterInv => OutputInOrder
  BY DEF RouterInv, Surface, OutputInOrder
<1> QED
  BY <1>1, PagesFollowTheStream, PTL

\* InputKept holds for any number of sockets and inputs: whoever wrote before it, a page
\* that is the writer is not told that its input is out of order while the PTY runs.
THEOREM InputIsKept == Spec => []InputKept
<1>1. RouterInv => InputKept
  BY DEF RouterInv, Surface, InputKept
<1> QED
  BY <1>1, PagesFollowTheStream, PTL

\* ExitIsRetained holds for any number of sockets, any output and any number of starts:
\* once the queued writes are made, and after an orderly stop, the file says of a PTY whose
\* exit was seen that it exited.  Two exits are excepted, and are lost by the code: one
\* whose own write was refused, and, after a stop, one seen once the drain had begun.
THEOREM ExitsAreRetained == Spec => []ExitIsRetained
<1>1. RouterInv => ExitIsRetained
  BY DEF RouterInv, PtyInv, ExitInv, ExitIsRetained
<1> QED
  BY <1>1, PagesFollowTheStream, PTL
=============================================================================

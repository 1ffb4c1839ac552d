------------------------------ MODULE LiveConsole ------------------------------
(***************************************************************************)
(* The live console: AgentConsole.tsx in the browser, analyst_ws, poll and *)
(* result of agent_commands.py on the server, and the agent's command      *)
(* loop.  The browser opens WebSockets; on the server every socket has a   *)
(* handler that takes one command at a time, hands it to the agent through *)
(* _pending and passes on what comes back through a queue of its own.      *)
(***************************************************************************)
EXTENDS PageFrame, SequencesExt

CONSTANTS
  MaxSock,        \* bound: sockets opened
  MaxCmd          \* bound: commands entered, here or by POST /run

ASSUME ConsoleAssumption == MaxSock \in Nat /\ MaxCmd \in Nat

OnConsole == OnPage("console")
Sock == 1..MaxSock
Cmd  == 1..MaxCmd
Line(t, c) == <<t, c>>
Replies == {"queued", "output", "done", "error"} \X Cmd
Lines == ({"input"} \X Cmd) \cup Replies

\* ref: wsRef.current, 0 for null; lines: the terminal, with the command each
\* line is about, without the 500 lines that are kept at most.
ConsoleF == [ref |-> 0, connected |-> FALSE, connecting |-> FALSE, lines |-> <<>>]

\* st: the browser's end (ending: the server has closed, but what it had sent
\* still arrives); live: the page that opened it is still there; srv: the
\* handler, at work on cmd; inn, out: what is under way; sent: every command
\* entered on it.
NoSock == [st |-> "none", live |-> FALSE, srv |-> "none", cmd |-> 0, inn |-> <<>>, out |-> <<>>, sent |-> {}]

\* pend: _pending of the agent; chunks: _ws_queues, for the commands of wait;
\* rest: the command of POST /run; agent: the command it executes; outs: the
\* commands that printed something; told: those whose end was shown.
ConsoleDb == [sock |-> [s \in Sock |-> NoSock], next |-> 1, pend |-> <<>>, wait |-> {},
              chunks |-> [c \in Cmd |-> <<>>], rest |-> 0, agent |-> 0, outs |-> {}, told |-> {}]

Socks == [st : {"none", "opening", "open", "ending", "shut", "lost", "gone"}, live : BOOLEAN,
          srv : {"none", "recv", "queued", "wait", "end"}, cmd : {0} \cup Cmd,
          inn : Seq(Cmd), out : Seq(Replies), sent : SUBSET Cmd]

ConsoleFs == [ref : {0} \cup Sock, connected : BOOLEAN, connecting : BOOLEAN, lines : Seq(Lines)]
ConsoleDbs == [sock : [Sock -> Socks], next : 1..(MaxCmd + 1), pend : Seq(Cmd), wait : SUBSET Cmd,
               chunks : [Cmd -> Seq(Replies)], rest : {0} \cup Cmd, agent : {0} \cup Cmd,
               outs : SUBSET Cmd, told : SUBSET Cmd]

\* A handler is at work on a command exactly while it waits for its result.
AtWork(d) == \A s \in Sock : (d.sock[s].srv \in {"queued", "wait"}) = (d.sock[s].cmd # 0)

ConsoleTypeOK == f \in ConsoleFs /\ db \in ConsoleDbs /\ AtWork(db)

ConsoleInit == page = "console" /\ f = ConsoleF /\ db = ConsoleDb /\ net = [c \in Slot |-> NoCall]

Steps(g, d)  == page = "console" /\ f' = g /\ db' = d /\ UNCHANGED <<page, mounted, q, used, net, faults>>
Happens(g, d) == page = "console" /\ Event /\ f' = g /\ db' = d /\ UNCHANGED <<page, mounted, q, net, faults>>
Says(g, s, line) == IF db.sock[s].live THEN [g EXCEPT !.lines = Append(@, line)] ELSE g

-----------------------------------------------------------------------------
(* The browser.                                                            *)

connect ==
  /\ OnConsole /\ ~f.connected /\ ~f.connecting /\ f.ref = 0
  /\ \E s \in Sock : /\ db.sock[s].st = "none" /\ \A r \in Sock : r < s => db.sock[r].st # "none"
                     /\ Steps([f EXCEPT !.connecting = TRUE, !.ref = s],
                              [db EXCEPT !.sock[s].st = "opening", !.sock[s].live = TRUE])
\* accept() on the server and onopen here.
Opens(s) ==
  /\ page = "console" /\ db.sock[s].st = "opening"
  /\ Steps(IF db.sock[s].live THEN [f EXCEPT !.connected = TRUE, !.connecting = FALSE] ELSE f,
           [db EXCEPT !.sock[s].st = "open", !.sock[s].srv = "recv"])
\* Wrong origin, no session or a dead one.
Refused(s) == page = "console" /\ db.sock[s].st = "opening" /\ Happens(f, [db EXCEPT !.sock[s].st = "lost"])
\* Whichever socket closes, it is the page's ref that is cleared.
OnClose(s) ==
  /\ page = "console"
  /\ db.sock[s].st \in {"shut", "lost"} \/ (db.sock[s].st = "ending" /\ db.sock[s].out = <<>>)
  /\ Steps(IF db.sock[s].live THEN [f EXCEPT !.connected = FALSE, !.connecting = FALSE, !.ref = 0] ELSE f,
           [db EXCEPT !.sock[s].st = "gone", !.sock[s].out = <<>>, !.sock[s].sent = {}, !.sock[s].live = FALSE])
Closed(d, s) == IF s # 0 /\ d.sock[s].st \in {"opening", "open", "ending"} THEN [d EXCEPT !.sock[s].st = "shut"] ELSE d
disconnect == OnConsole /\ f.connected /\ Happens([f EXCEPT !.connected = FALSE, !.ref = 0], Closed(db, f.ref))
Drops(s) == /\ page = "console" /\ db.sock[s].st = "open" /\ Happens(f, [db EXCEPT !.sock[s].st = "lost"])

\* The connection must be the one of the ref; the field looks at connected.
sendCommand ==
  /\ OnConsole /\ f.connected /\ f.ref # 0 /\ db.next \in Cmd
  /\ LET s == f.ref c == db.next IN
     /\ db.sock[s].st \in {"open", "ending"}
     /\ Steps([f EXCEPT !.lines = Append(@, Line("input", c))],
              [db EXCEPT !.next = @ + 1, !.sock[s].sent = @ \cup {c},
                 !.sock[s].inn = IF db.sock[s].st = "open" THEN Append(@, c) ELSE @])
clearLines == OnConsole /\ f.lines # <<>> /\ Happens([f EXCEPT !.lines = <<>>], db)

OnMessage(s) ==
  LET m == Head(db.sock[s].out) IN
  /\ page = "console" /\ db.sock[s].st \in {"open", "ending"} /\ db.sock[s].out # <<>>
  /\ Steps(Says(f, s, m), [db EXCEPT !.sock[s].out = Tail(@), !.told = IF m[1] \in {"done", "error"} THEN @ \cup {m[2]} ELSE @])

\* The effect's cleanup closes the socket of the ref, and no other.
ConsoleLeave ==
  /\ OnConsole /\ Event /\ mounted' = FALSE /\ f' = ConsoleF
  /\ db' = LET d == Closed(db, f.ref) IN [d EXCEPT !.sock = [s \in Sock |-> [@[s] EXCEPT !.live = FALSE]]]
  /\ UNCHANGED <<page, q, net, faults>>
ConsoleReturn == /\ page = "console" /\ ~mounted /\ mounted' = TRUE /\ UNCHANGED <<page, f, q, db, used, net, faults>>

-----------------------------------------------------------------------------
(* The handler of a socket, and POST /run.                                 *)

Reached(s)  == db.sock[s].st \in {"open", "ending"}
Out(d, s, m) == IF Reached(s) THEN [d EXCEPT !.sock[s].out = Append(@, m)] ELSE d
Idle(d, s, st) == [d EXCEPT !.sock[s].srv = st, !.sock[s].cmd = 0, !.sock[s].inn = IF st = "end" THEN <<>> ELSE @]

\* Mutant: the finally forgets the command's place in _pending.
ReleaseQueueOnly(d, c) == [d EXCEPT !.wait = @ \ {c}, !.chunks[c] = <<>>]

\* The finally block; an id is in the list once at most.
Release(d, c) == [d EXCEPT !.pend = RemoveFirst(@, c), !.wait = @ \ {c}, !.chunks[c] = <<>>]

Enqueue(d, c) == [d EXCEPT !.pend = Append(@, c), !.wait = @ \cup {c}]

\* Validation, session, device and audit record come first.
Receives(s) ==
  LET c == Head(db.sock[s].inn) d == [db EXCEPT !.sock[s].inn = Tail(@)] IN
  /\ page = "console" /\ db.sock[s].srv = "recv" /\ db.sock[s].inn # <<>>
  /\ Steps(f, [Enqueue(d, c) EXCEPT !.sock[s].srv = "queued", !.sock[s].cmd = c])
Refuses(s) ==
  LET c == Head(db.sock[s].inn) d == [db EXCEPT !.sock[s].inn = Tail(@)] IN
  /\ page = "console" /\ db.sock[s].srv = "recv" /\ db.sock[s].inn # <<>>
  /\ \/ Happens(f, Out(d, s, Line("error", c)))
     \/ Happens(f, [Idle(d, s, "end") EXCEPT !.sock[s].st = IF Reached(s) THEN "ending" ELSE @])
RecvEnds(s) == /\ page = "console" /\ db.sock[s].srv = "recv" /\ db.sock[s].inn = <<>> /\ ~Reached(s) /\ db.sock[s].st # "none"
               /\ Steps(f, Idle(db, s, "end"))
\* A send to a socket that is gone raises, sooner or later (while the handler
\* waits it sends a ping every 5 s), and the finally block runs.
Tells(s) == /\ page = "console" /\ db.sock[s].srv = "queued"
            /\ Steps(f, [Out(db, s, Line("queued", db.sock[s].cmd)) EXCEPT !.sock[s].srv = "wait"])
Raises(s) == /\ page = "console" /\ db.sock[s].srv \in {"queued", "wait"} /\ ~Reached(s)
             /\ Steps(f, Idle(Release(db, db.sock[s].cmd), s, "end"))
Passes(s) ==
  LET c == db.sock[s].cmd m == Head(db.chunks[c]) d == Out([db EXCEPT !.chunks[c] = Tail(@)], s, m) IN
  /\ page = "console" /\ db.sock[s].srv = "wait" /\ db.chunks[c] # <<>>
  /\ Steps(f, IF m[1] = "done" THEN Idle(Release(d, c), s, "recv") ELSE d)

\* Mutant: the wait ends without a word.
TimesOutSilently(s) ==
  LET c == db.sock[s].cmd IN
  /\ page = "console" /\ db.sock[s].srv = "wait"
  /\ Happens(f, Idle(Release(db, c), s, "recv"))

TimesOut(s) ==
  LET c == db.sock[s].cmd IN
  /\ page = "console" /\ db.sock[s].srv = "wait"
  /\ Happens(f, Idle(Release(Out(db, s, Line("error", c)), c), s, "recv"))

RunSync  == /\ page = "console" /\ db.rest = 0 /\ db.next \in Cmd
            /\ Happens(f, [Enqueue(db, db.next) EXCEPT !.rest = db.next, !.next = @ + 1])
RunSyncEnds == /\ page = "console" /\ db.rest # 0
            /\ \/ db.chunks[db.rest] # <<>> /\ Steps(f, [Release(db, db.rest) EXCEPT !.rest = 0])
               \/ Happens(f, [Release(db, db.rest) EXCEPT !.rest = 0])

-----------------------------------------------------------------------------
(* The agent: pollAndExecuteCommand.                                       *)

PollCommand == /\ page = "console" /\ db.agent = 0 /\ db.pend # <<>>
               /\ Steps(f, [db EXCEPT !.agent = Head(db.pend), !.pend = Tail(@)])
\* The answer is lost on its way, or the command's time was over.
PollLost    == page = "console" /\ db.pend # <<>> /\ Happens(f, [db EXCEPT !.pend = Tail(@)])

ResultChunks(c) == <<Line("output", c), Line("done", c)>>

PostCommandResult ==
  LET c == db.agent IN
  /\ page = "console" /\ c # 0
  /\ \E printed \in BOOLEAN :
       Steps(f, [db EXCEPT !.agent = 0, !.outs = IF printed THEN @ \cup {c} ELSE @,
                   !.chunks[c] = IF c \notin db.wait THEN @ ELSE IF printed THEN @ \o ResultChunks(c) ELSE Append(@, Line("done", c))])
\* It is not tried again when it fails, or is refused for its length.
ResultLost == page = "console" /\ db.agent # 0 /\ Happens(f, [db EXCEPT !.agent = 0])

ConsoleUser ==
  \/ connect \/ disconnect \/ sendCommand \/ clearLines \/ ConsoleLeave \/ ConsoleReturn
  \/ RunSync \/ RunSyncEnds \/ PollCommand \/ PollLost \/ PostCommandResult \/ ResultLost
ConsoleSocket(s) ==
  \/ Opens(s) \/ Refused(s) \/ OnClose(s) \/ Drops(s) \/ OnMessage(s)
  \/ Receives(s) \/ Refuses(s) \/ RecvEnds(s) \/ Tells(s) \/ Raises(s) \/ Passes(s) \/ TimesOut(s)

-----------------------------------------------------------------------------
(* Properties.                                                             *)

\* A command can be taken by the agent only while its analyst's handler, or
\* the request of POST /run, still waits for what it prints: whatever breaks,
\* nothing that was given up can be polled later, and no queue is left behind. A
\* command that the agent polled before it was given up still runs there.
QueuesBelong ==
  page = "console" =>
    /\ Range(db.pend) \subseteq db.wait
    /\ db.wait = ({db.sock[s].cmd : s \in Sock} \cup {db.rest}) \ {0}

\* A connection on which nothing is under way any more has shown an exit code
\* or an error for every command entered on it, however polls, results and
\* deadlines went.
AnsweredBeforeIdle ==
  OnConsole => \A s \in Sock : LET k == db.sock[s] IN
    k.st = "open" /\ k.live /\ k.srv = "recv" /\ k.inn = <<>> /\ k.out = <<>> => k.sent \subseteq db.told

\* The exit code of a command is shown after what it printed, whichever of
\* several sockets brings them.
OutputBeforeExit ==
  OnConsole => \A i \in DOMAIN f.lines : \A c \in db.outs :
    f.lines[i] = Line("done", c) /\ Contains(f.lines, Line("input", c)) => \E j \in 1..i : f.lines[j] = Line("output", c)

\* Every command that was entered has its outcome, in order: an idle connection
\* owes no answer and no exit code precedes its output (agent_commands.py
\* 251-273 and 333).
ConsoleOutcome == AnsweredBeforeIdle /\ OutputBeforeExit
=============================================================================

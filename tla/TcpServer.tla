------------------------------ MODULE TcpServer ------------------------------
(***************************************************************************)
(* CTcpServer and CTcpConnection (Common/Network): the acceptor, the table *)
(* of connections and the read and write loops of each, on one io thread.  *)
(*                                                                         *)
(* asio is external.  ready is the queue of handlers run() has to call:    *)
(* what post() gave it and the completions of pending operations, in the   *)
(* order they became ready.  close() of a socket completes what is still   *)
(* pending on it with an error and leaves alone what is in ready already.  *)
(* run() returns when nothing is pending or ready.                         *)
(*                                                                         *)
(* A CTcpServer object is started once: CNetworkModule makes a new one for *)
(* every start, and with it a new table and new ids from 1.                *)
(*                                                                         *)
(* A payload is one number, so a partial write takes some of the payloads. *)
(***************************************************************************)
EXTENDS Naturals, Sequences, FiniteSets, SequencesExt, Ascending

CONSTANTS
    MaxConns,    \* bound on the connections accepted by one server
    MaxEvents,   \* bound on the calls of Send, Close and SetIdleTimeout, the peers
                 \* that connect, the reads with data and the idle scans, together
    Limits       \* values of m_nMaxConnections; 0 is no limit

ASSUME ServerAssumption ==
    /\ MaxConns \in Nat /\ MaxEvents \in Nat /\ Limits \subseteq Nat

Ids == 1 .. MaxConns

VARIABLES
    server,   \* members of CTcpServer, its thread and what is pending in asio
    conn,     \* members of each CTcpConnection and what is pending on its socket
    ready,    \* handlers that asio will call next
    events,   \* how many of these have happened
    told      \* history: the callbacks each connection has caused

serverVars == <<server, conn, ready, events, told>>

NoConn == [life |-> "none", reading |-> FALSE, inflight |-> 0, writing |-> FALSE,
           pending |-> <<>>, moved |-> FALSE, sent |-> <<>>, wire |-> <<>>]
NotTold == [accepts |-> 0, closes |-> 0, datas |-> 0, late |-> 0]
NewServer == [running |-> FALSE, thread |-> "none", stopping |-> FALSE,
              acceptor |-> FALSE, accepting |-> FALSE, idle |-> FALSE, timer |-> "null",
              map |-> {}, peers |-> {}, count |-> 0, totalAccepted |-> 0, totalClosed |-> 0,
              nextId |-> 1, max |-> 0, straggler |-> FALSE]

\* The argument of a completion is how much was done; 0 is an error.
Failed == 0
Garbage == 0
Task(what, id, arg) == [do |-> what, id |-> id, arg |-> arg]
Open(id) == conn[id].life = "open"

\* run() calls the next handler; posts is what the handler makes ready.
Handle(what) == server.thread = "run" /\ ready # <<>> /\ Head(ready).do = what
Handled(posts) == ready' = Tail(ready) \o posts
Event(t) == events < MaxEvents /\ events' = events + 1 /\ ready' = Append(ready, t)
Id == Head(ready).id
Arg == Head(ready).arg

Posts(what, S) == [k \in 1 .. Cardinality(S) |-> Task(what, InOrder(S)[k], 0)]

(***************************************************************************)
(* CTcpConnection.                                                         *)
(***************************************************************************)
\* m_bClosed and m_socket.close(): the pending read and write complete with an
\* error, which has no effect on a closed connection and is not queued.
Closed(c) == [c EXCEPT !.life = "closed", !.reading = FALSE, !.inflight = 0]

\* DoWrite: one async_write_some over all that is pending at this moment.
DoWrite(c) == [c EXCEPT !.writing = TRUE, !.inflight = Len(c.pending), !.moved = FALSE]

\* Appending to a string that a write is out for may move its bytes.
Appended(c, p, moves) ==
    [c EXCEPT !.pending = Append(@, p), !.sent = Append(@, p),
              !.moved = @ \/ (c.inflight > 0 /\ moves)]

OnAppendWrite(moves) ==
    /\ Handle("append")
    /\ conn' = IF ~Open(Id) THEN conn
               ELSE [conn EXCEPT ![Id] = IF @.writing THEN Appended(@, Arg, moves)
                                         ELSE DoWrite(Appended(@, Arg, moves))]
    /\ Handled(<<>>)
    /\ UNCHANGED <<server, events, told>>

\* What the socket takes of the outstanding write: its first n payloads, or, if
\* the string has moved, whatever the old place holds now.
Taken(c, n) == IF c.moved THEN [k \in 1 .. n |-> Garbage] ELSE SubSeq(c.pending, 1, n)

WriteProgress(id, n) ==
    /\ server.thread = "run"
    /\ conn[id].inflight >= n
    /\ conn' = [conn EXCEPT ![id].inflight = 0,
                            ![id].wire = @ \o Taken(conn[id], n)]
    /\ ready' = Append(ready, Task("write", id, n))
    /\ UNCHANGED <<server, events, told>>

WriteFails(id) ==
    /\ server.thread = "run"
    /\ conn[id].inflight > 0
    /\ conn' = [conn EXCEPT ![id].inflight = 0]
    /\ ready' = Append(ready, Task("write", id, Failed))
    /\ UNCHANGED <<server, events, told>>

ReadReady(id, res) ==
    /\ server.thread = "run"
    /\ conn[id].reading
    /\ conn' = [conn EXCEPT ![id].reading = FALSE]
    /\ IF res # Failed THEN Event(Task("read", id, res))
       ELSE ready' = Append(ready, Task("read", id, res)) /\ events' = events
    /\ UNCHANGED <<server, told>>

\* m_fnClose: the callback, and when the id left the table.
ToldClose(t, S) == [i \in Ids |-> IF i \in S THEN [t[i] EXCEPT !.closes = @ + 1] ELSE t[i]]
Uncount(n) == IF n > 0 THEN n - 1 ELSE 0

\* CTcpServer::HandleClose: whether the id is still in the table is not asked.
HandleClose(id) ==
    /\ server' = [server EXCEPT !.map = @ \ {id}, !.peers = @ \ {id}, !.count = Uncount(@),
                                !.totalClosed = @ + 1]
    /\ told' = ToldClose(told, {id})

\* HandleError, from a read or a write; the rest of the handler returns.
HandleError(id) ==
    IF ~Open(id)
    THEN Handled(<<>>) /\ UNCHANGED <<server, conn, told>>
    ELSE /\ conn' = [conn EXCEPT ![id] = Closed(@)]
         /\ Handled(<<>>)
         /\ HandleClose(id)

\* HandleRead: data is handed on even if the connection has been closed since.
OnRead ==
    /\ Handle("read")
    /\ IF Arg = Failed THEN HandleError(Id)
       ELSE /\ told' = [told EXCEPT ![Id].datas = @ + 1,
                                    ![Id].late = IF told[Id].closes > 0 THEN @ + 1 ELSE @]
            /\ conn' = [conn EXCEPT ![Id].reading = Open(Id)]
            /\ Handled(<<>>)
            /\ UNCHANGED server
    /\ UNCHANGED events

\* Mutant: the payloads that arrived while the write was out are dropped.
AfterWriteDropped(c, n) == [c EXCEPT !.writing = FALSE, !.pending = <<>>]

\* HandleWrite of n payloads: what is left is written next (on a closed socket
\* that write fails without effect).
AfterWrite(c, n) ==
    LET left == [c EXCEPT !.pending = SubSeq(@, n + 1, Len(@))] IN
    IF left.pending = <<>> THEN [left EXCEPT !.writing = FALSE]
    ELSE IF c.life = "open" THEN DoWrite(left) ELSE left

OnWrite ==
    /\ Handle("write")
    /\ IF Arg = Failed THEN HandleError(Id)
       ELSE /\ conn' = [conn EXCEPT ![Id] = AfterWrite(@, Arg)]
            /\ Handled(<<>>)
            /\ UNCHANGED <<server, told>>
    /\ UNCHANGED events

OnCloseOnIoThread ==
    /\ Handle("closeio")
    /\ conn' = IF Open(Id) THEN [conn EXCEPT ![Id] = Closed(@)] ELSE conn
    /\ Handled(<<>>)
    /\ UNCHANGED <<server, events, told>>

(***************************************************************************)
(* Accepting.                                                              *)
(***************************************************************************)
StartAccept(s) == [s EXCEPT !.accepting = s.acceptor]

\* A peer connects, or accept fails for a passing reason.
AcceptReady(ok) ==
    /\ server.thread = "run" /\ server.accepting
    /\ ok => server.nextId <= MaxConns
    /\ server' = [server EXCEPT !.accepting = FALSE]
    /\ Event(Task("accept", 0, IF ok THEN 1 ELSE Failed))
    /\ UNCHANGED <<conn, told>>

\* The accept handler, in order: error, limit, registration.  Whether the
\* server is being stopped is not asked.
Registered(s) ==
    [s EXCEPT !.map = @ \cup {s.nextId}, !.peers = @ \cup {s.nextId}, !.count = @ + 1,
              !.totalAccepted = @ + 1, !.nextId = @ + 1, !.straggler = @ \/ ~s.acceptor]

OnAccept ==
    /\ Handle("accept")
    /\ Handled(<<>>)
    /\ IF Arg = Failed \/ (server.max > 0 /\ server.count >= server.max)
       THEN server' = StartAccept(server) /\ UNCHANGED <<conn, told>>
       ELSE /\ server' = StartAccept(Registered(server))
            /\ conn' = [conn EXCEPT ![server.nextId] = [NoConn EXCEPT !.life = "open", !.reading = TRUE]]
            /\ told' = [told EXCEPT ![server.nextId].accepts = @ + 1]
    /\ UNCHANGED events

(***************************************************************************)
(* What other threads call: everything is posted.                          *)
(***************************************************************************)
ServerSend(id) ==
    /\ server.running
    /\ Event(Task("send", id, events + 1))
    /\ UNCHANGED <<server, conn, told>>

ServerClose(id) ==
    /\ Event(Task("close", id, 0))
    /\ UNCHANGED <<server, conn, told>>

\* With 0 the detection is off: nothing is posted, and the timer object stays.
SetIdleTimeout(on) ==
    /\ server' = [server EXCEPT !.idle = on]
    /\ IF on THEN Event(Task("idle", 0, 0)) ELSE server.idle /\ UNCHANGED <<ready, events>>
    /\ UNCHANGED <<conn, told>>

\* (Called before the first connection: a bound of the model.)
SetMaxConnections(n) ==
    /\ server.max # n /\ server.nextId = 1
    /\ server' = [server EXCEPT !.max = n]
    /\ UNCHANGED <<conn, ready, events, told>>

OnSend ==
    /\ Handle("send")
    /\ Handled(IF Id \in server.map /\ Open(Id) THEN <<Task("append", Id, Arg)>> ELSE <<>>)
    /\ UNCHANGED <<server, conn, events, told>>

\* The lambda of Close(): the id leaves the table before the socket closes.
OnClose ==
    /\ Handle("close")
    /\ IF Id \in server.map
       THEN HandleClose(Id) /\ Handled(IF Open(Id) THEN <<Task("closeio", Id, 0)>> ELSE <<>>)
       ELSE Handled(<<>>) /\ UNCHANGED <<server, told>>
    /\ UNCHANGED <<conn, events>>

(***************************************************************************)
(* The idle timer; timer is null, waiting, or set (its wait is over).      *)
(***************************************************************************)
StartIdleTimer(s) == [s EXCEPT !.timer = IF s.idle THEN "waiting" ELSE @]

\* The lambda posted by Start() and by SetIdleTimeout().  A timer that ran out
\* while the detection was off is not null, and is not started again.
OnIdleStart ==
    /\ Handle("idle")
    /\ server' = IF server.timer = "null" THEN StartIdleTimer(server) ELSE server
    /\ Handled(<<>>)
    /\ UNCHANGED <<conn, events, told>>

IdleTimerExpires ==
    /\ server.thread = "run" /\ server.timer = "waiting"
    /\ server' = [server EXCEPT !.timer = "set"]
    /\ IF server.running THEN Event(Task("tick", 0, 0))
       ELSE ready' = Append(ready, Task("tick", 0, 0)) /\ events' = events
    /\ UNCHANGED <<conn, told>>

\* CheckIdleConnections closes the connections that are idle, any of them, by
\* Close(), and the timer goes on while the server runs and the detection is on.  An aborted wait
\* has no effect and is not queued.
OnTick(idle) ==
    /\ Handle("tick")
    /\ idle \subseteq server.map /\ (idle = {} \/ server.idle)
    /\ server' = IF server.running THEN StartIdleTimer(server) ELSE server
    /\ Handled(Posts("close", idle))
    /\ UNCHANGED <<conn, events, told>>

(***************************************************************************)
(* Start, Stop and the io thread.                                          *)
(***************************************************************************)
\* A new CTcpServer and its Start().  (A failed bind or listen returns false
\* and the object is destroyed.)
ServerStart ==
    /\ server' = [NewServer EXCEPT !.running = TRUE, !.acceptor = TRUE, !.thread = "start"]
    /\ conn' = [id \in Ids |-> NoConn]
    /\ ready' = <<Task("idle", 0, 0)>>
    /\ told' = [id \in Ids |-> NotTold]
    /\ UNCHANGED events

\* ThreadMain: StartAccept, then run().
ThreadMain ==
    /\ server.thread = "start"
    /\ server' = [StartAccept(server) EXCEPT !.thread = "run"]
    /\ UNCHANGED <<conn, ready, events, told>>

ServerStop ==
    /\ server.running
    /\ server' = [server EXCEPT !.running = FALSE, !.stopping = TRUE]
    /\ ready' = Append(ready, Task("shutdown", 0, 0))
    /\ UNCHANGED <<conn, events, told>>

ServerStopJoin ==
    /\ server.stopping /\ server.thread \in {"none", "ended"}
    /\ server' = [server EXCEPT !.stopping = FALSE]
    /\ UNCHANGED <<conn, ready, events, told>>

\* ShutdownOnIoThread; the handlers it makes ready.
Shutdown(s) ==
    [s EXCEPT !.timer = "null", !.acceptor = FALSE, !.accepting = FALSE, !.map = {}, !.peers = {},
              !.count = 0, !.totalClosed = @ + Cardinality(s.map)]

ShutdownOnIoThread(thread, rest) ==
    /\ server' = [Shutdown(server) EXCEPT !.thread = thread]
    /\ told' = ToldClose(told, server.map)
    /\ ready' = rest \o Posts("closeio", {id \in server.map : Open(id)})

OnShutdown ==
    /\ Handle("shutdown")
    /\ ShutdownOnIoThread("run", Tail(ready))
    /\ UNCHANGED <<conn, events>>

\* Nothing left to do.
OutOfWork ==
    /\ ready = <<>> /\ ~server.accepting /\ server.timer # "waiting"
    /\ \A id \in Ids : ~conn[id].reading /\ conn[id].inflight = 0

RunReturns ==
    /\ server.thread = "run"
    /\ OutOfWork
    /\ ShutdownOnIoThread("ended", ready)
    /\ UNCHANGED <<conn, events>>

-------------------------------------------------------------------------------
ServerInit ==
    /\ server = NewServer
    /\ conn = [id \in Ids |-> NoConn]
    /\ ready = <<>> /\ events = 0
    /\ told = [id \in Ids |-> NotTold]

Handler ==
    \/ OnAccept \/ OnSend \/ OnClose \/ OnIdleStart \/ OnShutdown
    \/ OnRead \/ OnWrite \/ OnCloseOnIoThread
    \/ \E moves \in BOOLEAN : OnAppendWrite(moves)
    \/ \E idle \in SUBSET server.map : OnTick(idle)

IoThread == ThreadMain \/ Handler \/ RunReturns

Peer ==
    \/ \E ok \in BOOLEAN : AcceptReady(ok)
    \/ \E id \in Ids : \/ \E res \in {1, Failed} : ReadReady(id, res)
                       \/ \E n \in 1 .. MaxEvents : WriteProgress(id, n)
                       \/ WriteFails(id)

\* Ids are known to the callers once OnAccept has named them.
Announced == {id \in Ids : told[id].accepts > 0}
Caller ==
    \/ \E id \in Announced : ServerSend(id) \/ ServerClose(id)
    \/ \E on \in BOOLEAN : SetIdleTimeout(on)
    \/ \E n \in Limits : SetMaxConnections(n)

(***************************************************************************)
(* Properties.                                                             *)
(***************************************************************************)
\* Every variable keeps its type.
ServerTypeOK ==
    /\ server.thread \in {"none", "start", "run", "ended"} /\ server.timer \in {"null", "waiting", "set"}
    /\ server.map \subseteq Ids /\ server.count \in 0 .. MaxConns /\ server.nextId \in 1 .. MaxConns + 1
    /\ \A id \in Ids : conn[id].life \in {"none", "open", "closed"} /\ conn[id].inflight \in 0 .. MaxEvents
    /\ events \in 0 .. MaxEvents

Twice == {id \in Ids : told[id].closes = 2}

\* What the handler hears and what the counters say agree with the table,
\* whichever of peer, application, idle scan and shutdown closes a connection,
\* and in whatever order: a connection is in the table, and HasConnection()
\* true, from OnAccept to the first OnClose; OnClose comes at most twice, at
\* most two OnData come after the first; TotalAccepted and TotalClosed count
\* the callbacks; ConnectionCount never exceeds the table, and falls behind it
\* by no more than the connections closed twice.
TableMatchesCallbacks ==
    /\ server.map = {id \in Announced : told[id].closes = 0} /\ server.peers = server.map
    /\ \A id \in Ids : told[id].closes <= 2 /\ told[id].late <= 2
    /\ server.totalAccepted = Cardinality(Announced)
    /\ server.totalClosed = Cardinality({id \in Ids : told[id].closes > 0}) + Cardinality(Twice)
    /\ server.count <= Cardinality(server.map)
    /\ Cardinality(server.map) <= server.count + Cardinality(Twice)

Waiting(what, id) == \E k \in 1 .. Len(ready) : ready[k].do = what /\ ready[k].id = id

\* The accept loop, the read loops and the write loops go on: a running server
\* always has an accept pending or its handler queued, an open connection a
\* read, and a connection with output a write.
LoopsAlive ==
    /\ server.running /\ server.thread # "start" =>
         server.thread = "run" /\ (server.accepting \/ Waiting("accept", 0))
    /\ \A id \in Ids : Open(id) =>
         /\ conn[id].reading \/ Waiting("read", id)
         /\ conn[id].pending # <<>> => conn[id].inflight > 0 \/ Waiting("write", id)

\* The socket is given what AppendWrite took, in its order, without loss or
\* repetition, unless a later append moved the string under a write.
StreamInOrder ==
    \A id \in Ids : LET c == conn[id] IN
        /\ Garbage \notin Range(c.wire) => IsPrefix(c.wire, c.sent)
        /\ IsSuffix(c.pending, c.sent)
        /\ Len(c.wire) <= Len(c.sent) /\ Len(c.sent) <= Len(c.wire) + Len(c.pending)

\* When the io thread has ended every connection has been closed and reported.
EndedIsClosed ==
    server.thread = "ended" => server.map = {} /\ \A id \in Ids : conn[id].life # "open"

\* The server's bookkeeping.
ServerInv == ServerTypeOK /\ TableMatchesCallbacks /\ LoopsAlive /\ StreamInOrder /\ EndedIsClosed
=============================================================================

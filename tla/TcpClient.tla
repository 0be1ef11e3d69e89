------------------------------ MODULE TcpClient ------------------------------
(***************************************************************************)
(* CTcpClient (Common/Network/TcpClient.cpp): resolve, connect, the read   *)
(* and write loops and the close of one connection, on one io thread.      *)
(* asio is external, as in TcpServer: done is the queue of handlers that   *)
(* run() calls next.  Nothing calls restart(): once run() has returned the *)
(* io_context is spent, and a later run() returns at once.                 *)
(***************************************************************************)
EXTENDS Naturals, Sequences, SequencesExt

CONSTANTS
    MaxSends,     \* bound on the calls of Send
    MaxReads      \* bound on the reads with data

ASSUME ClientAssumption == MaxSends \in Nat /\ MaxReads \in Nat

VARIABLES
    client,    \* the members of CTcpClient, its thread and what is pending in asio
    done,      \* handlers that asio will call next: [do, arg]
    heard      \* history: the callbacks made, and the payloads taken and written

clientVars == <<client, done, heard>>

ClientThread(do) == client.thread = "run" /\ done # <<>> /\ Head(done).do = do
Outcome == Head(done).arg
Did(do, arg) == done' = Append(done, [do |-> do, arg |-> arg])

(***************************************************************************)
(* Connecting.  stage is what is pending: resolving, connecting or none.   *)
(***************************************************************************)
\* Connect, by the thread that also calls Stop: to assign to a thread that is joinable terminates the process.
Connect ==
    /\ ~client.running /\ ~client.stopping /\ client.thread # "terminated" /\ heard.calls < 2
    /\ client' = [client EXCEPT !.running = TRUE, !.connected = FALSE, !.notified = FALSE,
                    !.thread = IF @ \in {"none", "joined"} THEN "start" ELSE "terminated"]
    /\ heard' = [heard EXCEPT !.calls = @ + 1]
    /\ UNCHANGED done

ClientThreadMain ==
    /\ client.thread = "start"
    /\ client' = IF client.spent THEN [client EXCEPT !.thread = "ended", !.running = FALSE]
                 ELSE [client EXCEPT !.thread = "run", !.stage = "resolving"]
    /\ UNCHANGED <<done, heard>>

\* A name is resolved, or not; a connection is made, or not.
StageEnds(ok) ==
    /\ client.thread = "run" /\ client.stage # "none"
    /\ client' = [client EXCEPT !.stage = "none"]
    /\ Did(client.stage, IF ok THEN 1 ELSE 0)
    /\ UNCHANGED heard

\* Mutant: every caller comes through.
NotifyCloseAlways(h) == [h EXCEPT !.closes = @ + 1]

\* NotifyClose: the compare_exchange lets the first caller through.
NotifyClose(h) == IF client.notified THEN h ELSE [h EXCEPT !.closes = @ + 1]

\* m_fnConnect(false), NotifyClose.
ConnectFailed ==
    /\ heard' = NotifyClose([heard EXCEPT !.refused = @ + 1])
    /\ client' = [client EXCEPT !.notified = TRUE]

\* The handler of async_resolve: async_connect opens the socket, whether or
\* not Close() or Stop() has been called since.
OnResolve ==
    /\ ClientThread("resolving")
    /\ done' = Tail(done)
    /\ \/ Outcome = 0 /\ ConnectFailed
       \/ /\ Outcome = 1
          /\ client' = [client EXCEPT !.stage = "connecting", !.socket = TRUE]
          /\ UNCHANGED heard

\* HandleConnect; asio reports failure if the socket has been closed meanwhile.
HandleConnect ==
    /\ ClientThread("connecting")
    /\ done' = Tail(done)
    /\ IF Outcome = 0 \/ ~client.socket THEN ConnectFailed
       ELSE /\ client' = [client EXCEPT !.connected = TRUE, !.reading = TRUE]
            /\ heard' = [heard EXCEPT !.connects = @ + 1]

(***************************************************************************)
(* Reading and writing; an error on an open socket means the peer is gone. *)
(***************************************************************************)
ClientReadReady(res) ==
    /\ client.thread = "run" /\ client.reading
    /\ res = 1 => heard.reads < MaxReads
    /\ client' = [client EXCEPT !.reading = FALSE]
    /\ Did("read", res)
    /\ UNCHANGED heard

\* The peer is gone: the application hears of it once, and IsConnected() stays true.
LostPeer ==
    /\ heard' = NotifyClose(heard)
    /\ client' = [client EXCEPT !.notified = TRUE]

ClientHandleRead ==
    /\ ClientThread("read")
    /\ done' = Tail(done)
    /\ \/ Outcome = 0 /\ LostPeer
       \/ /\ Outcome = 1
          /\ heard' = [heard EXCEPT !.reads = @ + 1]
          /\ client' = [client EXCEPT !.reading = client.connected]

\* Send: posted if connected.
ClientSend ==
    /\ client.connected /\ heard.sends < MaxSends /\ client.thread # "terminated"
    /\ heard' = [heard EXCEPT !.sends = @ + 1]
    /\ Did("append", heard.sends + 1)
    /\ UNCHANGED client

\* AppendWrite: non-empty output means that a write is out.
\* An append may move the string under it.
ClientAppendWrite(moves) ==
    /\ ClientThread("append")
    /\ done' = Tail(done)
    /\ IF ~client.socket THEN UNCHANGED <<client, heard>>
       ELSE /\ client' = [client EXCEPT !.pending = Append(@, Outcome),
                            !.inflight = IF client.pending = <<>> THEN 1 ELSE @,
                            !.moved = client.inflight > 0 /\ (@ \/ moves)]
            /\ heard' = [heard EXCEPT !.taken = Append(@, Outcome)]

ClientWriteReady(n) ==
    /\ client.thread = "run" /\ client.inflight >= n /\ client.inflight > 0
    /\ client' = [client EXCEPT !.inflight = 0, !.moved = FALSE]
    /\ heard' = [heard EXCEPT !.wire = @ \o IF client.moved THEN [k \in 1 .. n |-> 0]
                                             ELSE SubSeq(client.pending, 1, n)]
    /\ Did("write", n)

ClientHandleWrite ==
    /\ ClientThread("write")
    /\ done' = Tail(done)
    /\ \/ Outcome = 0 /\ LostPeer
       \/ /\ Outcome > 0
          /\ LET left == SubSeq(client.pending, Outcome + 1, Len(client.pending)) IN
             /\ client' = [client EXCEPT !.pending = left,
                             !.inflight = IF client.socket THEN Len(left) ELSE 0,
                             !.notified = @ \/ (left # <<>> /\ ~client.socket)]
             \* a write on a socket that is closed fails at once, and not as aborted
             /\ heard' = IF left # <<>> /\ ~client.socket THEN NotifyClose(heard) ELSE heard

(***************************************************************************)
(* Closing.                                                                *)
(***************************************************************************)
\* Close and the first half of Stop.
ClientClose ==
    /\ client.running /\ ~heard.closing /\ client.thread # "terminated"
    /\ heard' = [heard EXCEPT !.closing = TRUE]
    /\ Did("closeio", 0)
    /\ UNCHANGED client

ClientStop ==
    /\ ~client.stopping /\ client.thread \in {"start", "run", "ended"}
    /\ client' = [client EXCEPT !.running = FALSE, !.stopping = TRUE]
    /\ IF client.running THEN Did("closeio", 0) ELSE UNCHANGED done
    /\ UNCHANGED heard

ClientStopJoin ==
    /\ client.stopping /\ client.thread = "ended"
    /\ client' = [client EXCEPT !.stopping = FALSE, !.thread = "joined"]
    /\ UNCHANGED <<done, heard>>

\* CloseOnIoThread: what is pending on the socket is aborted, of which a connect
\* reports failure and a read or a write nothing.
ClientCloseOnIoThread ==
    /\ ClientThread("closeio")
    /\ client' = [client EXCEPT !.socket = FALSE, !.connected = FALSE, !.reading = FALSE,
                    !.inflight = 0, !.stage = IF @ = "connecting" THEN "none" ELSE @]
    /\ done' = Tail(done) \o (IF client.stage = "connecting" THEN <<[do |-> "connecting", arg |-> 0]>>
                              ELSE <<>>)
    /\ heard' = [heard EXCEPT !.missed = @ \/ client.stage = "resolving"
                              \/ \E k \in 1 .. Len(done) : done[k].do = "resolving"]

ClientRunReturns ==
    /\ client.thread = "run" /\ done = <<>>
    /\ client.stage = "none" /\ ~client.reading /\ client.inflight = 0
    /\ client' = [client EXCEPT !.thread = "ended", !.running = FALSE, !.spent = TRUE]
    /\ UNCHANGED <<done, heard>>

ClientInit ==
    /\ client = [running |-> FALSE, connected |-> FALSE, notified |-> FALSE, thread |-> "none",
                 stopping |-> FALSE, stage |-> "none", socket |-> FALSE, reading |-> FALSE,
                 pending |-> <<>>, inflight |-> 0, moved |-> FALSE, spent |-> FALSE]
    /\ done = <<>>
    /\ heard = [connects |-> 0, refused |-> 0, closes |-> 0, reads |-> 0, sends |-> 0, calls |-> 0,
                taken |-> <<>>, wire |-> <<>>, closing |-> FALSE, missed |-> FALSE]

ClientIo ==
    \/ ClientThreadMain \/ OnResolve \/ HandleConnect \/ ClientHandleRead
    \/ \E moves \in BOOLEAN : ClientAppendWrite(moves)
    \/ ClientHandleWrite \/ ClientCloseOnIoThread \/ ClientRunReturns

ClientNext ==
    \/ ClientIo \/ Connect \/ ClientSend \/ ClientClose \/ ClientStop \/ ClientStopJoin
    \/ \E ok \in BOOLEAN : StageEnds(ok)
    \/ \E res \in {0, 1} : ClientReadReady(res)
    \/ \E n \in 0 .. MaxSends : ClientWriteReady(n)

ClientSpec == ClientInit /\ [][ClientNext]_clientVars

\* The io thread runs; a resolve or a connect ends, one way or the other.
ClientFairness ==
    /\ WF_clientVars(ClientIo) /\ WF_clientVars(ClientStopJoin)
    /\ WF_clientVars(\E ok \in BOOLEAN : StageEnds(ok))

(***************************************************************************)
(* Properties.                                                             *)
(***************************************************************************)

\* One connect result and at most one close callback per Connect(): a refused
\* connect is always followed by the close callback, data and success never come
\* with a refusal.  What the socket got is a prefix of what AppendWrite took,
\* without loss or repetition, unless an append moved the string under a write.
\* A second Connect() of the object never connects: the io_context is spent or
\* the thread of the first is still to be joined.
ClientInv ==
    /\ heard.connects + heard.refused <= 1 /\ heard.closes <= 1
    /\ heard.refused = 1 => heard.closes = 1 /\ heard.reads = 0
    /\ client.connected => heard.connects = 1
    /\ heard.calls = 1 => client.notified = (heard.closes = 1)
    /\ heard.calls = 2 /\ client.running => client.spent \/ client.thread = "terminated"
    /\ (0 \notin Range(heard.wire) => IsPrefix(heard.wire, heard.taken)) /\ IsSuffix(client.pending, heard.taken)
    /\ Len(heard.taken) <= Len(heard.wire) + Len(client.pending)
    /\ client.socket /\ client.pending # <<>> /\ ~client.notified /\ heard.calls = 1 =>
         client.inflight > 0 \/ \E k \in 1 .. Len(done) : done[k].do = "write"
=============================================================================

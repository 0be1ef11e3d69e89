------------------------------ MODULE UdpSocket ------------------------------
(***************************************************************************)
(* CUdpSocket (Common/Network/UdpSocket.cpp): one receive loop on one io   *)
(* thread, datagrams sent through a resolver, and Stop() closing the       *)
(* socket from the thread of its caller while the io thread uses it.       *)
(* asio is external: a receive that is out completes with a datagram or an *)
(* error; cancel and close complete it as aborted; run() returns when      *)
(* nothing is out, after which the io_context is spent.                    *)
(***************************************************************************)
EXTENDS Naturals

CONSTANTS
    MaxDatagrams,  \* bound on the receives that complete
    MaxSendTos,    \* bound on the calls of SendTo
    MaxBinds       \* bound on the calls of Bind

ASSUME UdpAssumption == {MaxDatagrams, MaxSendTos, MaxBinds} \subseteq Nat

VARIABLES
    udp,       \* the members of CUdpSocket, its thread and the receive that is out
    udpStop,   \* progress of Stop(): idle, cancel, close, join
    sends,     \* datagrams by stage: called, resolving, posted, sent, dropped;
               \* late: history, resolves started when run() had returned
    counts     \* calls of Bind, of which started the thread, of SendTo; receives completed

udpVars == <<udp, udpStop, sends, counts>>

Over == {"destroyed", "terminated"}

(***************************************************************************)
(* The callers.                                                            *)
(***************************************************************************)
\* Bind and Stop are for the owner of the object, SendTo for any thread.  A bind
\* that fails leaves the socket open, and open() refuses it later.
Bind(bound) ==
    /\ ~udp.running /\ udpStop = "idle" /\ udp.thread \notin Over /\ counts.binds < MaxBinds
    /\ counts' = [counts EXCEPT !.binds = @ + 1, !.bound = @ + IF ~udp.open /\ bound THEN 1 ELSE 0]
    /\ udp' = IF udp.open THEN udp
              ELSE IF ~bound THEN [udp EXCEPT !.open = TRUE]
              ELSE [udp EXCEPT !.open = TRUE, !.running = TRUE, !.thread = "start"]
    /\ UNCHANGED <<udpStop, sends>>

\* SendTo tests m_bRunning and then starts the resolver, with no lock around both.
SendTo ==
    /\ udp.running /\ udp.thread \notin Over /\ counts.sendTos < MaxSendTos
    /\ sends' = [sends EXCEPT !.called = @ + 1]
    /\ counts' = [counts EXCEPT !.sendTos = @ + 1]
    /\ UNCHANGED <<udp, udpStop>>

SendToResolves ==
    /\ sends.called > 0 /\ udp.thread \notin Over
    /\ sends' = [sends EXCEPT !.called = @ - 1, !.resolving = @ + 1,
                              !.late = @ + IF udp.spent THEN 1 ELSE 0]
    /\ UNCHANGED <<udp, udpStop, counts>>

\* Stop: cancel() and close() complete the receive that is out, on this thread.
UdpStop ==
    /\ udpStop = "idle" /\ udp.running /\ udp.thread \notin Over
    /\ udp' = [udp EXCEPT !.running = FALSE]
    /\ udpStop' = "cancel"
    /\ UNCHANGED <<sends, counts>>

Abort(u) == [u EXCEPT !.receive = IF @ = "out" THEN "aborted" ELSE @]

UdpCancel ==
    /\ udpStop = "cancel"
    /\ udp' = Abort(udp)
    /\ udpStop' = "close"
    /\ UNCHANGED <<sends, counts>>

\* Mutant: the socket is only cancelled.
UdpCloseSkipped ==
    /\ udpStop = "close"
    /\ udpStop' = "join"
    /\ UNCHANGED <<udp, sends, counts>>

UdpClose ==
    /\ udpStop = "close"
    /\ udp' = [Abort(udp) EXCEPT !.open = FALSE]
    /\ udpStop' = "join"
    /\ UNCHANGED <<sends, counts>>

UdpJoin ==
    /\ udpStop = "join" /\ udp.thread = "ended"
    /\ udp' = [udp EXCEPT !.thread = "joined"]
    /\ udpStop' = "idle"
    /\ UNCHANGED <<sends, counts>>

\* The destructor, once its Stop() has returned or found nothing running: a
\* thread that is still joinable terminates the process.
UdpDestroy ==
    /\ ~udp.running /\ udpStop = "idle" /\ udp.thread \notin Over
    /\ udp' = [udp EXCEPT !.thread = IF @ \in {"none", "joined"} THEN "destroyed" ELSE "terminated"]
    /\ UNCHANGED <<udpStop, sends, counts>>

(***************************************************************************)
(* The io thread.  "arming" is the point between the test in HandleReceive *)
(* (or ThreadMain) and the test and the call in StartReceive.              *)
(***************************************************************************)
UdpThreadMain ==
    /\ udp.thread = "start"
    /\ udp' = [udp EXCEPT !.thread = "run", !.receive = "arming"]
    /\ UNCHANGED <<udpStop, sends, counts>>

\* StartReceive; on a socket that Stop() closes just now it completes with an error.
StartReceive(late) ==
    /\ udp.thread = "run" /\ udp.receive = "arming"
    /\ udp' = [udp EXCEPT !.receive = IF ~udp.open THEN "none" ELSE IF late THEN "tested" ELSE "out"]
    /\ UNCHANGED <<udpStop, sends, counts>>

AsyncReceive ==
    /\ udp.thread = "run" /\ udp.receive = "tested"
    /\ udp' = [udp EXCEPT !.receive = IF udp.open THEN "out" ELSE "error"]
    /\ UNCHANGED <<udpStop, sends, counts>>

ReceiveCompletes(res) ==
    /\ udp.thread = "run" /\ udp.receive = "out" /\ ~udp.spent /\ counts.received < MaxDatagrams
    /\ udp' = [udp EXCEPT !.receive = res]
    /\ counts' = [counts EXCEPT !.received = @ + 1]
    /\ UNCHANGED <<udpStop, sends>>

\* Mutant: an error ends the loop.
HandleReceiveOnce ==
    /\ udp.thread = "run" /\ ~udp.spent /\ udp.receive \in {"data", "error", "aborted"}
    /\ udp' = [udp EXCEPT !.receive =
                 IF @ = "data" /\ udp.running /\ udp.open THEN "arming" ELSE "none"]
    /\ UNCHANGED <<udpStop, sends, counts>>

HandleReceive ==
    /\ udp.thread = "run" /\ ~udp.spent /\ udp.receive \in {"data", "error", "aborted"}
    /\ udp' = [udp EXCEPT !.receive =
                 IF \/ @ = "data" /\ udp.running /\ udp.open
                    \/ @ = "error" /\ udp.open THEN "arming" ELSE "none"]
    /\ UNCHANGED <<udpStop, sends, counts>>

\* The handler of async_resolve posts the datagram, or drops it on an error.
Resolved(ok) ==
    /\ udp.thread = "run" /\ ~udp.spent /\ sends.resolving > 0
    /\ sends' = IF ok THEN [sends EXCEPT !.resolving = @ - 1, !.posted = @ + 1]
                ELSE [sends EXCEPT !.resolving = @ - 1, !.dropped = @ + 1]
    /\ UNCHANGED <<udp, udpStop, counts>>

SendPosted ==
    /\ udp.thread = "run" /\ ~udp.spent /\ sends.posted > 0
    /\ sends' = IF udp.open THEN [sends EXCEPT !.posted = @ - 1, !.sent = @ + 1]
                ELSE [sends EXCEPT !.posted = @ - 1, !.dropped = @ + 1]
    /\ UNCHANGED <<udp, udpStop, counts>>

UdpRunReturns ==
    /\ udp.thread = "run" /\ udp.receive # "arming" /\ udp.receive # "tested"
    /\ udp.spent \/ (udp.receive = "none" /\ sends.resolving + sends.posted = 0)
    /\ udp' = [udp EXCEPT !.thread = "ended", !.running = FALSE, !.spent = TRUE]
    /\ UNCHANGED <<udpStop, sends, counts>>

UdpInit ==
    /\ udp = [open |-> FALSE, running |-> FALSE, thread |-> "none", receive |-> "none", spent |-> FALSE]
    /\ udpStop = "idle"
    /\ sends = [called |-> 0, resolving |-> 0, posted |-> 0, sent |-> 0, dropped |-> 0, late |-> 0]
    /\ counts = [binds |-> 0, bound |-> 0, sendTos |-> 0, received |-> 0]

UdpIo ==
    \/ UdpThreadMain \/ AsyncReceive \/ HandleReceive \/ SendPosted \/ UdpRunReturns
    \/ \E late \in BOOLEAN : StartReceive(late)

UdpNext ==
    \/ UdpIo \/ SendTo \/ SendToResolves \/ UdpStop \/ UdpCancel \/ UdpClose \/ UdpJoin \/ UdpDestroy
    \/ \E bound \in BOOLEAN : Bind(bound)
    \/ \E res \in {"data", "error"} : ReceiveCompletes(res)
    \/ \E ok \in BOOLEAN : Resolved(ok)

UdpSpec == UdpInit /\ [][UdpNext]_udpVars

\* The io thread runs, every resolve ends, and Stop() goes on.
UdpFairness ==
    /\ WF_udpVars(UdpIo) /\ WF_udpVars(\E ok \in BOOLEAN : Resolved(ok))
    /\ WF_udpVars(UdpCancel) /\ WF_udpVars(UdpClose) /\ WF_udpVars(UdpJoin)

(***************************************************************************)
(* Properties.                                                             *)
(***************************************************************************)

\* The receive loop of the first binding is alive while the socket is running:
\* a receive is out or the io thread is about to start one, whatever errors have
\* come.  Nothing is out on a closed socket, a thread that has ended has taken every
\* datagram that was handed to it before run() returned, and only an object that
\* was bound a second time, whose thread ends by itself and is never joined,
\* terminates the process when destroyed.
UdpInv ==
    /\ udp.running /\ ~udp.spent /\ udp.thread = "run" => udp.receive # "none"
    /\ ~udp.open => udp.receive # "out"
    /\ udp.thread \in {"ended", "joined"} \cup Over => sends.posted = 0 /\ sends.resolving = sends.late
    /\ udp.thread = "terminated" => counts.bound > 1
=============================================================================

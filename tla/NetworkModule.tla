---------------------------- MODULE NetworkModule ----------------------------
(***************************************************************************)
(* CNetworkModule (ServerCore/Network) over CTcpServer, with the handler   *)
(* of the example server, CExampleService: the callbacks of the server     *)
(* reach OnAccept, OnData and OnClose on the io thread, inside the step of *)
(* the server that makes them, and keep the connection contexts, the       *)
(* router's partial messages and the metrics.                              *)
(***************************************************************************)
EXTENDS TcpServer

CONSTANT MaxServers   \* bound on StartTcpServer

ASSUME ModuleAssumption == MaxServers \in Nat

VARIABLES
    pServer,   \* m_pServer is set
    pHandler,  \* m_pHandler is set
    ctx,       \* keys of m_mapConnCtx, each with the context OnAccept made
    partial,   \* connections with bytes of a message in CMessageRouter
    late,      \* history: ids that got data after their OnClose, with any server
    gauge,     \* the metric network.conns
    announced, \* the last event CTcpServerModule published: none, started, stopped
    moduleOp,  \* StartTcpServer or Stop in progress: idle, starting, stopping
    opens      \* servers created

moduleVars == <<pServer, pHandler, ctx, partial, late, gauge, announced, moduleOp, opens>>
netVars == <<serverVars, moduleVars>>

\* The callbacks of a step of the server.
Rose(field) == {id \in Ids : told'[id][field] > told[id][field]}

\* m_mapConnCtx, under the lock.
Attach(S) == ctx \cup S
Detach(C, S) == C \ S

\* The handler of the example server: OnAccept attaches a context, OnData feeds
\* the router, where a message may stay incomplete, and OnClose drops both.
ServiceOnAccept == Attach(Rose("accepts"))
ServiceOnData(rest) == IF rest THEN partial \cup Rose("datas") ELSE partial \ Rose("datas")
ServiceOnClose(C) == Detach(C, Rose("closes"))

\* SetGauge("network.conns", ...): m_pServer is read without the lock that guards it.
ReportConns ==
    gauge' = IF Rose("accepts") \cup Rose("closes") = {} THEN gauge
             ELSE IF pServer THEN server'.count ELSE 0

\* Mutant: the context stays attached.
CallbacksNoDetach(rest) ==
    /\ ctx' = ServiceOnAccept
    /\ partial' = ServiceOnData(rest) \ Rose("closes")
    /\ late' = late \cup Rose("late")
    /\ ReportConns
    /\ UNCHANGED <<pServer, pHandler, announced, moduleOp, opens>>

\* fnAccept, fnData and fnClose.
Callbacks(rest) ==
    /\ ctx' = ServiceOnClose(ServiceOnAccept)
    /\ partial' = ServiceOnData(rest) \ Rose("closes")
    /\ late' = late \cup Rose("late")
    /\ ReportConns
    /\ UNCHANGED <<pServer, pHandler, announced, moduleOp, opens>>

\* StartTcpServer after its Stop(): a new CTcpServer, started before it is
\* swapped in under the lock; CTcpServerModule::Start then publishes the event.
StartTcpServer ==
    /\ moduleOp = "idle" /\ ~pServer /\ opens < MaxServers
    /\ moduleOp' = "starting" /\ pHandler' = TRUE /\ opens' = opens + 1
    /\ ServerStart
    /\ UNCHANGED <<pServer, ctx, partial, late, gauge, announced>>

StartFails ==
    /\ moduleOp = "idle" /\ ~pServer
    /\ pHandler' = FALSE
    /\ UNCHANGED <<serverVars, pServer, ctx, partial, late, gauge, announced, moduleOp, opens>>

SwapServer ==
    /\ moduleOp = "starting"
    /\ moduleOp' = "idle" /\ pServer' = TRUE /\ announced' = "started"
    /\ UNCHANGED <<serverVars, pHandler, ctx, partial, late, gauge, opens>>

\* CTcpServerModule::Stop publishes and stops the network module, which takes
\* the pointer under the lock and stops the server outside it.
StopRelease ==
    /\ moduleOp = "idle" /\ pServer
    /\ moduleOp' = "stopping" /\ pServer' = FALSE /\ announced' = "stopped"
    /\ UNCHANGED <<serverVars, pHandler, ctx, partial, late, gauge, opens>>

StopServer ==
    /\ moduleOp = "stopping"
    /\ ServerStop
    /\ UNCHANGED moduleVars

StopJoin ==
    /\ moduleOp = "stopping"
    /\ ServerStopJoin
    /\ moduleOp' = "idle" /\ pHandler' = FALSE
    /\ UNCHANGED <<pServer, ctx, partial, late, gauge, announced, opens>>

\* Send, Close, SetIdleTimeout and SetMaxConnections reach the server only
\* through m_pServer.
Through == pServer /\ Caller /\ UNCHANGED moduleVars

ServerSteps == (IoThread \/ Peer \/ IdleTimerExpires) /\ \E rest \in BOOLEAN : Callbacks(rest)

NetInit ==
    /\ ServerInit
    /\ pServer = FALSE /\ pHandler = FALSE /\ ctx = {} /\ partial = {} /\ late = {} /\ gauge = 0
    /\ announced = "none" /\ moduleOp = "idle" /\ opens = 0

NetNext ==
    \/ ServerSteps \/ Through
    \/ StartTcpServer \/ StartFails \/ SwapServer \/ StopRelease \/ StopServer \/ StopJoin

NetSpec == NetInit /\ [][NetNext]_netVars

NetFairness ==
    /\ WF_netVars(IoThread /\ \E rest \in BOOLEAN : Callbacks(rest))
    /\ WF_netVars(IdleTimerExpires /\ \E rest \in BOOLEAN : Callbacks(rest))
    /\ WF_netVars(SwapServer) /\ WF_netVars(StopServer) /\ WF_netVars(StopJoin)

(***************************************************************************)
(* Properties.                                                             *)
(***************************************************************************)

\* The resources of a connection live as long as the connection: the context
\* attached in OnAccept is there until the first OnClose takes it, none is left
\* when Stop() has returned or a new server reuses the ids, and the metric
\* network.conns ends at zero; a partial message outlives its connection only
\* if data was handed on after OnClose.  The handler is held while the io
\* thread can call it, and the module whose last event says that the server
\* has started has a server.
ConnectionResources ==
    /\ ctx = server.map
    /\ partial \subseteq server.map \cup late
    /\ server.thread \in {"start", "run"} => pHandler
    /\ moduleOp = "idle" /\ ~pServer => gauge = 0 /\ ctx = {}
    /\ announced = "started" => pServer /\ (server.running \/ server.thread = "ended")
=============================================================================

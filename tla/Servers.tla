------------------------------- MODULE Servers -------------------------------
(***************************************************************************)
(* The two servers of the repository as assemblies of modules:             *)
(* CExampleApplication and CTemplateApplication register their modules in  *)
(* a fixed order, and the application drives them as in Application.       *)
(*                                                                         *)
(* What matters here of a module is which interface it is registered by,   *)
(* which interfaces it declares as dependencies, which ones its Initialize *)
(* resolves and keeps, which of those it cannot do without, and whether    *)
(* its Start can fail.  Only declared dependencies order the start, and    *)
(* nothing but the order of registration orders the stop.                  *)
(***************************************************************************)
EXTENDS Application

VARIABLE assembly     \* which server main() is of, or "any"

serversVars == <<allVars, assembly>>

Module(m, iid, declares, needs, uses, startFails) ==
    [m |-> m, iid |-> iid, declares |-> declares, needs |-> needs, uses |-> uses,
     startFails |-> startFails]
Plain(m, iid) == Module(m, iid, {}, {}, {}, FALSE)

(***************************************************************************)
(* The modules, from their constructors, Initialize, Start and Stop.       *)
(***************************************************************************)
CConfigModule == Plain("config", "IConfig")
CLoggerModule == Plain("logger", "ILogger")
CMetricsModule == Plain("metrics", "IMetrics")
CAsyncExecutorModule == Module("async-executor", "IAsyncExecutor", {}, {}, {}, TRUE)
CTimerModule == Module("timer", "ITimer", {}, {}, {}, TRUE)
CNetworkModule == Module("network", "INetwork", {}, {}, {"IMetrics"}, FALSE)
CEventDispatcher == Module("event", "IEventDispatcher", {}, {}, {"IAsyncExecutor"}, FALSE)
CMessageRouter == Plain("message-router", "IMessageRouter")
CTcpServerModule ==
    Module("tcp-server", NoKey, {"INetwork", "INetworkHandler"}, {"INetwork", "INetworkHandler"},
           {"INetwork", "INetworkHandler", "IEventDispatcher"}, TRUE)

CExampleService ==
    Module("service", "INetworkHandler", {"INetwork", "IMessageRouter"}, {"INetwork", "IMessageRouter"},
           {"INetwork", "IMessageRouter", "IAsyncExecutor", "IMetrics"}, FALSE)
CExampleLoggerModule == Plain("example-logger", NoKey)
CExampleTimerModule == Module("example-timer", NoKey, {"ITimer"}, {"ITimer"}, {"ITimer"}, FALSE)
CExampleDbModule == Module("example-db", "IUserTable", {}, {}, {}, TRUE)
CExampleAsyncModule ==
    Module("user-service", "IUserService", {"IUserTable"}, {"ITimer", "IUserTable"},
           {"ITimer", "IUserTable"}, TRUE)

CEchoService == Module("echo", "INetworkHandler", {"INetwork"}, {"INetwork"}, {"INetwork"}, FALSE)
CTemplateLoggerModule == Module("template-logger", NoKey, {}, {}, {"IConfig", "ILogger"}, FALSE)

(***************************************************************************)
(* RegisterModules of the base class and of the two applications.          *)
(***************************************************************************)
DefaultModules == <<CConfigModule, CLoggerModule, CMetricsModule>>

ExampleModules ==
    DefaultModules \o
    <<CAsyncExecutorModule, CTimerModule, CNetworkModule, CEventDispatcher, CMessageRouter,
      CExampleService, CExampleLoggerModule, CExampleTimerModule, CExampleDbModule,
      CExampleAsyncModule, CTcpServerModule>>

TemplateModules ==
    DefaultModules \o
    <<CNetworkModule, CEventDispatcher, CEchoService, CTemplateLoggerModule, CTcpServerModule>>

Assembly == [example |-> ExampleModules, template |-> TemplateModules]
AllModules == Range(ExampleModules) \cup Range(TemplateModules)
ServerModules == {e.m : e \in AllModules}
ServerIids == UNION {e.uses : e \in AllModules} \cup ({e.iid : e \in AllModules} \ {NoKey})
The(m) == CHOOSE e \in AllModules : e.m = m
Declared == [m \in ServerModules |-> The(m).declares]

\* RegisterModules: the next registration, each of which main() insists on.
ServerRegisters ==
    /\ Goto("register", "register")
    /\ Len(reg) < Len(Assembly[assembly])
    /\ LET e == Assembly[assembly][Len(reg) + 1] IN
         IF e.iid = NoKey THEN RegisterByName(e.m) ELSE RegisterByIid(e.m, e.iid)

\* GetModuleByIid: the module a Resolve of the interface finds, if any.
Resolve(iid) ==
    LET at == {k \in 1 .. Len(byIid) : byIid[k][1] = iid}
    IN  {reg[byIid[k][2]].m : k \in {j \in at : \A i \in at : j <= i}}

\* Initialize returns false only if something it needs is missing, and Start
\* only where the module opens a port, starts threads or a timer.
CallbackOutcome ==
    /\ op.kind = "InitializeAll" /\ op.todo # <<>> =>
         (op'.kind = "RollbackInitialized") = (\E iid \in The(Current).needs : Resolve(iid) = {})
    /\ op.kind = "StartAll" /\ op.todo # <<>> /\ op'.kind = "RollbackStartedStop" =>
         The(Current).startFails

ServerMain ==
    \/ ServerRegisters
    \/ Len(reg) = Len(Assembly[assembly]) /\ InitializeCalls
    \/ pc # "register" /\ MainStep /\ CallbackOutcome

ServerNext == ServerMain \/ HandleSignal \/ Stop

(***************************************************************************)
(* Properties.                                                             *)
(***************************************************************************)
UsedBy(m) == UNION {Resolve(iid) : iid \in The(m).uses}

\* Neither server refuses one of its own modules or lets one miss an interface
\* it needs; and in spite of the undeclared uses - the event dispatcher of the
\* executor, the user service of the timer, the network of the metrics - a module
\* is never running while one it uses is not, nor initialized and not yet shut
\* down while one it uses has not been initialized or has been shut down: in the
\* start, in the undoing of a failed start, and in the stop.
AssemblySound ==
    assembly \in DOMAIN Assembly =>
        /\ refused = {}
        /\ op.kind # "RollbackInitialized"
        /\ \A m \in Held : \A u \in UsedBy(m) :
             /\ life[m] = "running" => life[u] = "running"
             /\ life[m] \in {"initialized", "running", "stopped"} => life[u] \notin {"new", "closed"}
==============================================================================

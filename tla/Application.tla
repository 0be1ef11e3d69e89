---------------------------- MODULE Application ----------------------------
(***************************************************************************)
(* CMyApplication (ServerCore/Application/MyApplication.cpp) driven by the *)
(* main() of a server: Initialize, Start, Run, Shutdown, on one thread,    *)
(* with stop signals and calls of Stop() from other threads arriving at    *)
(* any moment.  The module manager is the one of ModuleManager; the main   *)
(* thread is the only one that drives it.                                  *)
(***************************************************************************)
EXTENDS ModuleManager

CONSTANTS ShutdownTimeouts    \* the values SetShutdownTimeout may be given

ASSUME TimeoutAssumption == ShutdownTimeouts \subseteq Nat

VARIABLES
    shutdownTimeoutMs,  \* m_nShutdownTimeoutMs
    pc,             \* where main() is
    running,        \* m_bRunning
    stopRequested,  \* g_stopRequested
    instance,       \* g_instance # nullptr
    handler         \* the signal handlers are installed

appVars == <<shutdownTimeoutMs, pc, running, stopRequested, instance, handler>>
allVars == <<vars, appVars>>
flags == <<shutdownTimeoutMs, running, stopRequested, instance, handler>>

Steps == {"register", "initialize", "onInitialize", "start", "onStart",
          "run1", "run2", "run3", "run4", "loop", "run5", "run6",
          "onShutdown", "stopAll", "shutdownAll", "stopTimed", "shutdownTimed", "clear",
          "failed", "exited", "killed"}

Goto(from, to) == pc = from /\ pc' = to /\ UNCHANGED flags

\* The manager call in progress runs to its end before main() goes on.
ManagerRuns ==
    /\ op # Idle
    /\ pc # "killed"
    /\ Loops(shutdownTimeoutMs > 0)
    /\ UNCHANGED appVars

\* RegisterModules: the default modules and those of the derived class; a
\* refused registration makes Initialize return false.
RegisterModules ==
    /\ Goto("register", "register")
    /\ \/ \E m \in Modules, iid \in Iids : RegisterByIid(m, iid)
       \/ \E m \in Modules : NameOf[m] # NoKey /\ RegisterByName(m)

RegistrationFails ==
    /\ Goto("register", "failed")
    /\ refused # {}
    /\ UNCHANGED vars

InitializeCalls ==
    /\ Goto("register", "initialize")
    /\ refused = {}
    /\ BeginInitializeAll

\* if (!InitializeAll()) { Clear(); return false; }
InitializeReturns ==
    /\ op = Idle
    /\ \/ /\ result.ok
          /\ Goto("initialize", "onInitialize")
          /\ UNCHANGED vars
       \/ /\ ~result.ok
          /\ Goto("initialize", "failed")
          /\ ClearRegistry
          /\ UNCHANGED <<deps, state, op, result, life, starts>>

\* The failure of the derived class's hook goes straight back to main().
OnInitialize ==
    \/ Goto("onInitialize", "start") /\ BeginStartAll
    \/ Goto("onInitialize", "failed") /\ UNCHANGED vars

\* A failed Start() makes main() call Shutdown() before it returns.
StartReturns ==
    /\ op = Idle
    /\ \/ result.ok /\ Goto("start", "onStart")
       \/ ~result.ok /\ Goto("start", "onShutdown")
    /\ UNCHANGED vars

OnStart ==
    /\ \/ Goto("onStart", "run1")
       \/ Goto("onStart", "onShutdown")
    /\ UNCHANGED vars

(***************************************************************************)
(* Run.                                                                    *)
(***************************************************************************)
RunSetsRunning ==
    /\ pc = "run1" /\ pc' = "run2"
    /\ running' = TRUE
    /\ UNCHANGED <<vars, shutdownTimeoutMs, stopRequested, instance, handler>>

RunClearsRequests ==
    /\ pc = "run2" /\ pc' = "run3"
    /\ stopRequested' = FALSE
    /\ UNCHANGED <<vars, shutdownTimeoutMs, running, instance, handler>>

RunSetsInstance ==
    /\ pc = "run3" /\ pc' = "run4"
    /\ instance' = TRUE
    /\ UNCHANGED <<vars, shutdownTimeoutMs, running, stopRequested, handler>>

RunInstallsHandlers ==
    /\ pc = "run4" /\ pc' = "loop"
    /\ handler' = TRUE
    /\ UNCHANGED <<vars, shutdownTimeoutMs, running, stopRequested, instance>>

\* Mutant: the flags are tested in the wrong sense, both must ask for the end.
OnRunNeedsBoth ==
    /\ ~running /\ stopRequested
    /\ Goto("loop", "run5")
    /\ UNCHANGED vars

\* while (m_bRunning && !g_stopRequested) sleep: the loop ends here.
OnRun ==
    /\ ~running \/ stopRequested
    /\ Goto("loop", "run5")
    /\ UNCHANGED vars

RunRestoresHandlers ==
    /\ pc = "run5" /\ pc' = "run6"
    /\ handler' = FALSE
    /\ UNCHANGED <<vars, shutdownTimeoutMs, running, stopRequested, instance>>

RunClearsInstance ==
    /\ pc = "run6" /\ pc' = "onShutdown"
    /\ instance' = FALSE
    /\ UNCHANGED <<vars, shutdownTimeoutMs, running, stopRequested, handler>>

\* HandleSignal for SIGINT / SIGTERM; without the handler the default action
\* ends the process.
HandleSignal ==
    /\ pc \notin {"failed", "exited", "killed"}
    /\ IF handler
       THEN /\ stopRequested' = TRUE
            /\ running' = IF instance THEN FALSE ELSE running
            /\ UNCHANGED <<shutdownTimeoutMs, pc, instance, handler>>
       ELSE pc' = "killed" /\ UNCHANGED flags
    /\ UNCHANGED vars

\* Stop() from another thread, a module's for example.
Stop ==
    /\ pc \notin {"failed", "exited", "killed"}
    /\ running' = FALSE
    /\ UNCHANGED <<vars, shutdownTimeoutMs, pc, stopRequested, instance, handler>>

(***************************************************************************)
(* Shutdown: five manager calls in a row.                                  *)
(***************************************************************************)
ShutdownStops == Goto("onShutdown", "stopAll") /\ BeginStopAll

\* Mutant: ShutdownAll is left to the timed call, which 0 ms end at once.
ShutdownClosesSkipped == Goto("stopAll", "shutdownAll") /\ op = Idle /\ UNCHANGED vars

ShutdownCloses == Goto("stopAll", "shutdownAll") /\ BeginShutdownAll
ShutdownStopsTimed == Goto("shutdownAll", "stopTimed") /\ BeginStopAllWithTimeout
ShutdownClosesTimed == Goto("stopTimed", "shutdownTimed") /\ BeginShutdownAllWithTimeout

ShutdownClears ==
    /\ op = Idle
    /\ Goto("shutdownTimed", "clear")
    /\ ClearRegistry
    /\ UNCHANGED <<deps, state, op, result, life, starts>>

MainReturns == Goto("clear", "exited") /\ UNCHANGED vars

\* After a failed Initialize main() returns; ~CModuleManager calls Clear().
MainFails ==
    /\ Goto("failed", "exited")
    /\ ClearRegistry
    /\ UNCHANGED <<deps, state, op, result, life, starts>>

MainStep ==
    \/ ManagerRuns
    \/ RegisterModules \/ RegistrationFails \/ InitializeCalls \/ InitializeReturns
    \/ OnInitialize \/ StartReturns \/ OnStart
    \/ RunSetsRunning \/ RunClearsRequests \/ RunSetsInstance \/ RunInstallsHandlers
    \/ OnRun \/ RunRestoresHandlers \/ RunClearsInstance
    \/ ShutdownStops \/ ShutdownCloses \/ ShutdownStopsTimed \/ ShutdownClosesTimed
    \/ ShutdownClears \/ MainReturns \/ MainFails

AppInit ==
    /\ Init
    /\ shutdownTimeoutMs \in ShutdownTimeouts
    /\ pc = "register"
    /\ running = FALSE /\ stopRequested = FALSE
    /\ instance = FALSE /\ handler = FALSE

AppNext == MainStep \/ HandleSignal \/ Stop

AppSpec == AppInit /\ [][AppNext]_allVars

(***************************************************************************)
(* The main thread is always scheduled again.  Nothing forces a signal or  *)
(* a call of Stop() to arrive.                                             *)
(***************************************************************************)
AppFairSpec == AppSpec /\ WF_allVars(MainStep)

(***************************************************************************)
(* Properties.                                                             *)
(***************************************************************************)

\* Types of the application's flags, and g_instance is set whenever the
\* handlers are.
AppTypeOK ==
    /\ pc \in Steps
    /\ running \in BOOLEAN /\ stopRequested \in BOOLEAN
    /\ instance \in BOOLEAN /\ handler \in BOOLEAN
    /\ handler => instance

\* However an application that reached Start() comes to its end - a module
\* that fails to start, OnStart failing, a signal, Stop() - when main()
\* returns no module is left that was initialized and never shut down.
\* (When OnInitialize fails, main() returns without Shutdown() and the
\* initialized modules are only released: that path is not claimed.)
\* And nothing is held any more: every module that was called is released.
CleanExit ==
    pc = "exited" =>
        /\ starts = 2 => \A m \in Modules :
              life[m] \notin {"initialized", "startFailed", "running", "stopped"}
        /\ Held = {} /\ \A m \in Modules : life[m] # "new" => m \in released

\* A stop request that arrives once Run() has installed its handlers, by
\* signal or by Stop(), ends the program.
StopRequestEndsRun ==
    (pc = "loop" /\ (stopRequested \/ ~running)) ~> (pc \in {"exited", "killed"})

\* Every callback main() causes keeps to the module protocol, failures on the way
\* included, up to the timed loops and, when they have no time, through them.
ProtocolKeptUntilTimed ==
    (shutdownTimeoutMs = 0 \/ pc \notin {"stopTimed", "shutdownTimed", "clear", "exited", "killed"})
        => CallbackProtocol

\* The application's flags, and the protocol of its modules.
AppInv == AppTypeOK /\ ProtocolKeptUntilTimed

\* "kCreated -> kInitialized -> kStarted -> kStopped -> kShutdown"
\* (IModule.h:13): no module is called back out of that order, Shutdown()
\* with a timeout included.
AppCallbackProtocol == CallbackProtocol
==============================================================================

----------------------------- MODULE MCServices ------------------------------
(* The components that share no state, for TLC: each behaviour is one of them,
   named by focus, and the others stay as created. *)
EXTENDS MCApplication, RefObject, EventDispatcher, MessageRouter, FileStore, Wire, Users, Settings,
        LogFile

PongPayload == <<0>>
FieldsEach == [u8 |-> {1}, u16 |-> {2}, u32 |-> {9}, u64 |-> {200}, bool |-> BOOLEAN,
               bytes |-> {<<>>, <<1, 0>>}]
RivalsTwo ==
    {[demo |-> TRUE, restarts |-> 0, calls |-> <<<<"rename", 2>>>>],
     [demo |-> FALSE, restarts |-> 1,
      calls |-> <<<<"rename", 1>>, <<"remove", 1>>, <<"register", 1>>, <<"register", 0>>>>]}
KeysEvenOdd(n) == IF n % 2 = 0 THEN {"a"} ELSE {"a", "b"}

VARIABLE focus

Focus(name, step, others) == focus = name /\ step /\ UNCHANGED <<focus, others>>

infraVars == <<refVars, dispatcherVars, routerVars, storeVars, wireVars, userVars, configVars, logVars>>

MCInit ==
    /\ focus \in {"reference", "dispatcher", "router", "store", "buffer", "codec", "users", "config", "log",
                  "program"}
    /\ RefInit /\ DispatcherInit /\ RouterInit /\ StoreInit /\ WireInit
    /\ UsersInit /\ ConfigInit /\ LogInit
    /\ ProgramInit
    /\ focus # "buffer" => Len(buffer.data) = 1
    /\ focus # "users" => demo.scene > 0
    /\ focus # "dispatcher" => executor = "none"
    /\ focus # "program" => assembly = "any" /\ shutdownTimeoutMs = 0 /\ deps[m1] = {}

InfraNext ==
    \/ Focus("reference", RefNext,
             <<dispatcherVars, routerVars, storeVars, wireVars, userVars, configVars, logVars>>)
    \/ Focus("dispatcher", DispatcherNext,
             <<refVars, routerVars, storeVars, wireVars, userVars, configVars, logVars>>)
    \/ Focus("router", RouterNext,
             <<refVars, dispatcherVars, storeVars, wireVars, userVars, configVars, logVars>>)
    \/ Focus("store", StoreNext,
             <<refVars, dispatcherVars, routerVars, wireVars, userVars, configVars, logVars>>)
    \/ Focus("buffer", BufferNext,
             <<refVars, dispatcherVars, routerVars, storeVars, userVars, configVars, logVars>>)
    \/ Focus("codec", CodecNext,
             <<refVars, dispatcherVars, routerVars, storeVars, userVars, configVars, logVars>>)
    \/ Focus("users", UsersNext,
             <<refVars, dispatcherVars, routerVars, storeVars, wireVars, configVars, logVars>>)
    \/ Focus("config", ConfigNext,
             <<refVars, dispatcherVars, routerVars, storeVars, wireVars, userVars, logVars>>)
    \/ Focus("log", LogNext,
             <<refVars, dispatcherVars, routerVars, storeVars, wireVars, userVars, configVars>>)

MCNext ==
    \/ InfraNext /\ UNCHANGED serversVars
    \/ Focus("program", ProgramNext, infraVars)

MCSpec ==
    /\ MCInit /\ [][MCNext]_<<focus, infraVars, serversVars>>
    /\ ProgramFairness
=============================================================================

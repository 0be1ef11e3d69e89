---------------------------- MODULE ModuleManager ----------------------------
(***************************************************************************)
(* CModuleManager (ServerCore/Module/ModuleManager.cpp): the registry of   *)
(* modules and the orchestration of their life cycle.                      *)
(*                                                                         *)
(* One thread drives the manager, as every main() of the repository does.  *)
(* A life-cycle call is a loop over the modules; one step of the model is  *)
(* one iteration of that loop, that is, at most one callback of a module   *)
(* together with the state the manager records for it.  Modules derive     *)
(* from CModule, so SetModuleState always takes effect.                    *)
(*                                                                         *)
(* The dependencies of a module are a set: a repeated declaration only     *)
(* repeats an edge, and the successors of a provider are visited in index  *)
(* order whatever the order of the declarations.                           *)
(***************************************************************************)
EXTENDS Naturals, Sequences, FiniteSets, SequencesExt, Ascending

CONSTANTS
    Modules,        \* the module objects a program creates
    Iids,           \* valid interface identifiers
    NameOf,         \* [Modules -> names]; NoKey is the empty name
    DepsChoices,    \* the dependency declarations considered
    NoKey,          \* the invalid InterfaceId and the empty name
    MaxStarts       \* bound on the calls of InitializeAll and StartAll

ASSUME MaxStartsAssumption == MaxStarts \in Nat
ASSUME DepsAssumption == DepsChoices \subseteq [Modules -> SUBSET Iids]

VARIABLES
    deps,       \* [Modules -> SUBSET Iids]: m_vecDependencies
    reg,        \* m_vecModules: sequence of [m |-> module, iid |-> key or NoKey]
    byName,     \* m_mapIndexByName: set of <<name, index>>
    byIid,      \* m_mapIndexByIid: sequence of <<iid, index>>, insertion order
    state,      \* m_state of each module
    op,         \* the life-cycle call in progress: [kind, todo]
    result,     \* [call, ok, saw]: what the last finished life-cycle call returned
    life,       \* what each module has been through, by its own callbacks
    released,   \* modules whose creator reference the manager gave back
    refused,    \* modules whose registration returned false
    starts      \* calls of InitializeAll / StartAll so far

vars == <<deps, reg, byName, byIid, state, op, result, life, released, refused, starts>>
registry == <<reg, byName, byIid, released, refused>>

States == {"kCreated", "kInitialized", "kStarted", "kStopped", "kShutdown"}
Lives == {"new", "initialized", "running", "startFailed", "stopped", "closed", "misused"}
Kinds == {"none", "InitializeAll", "StartAll", "StopAll", "ShutdownAll",
          "RollbackInitialized", "RollbackStartedStop", "RollbackStartedShutdown",
          "StopAllWithTimeout", "ShutdownAllWithTimeout"}
Idle == [kind |-> "none", todo |-> <<>>]

Indexes == 1 .. Len(reg)
Held == {reg[i].m : i \in Indexes}

(***************************************************************************)
(* ComputeStartOrder: Kahn's algorithm over the first provider of each     *)
(* interface, with a FIFO queue; what a cycle keeps unvisited is appended  *)
(* in registration order.                                                  *)
(***************************************************************************)
Provider(iid) ==
    LET S == {i \in Indexes : reg[i].iid = iid}
    IN  {i \in S : \A j \in S : i <= j}

DependsOn(i) == UNION {Provider(d) : d \in deps[reg[i].m]} \ {i}

\* The entries whose last missing provider is cur, after the ones in order.
Freed(cur, order) ==
    InOrder({i \in Indexes : cur \in DependsOn(i) /\ DependsOn(i) \subseteq Range(order) \cup {cur}})

\* Mutant: a stack instead of the queue.
KahnStepStack(s) ==
    [queue |-> Freed(Head(s.queue), s.order) \o Tail(s.queue), order |-> Append(s.order, Head(s.queue))]

KahnStep(s) ==
    [queue |-> Tail(s.queue) \o Freed(Head(s.queue), s.order), order |-> Append(s.order, Head(s.queue))]

KahnRun ==
    LET run[k \in 0 .. Len(reg)] ==
          IF k = 0
          THEN [queue |-> InOrder({i \in Indexes : DependsOn(i) = {}}), order |-> <<>>]
          ELSE LET s == run[k - 1] IN IF s.queue = <<>> THEN s ELSE KahnStep(s)
    IN  run[Len(reg)].order

\* Mutant: registration order.
ComputeStartOrderByRegistration == [i \in Indexes |-> i]

ComputeStartOrder == LET sorted == KahnRun IN sorted \o InOrder(Indexes \ Range(sorted))

(***************************************************************************)
(* Registration.  A module object is handed over once.                     *)
(***************************************************************************)
Fresh == Modules \ (Held \cup released \cup refused)

RegisterByName(m) ==
    /\ op = Idle
    /\ m \in Fresh
    /\ IF NameOf[m] = NoKey \/ \E e \in byName : e[1] = NameOf[m]
       THEN /\ released' = released \cup {m}
            /\ refused' = refused \cup {m}
            /\ UNCHANGED <<reg, byName>>
       ELSE /\ byName' = byName \cup {<<NameOf[m], Len(reg) + 1>>}
            /\ reg' = Append(reg, [m |-> m, iid |-> NoKey])
            /\ UNCHANGED <<released, refused>>
    /\ UNCHANGED <<deps, byIid, state, op, result, life, starts>>

\* An invalid identifier is refused before the reference is taken over.
RegisterByIid(m, iid) ==
    /\ op = Idle
    /\ m \in Fresh
    /\ IF iid = NoKey
       THEN /\ refused' = refused \cup {m}
            /\ UNCHANGED <<reg, byIid>>
       ELSE /\ byIid' = Append(byIid, <<iid, Len(reg) + 1>>)
            /\ reg' = Append(reg, [m |-> m, iid |-> iid])
            /\ UNCHANGED refused
    /\ UNCHANGED <<deps, byName, state, op, result, life, released, starts>>

\* Mutant: the rest is not renumbered.
RebuildIndexesForgotten(v) ==
    /\ byName' = {e \in byName : e[2] <= Len(v)}
    /\ byIid' = SelectSeq(byIid, LAMBDA e : e[2] <= Len(v))

\* erase() shifts the indexes, so both indexes are rebuilt from the vector.
\* (Name entries of a later module would overwrite an equal earlier one;
\* names registered by name are distinct.)
RebuildIndexes(v) ==
    LET named == {i \in 1 .. Len(v) : v[i].iid = NoKey /\ NameOf[v[i].m] # NoKey}
        keyed == InOrder({i \in 1 .. Len(v) : v[i].iid # NoKey})
    IN  /\ byName' = {<<NameOf[v[i].m], i>> : i \in named}
        /\ byIid' = [k \in 1 .. Len(keyed) |-> <<v[keyed[k]].iid, keyed[k]>>]

EraseAt(i) ==
    /\ op = Idle
    /\ reg' = RemoveAt(reg, i)
    /\ RebuildIndexes(RemoveAt(reg, i))
    /\ released' = released \cup {reg[i].m}
    /\ UNCHANGED <<deps, state, op, result, life, refused, starts>>

UnregisterModule(name) ==
    \E e \in byName : e[1] = name /\ EraseAt(e[2])

\* multimap::find returns some entry of the key; with libstdc++ the first.
UnregisterModuleByIid(iid) ==
    \E k \in 1 .. Len(byIid) :
        /\ byIid[k][1] = iid
        /\ \A j \in 1 .. k - 1 : byIid[j][1] # iid
        /\ EraseAt(byIid[k][2])

ClearRegistry ==
    /\ reg' = <<>>
    /\ byName' = {}
    /\ byIid' = <<>>
    /\ released' = released \cup Held
    /\ UNCHANGED refused

Clear ==
    /\ op = Idle
    /\ reg # <<>>
    /\ ClearRegistry
    /\ UNCHANGED <<deps, state, op, result, life, starts>>

(***************************************************************************)
(* Life-cycle calls.                                                       *)
(***************************************************************************)
\* Mutant: in the order of registration.
BackwardsForwards == [i \in Indexes |-> i]

\* The stopping loops count down.
Backwards == [i \in Indexes |-> Len(reg) + 1 - i]

Begin(kind, todo) ==
    /\ op = Idle
    /\ op' = [kind |-> kind, todo |-> todo]
    /\ UNCHANGED <<registry, deps, state, result, life>>

BeginInitializeAll ==
    /\ starts < MaxStarts
    /\ starts' = starts + 1
    /\ Begin("InitializeAll", ComputeStartOrder)

BeginStartAll ==
    /\ starts < MaxStarts
    /\ starts' = starts + 1
    /\ Begin("StartAll", ComputeStartOrder)

BeginStopAll == Begin("StopAll", Backwards) /\ UNCHANGED starts
BeginShutdownAll == Begin("ShutdownAll", Backwards) /\ UNCHANGED starts

\* CollectModules, then a loop with neither the lock nor the states.
BeginStopAllWithTimeout == Begin("StopAllWithTimeout", Backwards) /\ UNCHANGED starts
BeginShutdownAllWithTimeout == Begin("ShutdownAllWithTimeout", Backwards) /\ UNCHANGED starts

\* A callback delivered to a module takes it from one of the phases "from"
\* to "to"; delivered in any other phase it breaks the module's protocol.
Callback(m, from, to) ==
    life' = [life EXCEPT ![m] = IF life[m] \in from THEN to ELSE "misused"]

SetModuleState(m, s) == state' = [state EXCEPT ![m] = s]

Next1 == op' = [op EXCEPT !.todo = Tail(op.todo)]

Finish(call, ok) ==
    /\ op' = Idle
    /\ result' = [call |-> call, ok |-> ok, saw |-> Held]

Current == reg[Head(op.todo)].m
InLoop(kind) == op.kind = kind /\ op.todo # <<>>
AfterLoop(kind) == op.kind = kind /\ op.todo = <<>>

Skip(ready) ==
    /\ ~ready
    /\ Next1
    /\ UNCHANGED <<state, life, result>>

\* if (GetState() != kCreated) continue; if (!Initialize()) rollback
InitializeStep ==
    /\ InLoop("InitializeAll")
    /\ LET m == Current IN
         \/ Skip(state[m] = "kCreated")
         \/ /\ state[m] = "kCreated"
            /\ Callback(m, {"new"}, "initialized")
            /\ SetModuleState(m, "kInitialized")
            /\ Next1
            /\ UNCHANGED result
         \/ /\ state[m] = "kCreated"
            /\ Callback(m, {"new"}, "new")
            /\ op' = [kind |-> "RollbackInitialized", todo |-> Backwards]
            /\ UNCHANGED <<state, result>>
    /\ UNCHANGED <<deps, registry, starts>>

StartStep ==
    /\ InLoop("StartAll")
    /\ LET m == Current IN
         \/ Skip(state[m] = "kInitialized")
         \/ /\ state[m] = "kInitialized"
            /\ Callback(m, {"initialized"}, "running")
            /\ SetModuleState(m, "kStarted")
            /\ Next1
            /\ UNCHANGED result
         \/ /\ state[m] = "kInitialized"
            /\ Callback(m, {"initialized"}, "startFailed")
            /\ op' = [kind |-> "RollbackStartedStop", todo |-> Backwards]
            /\ UNCHANGED <<state, result>>
    /\ UNCHANGED <<deps, registry, starts>>

\* One iteration of a loop that calls Stop() on the modules in state kStarted.
StopVisit(kind) ==
    /\ InLoop(kind)
    /\ LET m == Current IN
         \/ Skip(state[m] = "kStarted")
         \/ /\ state[m] = "kStarted"
            /\ Callback(m, {"running"}, "stopped")
            /\ SetModuleState(m, "kStopped")
            /\ Next1
            /\ UNCHANGED result
    /\ UNCHANGED <<deps, registry, starts>>

\* One iteration of a loop that calls Shutdown() on the modules in ready.
ShutdownVisit(kind, ready) ==
    /\ InLoop(kind)
    /\ LET m == Current IN
         \/ Skip(state[m] \in ready)
         \/ /\ state[m] \in ready
            /\ Callback(m, {"initialized", "startFailed", "running", "stopped"}, "closed")
            /\ SetModuleState(m, "kShutdown")
            /\ Next1
            /\ UNCHANGED result
    /\ UNCHANGED <<deps, registry, starts>>

StopStep == StopVisit("StopAll")
RollbackStartedStopStep == StopVisit("RollbackStartedStop")

\* Mutant: the module whose Start failed is not closed.
RollbackShutdownStepStoppedOnly == ShutdownVisit("RollbackStartedShutdown", {"kStopped"})

RollbackStartedShutdownStep ==
    ShutdownVisit("RollbackStartedShutdown", {"kInitialized", "kStopped"})

\* Mutant: the state is not tested.
RollbackInitializedAll == ShutdownVisit("RollbackInitialized", States)

RollbackInitializedStep == ShutdownVisit("RollbackInitialized", {"kInitialized"})
ShutdownStep == ShutdownVisit("ShutdownAll", {"kInitialized", "kStarted", "kStopped"})

\* The timed loops call every module whatever its state and record nothing.
\* The clock test comes first: mayRun is FALSE when the timeout is 0.
TimedStep(kind, from, to, mayRun) ==
    /\ InLoop(kind)
    /\ \/ /\ mayRun
          /\ Callback(Current, from, to)
          /\ Next1
          /\ UNCHANGED result
       \/ Finish(kind, FALSE) /\ UNCHANGED life
    /\ UNCHANGED <<deps, registry, state, starts>>

StopTimedStep(mayRun) ==
    TimedStep("StopAllWithTimeout", {"running"}, "stopped", mayRun)
ShutdownTimedStep(mayRun) ==
    TimedStep("ShutdownAllWithTimeout", {"initialized", "startFailed", "running", "stopped"},
              "closed", mayRun)

\* The end of each loop: return, or go on to the second loop of a rollback.
LoopEnd ==
    /\ \/ \E k \in {"InitializeAll", "StartAll", "StopAll", "ShutdownAll",
                    "StopAllWithTimeout", "ShutdownAllWithTimeout"} :
             AfterLoop(k) /\ Finish(k, TRUE)
       \/ AfterLoop("RollbackInitialized") /\ Finish("InitializeAll", FALSE)
       \/ AfterLoop("RollbackStartedShutdown") /\ Finish("StartAll", FALSE)
       \/ /\ AfterLoop("RollbackStartedStop")
          /\ op' = [kind |-> "RollbackStartedShutdown", todo |-> Backwards]
          /\ UNCHANGED result
    /\ UNCHANGED <<deps, registry, state, life, starts>>

Loops(mayRun) ==
    \/ InitializeStep \/ StartStep
    \/ StopStep \/ ShutdownStep
    \/ RollbackInitializedStep \/ RollbackStartedStopStep \/ RollbackStartedShutdownStep
    \/ StopTimedStep(mayRun) \/ ShutdownTimedStep(mayRun)
    \/ LoopEnd

Init ==
    /\ deps \in DepsChoices
    /\ reg = <<>> /\ byName = {} /\ byIid = <<>>
    /\ state = [m \in Modules |-> "kCreated"]
    /\ op = Idle
    /\ result = [call |-> "none", ok |-> TRUE, saw |-> {}]
    /\ life = [m \in Modules |-> "new"]
    /\ released = {} /\ refused = {}
    /\ starts = 0

\* Any program that drives one manager: any calls in any order (the timed
\* loops belong to CMyApplication::Shutdown alone, see Application).
Next ==
    \/ \E m \in Modules : RegisterByName(m)
    \/ \E m \in Modules, iid \in Iids \cup {NoKey} : RegisterByIid(m, iid)
    \/ \E m \in Modules : UnregisterModule(NameOf[m])
    \/ \E iid \in Iids : UnregisterModuleByIid(iid)
    \/ Clear
    \/ BeginInitializeAll \/ BeginStartAll \/ BeginStopAll \/ BeginShutdownAll
    \/ InitializeStep \/ StartStep \/ StopStep \/ ShutdownStep
    \/ RollbackInitializedStep \/ RollbackStartedStopStep \/ RollbackStartedShutdownStep
    \/ LoopEnd

Spec == Init /\ [][Next]_vars

(***************************************************************************)
(* Properties.                                                             *)
(***************************************************************************)

\* Types of the registry and of the life-cycle state.
TypeOK ==
    /\ deps \in [Modules -> SUBSET Iids]
    /\ reg \in Seq([m : Modules, iid : Iids \cup {NoKey}])
    /\ state \in [Modules -> States]
    /\ life \in [Modules -> Lives]
    /\ op.kind \in Kinds /\ Range(op.todo) \subseteq Indexes
    /\ released \subseteq Modules /\ refused \subseteq Modules
    /\ starts \in 0 .. MaxStarts

\* The modules a dependency cycle keeps from being ordered: the largest set
\* of entries each of which waits for another of the set.
CyclicTail ==
    UNION {S \in SUBSET Indexes : S # {} /\ \A i \in S : DependsOn(i) \cap S # {}}

\* The depth of each entry outside the tail.
Levels ==
    LET lvl[k \in 0 .. Len(reg)] ==
          IF k = 0 THEN {}
          ELSE {j \in Indexes : DependsOn(j) \subseteq lvl[k - 1]}
    IN  [i \in Indexes \ CyclicTail |-> CHOOSE k \in 1 .. Len(reg) : i \in lvl[k] /\ i \notin lvl[k - 1]]

Pos(order, i) == CHOOSE k \in 1 .. Len(order) : order[k] = i

\* The place in the order of the last provider of i; 0 when it waits for none.
LastProvider(order, i) ==
    CHOOSE k \in 0 .. Len(order) :
        /\ k = 0 \/ order[k] \in DependsOn(i)
        /\ \A j \in DependsOn(i) : Pos(order, j) <= k

\* ComputeStartOrder lists every entry exactly once, each after the providers
\* it depends on and layer by layer.  An entry comes when its last provider is
\* in place: entries come in the order of their last providers and, behind one
\* and the same, in registration order.  A missing provider counts as none.  The
\* entries of a cycle and those behind one come last, in registration order.
StartOrderCorrect ==
    LET order == ComputeStartOrder
        level == Levels
        tail  == Indexes \ DOMAIN level
        n     == Len(reg)
        last  == [i \in DOMAIN level |-> LastProvider(order, i)]
    IN  /\ Len(order) = n /\ Range(order) = Indexes
        /\ \A i, j \in DOMAIN level :
              j \in DependsOn(i) \/ level[j] < level[i] => Pos(order, j) < Pos(order, i)
        /\ \A i, j \in DOMAIN level :
              last[j] < last[i] \/ (last[j] = last[i] /\ j < i) => Pos(order, j) < Pos(order, i)
        /\ SubSeq(order, n - Cardinality(tail) + 1, n) = InOrder(tail)

\* After every registration and removal the two indexes hold exactly the
\* entries of the vector, at their present positions, and a lookup by
\* interface finds the module registered first.
IndexesExact ==
    /\ byName = {<<NameOf[reg[i].m], i>> : i \in {j \in Indexes : reg[j].iid = NoKey}}
    /\ Range(byIid) = {<<reg[i].iid, i>> : i \in {j \in Indexes : reg[j].iid # NoKey}}
    /\ \A j, k \in 1 .. Len(byIid) : j < k => byIid[j][2] < byIid[k][2]
    /\ \A i, j \in Indexes : i # j => reg[i].m # reg[j].m

\* The manager gives back the reference of no module it still holds.
NothingHeldIsReleased == Held \cap released = {}

\* The registry is sound: types, indexes and references.
RegistryInv == TypeOK /\ IndexesExact /\ NothingHeldIsReleased

\* Every callback reaches its module in the phase the module interface
\* promises: Initialize before Start, Stop only while running, Shutdown at
\* most once and never before a successful Initialize.
CallbackProtocol == \A m \in Modules : life[m] # "misused"

\* The state the manager reports for a module is the one its callbacks put
\* it in, also after a failed Initialize or Start.
StateMatchesLife ==
    op = Idle => \A m \in Modules :
        /\ (state[m] = "kStarted") = (life[m] = "running")
        /\ (state[m] = "kShutdown") = (life[m] = "closed")
        /\ life[m] # "startFailed"

\* A call that returns false has undone what it did: after a failed
\* InitializeAll no module is left initialized, after a failed StartAll none
\* is initialized, running or stopped.
RollbackComplete ==
    (op = Idle /\ ~result.ok) =>
        \A m \in result.saw \cap Held :
            state[m] \notin (IF result.call = "InitializeAll" THEN {"kInitialized"}
                             ELSE {"kInitialized", "kStarted", "kStopped"})

\* The life cycle: callbacks, recorded states and rollbacks.
LifeCycleInv == CallbackProtocol /\ StateMatchesLife /\ RollbackComplete

\* StartAll starts no module while a provider it depends on is still waiting
\* to be started, and InitializeAll initializes none before its providers
\* (a dependency cycle is the documented exception).
ComesUpInOrder ==
    \A i \in Indexes \ CyclicTail : \A j \in DependsOn(i) :
        LET m == reg[i].m
            p == reg[j].m
        IN  /\ (life[m] = "initialized" /\ life'[m] = "running") => state[p] # "kInitialized"
            /\ (life[m] = "new" /\ life'[m] = "initialized") => state[p] # "kCreated"

\* StopAll, ShutdownAll and the rollbacks go backwards through the registration
\* order: no module is stopped or closed under a running module that depends on
\* it and was registered after it.
GoesDownInOrder ==
    \A i \in Indexes : \A j \in DependsOn(i) :
        (/\ j < i
         /\ life[reg[j].m] \in {"running", "stopped"}
         /\ life'[reg[j].m] \in {"stopped", "closed"} /\ life'[reg[j].m] # life[reg[j].m])
            => life[reg[i].m] # "running"

\* Providers come up before their dependents and go down after them.
DependencyOrder == [][ComesUpInOrder]_vars /\ [][GoesDownInOrder]_vars
==============================================================================

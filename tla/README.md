# A TLA+ model of COM-Framework

COM-Framework is a C++ server framework: modules with a life cycle driven by an
application object, below them an asynchronous core (promise chains and coroutines on
an executor, a fair read/write gate per module, a thread pool, timers) and asio-based
networking, and on top two servers. This directory models the parts that decide
things, checks them with TLC on small instances, and proves the main safety properties
of the gate, the pool, the chains, the combinators, the coroutines, the timers, the
network classes and their module, the module manager, the application, the dispatcher,
the file store, the user service, the configuration, the log and the reference count
with TLAPS for all sizes.

    tlc -config MCReadWriteGate.cfg MCReadWriteGate    # any run of PROJECT.json
    tlapm ReadWriteGateProofs.tla                      # any of the modules *Proofs

`PROJECT.json` has the machine-readable form of everything below: which lines each
definition models (`map`), the runs, the hazards with the properties that guard
them, mutated definitions that make each property fail, the findings, the theorems.

## 1. Inventory

| Component | State it keeps | Operations | Interacts with |
|---|---|---|---|
| Read/write gate (`Common/Async/ReadWriteGate.*`) | FIFO of waiting tasks, active reader count, writer flag, closed flag, number of drain waiters, a dispatch buffer per calling thread | `Submit`, `PumpLocked`, `DispatchToPool`, `OnTaskExit`, `Close`, `Drain` | hands tasks to the pool with the mutex released; the executor submits to it |
| Thread pool (`Common/Thread/ThreadPool.*`) | task queue, idle count, running/stopping flags, threads | `Start`, `Submit`, worker loop with a bounded spin, `Stop` | runs gate tasks and posted layers |
| Executor (`Common/Async/AsyncExecutor.*`) | gate and pool handles, stop flag, per-thread inline depth | `DispatchInlineOrPost`, `CanRunInline`, `Post`, `Start`, `Stop` | called by every layer of a chain |
| Promise chains (`Common/Async/Promise.h`) | per layer: settled flag, result, hooks | append (`Then`, `Catch`, `Finally`, `ThenPromise`), `Settle`, notices, `Await`, gate re-entry | executor, gate |
| Combinators (`Common/Async/Combine.h`) | remaining count, first rejection, decided flag | bind children, count, decide | chains |
| Coroutines (`Common/Coroutine/Coroutine.h`) | resume point, termination, completion layer, the group of a joint await | start, suspend on an await, resume in place or posted, terminate | chains, executor |
| Timer manager (`Common/Timer/TimerManager.*`) | map of timers, map of names, next id, running flag | add, cancel, named timers, completion handler, `Start`, `Stop` | asio io thread; callbacks call back in |
| TCP server and connection (`Common/Network`) | connection map, peer addresses, counters, idle timer; per connection pending output and flags | accept, send, close, idle scan, read and write loops, shutdown | asio io thread, callbacks of the network module |
| TCP client, UDP socket (`Common/Network`) | socket, flags, pending output, thread | connect / bind, send, receive, close, stop | asio io thread, callbacks |
| Byte buffer, binary reader and writer | vector with two indexes; bytes and position | append, retrieve, compact, grow; write and read a field | messages |
| File store (`Common/Storage/CFileStore.*`) | items, per-tenant statistics, sequence number | save, get, list, list since, remove, clear | clients that keep a cursor |
| Configuration (`Common/Config`, `ConfigModule`, `ConfigReloadModule`) | values, path, modification time | load, parse, reload if changed, clear | the file, the timer, events |
| Logging (`Common/Log/Logger.*`) | level, file, size limit, backups | log, open, rotate, set level and limit | files |
| Reference counting (`ServerCore/Module/RefObject.*`, `WeakPtr.h`, `ScopedInterfacePtr.h`) | count, lifetime flag and mutex | `AddRef`, `Release`, weak `Lock`, `Reset`, copy, move | every module |
| Event dispatcher, message router | subscriptions by id and by type; a partial message per connection | subscribe, publish, publish later; feed bytes, dispatch | executor, network, modules |
| Network modules (`ServerCore/Network`) | the server, the handler, a context per connection, metrics | start, stop, callbacks, attach, detach | TCP server, services |
| Module manager (`ServerCore/Module/ModuleManager.*`) | vector of modules with their state, index by name and by interface | register, unregister, clear, start order, the four life-cycle loops, rollbacks, timed loops | calls the modules |
| Application (`ServerCore/Application/MyApplication.*`) | running and stop-request flags, the instance pointer of the signal handlers | `Initialize`, `Start`, `Run`, `Stop`, `Shutdown` | module manager, signals |
| The two servers (`ServerExample`, `ServerTemplate`) | which modules, in which order; a user table with versions and the flows over it | register, find, rename, remove a user; echo, ping | all of the above |
| Tracing, process helpers, examples, client | — | — | — |

What is hard here, and hard to reach by a test:

- checks done outside a mutex and acted on inside it (gate `Submit`, pool `Submit`
  against `Stop`, UDP `SendTo` against `Stop`, the count of a reference against its lock);
- wake-ups that are deliberately not sent (the pool's notify count, the gate's drain
  waiters), where one too few means a thread sleeps for ever;
- slots taken in one thread, carried through a buffer, a pool queue and a worker,
  and returned on every path, refusal by a stopped pool included;
- running a continuation in place or posting it, bounded by a depth, and giving up
  with a rejection when the executor is stopped: no layer may be left pending;
- two threads racing to settle, to append, to register, to wait and to resume;
- completions that are already queued when a socket or a timer is closed, and are
  delivered all the same;
- partial failure in the middle of a life-cycle loop, and its rollback;
- dependencies that are used but not declared, and hold by the order of registration;
- flows over a table that leave the gate between reading and writing it;
- signals arriving at any line of `Run()`.

What makes each component correct is stated as properties in section 4; the
hazards, at their lines, are in `PROJECT.json`, and those no property covers in section 6.

## 2. Plan

Built, in this order: the gate (with its abstract specification and its proofs), the
pool, the chains, the combinators, the module manager, the application, the timers;
then the coroutines, the reference count, the network classes and their module, the
dispatcher and the router, the file store, the buffer and the codec, the user service,
the configuration, the log and the assemblies of the two servers.

Left, in this order:

1. Theorems: the order within a layer in `StartOrderCorrect`, which the `modules` run
   checks. Section 5 says why `RouterInv`, `WireInv` and `AssemblySound` stay with TLC.
2. Executor composition: gate, pool and chains with one joint stop, several
   executors (`ThenBridge`), restart; the gate's pool there is `ThreadPool` itself
   and not the summary of it in `ReadWriteGate`.
3. The posted replies of `MessageRouter` over the restarting server of `NetworkModule`.

## 3. Modules and code

Conventions. A critical section of a mutex is one action, and so is a handler of an
io thread; everything the code does between two critical sections, or on two atomics,
is separate actions, with the thread's position in `pc`, `work`, `stack` or a field of
the component's record. Members keep their names without the `m_` prefix
(`m_nActiveReaders` is `nActiveReaders`). Variables and fields marked *history* in
their declaration are not in the code and guard nothing; they record what the
properties are about. Definitions whose comment begins with *Mutant* are the mutated
forms used to test the properties; no specification uses them.

**`ReadWriteGate`** — `CReadWriteGate` with as much of the pool as it relies on.
`SubmitRefused`/`SubmitChecked` are the test before the mutex, `SubmitPush` the
critical section with its pump, `DispatchAccepted`, `DispatchRefused` and
`DispatchDrop` the hand-over of one task to the pool, `WorkerTake`, `TaskBodyEnd`
and `OnTaskExit` the life of a posted task, `RunInline`/`InlineEnd` a body the
executor runs in place because `CanRunInline` says so, `Close`, `Drain*`, `PoolStop*`
the documented stop order. `PumpLocked` describes the loop by its result: the longest
admissible prefix of the queue. The pool is a FIFO with its two flags; its own
wake-ups are in `ThreadPool`.

**`FairRWLock`** — what the gate promises: one line of tasks, entered strictly in
order, reads together up to the limit, a write alone, and after every arrival or
departure nobody who could enter still waits. `ReadWriteGate` maps `line` to
`admitted \o queue`, `entered` to `Len(admitted)`, `active` to the slot holders.

**`ThreadPool`** — `Start`, `Submit` (the pre-check, the push with its notify count,
the notifications after the unlock), the worker (look, spin, sleep, run, leave) and
`Stop` (raise the flag, wake all, join, clear the flags one after the other).
`notify_one` wakes any sleeping worker or none; spurious wake-ups are steps.

**`PromiseChain`** — each thread has a stack of frames: running a body (`run`,
`retry`), settling (`settle`, `notify`), firing hooks (`fire`). Layers are given by
constants (`Mode`, `Up`, `Child`), and are appended at any time. Values are abstracted
to "resolved" or "rejected by layer l" or "rejected because the executor stopped",
which is what tells a correct propagation from a wrong one.

**`Gather`** — the four combinators. The aggregate is settled by a two-step verdict
(count under the mutex, apply outside), children settle in any order before, while or
after they are bound.

**`Coroutine`** — one coroutine with a sequence of single and joint awaits. `acts` are
the activations of `Run()` in progress, with the thread they are on; a promise settles
on any thread, and its notice goes through reject, count and resume one step at a time,
beside the activation that is still registering the other promises of its await.

**`TimerManager`** — the manager and, marked external, what it needs of asio: an
armed wait expires into a queue, `cancel` queues an error only if the handler is not
queued yet, `stop` ends `run()` after the current handler.

**`TcpServer`** — `CTcpServer` and its `CTcpConnection`s on one io thread. `ready` is the
queue of handlers asio will call; closing a socket turns what is pending into failed
handlers and leaves queued ones alone, from which the double close and the late data come.
The idle scan is switched on and off; its timer object, once made, stays, also when its
wait has run out. `told` is history: the callbacks made. An append that moves the string
under a write that is out makes what goes out `Garbage`.

**`NetworkModule`** — extends `TcpServer`: the callbacks run inside the server's step,
`moduleOp` is a start or stop in progress, and every start makes a new server with ids from 1.

**`TcpClient`**, **`UdpSocket`** — the same view of asio; `spent` is the io_context
whose `run()` has returned and that nobody restarts. `UdpSocket` has `Stop()` as three
steps of the caller's thread, since it touches the socket without posting.

**`Wire`** — `CBuffer` with numbered bytes, and the writer and reader over digits of a
given radix, so that a width of 8 digits stays small.

**`FileStore`**, **`Settings`**, **`LogFile`** — each with the partner it needs: a
client that pulls with a cursor; somebody who edits, removes and restores the file and
the timer that looks at it; a disk on which opening may fail.

**`RefObject`** — one object, several threads with strong and weak pointers. `Release`
is the decrement, the critical section that marks the object dead, and the delete.

**`Ascending`** — a finite set of numbers in ascending order, which is how the code
goes through a `std::map` keyed by ids: the timers' and modules' indexes, the
connections, the subscriptions, the listing of the store.

**`HandlerTable`** — the pair of maps that dispatcher and router both keep (id to
entry, type to ids). **`EventDispatcher`** publishes over a snapshot, on the caller or
the executor. **`MessageRouter`** cuts a stream of digits into packets with the example
server's protocol and posts the service's replies.

**`Users`** — the table, the flows over it and the demo driver. One action is one
access to the table with the handlers after it; flows of several callers interleave
between accesses, and the modules may be stopped and started again in between. That the
table's own executor stops is not a step: it ends a flow as "Stopped", which the stop of
the service does as well.

**`ModuleManager`** — the vector `reg`, both indexes, per-module state, and a
life-cycle call in progress `op` that visits one module per step. `ComputeStartOrder`
is Kahn's algorithm with the code's queue order, written as a recursive function.
`life` is history: what the module itself has been through, judged by the protocol
in `IModule.h`.

**`Application`** — extends `ModuleManager` with `main()`: each statement of
`Initialize`, `Start`, `Run`, `Shutdown` that touches a flag is a step; the signal
handlers and another thread's `Stop()` may come between any two. A signal handler
is one step, although the code tests the instance pointer and then uses it: a handler runs
on the main thread, which meanwhile does not move, or the test and the use fall on both
sides of the line that takes the pointer back, which is left out.

**`Servers`** — extends `Application`: each module of the two servers as a record of
its interface, the interfaces it declares, needs and uses; the registration order of
`RegisterModules`; `Initialize` fails exactly when something needed cannot be resolved.

`MCAsync`, `MCNetwork` and `MCServices` put components that share no state into one
instance: `focus` is chosen initially and only that component moves. The state space is
the sum of theirs, not the product. `MCServices` takes the application in through
`MCApplication`, whose `ProgramSpec` is a configured application or one of the two servers;
`MCSettings` has the configuration alone.

## 4. Runs

A run asks about one component or one family of them; a passing run fires every action
of its components at these bounds. Safety and liveness of a component are checked on
the same instance.

| Run | Bounds | Shows |
|---|---|---|
| `gate` | 3 reads, 1 write, limit 2, an outside thread, 2 workers, 2 drainers; no symmetry | `GateInv` (the inductive invariant of the proofs), `Exclusion`, `DrainIsExact`, refinement of `FairRWLock` with a limit that bites; a task that passed the test of `Submit` runs; the owner gets through its stop sequence, and the other `Drain()` returns, after a refusal of the pool too, but behind tasks a drop has left in the queue (`Stranded`) |
| `async` | pool: 3 tasks, 1 client, 3 workers, one restart; 0 to 3 children under 4 policies; 2 timers, a user and the callbacks, a restart; a coroutine with a single and a double await, depth 1 | `PoolInv`: an exact idle count, no worker sleeping over a backlog, a joined pool is drained; `GatherInv`: the aggregate equals the reference at every moment; `TimerInv`: a cancelled timer fires at most the once it had expired, a stopped manager is quiet; `CoroutineInv`: one continuation at a time, on the right thread and in the right slot, and the result of the sequential program; `PoolProgress`, `PromisesKept`: tasks run, `Stop()` returns, aggregates and coroutines settle, timers fire |
| `chain_line` | handler, ThenPromise with its child, catch, finally; a caller, 2 workers; depth 1 | `ChainInv` (the JavaScript reading of a chain, at most one gate re-entry), `InlineSafe` (the depth bound, bodies on workers only), nothing left pending |
| `chain_notices` | starter and then, 3 notices, a timed waiter, a caller and a worker | each notice once, with the final result, in order; waiters see the final result; a settled layer never changes; layers settle, notices arrive, waiters return, executor stopped or not |
| `modules` | 3 modules, 2 interfaces, competing names, 3 starting calls; and every dependency declaration over 3 interfaces with every registration of up to 4 modules | both indexes follow the vector, nothing held was given back; the callback protocol and rollback; `ComputeStartOrder` against its reference: a permutation, by layers, within a layer by the last provider and then by registration, cycles last in registration order; providers start first, later dependents stop first |
| `network` | server: 2 connections, limit 1, 4 outside events, 2 servers one after the other; client: 2 sends, 2 connects; UDP: 2 datagrams, 2 sends, 3 binds | `ServerInv`: table, counters and callbacks agree up to the double closes the code makes, loops go on, bytes leave in order; `ConnectionResources`: a context lives as long as its connection; `ClientInv`, `UdpInv`; `StopsReturn`, with the two exceptions named there |
| `services` | see `MCServices.cfg`; the application: 2 modules with timeout 0 or 5000 ms and failing modules and hooks, and the two servers as they are assembled, signals and `Stop()` at any moment | `RefInv`, `DispatchInv`, `RouterInv` (however the stream is cut or glued, the messages are those of the stream, in order, up to an invalid length), `StoreInv` (statistics and cursor), `WireInv` (buffer is a queue, reader reads back what arrived and stands where it should, after a failure too), `UsersInv` (optimistic lock, outcomes true), `ConfigInv`, `LogInv` (no line lost or out of order through rotations). `AppInv`, `CleanExit`: who reached `Start()` closes and releases every module, the protocol is kept up to the timed loops; `AssemblySound`: in both servers no module runs, or stays set up, without the ones it uses; `StopRequestEndsRun`: a stop request during `Run()` ends the program |

`gate_drop`, `pool_stop`, `app_timeout`, `config_merge` and `weak_ptr` are expected to
fail; see Findings.

Why the bounds are enough: the gate's rules look at the head of the queue and two
counters, so three reads under a limit of two and a write reach every combination of
inside and waiting except two writes, which the proofs cover for any number. The
pool's notify rule compares a backlog with the idle count, which differ already with
three workers and three tasks. A chain layer talks to its upstream and its child only;
the two chain runs contain every mode, with a settled and a pending upstream. A
coroutine's awaits follow one another, so one of each sort is enough. Cycles,
several providers and missing providers all occur with four modules over three
interfaces. A timer is independent of the others except through names, which two
timers contend for. Two connections are needed for the limit and for one closing
beside another; a third meets nothing new. Packets of up to two bytes behind a two
digit header are cut in every way by six bytes, the invalid length included, and six are
two whole packets, which may come in one piece. Three
short codes, two tenants and four saves reach a reuse of a code, a removal behind the
cursor and both quotas. Three backups and six lines fill every file and drop one. The
flows meet every conflict with one rival on the demo's rows, and with a rename, a
removal and two registrations against each other.

Constants named `Max...` bound counters that are unbounded in the code; they appear in
guards only. Symmetry is used in `chain_line` (threads of a kind), never with liveness.
Deadlock is checked in `gate`, `async`, the chains and `modules`, where a step tells
rest from being stuck; it is off for `network` and `services`, whose events are bounded
and whose application exits.

### Fairness

Weak fairness of each thread *inside* the library (a worker, a thread between two
critical sections of one call, a notified waiter, the io thread, main), never of
starting a call. It stands for: the operating system schedules runnable threads,
mutexes are handed on, and user bodies return. No strong fairness is needed. Spurious
wake-ups and time-outs have no fairness, so no result rests on them. A gate task's
body is assumed to end (`TaskBodyEnd` in `WorkerStep`); timers expire (`Expire`); a
resolve and a connect end one way or the other, as the operating system's time limits
make them. Peers have no fairness: nothing rests on their sending or hanging up. The
promises a coroutine awaits are assumed to settle, which is `ChainProgress`.

### Findings

Five runs show that the code does something else than its own comments say.
Quotations are in `PROJECT.json`.

- `gate_drop`: `Submit` tests the closed flag before taking the mutex, so a task can
  be accepted after `Close` and `Drain`, and is dropped if the pool then stops,
  although the owner kept to the order the header requires.
- `pool_stop`: `Stop()` clears `m_bRunning` and `m_bStopping` outside the mutex; a
  `Submit` that reads them in between leaves a task in a pool without workers.
- `app_timeout`: with a timeout, modules are stopped and shut down a second time.
- `config_merge`: `LoadFile` merges with `map::insert`, so of two loads the earlier wins,
  although the header says that the later overrides; `Parse` does the same. Only
  `ReloadIfChanged`, which clears first, gives the new values. `ConfigInv` takes the code
  at its word and excuses what a second load without a clear mixes.
- `weak_ptr`: `Release()` takes the count to zero before it takes the lifetime mutex, and
  does not look again; a `Lock()` in between returns a pointer to an object that is
  deleted under it.

Remarks, from reading the code for the model, that no run is spent on. Where a
property covers the behaviour it says exactly how far it goes.

- A task the pool refuses gives its slot back without a pump (`ReadWriteGate.cpp:315-320`).
  What is queued behind it stays, and a `Drain()` that waits for it waits until somebody
  submits again: the exception in `StopTerminates`.
- The start order is by layers, and within a layer by the last provider that came off the
  list. `ModuleManager.h:131`, `ModuleManager.cpp:522`, `:554` and `:586` and
  `docs/servercore/module-system-impl.md:68` claim the order of registration within a
  layer, and modules with a missing dependency last; the code passes over a missing
  provider (`ModuleManager.cpp:546-549`). Registered as D (needs B), A, B, E (needs A) the
  order is A, B, E, D. `StartOrderCorrect` says what the code does.
- `BinaryReader.h:13` and `docs/common/serialization-usage.md:28` say that a read that
  fails leaves the position. `ReadBytes` (`BinaryReader.cpp:131-143`) has
  read the four bytes of the length when it finds too few behind them. `WireInv` says where
  the reader stands in every case, this one included.
- An invalid length drops what has arrived, not the rest of the stream
  (`MessageRouter.cpp:134-143`, `docs/servercore/messaging-impl.md:39`): what comes in the
  next piece is taken for a new packet, and the cut decides what that is. `RouterInv` starts
  anew there.
- With `SetIdleTimeout(0)` the idle timer runs out and its object stays, so that a later
  `SetIdleTimeout` of the same server starts no scan (`TcpServer.cpp:264-277`, `:285`).
- Skipped layers settle inside the upstream's `Settle`, outside the inline guard
  (`Promise.h:860`): a rejection that passes n layers nests n calls, although
  `AsyncExecutor.h:162` presents the depth limit as what keeps long chains off the stack.
- `StopAll` and `ShutdownAll` go backwards through the registration order
  (`ModuleManager.cpp:352`), while `ModuleManager.h:28` says what started last stops
  first. They agree when providers are registered before their dependents; that much
  is in `DependencyOrder`, and that both servers register so in `AssemblySound`.
- `StartAll` skips modules that are not initialized and returns true, although its
  comment says all were started (`ModuleManager.cpp:325`, `:334`).
- `RegisterModule(iid, ...)` refuses an invalid identifier without `Release`
  (`ModuleManager.cpp:78`), although the comment at `:70` says it releases on failure.
- A connection closed from both sides at once is reported closed twice and counted down
  twice, and its data may arrive after `OnClose` (`ServerInv` bounds both by two); a
  connection accepted during the shutdown keeps `Stop()` waiting for its peer, and so
  does a client stopped while it resolves (`StopsReturn`).
- Neither `CTcpClient` nor `CUdpSocket` restarts its io_context: a second `Connect` or
  `Bind` does nothing, or terminates the process (`ClientInv`, `UdpInv`). The client's
  close callback is not made for a local close, and `IsConnected` stays true after the
  peer has closed.
- An edit of the configuration file between the read and the look at its time is seen
  by no later reload; a reload that fails leaves no values at all (`ConfigInv`).
- `ExampleAsyncModule.cpp:1039` and `ExampleDbModule.cpp:176` say that nothing comes in
  between; the gate excludes tasks, and a flow is several of them. What protects the
  rows is the version, and that not when a row is removed and registered again
  (`OptimisticLock`).

## 5. Proofs

Eight modules prove, for every value of the constants that satisfies the assumptions,
what the runs check on one instance. Nothing is assumed beyond the `ASSUME`s of the
models, which TLC evaluates in the runs; they are conditions of type (bounds are
natural numbers, sets of threads are finite and disjoint, a dependency choice is a set
of interfaces per module), but for one: an update is tried at least three times, as the
code does (`kMaxUpdateAttempts`), and as the demo's three renames at once need.

| Theorem | Says |
|---|---|
| `GateInvHolds`, `GateTypeCorrect`, `SlotsAccounted` | the gate's invariant, its types, and that its counters equal the number of slot holders |
| `GateExclusion` | a write body overlaps no other worker's body |
| `DrainExact` | `Drain()` returns only when no accepted task is queued or inside |
| `GateImplementsFairLock` | the gate refines `FairRWLock`: strict order of entry, nobody who could enter waits |
| `PoolInvHolds` | exact idle count; no worker sleeps over a backlog; a joined pool is drained |
| `ChainInvHolds`, `SettledForGoodHolds` | a layer settles once, after its upstream, with the result its mode prescribes; its body runs at most twice |
| `NothingStrandedHolds` | at rest no layer and no notice is forgotten, executor stopped or not |
| `InlineSafeHolds` | the depth bound; bodies on workers only |
| `GatherInvHolds` | an aggregate settles once, as soon as the reports decide, with the result of its reference |
| `TimerInvHolds` | a managed timer is alive; a cancelled one fires at most the once it had expired; a stopped manager is quiet |
| `RegistryInvHolds` | both indexes follow the vector; nothing held was released |
| `LifeCycleInvHolds` | no callback out of protocol; a failed call has undone what it did |
| `DependencyOrderHolds` | modules come up after what they depend on, cycles excepted, and go down before it where they were registered after it |
| `AppInvHolds`, `CleanExitHolds` | signal handlers find their instance; who reached `Start()` closes and releases every module |
| `CoroutineInvHolds` | one continuation at a time, on the right thread and in the right slot; the result is the sequential program's |
| `ObserversInvHolds` | notices come once, in order, with the final result; nobody returns early from an `Await` |
| `UdpInvHolds` | the receive loop survives, every datagram is taken in time |
| `ClientInvHolds` | bytes leave once and in order, the close notice comes once, the loop lives while it is connected |
| `ServerInvHolds` | table, counters, callbacks and loops of the server agree, up to the double closes the code makes |
| `ConnectionResourcesHolds` | a context lives as long as its connection; the gauge is 0 when the module is idle without a server |
| `DispatchInvHolds` | a publication reaches, once and in order, who was subscribed when it began |
| `StoreInvHolds` | exact statistics, kept quotas; a client that pulls with its cursor misses nothing and gets nothing twice |
| `UsersInvHolds` | no rename is lost or counted twice; a write is told of exactly when it was made; no update over an unseen write, but on a row removed and registered again; the demo sees what it announces |
| `ConfigInvHolds`, `LogInvHolds` | values of one content of the file; no line lost or out of order |
| `RefInvHolds`, `DanglesOnlyIfRevived` | the count is the number of strong pointers; only an upgrade from zero frees under one |

**The gate** (`ReadWriteGateProofs`; any finite sets of reads, writes and drainers, any
threads, any limit). `Exclusion` is about bodies, the code decides by counters, and a
slot travels through three containers before it comes back; so the invariant has to say
where every task is. `GateInv` adds to `SlotAccounting` and the types: each container
holds a task once (`Injective`), no task is in two dispatch buffers, and the history
of a task says exactly which container it is in (`ArgInv`, `QueueInv`, `DispatchInv`,
`PoolInv`, `RunInv`, `InlineInv`); `DrainInv` counts the waiters. With it, returning
a slot is removing one element of a finite set (`AccountsReturn`), and the pump is
adding a run of fresh ones (`CountPrefix`, `PumpAccounts`), which a lemma on the shape
of what can be admitted (`AdmittedShape`: one write alone, or reads only) makes
consistent with the writer flag. One lemma per action shows that `GateInv` is
preserved. `Exclusion` follows: two bodies on two workers hold two slots, or share
the slot of a body of the same kind, and a writer's slot is alone. The refinement needs
`LineInv` besides: the count stays within the limit, and the line holds nobody who has
not passed the queue. A pump is then one arrival or departure of `FairRWLock`, which lets
in all it can at once, a refusal by the pool is its `GiveUp`, and every other step leaves
the line alone.

**The pool** (`SchedulingProofs`; any tasks and clients, any finite set of workers). That
no worker sleeps over a backlog compares the queue with the wake-ups that are owed, over
all threads inside `Submit`. `PoolIInv` adds `NotifyInv` (each owes a bounded number, and
only a thread in its notifying loop owes any), `StopInv` (a worker leaves only with the
flag up and the queue empty) and `TaskInv` (a task that is queued is in the queue, one
that runs has a worker), from which a joined pool is drained.

**The chains** (`PromiseChainProofs`; any graph of layers, any threads, any depth).
A rest state says nothing about how a layer could have been lost, so the invariant
follows the right to settle a layer, or to call a notice, as a token. `NotLost`: what
is created and not finished has a token, and `Unique`: in exactly one place, a hook of
its upstream, a closure in the pool, or an activation on a stack. Each step is a
combination of moves (`PushMoves`, `PopMoves`, ...) whose lemmas say what becomes of
the places. With an empty pool and empty stacks a token can only be a hook, and a
settled layer keeps none: that is `NothingStranded`. `SettledOK` and
`FramesOK` carry the results through the frames for `ChainInv`. `InlineSafe` counts
the in-place frames of each stack (`StackSafe`), since the code's counter is the number
of guards on it. `ObserversInv` needs the order besides: `Before` says that of two
notices registered while the layer was pending the second still waits behind the first,
in the layer's hooks or in what is left of one `fire` frame, and `OrderInv` that this is
so until the first has been called; the hooks are taken all at once, by one thread.

**The combinators** (`AsyncProofs`; any number of children). The reference is a function
of the history of reports, the code has a counter and a remembered rejection. `DoneKnown`
ties them: `bDone` holds exactly when the reference is decided, before that the remembered
rejection is the first of the history. `DecidedStays` shows that a report more cannot change a
decision as long as children are left; that there are some is `EachCounted`, which counts
the reports by the children heard of. `StartKnown` says where the first layer is.

**The coroutines** (`AsyncProofs`; any sequence of single and joint awaits). That one
continuation carries the body on is about activations, a posted resumption and the
notices of the await at hand, which move one step at a time on different threads.
`CarriedOnce` lists the only five situations of a coroutine that is not settled: not
started, running, queued, registering, waiting; `Suspended` ties the group's counter to
the promises that have not counted down and says that the one who counts to zero is alone
in resuming. `RejectionKept` says where a rejection is kept between the notice that
brings it and the settlement, from which the result is that of the sequential program.

**The timers** (`SchedulingProofs`; any timers, users, fires and restarts).
`OnePlace`: a timer has at most one of an armed wait, a queued handler and a running one;
`FreshIds`: an id not yet given has left no trace; `PastInv`: what a cancelled or fired
one-shot timer can still do. Without them a cancel could meet a second handler.

**The module manager** (`ModuleManagerProofs`; any modules, names, interfaces and
dependency choices). The registry: `VectorOK` says the two indexes are the functions the
vector determines; its lemmas follow an append, an erasure and the rebuilding of the
indexes. `StartOrderOK` is about `ComputeStartOrder` for every registry: the result lists
each index once, and each one outside the cycles comes after all it depends on. It rests
on the invariant of Kahn's loop, by induction on the number of steps: for every index
the assertion "not at this step" has a least counterexample, which the step before
refutes. The life cycle: `StatesAgree` ties the recorded state to what the module has been
through, `CountingDown` and `VisitedDone` say how far a backward loop is, `NoneStarted`
and `FailedIsRolledBack` what a failed loop has still to undo, `ResultKnown` what the
last result was about. `OrderKept` turns the order of the list into an order of
callbacks: each entry to come waits only for ones before it or ones already past.

**The application** (`ModuleManagerProofs`, with `TimeoutAssumption`). `CallsAtSites`:
a life-cycle call is in progress only at the statement of `main()` that makes it, so the
manager's lemmas apply one statement at a time; `FlagsSet` and `StartsMade` say what is
behind each statement. `LifeCore` holds until the timed loops run (`Untimed`), the
exception `app_timeout` is about. `CalledHeld` and `NoneOpen` give `CleanExit`: whoever
was called is held until the clear, and the shutdown loop has closed whoever is held.

**The UDP socket** (`NetworkProofs`; any bounds). That the receive loop is alive while
the socket runs is not inductive: an abort or a close would end it. `Owned` says that only
`Stop()` does either and that it has cleared `m_bRunning` before; `Threads` ties the
thread to `Stop()`, to the spent io_context and to the number of bindings, which gives
that a joinable thread is left behind only by a second binding, and that `Bind` never
meets one; `Handed` says that before `run()` returns no resolve is late and afterwards
only late ones are left.

**The TCP client** (`NetworkProofs`; any bounds). `OneChain`: of the chain of resolve and
connect one link exists at a time, out or queued, until its one result; `NothingBefore`:
without it nothing is read or written. `ClientStream` gives the order on the wire: how many
payloads of the pending string are out is the argument of the one write that is out or
queued (`StreamAt`). `ClientLife` counts the calls: only the first `Connect` enters `run()`.

**The TCP server and its module** (`NetworkProofs`; any number of connections, events and
servers). The queue of ready handlers is the invariant's subject: what a handler may do
depends on what is queued behind it. Per connection, `ReadAt` and `WriteAt` say that an
open one has its read and, with output, its write out or queued; `LateAt` how many
handlers are left that report a close or late data, which is what bounds the double close;
`SendsAt` that the payloads queued for a string come in order after those taken. `AcceptAt`
says the same of the accept loop, `IdsAt` that nothing is queued for an id not yet given,
`Ledger` that table and counters are what the callbacks made of them. Each handler is
proved by what it removes from the queue, and `Moves` says that what a step does to the
table is what its callbacks say, so that the module's contexts follow it.

**Configuration, log and reference count** (`ServicesProofs`; any edits, any number of
backups and lines, any finite set of threads).
A load is three steps with edits in between: `ValuesInv` and `FreshInv` say at each of
them which content the values are of and what is known of the file, `ReloadInv` that a
reload is under way only while its module runs. For the log, `FilesInv` describes the set
of files as consecutive runs of lines that end with the last one written, which a
rotation shifts by one; `QuietInv` counts the lines under way. `RefInv` is inductive once the
set of pointers is known to be finite: a count above zero means a whole object, and the one
who takes it to zero is the one who deletes; `revived` marks the exception.

**Dispatcher and file store** (`ServicesProofs`; any types, publishers and subscriptions;
any tenants, codes, items and sizes). `TableAt`: the list of a type rises and holds
exactly the ids of that type, all below the next; without it neither map says what
removing an id leaves in the other. `PublishAt` compares what a publication has still to
call with who was there when it began. For the store, `StatAt` says that a tenant's
statistics are those of its items, `CursorAt` where the items are that the pulling client
does not have: behind its cursor. That tenants are given different numbers needs the items
still stored to differ from all given before.

**The user service** (`UsersProofs`; any seeds, ids and calls of others, attempts from three
on, restarts at any time). That no rename is lost compares the version of a row with the
history of all calls. `TableIs` keeps the sum: a row's version is one more than the renames
that wrote it since it was registered. `CallAt` says of each call how its step, its error
and whether it wrote go together; `RenameAt` that between reading and writing the row has the
version read plus the writes the call has not seen, unless the row was reborn, and that
each attempt after the first costs a write seen. What the demo sees is about the calls of
others too: `DemoAt` has its scenes in order, with as many pending as are not yet heard of,
and at most three renames; `DemoRow` says that while nobody else touches its user (`Alone`)
the row is there as registered until the demo removes it; `DemoCalls` what each of its
calls is expected to end in. That three attempts suffice (`FewRenames`): a conflict takes a
rename by another of the three. The steps of one call share `Progress`, and each write has
a lemma that says what it ends in (`InsertEnds`, `ApplyEnds`, `EraseEnds`).

Only model-checked. Liveness under fairness and everything with `ENABLED`, which the
prover cannot do. `RouterInv` and `WireInv`: what `Cut`, the codec and the folds over a
message compute is induction over data, which the prover cannot do either. `AssemblySound`
is about the assemblies of two concrete servers and has nothing left open for a proof
to cover. Of `StartOrderCorrect`, which compares `ComputeStartOrder` with its reference,
the listing and the order of dependencies are proved, the order within a layer and that of
the cycles is left to the `modules` run.

## 6. Not modelled

- Executor restart, bridges to another executor, blocking-risk reports, and the
  composition of gate, pool and chains: each is checked against a summary of the other.
- The interface maps and the resolve context: tables that do not change.
- Statistics and status queries, metrics, tracing: they decide nothing.
- The text of log lines, the ini syntax, the content of stored items, the columns of a
  user besides its version: abstracted to what the properties tell apart.
- The posted replies of the service against a restart of the server: the router and
  the network module are separate instances.
- Daemonizing and pid files; the examples, the command line client and the echo
  handlers of the template server: calls with no state of their own.
- Memory: actions are sequentially consistent. Where the code uses weaker atomics
  (the pool's flags) each access is its own step, but no reordering is modelled. The
  unsynchronised reads of `CConfig`'s map and of the pool pointers of the
  infrastructure modules are data races without a defined outcome and are left out.

Hazards seen while reading that no property covers, with the reason:

- A rejection that passes skipped layers recurses once per layer (`Promise.h:860`): a
  matter of stack size, which the model has not.
- A `Stop()` of a module's thread between `Start()` and `Run()` is overwritten
  (`MyApplication.cpp:77`): nothing is promised before `Run()`.
- The timed loops use bare pointers outside the lock (`ModuleManager.cpp:475`), and the
  timer manager's `Start` may meet its `Stop` (`TimerManager.cpp:131`): one thread drives
  both in every `main()` of the repository, and in the model.
- A second timer of a name leaves the first without one (`TimerManager.cpp:83`): no
  promise is made about a name in use.
- A reply posted for a connection may reach another one of the same id after a restart
  (`ExampleService.cpp:157`): nothing is promised about ids across servers.
- `GenerateId` loops for ever when every code is in use (`CFileStore.cpp:35`) and a buffer
  of capacity 0 when it grows (`Buffer.cpp:112`): no caller comes near.

----------------------------- MODULE ReadWriteGate -----------------------------
(***************************************************************************)
(* Common/Async/ReadWriteGate.{h,cpp}: the per-module read/write gate.     *)
(* Clients and task bodies call Submit; the gate queues the task and hands *)
(* the tasks that obtained a slot to the thread pool; a worker that ends a *)
(* task returns the slot and lets the next ones in.  One owner executes    *)
(* the stop order the header prescribes: Close, Drain, stop the pool.      *)
(*                                                                         *)
(* A critical section of m_mutex never blocks inside, so it is one action. *)
(* What the code does outside the mutex (the closed/running test of Submit,*)
(* each hand-over to the pool) is an action of its own.  The pool is the   *)
(* interface the gate uses of Common/Thread/ThreadPool (module ThreadPool).*)
(***************************************************************************)
EXTENDS Naturals, Sequences, FiniteSets

CONSTANTS ReadTasks, WriteTasks,  \* the tasks ever submitted, by TaskKind
          Clients,                \* threads outside the pool
          Workers,                \* threads of the pool
          Drainers, Owner,        \* callers of Drain(); Owner also closes and stops
          MaxReaders,             \* m_nMaxReaders, 0 = unlimited
          NoTask                  \* "no task"

Tasks == ReadTasks \cup WriteTasks
Threads == Clients \cup Workers

ASSUME GateAssumption ==
    /\ IsFiniteSet(ReadTasks) /\ IsFiniteSet(WriteTasks) /\ IsFiniteSet(Drainers)
    /\ ReadTasks \cap WriteTasks = {}
    /\ NoTask \notin Tasks
    /\ Clients \cap Workers = {}
    /\ Owner \in Drainers
    /\ MaxReaders \in Nat

VARIABLES
    bClosed,         \* m_bClosed
    queue,           \* m_dequeTasks
    nActiveReaders,  \* m_nActiveReaders
    bWriterActive,   \* m_bWriterActive
    nDrainWaiters,   \* m_nDrainWaiters
    bPoolRunning,    \* CThreadPool::IsRunning()
    bPoolStopping,   \* the pool refuses: Stop() has begun
    poolQueue,       \* tasks the pool accepted and no worker took yet
    pc,              \* where each thread is: ready, push, dispatch, return, exit
    arg,             \* the task a thread is submitting
    vecDispatch,     \* per thread: tasks with a slot still to be handed over
    cur,             \* the CTaskFrame of a worker: the gate task it runs
    inl,             \* the layer a worker runs in place inside that task
    dpc,             \* per Drain() caller: none, waiting, woken, returned
    phase,           \* history: what has become of each task
    admitted         \* history: tasks in the order they obtained a slot

gateVars == <<bClosed, queue, nActiveReaders, bWriterActive, nDrainWaiters>>
poolVars == <<bPoolRunning, bPoolStopping, poolQueue>>
vars == <<gateVars, poolVars, pc, arg, vecDispatch, cur, inl, dpc, phase, admitted>>

\* "inline": run in place by CanRunInline's caller; "refused": Submit returned
\* false; "dropped": accepted, then refused by the pool.
Phases == {"new", "submitting", "refused", "queued", "granted", "pooled",
           "running", "finished", "done", "dropped", "inline"}
SlotPhases == {"granted", "pooled", "running", "finished"}

SlotHolders == {t \in Tasks : phase[t] \in SlotPhases}

-------------------------------------------------------------------------------
(* Helpers called with the mutex held. *)

IsIdleLocked == nActiveReaders = 0 /\ ~bWriterActive /\ queue = <<>>

\* The counters after ReturnSlot(kind of t).
ReadersAfterReturn(t) == IF t \in ReadTasks THEN nActiveReaders - 1 ELSE nActiveReaders
WriterAfterReturn(t) == IF t \in ReadTasks THEN bWriterActive ELSE FALSE

\* notify_all, sent only when somebody is registered.
NotifyDrainWaitersLocked ==
    dpc' = [d \in Drainers |-> IF nDrainWaiters # 0 /\ dpc[d] = "waiting"
                               THEN "woken" ELSE dpc[d]]

\* Mutant: the reader limit is tested with > instead of >=.
CanAdmitOneTooMany(q, k, r, w) ==
    /\ ~w
    /\ \A j \in 1..(k - 1) : q[j] \in ReadTasks
    /\ \/ q[k] \in ReadTasks /\ (MaxReaders = 0 \/ r + (k - 1) <= MaxReaders)
       \/ q[k] \in WriteTasks /\ r + (k - 1) = 0

\* Iteration k of the loop lets q[k] in, given that the k-1 tasks before it
\* were let in (a write that is let in ends the loop).
CanAdmit(q, k, r, w) ==
    /\ ~w
    /\ \A j \in 1..(k - 1) : q[j] \in ReadTasks
    /\ \/ q[k] \in ReadTasks /\ (MaxReaders = 0 \/ r + (k - 1) < MaxReaders)
       \/ q[k] \in WriteTasks /\ r + (k - 1) = 0

\* PumpLocked on queue q with r readers and writer flag w: lets in the longest
\* prefix the rules allow and leaves it in thread p's dispatch buffer.  ph is
\* the history of the tasks so far in this critical section.
PumpLocked(p, q, r, w, ph) ==
    \E n \in 0..Len(q) :
        /\ \A k \in 1..n : CanAdmit(q, k, r, w)
        /\ n < Len(q) => ~CanAdmit(q, n + 1, r, w)
        /\ queue' = SubSeq(q, n + 1, Len(q))
        /\ nActiveReaders' = IF \E k \in 1..n : q[k] \in WriteTasks THEN r ELSE r + n
        /\ bWriterActive' = (w \/ \E k \in 1..n : q[k] \in WriteTasks)
        /\ vecDispatch' = [vecDispatch EXCEPT ![p] = SubSeq(q, 1, n)]
        /\ pc' = [pc EXCEPT ![p] = IF n = 0 THEN "ready" ELSE "dispatch"]
        /\ phase' = [t \in Tasks |-> IF \E k \in 1..n : q[k] = t THEN "granted" ELSE ph[t]]
        /\ admitted' = admitted \o SubSeq(q, 1, n)

-------------------------------------------------------------------------------
(* Submit: the test outside the mutex, then the critical section. *)

\* A client, or the body of the task a worker is running.
MaySubmit(p) == pc[p] = "ready" /\ (p \in Workers => cur[p] # NoTask)

\* m_bClosed is only ever set and the pool stops after it was set, so reading
\* the two flags in one step is the same as reading them one after the other.
SubmitRefused(p, t) ==
    /\ MaySubmit(p) /\ phase[t] = "new"
    /\ bClosed \/ ~bPoolRunning
    /\ phase' = [phase EXCEPT ![t] = "refused"]
    /\ UNCHANGED <<gateVars, poolVars, pc, arg, vecDispatch, cur, inl, dpc, admitted>>

SubmitChecked(p, t) ==
    /\ MaySubmit(p) /\ phase[t] = "new"
    /\ ~bClosed /\ bPoolRunning
    /\ phase' = [phase EXCEPT ![t] = "submitting"]
    /\ pc' = [pc EXCEPT ![p] = "push"]
    /\ arg' = [arg EXCEPT ![p] = t]
    /\ UNCHANGED <<gateVars, poolVars, vecDispatch, cur, inl, dpc, admitted>>

SubmitPush(p) ==
    /\ pc[p] = "push"
    /\ PumpLocked(p, Append(queue, arg[p]), nActiveReaders, bWriterActive,
                  [phase EXCEPT ![arg[p]] = "queued"])
    /\ arg' = [arg EXCEPT ![p] = NoTask]
    /\ UNCHANGED <<bClosed, nDrainWaiters, poolVars, cur, inl, dpc>>

(* DispatchToPool: one hand-over per step; Submit or OnTaskExit returns when *)
(* the buffer is empty.                                                      *)
AfterHandOver(p) ==
    /\ vecDispatch' = [vecDispatch EXCEPT ![p] = Tail(@)]
    /\ pc' = [pc EXCEPT ![p] = IF Len(vecDispatch[p]) = 1 THEN "ready" ELSE "dispatch"]

DispatchAccepted(p) ==
    /\ pc[p] = "dispatch"
    /\ bPoolRunning /\ ~bPoolStopping
    /\ poolQueue' = Append(poolQueue, Head(vecDispatch[p]))
    /\ phase' = [phase EXCEPT ![Head(vecDispatch[p])] = "pooled"]
    /\ AfterHandOver(p)
    /\ UNCHANGED <<gateVars, bPoolRunning, bPoolStopping, arg, cur, inl, dpc, admitted>>

\* CThreadPool::Submit returns false; the slot goes back under the mutex below.
DispatchRefused(p) ==
    /\ pc[p] = "dispatch"
    /\ ~bPoolRunning \/ bPoolStopping
    /\ pc' = [pc EXCEPT ![p] = "return"]
    /\ UNCHANGED <<gateVars, poolVars, arg, vecDispatch, cur, inl, dpc, phase, admitted>>

\* Mutant: the slot of a task the pool refused is not returned.
DispatchDropKeepsSlot(p) ==
    /\ pc[p] = "return"
    /\ phase' = [phase EXCEPT ![Head(vecDispatch[p])] = "dropped"]
    /\ NotifyDrainWaitersLocked
    /\ AfterHandOver(p)
    /\ UNCHANGED <<gateVars, poolVars, arg, cur, inl, admitted>>

\* Mutant: the slot goes back, nobody who waits is told.
DispatchDropSilent(p) ==
    /\ pc[p] = "return"
    /\ nActiveReaders' = ReadersAfterReturn(Head(vecDispatch[p]))
    /\ bWriterActive' = WriterAfterReturn(Head(vecDispatch[p]))
    /\ phase' = [phase EXCEPT ![Head(vecDispatch[p])] = "dropped"]
    /\ dpc' = dpc
    /\ AfterHandOver(p)
    /\ UNCHANGED <<bClosed, queue, nDrainWaiters, poolVars, arg, cur, inl, admitted>>

\* The slot goes back and the waiters are told, but the queue is not pumped.
DispatchDrop(p) ==
    /\ pc[p] = "return"
    /\ nActiveReaders' = ReadersAfterReturn(Head(vecDispatch[p]))
    /\ bWriterActive' = WriterAfterReturn(Head(vecDispatch[p]))
    /\ phase' = [phase EXCEPT ![Head(vecDispatch[p])] = "dropped"]
    /\ NotifyDrainWaitersLocked
    /\ AfterHandOver(p)
    /\ UNCHANGED <<bClosed, queue, nDrainWaiters, poolVars, arg, cur, inl, admitted>>

-------------------------------------------------------------------------------
(* Running tasks. *)

WorkerTake(w) ==
    /\ pc[w] = "ready" /\ cur[w] = NoTask /\ poolQueue # <<>>
    /\ cur' = [cur EXCEPT ![w] = Head(poolQueue)]
    /\ poolQueue' = Tail(poolQueue)
    /\ phase' = [phase EXCEPT ![Head(poolQueue)] = "running"]
    /\ UNCHANGED <<gateVars, bPoolRunning, bPoolStopping, pc, arg, vecDispatch, inl, dpc, admitted>>

\* Mutant: any running task, whatever its kind, lets a layer run in place.
RunInlineAnyKind(w, t) ==
    /\ pc[w] = "ready" /\ cur[w] # NoTask /\ inl[w] = NoTask
    /\ phase[t] = "new"
    /\ queue = <<>>
    /\ inl' = [inl EXCEPT ![w] = t]
    /\ phase' = [phase EXCEPT ![t] = "inline"]
    /\ UNCHANGED <<gateVars, poolVars, pc, arg, vecDispatch, cur, dpc, admitted>>

\* CanRunInline is true for a layer of t's kind: the caller runs it in place,
\* in the frame and the slot of the task it is already running.
RunInline(w, t) ==
    /\ pc[w] = "ready" /\ cur[w] # NoTask /\ inl[w] = NoTask
    /\ phase[t] = "new"
    /\ cur[w] \in ReadTasks <=> t \in ReadTasks
    /\ queue = <<>>
    /\ inl' = [inl EXCEPT ![w] = t]
    /\ phase' = [phase EXCEPT ![t] = "inline"]
    /\ UNCHANGED <<gateVars, poolVars, pc, arg, vecDispatch, cur, dpc, admitted>>

InlineEnd(w) ==
    /\ pc[w] = "ready" /\ inl[w] # NoTask
    /\ inl' = [inl EXCEPT ![w] = NoTask]
    /\ phase' = [phase EXCEPT ![inl[w]] = "done"]
    /\ UNCHANGED <<gateVars, poolVars, pc, arg, vecDispatch, cur, dpc, admitted>>

\* The body returned or threw; both go on to OnTaskExit.
TaskBodyEnd(w) ==
    /\ pc[w] = "ready" /\ cur[w] # NoTask /\ inl[w] = NoTask
    /\ pc' = [pc EXCEPT ![w] = "exit"]
    /\ phase' = [phase EXCEPT ![cur[w]] = "finished"]
    /\ UNCHANGED <<gateVars, poolVars, arg, vecDispatch, cur, inl, dpc, admitted>>

\* Mutant: the slot is returned but the queue is not pumped.
OnTaskExitNoPump(w) ==
    /\ pc[w] = "exit"
    /\ nActiveReaders' = ReadersAfterReturn(cur[w])
    /\ bWriterActive' = WriterAfterReturn(cur[w])
    /\ pc' = [pc EXCEPT ![w] = "ready"]
    /\ phase' = [phase EXCEPT ![cur[w]] = "done"]
    /\ cur' = [cur EXCEPT ![w] = NoTask]
    /\ NotifyDrainWaitersLocked
    /\ UNCHANGED <<bClosed, queue, nDrainWaiters, poolVars, arg, vecDispatch, inl, admitted>>

OnTaskExit(w) ==
    /\ pc[w] = "exit"
    /\ PumpLocked(w, queue, ReadersAfterReturn(cur[w]), WriterAfterReturn(cur[w]),
                  [phase EXCEPT ![cur[w]] = "done"])
    /\ cur' = [cur EXCEPT ![w] = NoTask]
    /\ NotifyDrainWaitersLocked
    /\ UNCHANGED <<bClosed, nDrainWaiters, poolVars, arg, inl>>

-------------------------------------------------------------------------------
(* Close, Drain and the stop of the pool. *)

Close ==
    /\ ~bClosed
    /\ bClosed' = TRUE
    /\ UNCHANGED <<queue, nActiveReaders, bWriterActive, nDrainWaiters, poolVars,
                   pc, arg, vecDispatch, cur, inl, dpc, phase, admitted>>

DrainUnchanged ==
    UNCHANGED <<bClosed, queue, nActiveReaders, bWriterActive, poolVars, pc, arg,
                vecDispatch, cur, inl, phase, admitted>>

\* Drain() takes the mutex, registers and tests the predicate.  The owner only
\* calls it after Close().
DrainEnter(d) ==
    /\ dpc[d] = "none"
    /\ d = Owner => bClosed
    /\ IF IsIdleLocked
       THEN dpc' = [dpc EXCEPT ![d] = "returned"] /\ nDrainWaiters' = nDrainWaiters
       ELSE dpc' = [dpc EXCEPT ![d] = "waiting"] /\ nDrainWaiters' = nDrainWaiters + 1
    /\ DrainUnchanged

\* A condition variable may wake up by itself; nothing relies on it.
DrainSpuriousWake(d) ==
    /\ dpc[d] = "waiting"
    /\ dpc' = [dpc EXCEPT ![d] = "woken"]
    /\ nDrainWaiters' = nDrainWaiters
    /\ DrainUnchanged

\* Mutant: the woken caller returns without testing the predicate again.
DrainRecheckDropped(d) ==
    /\ dpc[d] = "woken"
    /\ dpc' = [dpc EXCEPT ![d] = "returned"] /\ nDrainWaiters' = nDrainWaiters - 1
    /\ DrainUnchanged

DrainRecheck(d) ==
    /\ dpc[d] = "woken"
    /\ IF IsIdleLocked
       THEN dpc' = [dpc EXCEPT ![d] = "returned"] /\ nDrainWaiters' = nDrainWaiters - 1
       ELSE dpc' = [dpc EXCEPT ![d] = "waiting"] /\ nDrainWaiters' = nDrainWaiters
    /\ DrainUnchanged

\* CThreadPool::Stop by the owner: first it refuses new tasks ...
PoolStopBegin ==
    /\ dpc[Owner] = "returned" /\ bPoolRunning /\ ~bPoolStopping
    /\ bPoolStopping' = TRUE
    /\ UNCHANGED <<gateVars, bPoolRunning, poolQueue, pc, arg, vecDispatch, cur, inl,
                   dpc, phase, admitted>>

\* ... then joins its workers, who leave when the pool's queue is empty.
PoolStopEnd ==
    /\ bPoolStopping /\ poolQueue = <<>>
    /\ \A w \in Workers : cur[w] = NoTask /\ pc[w] = "ready"
    /\ bPoolRunning' = FALSE /\ bPoolStopping' = FALSE
    /\ UNCHANGED <<gateVars, poolQueue, pc, arg, vecDispatch, cur, inl, dpc, phase, admitted>>

-------------------------------------------------------------------------------
Init ==
    /\ bClosed = FALSE /\ queue = <<>>
    /\ nActiveReaders = 0 /\ bWriterActive = FALSE /\ nDrainWaiters = 0
    /\ bPoolRunning = TRUE /\ bPoolStopping = FALSE /\ poolQueue = <<>>
    /\ pc = [p \in Threads |-> "ready"]
    /\ arg = [p \in Threads |-> NoTask]
    /\ vecDispatch = [p \in Threads |-> <<>>]
    /\ cur = [w \in Workers |-> NoTask]
    /\ inl = [w \in Workers |-> NoTask]
    /\ dpc = [d \in Drainers |-> "none"]
    /\ phase = [t \in Tasks |-> "new"]
    /\ admitted = <<>>

\* Nothing is left to do: the pool is stopped and every thread is idle.
Finished ==
    /\ ~bPoolRunning
    /\ \A p \in Threads : pc[p] = "ready"
    /\ \A d \in Drainers : dpc[d] # "woken"
    /\ UNCHANGED vars

\* The steps of a thread inside Submit or OnTaskExit.
GateStep(p) == SubmitPush(p) \/ DispatchAccepted(p) \/ DispatchRefused(p) \/ DispatchDrop(p)
WorkerStep(w) == WorkerTake(w) \/ InlineEnd(w) \/ TaskBodyEnd(w) \/ OnTaskExit(w)
OwnerStep == Close \/ DrainEnter(Owner) \/ PoolStopBegin \/ PoolStopEnd

Next ==
    \/ \E p \in Threads, t \in Tasks : SubmitRefused(p, t) \/ SubmitChecked(p, t)
    \/ \E p \in Threads : GateStep(p)
    \/ \E w \in Workers, t \in Tasks : RunInline(w, t)
    \/ \E w \in Workers : WorkerStep(w)
    \/ \E d \in Drainers : DrainEnter(d) \/ DrainSpuriousWake(d) \/ DrainRecheck(d)
    \/ OwnerStep
    \/ Finished

Spec == Init /\ [][Next]_vars

\* Threads inside the gate keep running, task bodies end, a notified waiter
\* gets the mutex; nobody is obliged to submit, to drain or to close.
Fairness ==
    /\ \A p \in Threads : WF_vars(GateStep(p))
    /\ \A w \in Workers : WF_vars(WorkerStep(w))
    /\ \A d \in Drainers : WF_vars(DrainRecheck(d))
    /\ WF_vars(DrainEnter(Owner)) /\ WF_vars(PoolStopBegin) /\ WF_vars(PoolStopEnd)

FairSpec == Spec /\ Fairness
-------------------------------------------------------------------------------
(* Properties. *)

\* Every variable keeps its type.
TypeOK ==
    /\ bClosed \in BOOLEAN /\ bWriterActive \in BOOLEAN
    /\ bPoolRunning \in BOOLEAN /\ bPoolStopping \in BOOLEAN
    /\ queue \in Seq(Tasks) /\ poolQueue \in Seq(Tasks) /\ admitted \in Seq(Tasks)
    /\ nActiveReaders \in Nat /\ nDrainWaiters \in Nat
    /\ pc \in [Threads -> {"ready", "push", "dispatch", "return", "exit"}]
    /\ arg \in [Threads -> Tasks \cup {NoTask}]
    /\ vecDispatch \in [Threads -> Seq(Tasks)]
    /\ cur \in [Workers -> Tasks \cup {NoTask}]
    /\ inl \in [Workers -> Tasks \cup {NoTask}]
    /\ dpc \in [Drainers -> {"none", "waiting", "woken", "returned"}]
    /\ phase \in [Tasks -> Phases]

\* The bodies a worker is executing: its gate task and a layer run in place.
Bodies(w) == {t \in {cur[w], inl[w]} : t \in Tasks /\ phase[t] \in {"running", "inline"}}

\* A write has the module to itself: while a worker executes the body of a
\* write (posted through the gate or run in place), no other worker executes
\* any body of this gate.
Exclusion ==
    \A v, w \in Workers : v # w => \A s \in Bodies(v), t \in Bodies(w) :
        s \in ReadTasks /\ t \in ReadTasks

\* m_nActiveReaders and m_bWriterActive count exactly the tasks that were let in
\* and have not returned their slot, wherever those are: in some thread's
\* dispatch buffer, in the pool's queue, running, finishing, or being dropped.
SlotAccounting ==
    /\ nActiveReaders = Cardinality(SlotHolders \cap ReadTasks)
    /\ bWriterActive <=> SlotHolders \cap WriteTasks # {}
    /\ bWriterActive => SlotHolders \cap ReadTasks = {}
    /\ \A s, t \in SlotHolders \cap WriteTasks : s = t

\* The strengthening that makes SlotAccounting inductive: each container holds
\* each task once, and holds exactly the tasks whose history says so.
Injective(s) == \A i, j \in 1..Len(s) : s[i] = s[j] => i = j

ArgInv ==
    \A p \in Threads : pc[p] = "push" =>
        /\ arg[p] \in Tasks /\ phase[arg[p]] = "submitting"
        /\ \A q \in Threads : pc[q] = "push" /\ arg[q] = arg[p] => q = p

QueueInv ==
    /\ Injective(queue)
    /\ \A t \in Tasks : phase[t] = "queued" <=> \E i \in 1..Len(queue) : queue[i] = t

DispatchInv ==
    \A p \in Threads :
        /\ Injective(vecDispatch[p])
        /\ pc[p] \in {"dispatch", "return"} => Len(vecDispatch[p]) > 0
        /\ \A i \in 1..Len(vecDispatch[p]) :
             /\ phase[vecDispatch[p][i]] = "granted"
             /\ \A q \in Threads : \A j \in 1..Len(vecDispatch[q]) :
                  vecDispatch[p][i] = vecDispatch[q][j] => p = q

PoolInv ==
    /\ Injective(poolQueue)
    /\ \A i \in 1..Len(poolQueue) : phase[poolQueue[i]] = "pooled"

RunInv ==
    /\ \A p \in Threads : pc[p] = "exit" => p \in Workers /\ cur[p] # NoTask
    /\ \A w \in Workers : cur[w] # NoTask =>
         /\ phase[cur[w]] = IF pc[w] = "exit" THEN "finished" ELSE "running"
         /\ \A v \in Workers : cur[v] = cur[w] => v = w

InlineInv ==
    \A w \in Workers : inl[w] # NoTask =>
        /\ cur[w] # NoTask /\ pc[w] # "exit" /\ phase[inl[w]] = "inline"
        /\ cur[w] \in ReadTasks <=> inl[w] \in ReadTasks
        /\ \A v \in Workers : inl[v] = inl[w] => v = w

\* m_nDrainWaiters counts the callers inside Drain().
DrainInv == nDrainWaiters = Cardinality({d \in Drainers : dpc[d] \in {"waiting", "woken"}})

\* The inductive invariant of the gate.
GateInv ==
    /\ TypeOK /\ DrainInv /\ ArgInv /\ QueueInv /\ DispatchInv /\ PoolInv /\ RunInv /\ InlineInv
    /\ SlotAccounting

\* Drain() returns only at an instant at which every task that was ever
\* accepted has run to its end or was dropped.
DrainIsExact ==
    [][\A d \in Drainers : dpc[d] # "returned" /\ dpc'[d] = "returned" =>
         \A t \in Tasks : phase[t] \notin SlotPhases \cup {"queued"}]_vars

\* The gate implements the abstract fair lock: acceptance order, entry in that
\* order, compatibility, and no admissible task left waiting by a settled step.
Lock == INSTANCE FairRWLock WITH line <- admitted \o queue, entered <- Len(admitted),
                                 active <- SlotHolders
ImplementsFairLock == Lock!LockSpec

\* A task that passed the test of Submit runs to its end, unless the pool has been
\* stopped: no step that frees a slot or lengthens the queue forgets to let it in.
AcceptedRuns ==
    \A t \in Tasks : phase[t] \in {"submitting", "queued"}
        ~> (phase[t] = "done" \/ bPoolStopping \/ ~bPoolRunning)

\* Tasks are queued, no slot is taken and a drop has happened: a drop does not pump
\* the queue, and without another Submit nobody will.
Stranded ==
    /\ queue # <<>> /\ SlotHolders = {}
    /\ \E t \in Tasks : phase[t] = "dropped"

\* Once the gate is closed the owner gets through Drain() and the stop of the pool,
\* and every other Drain() that has begun returns too, whether the last slot comes
\* back from a worker or from a task the pool refused: no wake-up is lost.  The one
\* Drain() that waits for ever is one behind tasks a drop has left in the queue.
StopTerminates ==
    /\ bClosed ~> (~bPoolRunning /\ dpc[Owner] = "returned")
    /\ \A d \in Drainers :
         (bClosed /\ dpc[d] \in {"waiting", "woken"}) ~> (dpc[d] = "returned" \/ []Stranded)

\* What ReadWriteGate.h says of an accepted task: it is dropped only when the
\* caller violates Close, Drain, stop the pool.  The owner never does here.
NoDropWhenStopOrderKept == \A t \in Tasks : phase[t] # "dropped"
===============================================================================

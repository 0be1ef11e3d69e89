------------------------------- MODULE ThreadPool -------------------------------
(***************************************************************************)
(* Common/Thread/ThreadPool.{h,cpp}: a fixed set of workers, one queue, a  *)
(* condition variable with counted notify_one calls, and a stop that lets  *)
(* the workers empty the queue.                                            *)
(*                                                                         *)
(* A critical section is one action, except Submit's test of the two flags:*)
(* Stop writes m_bRunning and m_bStopping back without the mutex, so they  *)
(* are read one after the other with the mutex held.                       *)
(* m_nPending always equals the length of the queue (both change in the    *)
(* same critical sections) and only shortens the spin: it is Len(queue).   *)
(***************************************************************************)
EXTENDS Naturals, Sequences, FiniteSets

CONSTANTS Tasks,      \* the tasks ever submitted
          Clients,    \* threads outside the pool that submit
          Workers,    \* the worker threads, m_nThreadCount of them
          MaxStarts,  \* bound on the number of Start() calls
          None

Threads == Clients \cup Workers

ASSUME PoolAssumption ==
    /\ IsFiniteSet(Workers) /\ Workers # {}
    /\ Clients \cap Workers = {}
    /\ None \notin Tasks \cup Threads
    /\ MaxStarts \in Nat

VARIABLES
    queue,         \* m_dequeTasks
    nIdleWorkers,  \* m_nIdleWorkers
    bRunning,      \* m_bRunning
    bStopping,     \* m_bStopping
    mutex,         \* the thread between the two flag reads of Submit, or None
    work,          \* per worker: none, top, spin, asleep, woken, run, exited
    cur,           \* the task a worker runs
    sub,           \* per thread: ready, locked, notify (its place in Submit)
    arg,           \* the task a thread is submitting
    nNotify,       \* notify_one calls a thread still has to make
    ctl,           \* the controlling thread: stopped, running, wake, join, clear
    nStarts,       \* Start() calls so far
    phase          \* history: what has become of each task

vars == <<queue, nIdleWorkers, bRunning, bStopping, mutex, work, cur, sub, arg, nNotify,
          ctl, nStarts, phase>>

Asleep == {w \in Workers : work[w] = "asleep"}
\* Workers that will look at the queue before they can sleep again.
Alert == {w \in Workers : work[w] \in {"top", "spin", "woken"}}
IdleOnes == {w \in Workers : work[w] \in {"spin", "asleep", "woken"}}

MinOf(a, b) == IF a < b THEN a ELSE b

-------------------------------------------------------------------------------
(* Start and Stop, called by one controlling thread. *)

Start ==
    /\ ctl = "stopped" /\ mutex = None /\ nStarts < MaxStarts
    /\ ~bRunning
    /\ bRunning' = TRUE /\ bStopping' = FALSE /\ nIdleWorkers' = 0
    /\ work' = [w \in Workers |-> "top"]
    /\ ctl' = "running" /\ nStarts' = nStarts + 1
    /\ UNCHANGED <<queue, mutex, cur, sub, arg, nNotify, phase>>

StopBegin ==
    /\ ctl = "running" /\ mutex = None
    /\ bRunning
    /\ bStopping' = TRUE
    /\ ctl' = "wake"
    /\ UNCHANGED <<queue, nIdleWorkers, bRunning, mutex, work, cur, sub, arg, nNotify, nStarts, phase>>

\* Mutant: one worker is woken instead of all of them.
StopWakeOne ==
    /\ ctl = "wake"
    /\ \/ Asleep = {} /\ work' = work
       \/ \E w \in Asleep : work' = [work EXCEPT ![w] = "woken"]
    /\ ctl' = "join"
    /\ UNCHANGED <<queue, nIdleWorkers, bRunning, bStopping, mutex, cur, sub, arg, nNotify,
                   nStarts, phase>>

\* notify_all.
StopWakeAll ==
    /\ ctl = "wake"
    /\ work' = [w \in Workers |-> IF work[w] = "asleep" THEN "woken" ELSE work[w]]
    /\ ctl' = "join"
    /\ UNCHANGED <<queue, nIdleWorkers, bRunning, bStopping, mutex, cur, sub, arg, nNotify,
                   nStarts, phase>>

\* Every worker is joined; then m_bRunning is cleared, without the mutex ...
StopJoined ==
    /\ ctl = "join"
    /\ \A w \in Workers : work[w] = "exited"
    /\ bRunning' = FALSE
    /\ ctl' = "clear"
    /\ UNCHANGED <<queue, nIdleWorkers, bStopping, mutex, work, cur, sub, arg, nNotify, nStarts, phase>>

\* ... and m_bStopping, without the mutex either; Stop() returns.
StopEnd ==
    /\ ctl = "clear"
    /\ bStopping' = FALSE
    /\ work' = [w \in Workers |-> "none"]
    /\ ctl' = "stopped"
    /\ UNCHANGED <<queue, nIdleWorkers, bRunning, mutex, cur, sub, arg, nNotify, nStarts, phase>>

-------------------------------------------------------------------------------
(* Submit, by a client or by a task that a worker runs. *)

\* The mutex is taken and m_bRunning is read.
SubmitLock(p, t) ==
    /\ sub[p] = "ready" /\ mutex = None /\ phase[t] = "new"
    /\ p \in Workers => work[p] = "run"
    /\ IF bRunning
       THEN /\ mutex' = p
            /\ sub' = [sub EXCEPT ![p] = "locked"]
            /\ arg' = [arg EXCEPT ![p] = t]
            /\ phase' = [phase EXCEPT ![t] = "submitting"]
       ELSE /\ phase' = [phase EXCEPT ![t] = "refused"]
            /\ UNCHANGED <<mutex, sub, arg>>
    /\ UNCHANGED <<queue, nIdleWorkers, bRunning, bStopping, work, cur, nNotify, ctl, nStarts>>

\* How many notify_one calls a push onto q makes: one when q was empty, else
\* one per backlogged task as far as there are idle workers.
NotifyCount(q) == IF q = <<>> THEN 1 ELSE MinOf(Len(q), nIdleWorkers)

SubmitRejected(p) ==
    /\ sub[p] = "locked" /\ bStopping
    /\ mutex' = None
    /\ sub' = [sub EXCEPT ![p] = "ready"]
    /\ phase' = [phase EXCEPT ![arg[p]] = "refused"]
    /\ arg' = [arg EXCEPT ![p] = None]
    /\ UNCHANGED <<queue, nIdleWorkers, bRunning, bStopping, work, cur, nNotify, ctl, nStarts>>

\* m_bStopping is read as false: push, and count the wake-ups; then unlock.
SubmitPush(p) ==
    /\ sub[p] = "locked" /\ ~bStopping
    /\ queue' = Append(queue, arg[p])
    /\ nNotify' = [nNotify EXCEPT ![p] = NotifyCount(queue)]
    /\ sub' = [sub EXCEPT ![p] = IF NotifyCount(queue) = 0 THEN "ready" ELSE "notify"]
    /\ mutex' = None
    /\ phase' = [phase EXCEPT ![arg[p]] = "queued"]
    /\ arg' = [arg EXCEPT ![p] = None]
    /\ UNCHANGED <<nIdleWorkers, bRunning, bStopping, work, cur, ctl, nStarts>>

\* One notify_one, outside the mutex: it wakes some sleeper or nobody.
SubmitNotify(p) ==
    /\ sub[p] = "notify"
    /\ IF Asleep = {} THEN work' = work
       ELSE \E w \in Asleep : work' = [work EXCEPT ![w] = "woken"]
    /\ nNotify' = [nNotify EXCEPT ![p] = @ - 1]
    /\ sub' = [sub EXCEPT ![p] = IF nNotify[p] = 1 THEN "ready" ELSE "notify"]
    /\ UNCHANGED <<queue, nIdleWorkers, bRunning, bStopping, mutex, cur, arg, ctl, nStarts, phase>>

-------------------------------------------------------------------------------
(* WorkerLoop. *)

workUnchanged == UNCHANGED <<bRunning, bStopping, mutex, sub, arg, nNotify, ctl, nStarts>>

\* The loop's tail with the mutex held: leave, or take the front of the queue.
\* idle is m_nIdleWorkers after the loop's own decrement.
Leave(w, idle) ==
    /\ work' = [work EXCEPT ![w] = "exited"]
    /\ nIdleWorkers' = idle
    /\ UNCHANGED <<queue, cur, phase>>

Take(w, idle) ==
    /\ cur' = [cur EXCEPT ![w] = Head(queue)]
    /\ queue' = Tail(queue)
    /\ work' = [work EXCEPT ![w] = "run"]
    /\ nIdleWorkers' = idle
    /\ phase' = [phase EXCEPT ![Head(queue)] = "running"]

\* The head of the loop: nothing to do makes the worker idle (it starts to
\* spin without the mutex), otherwise it leaves or takes a task.
WorkerTop(w) ==
    /\ work[w] = "top" /\ mutex = None
    /\ \/ /\ queue = <<>> /\ ~bStopping
          /\ nIdleWorkers' = nIdleWorkers + 1
          /\ work' = [work EXCEPT ![w] = "spin"]
          /\ UNCHANGED <<queue, cur, phase>>
       \/ queue = <<>> /\ bStopping /\ Leave(w, nIdleWorkers)
       \/ queue # <<>> /\ Take(w, nIdleWorkers)
    /\ workUnchanged

\* Mutant: a worker that was idle does not leave the idle count.
WorkerIdleKeepsCount(w) ==
    /\ work[w] \in {"spin", "woken"} /\ mutex = None
    /\ \/ /\ queue = <<>> /\ ~bStopping
          /\ work' = [work EXCEPT ![w] = "asleep"]
          /\ UNCHANGED <<queue, nIdleWorkers, cur, phase>>
       \/ queue = <<>> /\ bStopping /\ Leave(w, nIdleWorkers)
       \/ queue # <<>> /\ Take(w, nIdleWorkers)
    /\ workUnchanged

\* The end of the spin (a task was seen, or the 30 us are over) and a wake-up
\* both come back under the mutex and test the same predicate.
WorkerIdle(w) ==
    /\ work[w] \in {"spin", "woken"} /\ mutex = None
    /\ \/ /\ queue = <<>> /\ ~bStopping
          /\ work' = [work EXCEPT ![w] = "asleep"]
          /\ UNCHANGED <<queue, nIdleWorkers, cur, phase>>
       \/ queue = <<>> /\ bStopping /\ Leave(w, nIdleWorkers - 1)
       \/ queue # <<>> /\ Take(w, nIdleWorkers - 1)
    /\ workUnchanged

\* A condition variable may wake up by itself; nothing relies on it.
WorkerSpuriousWake(w) ==
    /\ work[w] = "asleep"
    /\ work' = [work EXCEPT ![w] = "woken"]
    /\ UNCHANGED <<queue, nIdleWorkers, cur, phase>>
    /\ workUnchanged

WorkerRunEnd(w) ==
    /\ work[w] = "run" /\ sub[w] = "ready"
    /\ work' = [work EXCEPT ![w] = "top"]
    /\ phase' = [phase EXCEPT ![cur[w]] = "done"]
    /\ cur' = [cur EXCEPT ![w] = None]
    /\ UNCHANGED <<queue, nIdleWorkers>>
    /\ workUnchanged

-------------------------------------------------------------------------------
Init ==
    /\ queue = <<>> /\ nIdleWorkers = 0
    /\ bRunning = FALSE /\ bStopping = FALSE /\ mutex = None
    /\ work = [w \in Workers |-> "none"]
    /\ cur = [w \in Workers |-> None]
    /\ sub = [p \in Threads |-> "ready"]
    /\ arg = [p \in Threads |-> None]
    /\ nNotify = [p \in Threads |-> 0]
    /\ ctl = "stopped" /\ nStarts = 0
    /\ phase = [t \in Tasks |-> "new"]

\* The bound on Start() calls is reached and nothing is left to do.
Finished ==
    /\ ctl = "stopped" /\ nStarts = MaxStarts
    /\ \A p \in Threads : sub[p] = "ready"
    /\ UNCHANGED vars

SubmitStep(p) == SubmitRejected(p) \/ SubmitPush(p) \/ SubmitNotify(p)
WorkerStep(w) == WorkerTop(w) \/ WorkerIdle(w) \/ WorkerRunEnd(w)
StopStep == StopWakeAll \/ StopJoined \/ StopEnd

Next ==
    \/ Start \/ StopBegin \/ StopStep
    \/ \E p \in Threads, t \in Tasks : SubmitLock(p, t)
    \/ \E p \in Threads : SubmitStep(p)
    \/ \E w \in Workers : WorkerStep(w) \/ WorkerSpuriousWake(w)
    \/ Finished

Spec == Init /\ [][Next]_vars

\* Workers are scheduled and task bodies end; a thread inside Submit or Stop
\* goes on.  Nobody is obliged to start, stop or submit.
Fairness ==
    /\ \A w \in Workers : WF_vars(WorkerStep(w))
    /\ \A p \in Threads : WF_vars(SubmitStep(p))
    /\ WF_vars(StopStep)

FairSpec == Spec /\ Fairness

-------------------------------------------------------------------------------
(* Properties. *)

\* Every variable keeps its type.
TypeOK ==
    /\ queue \in Seq(Tasks) /\ nIdleWorkers \in Nat
    /\ bRunning \in BOOLEAN /\ bStopping \in BOOLEAN
    /\ mutex \in Threads \cup {None}
    /\ work \in [Workers -> {"none", "top", "spin", "asleep", "woken", "run", "exited"}]
    /\ cur \in [Workers -> Tasks \cup {None}]
    /\ sub \in [Threads -> {"ready", "locked", "notify"}]
    /\ arg \in [Threads -> Tasks \cup {None}]
    /\ nNotify \in [Threads -> Nat]
    /\ ctl \in {"stopped", "running", "wake", "join", "clear"}
    /\ nStarts \in 0..MaxStarts
    /\ phase \in [Tasks -> {"new", "submitting", "refused", "queued", "running", "done"}]

\* m_nIdleWorkers, which Submit uses to size the wake-ups, is the number of
\* workers between going idle and taking a task or leaving, also across a
\* Stop and a new Start.
IdleCountExact == nIdleWorkers = Cardinality(IdleOnes)

\* The notify_one calls that have been counted but not made yet.
PendingNotifies == {o \in Threads \X (1..Cardinality(Workers) + 1) : o[2] <= nNotify[o[1]]}

\* The wake-up policy never leaves parallelism unused: while some worker
\* sleeps, every queued task has a worker that is about to look at the queue or
\* a notification on its way.
NoIdleBacklog ==
    Asleep # {} => Len(queue) <= Cardinality(Alert) + Cardinality(PendingNotifies)

\* When Stop() has joined its workers no accepted task is queued or running.
JoinedMeansDrained ==
    (ctl = "join" /\ \A w \in Workers : work[w] = "exited")
        => queue = <<>> /\ \A t \in Tasks : phase[t] \notin {"queued", "running"}

\* The pool's safety.
PoolInv == TypeOK /\ IdleCountExact /\ NoIdleBacklog /\ JoinedMeansDrained

\* An accepted task is executed, unless Stop() has already joined the workers.
AcceptedRuns ==
    \A t \in Tasks : phase[t] = "queued" ~> (phase[t] = "done" \/ ctl \in {"clear", "stopped"})

\* Stop() returns: no worker sleeps through the stop.
StopReturns == ctl = "wake" ~> ctl = "stopped"

\* Both.
PoolProgress == AcceptedRuns /\ StopReturns

\* ThreadPool.h on Stop(): it waits for every submitted task to be executed.
StopLeavesNothingQueued == ctl = "stopped" => queue = <<>>
===============================================================================

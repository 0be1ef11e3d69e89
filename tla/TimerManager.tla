---------------------------- MODULE TimerManager ----------------------------
(***************************************************************************)
(* CTimerManager (Common/Timer/TimerManager.cpp): one-shot, periodic and   *)
(* named timers on one io thread.                                          *)
(*                                                                         *)
(* Users are threads outside; the io thread runs completion handlers one   *)
(* at a time, and a callback may call the manager again (except Stop,      *)
(* which would join its own thread).  A critical section of m_mutex is one *)
(* step.  asio is external: an armed wait expires while the io thread is   *)
(* between handlers and its handler is queued; cancel() queues the handler *)
(* with an error only if it was not queued yet; stop() makes run() return  *)
(* after the handler it is in and leaves the queue for the next run().     *)
(***************************************************************************)
EXTENDS Naturals, Sequences, FiniteSets

CONSTANTS
    TimerUsers,       \* threads that use the manager
    TimerNames,       \* timer names
    IoThread,    \* the timer thread
    MaxId,       \* bound on the timers created
    MaxTimerStarts,   \* bound on TimerStart()
    MaxFires     \* bound on the callbacks of a periodic timer

ASSUME TimerAssumption ==
    /\ IoThread \notin TimerUsers
    /\ MaxId \in Nat /\ MaxTimerStarts \in Nat /\ MaxFires \in Nat

Ids == 1 .. MaxId
Callers == TimerUsers \cup {IoThread}

VARIABLES
    running,    \* m_bRunning
    nextId,     \* m_nNextId
    timers,     \* keys of m_mapTimers (ids are never reused, so each has its own timer)
    named,      \* m_mapNamedTimers: [TimerNames -> id], 0 when absent
    periodic,   \* ids created with an interval
    armed,      \* ids whose async_wait is pending in asio
    handlers,      \* completion handlers asio has queued: [id, ok]
    ioStopped,  \* io_context::stopped()
    io,         \* the io thread: none, run, callback, after
    current,        \* the id whose handler the io thread runs, or 0
    pc,         \* per caller: 0, or what is left of a two-step call
    control,        \* the thread that starts and stops: idle, stopping, joining
    starts,
    fired,      \* history: callbacks begun, per id
    cancelled,  \* history: ids for which Cancel() returned true, or Stop() cancelled
    late        \* history: callbacks begun after that

timerVars == <<running, nextId, timers, named, periodic, armed, handlers, ioStopped, io, current,
          pc, control, starts, fired, cancelled, late>>

Ready == [do |-> "none", name |-> "", id |-> 0]

\* A caller is free: a user between calls, or the io thread inside a callback.
FreeCaller(p) == pc[p] = Ready /\ (p = IoThread => io = "callback")

(***************************************************************************)
(* asio, as the manager uses it.                                           *)
(***************************************************************************)
\* (After MaxFires callbacks a timer's next period never ends.)
Expire(id) ==
    /\ io = "run" /\ ~ioStopped
    /\ id \in armed /\ fired[id] < MaxFires
    /\ armed' = armed \ {id}
    /\ handlers' = Append(handlers, [id |-> id, ok |-> TRUE])
    /\ UNCHANGED <<running, nextId, timers, named, periodic, ioStopped, io, current, pc, control,
                   starts, fired, cancelled, late>>

\* cancel() of the timers in S, in the order of their ids.
CancelWaits(S) ==
    LET hit == S \cap armed IN
      /\ armed' = armed \ S
      /\ \E order \in [1 .. Cardinality(hit) -> hit] :
           /\ \A j, k \in DOMAIN order : j < k => order[j] < order[k]
           /\ handlers' = handlers \o [k \in DOMAIN order |-> [id |-> order[k], ok |-> FALSE]]

(***************************************************************************)
(* Adding and cancelling.                                                  *)
(***************************************************************************)

\* Mutant: the timer is entered but Schedule() is not called.
AddTimerInternalUnscheduled(p, interval, name) ==
    /\ FreeCaller(p)
    /\ running
    /\ nextId <= MaxId
    /\ nextId' = nextId + 1
    /\ timers' = timers \cup {nextId}
    /\ periodic' = IF interval THEN periodic \cup {nextId} ELSE periodic
    /\ armed' = armed
    /\ pc' = [pc EXCEPT ![p] = IF name = "" THEN Ready
                               ELSE [do |-> "name", name |-> name, id |-> nextId]]
    /\ UNCHANGED <<running, named, handlers, ioStopped, io, current, control, starts, fired, cancelled, late>>

\* AddTimerInternal, with the mutex held; interval tells a periodic timer.
AddTimerInternal(p, interval, name) ==
    /\ FreeCaller(p)
    /\ running
    /\ nextId <= MaxId
    /\ nextId' = nextId + 1
    /\ timers' = timers \cup {nextId}
    /\ periodic' = IF interval THEN periodic \cup {nextId} ELSE periodic
    /\ armed' = armed \cup {nextId}
    /\ pc' = [pc EXCEPT ![p] = IF name = "" THEN Ready
                               ELSE [do |-> "name", name |-> name, id |-> nextId]]
    /\ UNCHANGED <<running, named, handlers, ioStopped, io, current, control, starts, fired, cancelled, late>>

AddTimer(p) == AddTimerInternal(p, FALSE, "")
AddPeriodicTimer(p) == AddTimerInternal(p, TRUE, "")

\* AddNamedTimer: the name is entered in a second critical section.
AddNamedTimer(p, name) == AddTimerInternal(p, TRUE, name)

AddNamedTimerName(p) ==
    /\ pc[p].do = "name"
    /\ named' = [named EXCEPT ![pc[p].name] = pc[p].id]
    /\ pc' = [pc EXCEPT ![p] = Ready]
    /\ UNCHANGED <<running, nextId, timers, periodic, armed, handlers, ioStopped, io, current, control,
                   starts, fired, cancelled, late>>

\* The critical section of Cancel().
CancelOf(id) ==
    IF id \in timers
    THEN /\ CancelWaits({id})
         /\ timers' = timers \ {id}
         /\ cancelled' = cancelled \cup {id}
    ELSE UNCHANGED <<timers, armed, handlers, cancelled>>

Cancel(p, id) ==
    /\ FreeCaller(p)
    /\ id < nextId
    /\ CancelOf(id)
    /\ UNCHANGED <<running, nextId, named, periodic, ioStopped, io, current, pc, control, starts, fired, late>>

CancelNamedTimer(p, name) ==
    /\ FreeCaller(p)
    /\ named[name] # 0
    /\ named' = [named EXCEPT ![name] = 0]
    /\ pc' = [pc EXCEPT ![p] = [do |-> "cancel", name |-> name, id |-> named[name]]]
    /\ UNCHANGED <<running, nextId, timers, periodic, armed, handlers, ioStopped, io, current, control,
                   starts, fired, cancelled, late>>

CancelNamedTimerId(p) ==
    /\ pc[p].do = "cancel"
    /\ CancelOf(pc[p].id)
    /\ pc' = [pc EXCEPT ![p] = Ready]
    /\ UNCHANGED <<running, nextId, named, periodic, ioStopped, io, current, control, starts, fired, late>>

(***************************************************************************)
(* The completion handler of Schedule(), on the io thread.                 *)
(***************************************************************************)
\* if (ec) { erase; return; }  else the callback begins.
HandlerBegin ==
    /\ io = "run" /\ ~ioStopped /\ handlers # <<>>
    /\ LET h == Head(handlers) IN
         \/ /\ ~h.ok
            /\ timers' = timers \ {h.id}
            /\ UNCHANGED <<io, current, fired, late>>
         \/ /\ h.ok
            /\ io' = "callback" /\ current' = h.id
            /\ fired' = [fired EXCEPT ![h.id] = @ + 1]
            /\ late' = IF h.id \in cancelled THEN [late EXCEPT ![h.id] = @ + 1] ELSE late
            /\ UNCHANGED timers
    /\ handlers' = Tail(handlers)
    /\ UNCHANGED <<running, nextId, named, periodic, armed, ioStopped, pc, control, starts, cancelled>>

CallbackEnd ==
    /\ io = "callback" /\ pc[IoThread] = Ready
    /\ io' = "after"
    /\ UNCHANGED <<running, nextId, timers, named, periodic, armed, handlers, ioStopped, current, pc,
                   control, starts, fired, cancelled, late>>

\* Mutant: the map is not asked whether the timer is still managed.
RescheduleUnasked ==
    /\ io = "after" /\ current \in periodic
    /\ armed' = armed \cup {current}
    /\ io' = "run" /\ current' = 0
    /\ UNCHANGED <<running, nextId, timers, named, periodic, handlers, ioStopped, pc, control, starts,
                   fired, cancelled, late>>

\* A periodic timer that is still managed waits again.
Reschedule ==
    /\ io = "after" /\ current \in periodic
    /\ armed' = IF current \in timers THEN armed \cup {current} ELSE armed
    /\ io' = "run" /\ current' = 0
    /\ UNCHANGED <<running, nextId, timers, named, periodic, handlers, ioStopped, pc, control, starts,
                   fired, cancelled, late>>

OneShotDone ==
    /\ io = "after" /\ current \notin periodic
    /\ timers' = timers \ {current}
    /\ io' = "run" /\ current' = 0
    /\ UNCHANGED <<running, nextId, named, periodic, armed, handlers, ioStopped, pc, control, starts,
                   fired, cancelled, late>>

\* run() returns: stopped, or out of work once the guard is gone.
IoExit ==
    /\ io = "run"
    /\ ioStopped \/ (~running /\ armed = {} /\ handlers = <<>>)
    /\ io' = "none"
    /\ UNCHANGED <<running, nextId, timers, named, periodic, armed, handlers, ioStopped, current, pc,
                   control, starts, fired, cancelled, late>>

(***************************************************************************)
(* TimerStart and Stop, called by one thread.                                   *)
(***************************************************************************)
TimerStart ==
    /\ control = "idle" /\ ~running
    /\ starts < MaxTimerStarts
    /\ starts' = starts + 1
    /\ running' = TRUE
    /\ ioStopped' = FALSE
    /\ io' = "run"
    /\ UNCHANGED <<nextId, timers, named, periodic, armed, handlers, current, pc, control, fired, cancelled, late>>

TimerStop ==
    /\ control = "idle" /\ running
    /\ control' = "stopping"
    /\ running' = FALSE
    /\ CancelWaits(timers)
    /\ cancelled' = cancelled \cup timers
    /\ timers' = {}
    /\ UNCHANGED <<nextId, named, periodic, ioStopped, io, current, pc, starts, fired, late>>

TimerStopIo ==
    /\ control = "stopping"
    /\ control' = "joining"
    /\ ioStopped' = TRUE
    /\ UNCHANGED <<running, nextId, timers, named, periodic, armed, handlers, io, current, pc, starts,
                   fired, cancelled, late>>

TimerStopJoin ==
    /\ control = "joining" /\ io = "none"
    /\ control' = "idle"
    /\ UNCHANGED <<running, nextId, timers, named, periodic, armed, handlers, ioStopped, io, current,
                   pc, starts, fired, cancelled, late>>

TimerInit ==
    /\ running = FALSE /\ nextId = 1
    /\ timers = {} /\ named = [n \in TimerNames |-> 0] /\ periodic = {}
    /\ armed = {} /\ handlers = <<>>
    /\ ioStopped = FALSE /\ io = "none" /\ current = 0
    /\ pc = [p \in Callers |-> Ready]
    /\ control = "idle" /\ starts = 0
    /\ fired = [i \in Ids |-> 0] /\ cancelled = {} /\ late = [i \in Ids |-> 0]

UserStep(p) ==
    \/ AddTimer(p) \/ AddPeriodicTimer(p)
    \/ \E n \in TimerNames : AddNamedTimer(p, n) \/ CancelNamedTimer(p, n)
    \/ \E id \in Ids : Cancel(p, id)

SecondStep(p) == AddNamedTimerName(p) \/ CancelNamedTimerId(p)

IoStep == HandlerBegin \/ CallbackEnd \/ Reschedule \/ OneShotDone \/ IoExit

TimerNext ==
    \/ \E p \in Callers : UserStep(p) \/ SecondStep(p)
    \/ \E id \in Ids : Expire(id)
    \/ IoStep
    \/ TimerStart \/ TimerStop \/ TimerStopIo \/ TimerStopJoin

TimerSpec == TimerInit /\ [][TimerNext]_timerVars

\* Callbacks return, the io thread runs, time passes, and a thread inside a
\* call of the manager goes on.
TimerFairness ==
    /\ WF_timerVars(IoStep)
    /\ \A id \in Ids : WF_timerVars(Expire(id))
    /\ \A p \in Callers : WF_timerVars(SecondStep(p))
    /\ WF_timerVars(TimerStopIo) /\ WF_timerVars(TimerStopJoin)

TimerFairSpec == TimerSpec /\ TimerFairness

(***************************************************************************)
(* Properties.                                                             *)
(***************************************************************************)

\* Every variable keeps its type.
TimerTypeOK ==
    /\ running \in BOOLEAN /\ ioStopped \in BOOLEAN
    /\ nextId \in 1 .. MaxId + 1
    /\ timers \subseteq Ids /\ periodic \subseteq Ids /\ armed \subseteq Ids
    /\ named \in [TimerNames -> 0 .. MaxId]
    /\ io \in {"none", "run", "callback", "after"} /\ current \in 0 .. MaxId
    /\ control \in {"idle", "stopping", "joining"}
    /\ \A id \in Ids : fired[id] <= MaxFires

Queued(id) == \E k \in 1 .. Len(handlers) : handlers[k].id = id

\* The map and asio agree: a wait is pending only for a managed timer, so
\* none can go on for ever without a handle; and a managed timer has its wait
\* pending, its handler queued or its handler running, so none is dead.
ManagedIsAlive ==
    /\ armed \subseteq timers
    /\ \A id \in timers : id \in armed \/ Queued(id) \/ current = id

\* No callback too many: after Cancel() returned true, or Stop() cancelled it, a
\* timer's callback begins at most once more, for the expiry that asio had
\* already queued; and a one-shot timer fires at most once, restarts and
\* cancels included.
CancelIsFinal ==
    /\ \A id \in Ids : late[id] <= 1
    /\ \A id \in Ids \ periodic : fired[id] <= 1

\* No callback runs between the return of Stop() and the next TimerStart().
StoppedIsQuiet == (control = "idle" /\ ~running) => io = "none"

\* Bookkeeping, cancellation and stopping.
TimerInv == TimerTypeOK /\ ManagedIsAlive /\ CancelIsFinal /\ StoppedIsQuiet

\* A managed timer fires, or is cancelled, or the manager is stopped.
TimersFire ==
    \A id \in Ids : (id \in timers /\ fired[id] = 0) ~> (fired[id] > 0 \/ id \in cancelled)
==============================================================================

------------------------------ MODULE Coroutine ------------------------------
(***************************************************************************)
(* CCoroutine (Common/Coroutine/Coroutine.h): one coroutine whose body is  *)
(* CO_BEGIN, an await per element of Awaits, and CO_RETURN.  Awaits[k] is  *)
(* the set of promises of the k-th await, one for CO_AWAIT and several for *)
(* CO_AWAIT_ALL; Kinds[k] the gate kind of the segment before it.  The     *)
(* promises belong to PromiseChain: here each settles once, at any moment, *)
(* on a thread of the executor or on a foreign one, and calls the notice   *)
(* OnSettled registered there, or calls it at once if it is settled.       *)
(***************************************************************************)
EXTENDS Integers, Sequences, FiniteSets

CONSTANTS
    Awaits,      \* sequence of sets of promises
    Kinds,       \* gate kind of each segment, one more than awaits
    MaxInline    \* limit of nested in-place runs

ASSUME CoroutineAssumption ==
    /\ Len(Awaits) \in Nat
    /\ \A k \in 1 .. Len(Awaits) : Awaits[k] # {} /\ IsFiniteSet(Awaits[k])
    /\ \A j, k \in 1 .. Len(Awaits) : j # k => Awaits[j] \cap Awaits[k] = {}
    /\ Len(Kinds) = Len(Awaits) + 1 /\ MaxInline \in Nat

Promises == UNION {Awaits[k] : k \in 1 .. Len(Awaits)}
AwaitOf(p) == CHOOSE k \in 1 .. Len(Awaits) : p \in Awaits[k]
SegmentOf(k) == k + 1       \* the segment that follows the k-th await

\* A thread: which executor it works for, the gate slot it holds and how deep
\* its in-place runs are nested.
ThreadContexts == [own : BOOLEAN, slot : {Kinds[k] : k \in 1 .. Len(Kinds)}, depth : 0 .. MaxInline]

VARIABLES
    co,        \* nStep, bTerminated, resultTerminate and the completion layer
    acts,      \* activations of Run(): segment, thread context, awaits not yet registered
    posted,    \* segments whose Resume is in the executor
    group,     \* CAwaitAllGroup of the await at co.step
    promise,   \* of each promise: pending, ok, bad
    notice,    \* of each: none, waiting, or how far the callback is (reject, count, resume, done)
    noticeOn,  \* the thread context the callback runs in
    execStopped

coVars == <<co, acts, posted, group, promise, notice, noticeOn, execStopped>>

Done == <<"done", 0>>
Stopped == <<"stopped", 0>>
Threw == <<"threw", 0>>
Returned == <<"returned", 0>>
Rejected(p) == <<"rejected", p>>
Unsettled == <<"pending", 0>>

\* CPromiseState::Settle: the first result stays.
SegmentSettle(c, r) == IF c.segment = Unsettled THEN [c EXCEPT !.segment = r] ELSE c
MarkTerminated(c, r) == [c EXCEPT !.terminated = TRUE, !.result = r]
Terminate(c, r) == SegmentSettle(MarkTerminated(c, r), r)

\* PostResume: refused once the executor is stopped.
PostResume(c, k) ==
    IF execStopped
    THEN co' = Terminate(c, Stopped) /\ UNCHANGED posted
    ELSE co' = c /\ posted' = Append(posted, k)

(***************************************************************************)
(* CoStart: SetSelf, BindExecutor, Reset, PostResume of the first segment. *)
(***************************************************************************)
CoStart ==
    /\ co.step = -1
    /\ PostResume([co EXCEPT !.step = 0], 1)
    /\ UNCHANGED <<acts, group, promise, notice, noticeOn, execStopped>>

\* A worker takes the posted Resume, in a slot of its kind.
Resume ==
    /\ posted # <<>>
    /\ acts' = acts \cup {[seg |-> Head(posted), on |-> [own |-> TRUE, slot |-> Kinds[Head(posted)], depth |-> 0],
                           todo |-> {}, fresh |-> TRUE]}
    /\ posted' = Tail(posted)
    /\ UNCHANGED <<co, group, promise, notice, noticeOn, execStopped>>

(***************************************************************************)
(* Run(): the switch of CO_BEGIN, then one segment.                        *)
(***************************************************************************)
\* The resume point of a terminated coroutine: CompleteTerminated.
RunTerminated(a) ==
    /\ a.fresh /\ co.terminated
    /\ co' = SegmentSettle(co, co.result)
    /\ acts' = acts \ {a}
    /\ UNCHANGED <<posted, group, promise, notice, noticeOn, execStopped>>

\* The segment throws: the catch of Resume().
RunThrows(a) ==
    /\ a.fresh /\ ~co.terminated
    /\ co' = Terminate(co, Threw)
    /\ acts' = acts \ {a}
    /\ UNCHANGED <<posted, group, promise, notice, noticeOn, execStopped>>

\* CO_RETURN and CO_END.
RunReturns(a, r) ==
    /\ a.fresh /\ ~co.terminated /\ co.step = Len(Awaits)
    /\ co' = SegmentSettle(co, r)
    /\ acts' = acts \ {a}
    /\ UNCHANGED <<posted, group, promise, notice, noticeOn, execStopped>>

\* AwaitWait and AwaitAll up to the first OnSettled: the step is stored first.
Await(a) ==
    /\ a.fresh /\ ~co.terminated /\ co.step < Len(Awaits)
    /\ co' = [co EXCEPT !.step = @ + 1]
    /\ group' = [pending |-> Cardinality(Awaits[co.step + 1]), rejected |-> FALSE, first |-> Done]
    /\ acts' = (acts \ {a}) \cup {[a EXCEPT !.fresh = FALSE, !.todo = Awaits[co.step + 1]]}
    /\ UNCHANGED <<posted, promise, notice, noticeOn, execStopped>>

\* OnSettled of the next promise (AwaitEach); after the last Run() returns.  The
\* notice of a promise that is settled already runs here, in this thread.
AwaitEach(a, p) ==
    /\ p \in a.todo
    /\ acts' = (acts \ {a}) \cup (IF a.todo = {p} THEN {} ELSE {[a EXCEPT !.todo = @ \ {p}]})
    /\ notice' = [notice EXCEPT ![p] = IF promise[p] = "pending" THEN "waiting" ELSE "reject"]
    /\ noticeOn' = [noticeOn EXCEPT ![p] = a.on]
    /\ UNCHANGED <<co, posted, group, promise, execStopped>>

(***************************************************************************)
(* A promise settles and calls back.                                       *)
(***************************************************************************)
PromiseSettles(p, how, ctx) ==
    /\ promise[p] = "pending"
    /\ promise' = [promise EXCEPT ![p] = how]
    /\ notice' = [notice EXCEPT ![p] = IF @ = "waiting" THEN "reject" ELSE @]
    /\ noticeOn' = IF notice[p] = "waiting" THEN [noticeOn EXCEPT ![p] = ctx] ELSE noticeOn
    /\ UNCHANGED <<co, acts, posted, group, execStopped>>

Single(p) == Cardinality(Awaits[AwaitOf(p)]) = 1

\* The lambda of AwaitWait up to ResumeInline.
OnWaitDone(p) ==
    /\ notice[p] = "reject" /\ Single(p)
    /\ co' = IF promise[p] = "bad" THEN MarkTerminated(co, Rejected(p)) ELSE co
    /\ notice' = [notice EXCEPT ![p] = "resume"]
    /\ UNCHANGED <<acts, posted, group, promise, noticeOn, execStopped>>

\* OnAwaitDone: the first rejection wins the compare_exchange ...
OnAwaitDoneReject(p) ==
    /\ notice[p] = "reject" /\ ~Single(p)
    /\ group' = IF promise[p] = "bad" /\ ~group.rejected
                THEN [group EXCEPT !.rejected = TRUE, !.first = Rejected(p)] ELSE group
    /\ notice' = [notice EXCEPT ![p] = "count"]
    /\ UNCHANGED <<co, acts, posted, promise, noticeOn, execStopped>>

\* Mutant: a rejection is passed on at once.
OnAwaitDoneCountFirst(p) ==
    /\ notice[p] = "count"
    /\ LET last == group.pending = 1 \/ group.rejected IN
       /\ group' = [group EXCEPT !.pending = @ - 1]
       /\ notice' = [notice EXCEPT ![p] = IF last THEN "resume" ELSE "done"]
       /\ co' = IF last /\ group.rejected THEN MarkTerminated(co, group.first) ELSE co
    /\ UNCHANGED <<acts, posted, promise, noticeOn, execStopped>>

\* ... and the one that counts to zero resumes.
OnAwaitDoneCount(p) ==
    /\ notice[p] = "count"
    /\ LET last == group.pending = 1 IN
       /\ group' = [group EXCEPT !.pending = @ - 1]
       /\ notice' = [notice EXCEPT ![p] = IF last THEN "resume" ELSE "done"]
       /\ co' = IF last /\ group.rejected THEN MarkTerminated(co, group.first) ELSE co
    /\ UNCHANGED <<acts, posted, promise, noticeOn, execStopped>>

\* ShouldInline: this executor's thread, a slot of the segment's kind, depth left.
ShouldInline(ctx, k) == ctx.own /\ ctx.slot = Kinds[k] /\ ctx.depth < MaxInline

\* ResumeInline; idle is whether the pool has no backlog.
ResumeInline(p, idle) ==
    /\ notice[p] = "resume"
    /\ notice' = [notice EXCEPT ![p] = "done"]
    /\ LET k == SegmentOf(AwaitOf(p)) ctx == noticeOn[p] IN
       IF execStopped
       THEN co' = Terminate(co, Stopped) /\ UNCHANGED <<acts, posted>>
       ELSE IF idle /\ ShouldInline(ctx, k)
       THEN /\ acts' = acts \cup {[seg |-> k, on |-> [ctx EXCEPT !.depth = @ + 1], todo |-> {}, fresh |-> TRUE]}
            /\ UNCHANGED <<co, posted>>
       ELSE PostResume(co, k) /\ UNCHANGED acts
    /\ UNCHANGED <<group, promise, noticeOn, execStopped>>

ExecutorStops ==
    /\ ~execStopped
    /\ execStopped' = TRUE
    /\ UNCHANGED <<co, acts, posted, group, promise, notice, noticeOn>>

-------------------------------------------------------------------------------
CoInit ==
    /\ co = [step |-> -1, terminated |-> FALSE, result |-> Done, segment |-> Unsettled]
    /\ acts = {} /\ posted = <<>>
    /\ group = [pending |-> 0, rejected |-> FALSE, first |-> Done]
    /\ promise = [p \in Promises |-> "pending"]
    /\ notice = [p \in Promises |-> "none"]
    /\ noticeOn = [p \in Promises |-> [own |-> FALSE, slot |-> Kinds[1], depth |-> 0]]
    /\ execStopped = FALSE

\* What runs on a thread that is inside the library or the body.
CoThreads ==
    \/ Resume
    \/ \E a \in acts : \/ RunTerminated(a) \/ RunThrows(a) \/ Await(a)
                       \/ \E r \in {Done, Returned} : RunReturns(a, r)
                       \/ \E p \in a.todo : AwaitEach(a, p)
    \/ \E p \in Promises : \/ OnWaitDone(p) \/ OnAwaitDoneReject(p) \/ OnAwaitDoneCount(p)
                           \/ \E idle \in BOOLEAN : ResumeInline(p, idle)

Settling == \E p \in Promises, how \in {"ok", "bad"}, ctx \in ThreadContexts : PromiseSettles(p, how, ctx)

CoNext == CoStart \/ CoThreads \/ Settling \/ ExecutorStops

CoSpec == CoInit /\ [][CoNext]_coVars

\* Threads run; the promises that are awaited settle (LayersSettle).
CoFairness == WF_coVars(CoThreads) /\ WF_coVars(co.step # -1 /\ Settling)

(***************************************************************************)
(* Properties.                                                             *)
(***************************************************************************)
Calling == {p \in Promises : notice[p] \in {"reject", "count", "resume"}}

\* The await at co.step has promises that have not called back yet.
Outstanding == \E p \in Promises : notice[p] \in {"waiting", "reject", "count", "resume"}

\* The body is never lost and never runs twice at once: until the coroutine is
\* settled exactly one of an activation, a posted Resume and a suspended await
\* carries it on, whichever thread settles the awaited promises and whenever it
\* does so relative to the suspension; afterwards none does.
OneContinuation ==
    co.step # -1 =>
      LET carriers == Cardinality({a \in acts : a.fresh \/ a.todo # {}}) + Len(posted) IN
      IF co.segment # Unsettled THEN carriers = 0 /\ Calling = {}
      ELSE /\ carriers <= 1
           /\ carriers = 1 \/ Outstanding
           /\ (\E a \in acts : a.fresh) \/ posted # <<>> => ~Outstanding

\* A segment runs on a thread of its own executor, in a gate slot of its kind,
\* and never nested deeper than the limit.
SegmentsPlaced ==
    \A a \in acts : a.on.own /\ (a.fresh => a.on.slot = Kinds[a.seg]) /\ a.on.depth <= MaxInline

\* The result is that of the sequential program: a rejection is that of an await
\* that was reached, after awaits whose promises were all fulfilled, and a
\* fulfilled coroutine has awaited every promise; "stopped" needs a stop.
ResultIsSequential ==
    LET r == co.segment IN
    /\ r[1] = "rejected" =>
         /\ AwaitOf(r[2]) = co.step /\ promise[r[2]] = "bad"
         /\ \A k \in 1 .. co.step : \A p \in Awaits[k] : promise[p] # "pending" /\ (k < co.step => promise[p] = "ok")
    /\ r \in {Done, Returned} => \A p \in Promises : promise[p] = "ok"
    /\ r = Stopped => execStopped

\* The coroutine's safety.
CoroutineInv == OneContinuation /\ SegmentsPlaced /\ ResultIsSequential

\* A started coroutine settles, so that Await() returns and an outer await goes on.
CoroutineSettles == (co.step # -1) ~> (co.segment # Unsettled)
=============================================================================

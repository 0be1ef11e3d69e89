------------------------------ MODULE PromiseChain ------------------------------
(***************************************************************************)
(* Common/Async/{PromiseState,PromiseCore,PromiseLayer,Promise,GateGuard}.h *)
(* and the dispatch rules of AsyncExecutor.h: the layers of promise chains, *)
(* settled once, each settlement running its registered handlers outside   *)
(* the lock, on the settling thread, in a recursive cascade.               *)
(*                                                                         *)
(* One executor is modelled: its Workers, and every other thread of the    *)
(* program (other modules' workers, timers, the caller) as Users.  A thread*)
(* is the stack of its activations, top first.  pool holds the closures the*)
(* executor accepted: it runs them all, in any order (the gate and several *)
(* workers reorder them), also after it was stopped.  Whether the gate lets*)
(* a layer run in place is left open (module ReadWriteGate).               *)
(***************************************************************************)
EXTENDS Naturals, Sequences, FiniteSets

CONSTANTS Layers,           \* the layers ever created
          Mode,             \* per layer: handler, starter, then, catch, finally, promise
          Up,               \* the layer a then/catch/finally/promise layer hangs on
          Child,            \* the layer a promise layer's factory starts and waits for
          Notices,          \* OnSettled and OnSettledOn registrations
          Target,           \* the layer a notice is registered on
          OnNotices,        \* the notices registered with OnSettledOn(this executor)
          Awaiters,         \* threads that call Await or AwaitFor
          Awaited,          \* the layer each of them waits for
          TimedAwaiters,    \* the ones that call AwaitFor with a timeout
          Users, Workers,
          MaxInlineDepth,   \* kMaxInlineDepth
          None

Threads == Users \cup Workers
Roots == {l \in Layers : Mode[l] \in {"handler", "starter"}}
Chained == Layers \ Roots

ASSUME ChainAssumption ==
    /\ Mode \in [Layers -> {"handler", "starter", "then", "catch", "finally", "promise"}]
    /\ Up \in [Chained -> Layers]
    /\ Child \in [{l \in Layers : Mode[l] = "promise"} -> {l \in Layers : Mode[l] = "starter"}]
    /\ Target \in [Notices -> Layers] /\ OnNotices \subseteq Notices
    /\ Awaited \in [Awaiters -> Layers] /\ TimedAwaiters \subseteq Awaiters
    /\ Users \cap Workers = {} /\ None \notin Layers
    /\ MaxInlineDepth \in Nat

\* A CPromiseResult: fulfilled, or rejected by some layer's own code, or
\* rejected by the framework because the executor is stopped.
Resolved == [ok |-> TRUE, by |-> None]
Rejected(l) == [ok |-> FALSE, by |-> l]
Stopped == [ok |-> FALSE, by |-> None]
Results == {Resolved, Stopped} \cup {Rejected(l) : l \in Layers}

\* What can be registered on a layer: the next layer, a notice, or the notice by
\* which a promise layer waits for its child.
LayerHook(l) == [t |-> "layer", id |-> l]
NoticeHook(n) == [t |-> "notice", id |-> n]
AdoptHook(l) == [t |-> "adopt", id |-> l]
Hooks == {LayerHook(l) : l \in Layers} \cup {NoticeHook(n) : n \in Notices}
         \cup {AdoptHook(l) : l \in Layers}

\* An activation on a thread, or a closure in the pool.
\*   run, retry   the layer's body; res is the upstream result
\*   settle       Settle(res) is about to take the lock of l
\*   notify       the result is published, the waiters are not woken yet
\*   fire         the handlers in todo are still to be run, with result res
\*   deliver      a notice posted to its executor
\* inl: entered in place, under a CInlineGuard.
Frame(k, l, res, todo, inl) == [k |-> k, l |-> l, res |-> res, todo |-> todo, inl |-> inl]
RunFrame(l, up, inl) == Frame("run", l, up, <<>>, inl)
SettleFrame(l, res) == Frame("settle", l, res, <<>>, FALSE)
FireFrame(h, res, inl) == Frame("fire", None, res, <<h>>, inl)

VARIABLES
    created,    \* the layers that exist
    settled,    \* m_bSettled
    result,     \* m_result
    hooks,      \* m_handlerInline followed by m_vecHandlers
    pool,       \* closures the executor accepted and no worker runs yet
    bStopped,   \* the executor refuses: m_bStopped, the gate closed, the pool stopping
    stack,      \* per thread
    exposed,    \* starter layers whose resolve / reject were handed out
    joined,     \* notices that were registered
    aw,         \* per awaiter: none, waiting, woken, returned, timeout
    got,        \* the result an awaiter returned with
    tries,      \* history: how often a layer's body was entered
    own,        \* history: how a layer's body ended: none, ok, err, throw
    delivered,  \* history: the results a notice was called with, in order
    early       \* history: per layer, the notices registered while it was pending

vars == <<created, settled, result, hooks, pool, bStopped, stack, exposed, joined, aw, got,
          tries, own, delivered, early>>

Top(p) == Head(stack[p])
Rest(p) == Tail(stack[p])
Idle(p) == stack[p] = <<>>
SetStack(p, s) == stack' = [stack EXCEPT ![p] = s]

\* InlineDepth() of thread p.
InlineDepth(p) == Cardinality({i \in 1..Len(stack[p]) : stack[p][i].inl})

-------------------------------------------------------------------------------
(* Registration: the lock of layer u decides between storing the hook and    *)
(* running it now.  A settled layer never changes, so the hand-over to the   *)
(* executor, done after the unlock, belongs to the same step.                *)

\* base is what is left of p's stack.  A refused layer settles as stopped
\* (SettleStopped); a refused notice runs on the calling thread.
Register(p, base, u, h) ==
    \/ /\ ~settled[u]
       /\ hooks' = [hooks EXCEPT ![u] = Append(@, h)]
       /\ SetStack(p, base) /\ pool' = pool
    \/ /\ settled[u] /\ ~bStopped
       /\ pool' = pool \cup {FireFrame(h, result[u], FALSE)}
       /\ SetStack(p, base) /\ hooks' = hooks
    \/ /\ settled[u] /\ bStopped
       /\ SetStack(p, IF h.t = "layer" THEN <<SettleFrame(h.id, Stopped)>> \o base
                      ELSE <<FireFrame(h, result[u], TRUE)>> \o base)
       /\ UNCHANGED <<hooks, pool>>

\* Create the layer and register it.
AppendLayer(p, l) ==
    /\ Idle(p) /\ l \in Chained /\ l \notin created /\ Up[l] \in created
    /\ created' = created \cup {l}
    /\ Register(p, <<>>, Up[l], LayerHook(l))
    /\ UNCHANGED <<settled, result, bStopped, exposed, joined, aw, got, tries, own, delivered, early>>

ThenCatchFinally(p, l) == Mode[l] # "promise" /\ AppendLayer(p, l)
ThenPromise(p, l) == Mode[l] = "promise" /\ AppendLayer(p, l)

\* OnSettled, OnSettledOn.
OnSettled(p, n) ==
    /\ Idle(p) /\ n \notin joined /\ Target[n] \in created
    /\ joined' = joined \cup {n}
    /\ Register(p, <<>>, Target[n], NoticeHook(n))
    /\ early' = [early EXCEPT ![Target[n]] = IF settled[Target[n]] THEN @ ELSE Append(@, n)]
    /\ UNCHANGED <<created, settled, result, bStopped, exposed, aw, got, tries, own, delivered>>

-------------------------------------------------------------------------------
(* Starting chains and dispatching layers. *)

\* Mutant: the limit on nested activations is not tested.
DispatchInlineOrPostUnlimited(p, base, l, up) ==
    \/ /\ p \in Workers
       /\ SetStack(p, <<RunFrame(l, up, TRUE)>> \o base) /\ pool' = pool
    \/ ~bStopped /\ SetStack(p, base) /\ pool' = pool \cup {RunFrame(l, up, FALSE)}
    \/ bStopped /\ SetStack(p, <<SettleFrame(l, Stopped)>> \o base) /\ pool' = pool

\* Mutant: a layer the executor refuses is left alone.
DispatchInlineOrPostForgets(p, base, l, up) ==
    \/ /\ p \in Workers /\ InlineDepth(p) < MaxInlineDepth
       /\ SetStack(p, <<RunFrame(l, up, TRUE)>> \o base) /\ pool' = pool
    \/ ~bStopped /\ SetStack(p, base) /\ pool' = pool \cup {RunFrame(l, up, FALSE)}
    \/ bStopped /\ SetStack(p, base) /\ pool' = pool

\* In place only on a thread of this executor, below the depth limit and if the
\* gate allows it; else posted; refused, the layer settles as stopped.
DispatchInlineOrPost(p, base, l, up) ==
    \/ /\ p \in Workers /\ InlineDepth(p) < MaxInlineDepth
       /\ SetStack(p, <<RunFrame(l, up, TRUE)>> \o base) /\ pool' = pool
    \/ ~bStopped /\ SetStack(p, base) /\ pool' = pool \cup {RunFrame(l, up, FALSE)}
    \/ bStopped /\ SetStack(p, <<SettleFrame(l, Stopped)>> \o base) /\ pool' = pool

\* StartChain: the first layer is always posted.
StartChain(p, l) ==
    /\ Idle(p) /\ Mode[l] = "handler" /\ l \notin created
    /\ created' = created \cup {l}
    /\ \/ ~bStopped /\ stack' = stack /\ pool' = pool \cup {RunFrame(l, Resolved, FALSE)}
       \/ bStopped /\ SetStack(p, <<SettleFrame(l, Stopped)>>) /\ pool' = pool
    /\ UNCHANGED <<settled, result, hooks, bStopped, exposed, joined, aw, got, tries, own, delivered, early>>

\* NewFromHandle: RunChainStarter in place or posted.
NewFromHandle(p, base, l) ==
    /\ Mode[l] = "starter" /\ l \notin created
    /\ created' = created \cup {l}
    /\ DispatchInlineOrPost(p, base, l, Resolved)
    /\ UNCHANGED <<settled, result, hooks, bStopped, exposed, joined, aw, got, tries, own, delivered, early>>

NewPromise(p, l) == Idle(p) /\ NewFromHandle(p, <<>>, l)

\* Whoever holds resolve / reject of a starter layer calls them, once or often.
ExternalSettle(p, l, res) ==
    /\ Idle(p) /\ l \in exposed /\ res \in {Resolved, Rejected(l)}
    /\ SetStack(p, <<SettleFrame(l, res)>>)
    /\ UNCHANGED <<created, settled, result, hooks, pool, bStopped, exposed, joined, aw, got,
                   tries, own, delivered, early>>

StopExecutor ==
    /\ ~bStopped
    /\ bStopped' = TRUE
    /\ UNCHANGED <<created, settled, result, hooks, pool, stack, exposed, joined, aw, got,
                   tries, own, delivered, early>>

WorkerTake(w, f) ==
    /\ Idle(w) /\ f \in pool
    /\ pool' = pool \ {f}
    /\ SetStack(w, <<f>>)
    /\ UNCHANGED <<created, settled, result, hooks, bStopped, exposed, joined, aw, got,
                   tries, own, delivered, early>>

-------------------------------------------------------------------------------
(* Running a body.  The activation turns into the settlement of its layer;   *)
(* the in-place guard stays on the stack until the cascade below returns.    *)

Running(p) == ~Idle(p) /\ Top(p).k \in {"run", "retry"}
EndRun(p, res) == SetStack(p, <<[Top(p) EXCEPT !.k = "settle", !.res = res]>> \o Rest(p))
Enter(l) == tries' = [tries EXCEPT ![l] = @ + 1]

\* Mutant: an exception of the body is swallowed.
BodyResultSwallows(l, up, end) ==
    IF Mode[l] = "finally" THEN up
    ELSE IF end # "err" THEN Resolved ELSE Rejected(l)

\* The layer's result when its handler ended as end: returned Resolve(),
\* returned a rejection, or threw.
BodyResult(l, up, end) ==
    IF Mode[l] = "finally" /\ end # "throw" THEN up
    ELSE IF end = "ok" THEN Resolved ELSE Rejected(l)

RunBody(p, end) ==
    /\ Running(p) /\ Mode[Top(p).l] \in {"handler", "then", "catch", "finally"}
    /\ Enter(Top(p).l)
    /\ own' = [own EXCEPT ![Top(p).l] = end]
    /\ EndRun(p, BodyResult(Top(p).l, Top(p).res, end))
    /\ UNCHANGED <<created, settled, result, hooks, pool, bStopped, exposed, joined, aw, got, delivered, early>>

\* Mutant: the second run does not know that it is one.
RunBodySuspendsForgetful(p) ==
    /\ Running(p) /\ Mode[Top(p).l] \in {"handler", "then", "catch", "finally"}
    /\ Enter(Top(p).l)
    /\ \/ /\ ~bStopped
          /\ pool' = pool \cup {[Top(p) EXCEPT !.inl = FALSE]} /\ SetStack(p, Rest(p))
       \/ bStopped /\ EndRun(p, Stopped) /\ pool' = pool
    /\ UNCHANGED <<created, settled, result, hooks, bStopped, exposed, joined, aw, got, own, delivered, early>>

\* The body asked for a gate slot it does not hold (ASYNC_GATE): the layer is
\* not settled, it is run again in that slot; the second time it must end.
RunBodySuspends(p) ==
    /\ Running(p) /\ Mode[Top(p).l] \in {"handler", "then", "catch", "finally"}
    /\ Enter(Top(p).l)
    /\ \/ Top(p).k = "retry" /\ EndRun(p, Rejected(Top(p).l)) /\ pool' = pool
       \/ /\ Top(p).k = "run" /\ ~bStopped
          /\ pool' = pool \cup {[Top(p) EXCEPT !.k = "retry", !.inl = FALSE]}
          /\ SetStack(p, Rest(p))
       \/ Top(p).k = "run" /\ bStopped /\ EndRun(p, Stopped) /\ pool' = pool
    /\ UNCHANGED <<created, settled, result, hooks, bStopped, exposed, joined, aw, got, own, delivered, early>>

\* RunChainStarter: the callback gets resolve and reject; it may return, use one
\* of them at once, or throw.
RunStarter(p, end) ==
    /\ Running(p) /\ Mode[Top(p).l] = "starter"
    /\ Enter(Top(p).l)
    /\ exposed' = exposed \cup {Top(p).l}
    /\ CASE end = "return" -> SetStack(p, Rest(p))
         [] end = "ok" -> EndRun(p, Resolved)
         [] end = "throw" -> EndRun(p, Rejected(Top(p).l))
    /\ UNCHANGED <<created, settled, result, hooks, pool, bStopped, joined, aw, got, own, delivered, early>>

\* Adopt: the factory starts the child, throws, or returns the child, on which
\* the settlement of this layer is then registered.
FactoryStartsChild(p) ==
    /\ Running(p) /\ Mode[Top(p).l] = "promise"
    /\ NewFromHandle(p, stack[p], Child[Top(p).l])

FactoryThrows(p) ==
    /\ Running(p) /\ Mode[Top(p).l] = "promise"
    /\ Enter(Top(p).l)
    /\ own' = [own EXCEPT ![Top(p).l] = "throw"]
    /\ EndRun(p, Rejected(Top(p).l))
    /\ UNCHANGED <<created, settled, result, hooks, pool, bStopped, exposed, joined, aw, got, delivered, early>>

FactoryReturns(p) ==
    /\ Running(p) /\ Mode[Top(p).l] = "promise" /\ Child[Top(p).l] \in created
    /\ Enter(Top(p).l)
    /\ own' = [own EXCEPT ![Top(p).l] = "ok"]
    /\ Register(p, Rest(p), Child[Top(p).l], AdoptHook(Top(p).l))
    /\ UNCHANGED <<created, settled, result, bStopped, exposed, joined, aw, got, delivered, early>>

-------------------------------------------------------------------------------
(* Settling. *)

\* Mutant: a layer that is settled already is settled again.
SettleAgain(p) ==
    /\ ~Idle(p) /\ Top(p).k = "settle"
    /\ settled' = [settled EXCEPT ![Top(p).l] = TRUE]
    /\ result' = [result EXCEPT ![Top(p).l] = Top(p).res]
    /\ hooks' = [hooks EXCEPT ![Top(p).l] = <<>>]
    /\ SetStack(p, <<[Top(p) EXCEPT !.k = "notify", !.todo = hooks[Top(p).l]]>> \o Rest(p))
    /\ UNCHANGED <<created, pool, bStopped, exposed, joined, aw, got, tries, own, delivered, early>>

\* Settle, with the lock held: the first one publishes and takes the handlers.
Settle(p) ==
    /\ ~Idle(p) /\ Top(p).k = "settle"
    /\ IF settled[Top(p).l]
       THEN SetStack(p, Rest(p)) /\ UNCHANGED <<settled, result, hooks>>
       ELSE /\ settled' = [settled EXCEPT ![Top(p).l] = TRUE]
            /\ result' = [result EXCEPT ![Top(p).l] = Top(p).res]
            /\ hooks' = [hooks EXCEPT ![Top(p).l] = <<>>]
            /\ SetStack(p, <<[Top(p) EXCEPT !.k = "notify", !.todo = hooks[Top(p).l]]>> \o Rest(p))
    /\ UNCHANGED <<created, pool, bStopped, exposed, joined, aw, got, tries, own, delivered, early>>

\* Mutant: only a fulfilled layer wakes its waiters.
SettleNotifyFulfilled(p) ==
    /\ ~Idle(p) /\ Top(p).k = "notify"
    /\ aw' = [a \in Awaiters |-> IF aw[a] = "waiting" /\ Awaited[a] = Top(p).l /\ Top(p).res.ok
                                THEN "woken" ELSE aw[a]]
    /\ SetStack(p, <<[Top(p) EXCEPT !.k = "fire"]>> \o Rest(p))
    /\ UNCHANGED <<created, settled, result, hooks, pool, bStopped, exposed, joined, got, tries, own, delivered, early>>

\* ... then, unlocked, notify_all ...
SettleNotify(p) ==
    /\ ~Idle(p) /\ Top(p).k = "notify"
    /\ aw' = [a \in Awaiters |-> IF aw[a] = "waiting" /\ Awaited[a] = Top(p).l THEN "woken" ELSE aw[a]]
    /\ SetStack(p, <<[Top(p) EXCEPT !.k = "fire"]>> \o Rest(p))
    /\ UNCHANGED <<created, settled, result, hooks, pool, bStopped, exposed, joined, got, tries, own, delivered, early>>

\* A then or promise layer is skipped when the upstream was rejected, a catch
\* layer when it was fulfilled, a finally layer never.
Skipped(l, res) ==
    \/ Mode[l] \in {"then", "promise"} /\ ~res.ok
    \/ Mode[l] = "catch" /\ res.ok

\* The notice runs here, or goes to its executor (OnSettledOn from another
\* thread) if that still accepts.
Deliver(p, n, res, base) ==
    \/ /\ (n \in OnNotices => p \in Workers \/ bStopped)
       /\ delivered' = [delivered EXCEPT ![n] = Append(@, res)]
       /\ SetStack(p, base) /\ pool' = pool
    \/ /\ n \in OnNotices /\ p \in Users /\ ~bStopped
       /\ pool' = pool \cup {Frame("deliver", n, res, <<>>, FALSE)}
       /\ SetStack(p, base) /\ delivered' = delivered

\* The next registered handler of the cascade, given what is left of the stack.
RunHook(p, h, res, base) ==
    \/ /\ h.t = "layer" /\ Skipped(h.id, res)
       /\ SetStack(p, <<SettleFrame(h.id, res)>> \o base) /\ UNCHANGED <<pool, delivered>>
    \/ /\ h.t = "layer" /\ ~Skipped(h.id, res)
       /\ DispatchInlineOrPost(p, base, h.id, res) /\ delivered' = delivered
    \/ h.t = "notice" /\ Deliver(p, h.id, res, base)
    \/ /\ h.t = "adopt"
       /\ SetStack(p, <<SettleFrame(h.id, res)>> \o base) /\ UNCHANGED <<pool, delivered>>

\* Mutant: the handlers run in the reverse order of registration.
FireBackwards(p) ==
    /\ ~Idle(p) /\ Top(p).k = "fire" /\ Top(p).todo # <<>>
    /\ LET n == Len(Top(p).todo) IN
       RunHook(p, Top(p).todo[n], Top(p).res,
               <<[Top(p) EXCEPT !.todo = SubSeq(@, 1, n - 1)]>> \o Rest(p))
    /\ UNCHANGED <<created, settled, result, hooks, bStopped, exposed, joined, aw, got, tries, own, early>>

\* ... then the handlers, in the order of registration.
Fire(p) ==
    /\ ~Idle(p) /\ Top(p).k = "fire" /\ Top(p).todo # <<>>
    /\ RunHook(p, Head(Top(p).todo), Top(p).res, <<[Top(p) EXCEPT !.todo = Tail(@)]>> \o Rest(p))
    /\ UNCHANGED <<created, settled, result, hooks, bStopped, exposed, joined, aw, got, tries, own, early>>

FireEnd(p) ==
    /\ ~Idle(p) /\ Top(p).k = "fire" /\ Top(p).todo = <<>>
    /\ SetStack(p, Rest(p))
    /\ UNCHANGED <<created, settled, result, hooks, pool, bStopped, exposed, joined, aw, got,
                   tries, own, delivered, early>>

\* A posted OnSettledOn notice, on a thread of its executor.
DeliverPosted(p) ==
    /\ ~Idle(p) /\ Top(p).k = "deliver"
    /\ delivered' = [delivered EXCEPT ![Top(p).l] = Append(@, Top(p).res)]
    /\ SetStack(p, Rest(p))
    /\ UNCHANGED <<created, settled, result, hooks, pool, bStopped, exposed, joined, aw, got, tries, own, early>>

-------------------------------------------------------------------------------
(* Await and AwaitFor.  The spin before the lock decides nothing. *)

awaitUnchanged == UNCHANGED <<created, settled, result, hooks, pool, bStopped, stack, exposed,
                              joined, tries, own, delivered, early>>

AwaitReturn(a) == aw' = [aw EXCEPT ![a] = "returned"] /\ got' = [got EXCEPT ![a] = result[Awaited[a]]]

\* The predicate, tested on entry and after every wake-up.
AwaitTest(a) ==
    /\ aw[a] \in {"none", "woken"} /\ Awaited[a] \in created
    /\ IF settled[Awaited[a]] THEN AwaitReturn(a)
       ELSE aw' = [aw EXCEPT ![a] = "waiting"] /\ got' = got
    /\ awaitUnchanged

AwaitSpuriousWake(a) ==
    /\ aw[a] = "waiting"
    /\ aw' = [aw EXCEPT ![a] = "woken"] /\ got' = got
    /\ awaitUnchanged

\* wait_for runs out: the predicate decides once more; the layer is not touched.
AwaitTimeout(a) ==
    /\ a \in TimedAwaiters /\ aw[a] = "waiting"
    /\ IF settled[Awaited[a]] THEN AwaitReturn(a)
       ELSE aw' = [aw EXCEPT ![a] = "timeout"] /\ got' = got
    /\ awaitUnchanged

-------------------------------------------------------------------------------
Init ==
    /\ created = {} /\ settled = [l \in Layers |-> FALSE]
    /\ result = [l \in Layers |-> Stopped]
    /\ hooks = [l \in Layers |-> <<>>]
    /\ pool = {} /\ bStopped = FALSE
    /\ stack = [p \in Threads |-> <<>>]
    /\ exposed = {} /\ joined = {}
    /\ aw = [a \in Awaiters |-> "none"] /\ got = [a \in Awaiters |-> Stopped]
    /\ tries = [l \in Layers |-> 0] /\ own = [l \in Layers |-> "none"]
    /\ delivered = [n \in Notices |-> <<>>] /\ early = [l \in Layers |-> <<>>]

\* No thread is inside the framework and the pool is empty.
Quiescent == pool = {} /\ \A p \in Threads : Idle(p)
Finished == Quiescent /\ UNCHANGED vars

\* What a caller may do, at any time or never.
UserStep(p) ==
    \/ \E l \in Layers : ThenCatchFinally(p, l) \/ ThenPromise(p, l) \/ StartChain(p, l) \/ NewPromise(p, l)
    \/ \E n \in Notices : OnSettled(p, n)
    \/ \E l \in Layers, res \in Results : ExternalSettle(p, l, res)

BodyStep(p) ==
    \/ \E end \in {"ok", "err", "throw"} : RunBody(p, end)
    \/ RunBodySuspends(p)
    \/ \E end \in {"return", "ok", "throw"} : RunStarter(p, end)
    \/ FactoryStartsChild(p) \/ FactoryThrows(p) \/ FactoryReturns(p)

\* What a thread that is inside the framework goes on to do.
ThreadStep(p) ==
    BodyStep(p) \/ Settle(p) \/ SettleNotify(p) \/ Fire(p) \/ FireEnd(p) \/ DeliverPosted(p)

WorkerStep(w) == \E f \in pool : WorkerTake(w, f)

Next ==
    \/ \E p \in Users : UserStep(p)
    \/ \E p \in Threads : ThreadStep(p)
    \/ \E w \in Workers : WorkerStep(w)
    \/ \E a \in Awaiters : AwaitTest(a) \/ AwaitSpuriousWake(a) \/ AwaitTimeout(a)
    \/ StopExecutor
    \/ Finished

Spec == Init /\ [][Next]_vars

\* Threads inside the framework go on, bodies end, the pool runs what it
\* accepted, a woken waiter gets the lock.  Nobody is obliged to call anything.
Fairness ==
    /\ \A p \in Threads : WF_vars(ThreadStep(p))
    /\ \A w \in Workers : WF_vars(WorkerStep(w))
    /\ \A a \in Awaiters : WF_vars(AwaitTest(a) /\ aw[a] = "woken")

FairSpec == Spec /\ Fairness

-------------------------------------------------------------------------------
(* Properties. *)

\* Every variable keeps its type, and a settled layer keeps no handler.
TypeOK ==
    /\ \A l \in Layers : settled[l] => hooks[l] = <<>>
    /\ created \subseteq Layers /\ exposed \subseteq created /\ joined \subseteq Notices
    /\ settled \in [Layers -> BOOLEAN] /\ bStopped \in BOOLEAN
    /\ result \in [Layers -> Results]
    /\ \A l \in Layers : \A i \in 1..Len(hooks[l]) : hooks[l][i] \in Hooks
    /\ aw \in [Awaiters -> {"none", "waiting", "woken", "returned", "timeout"}]
    /\ got \in [Awaiters -> Results]
    /\ tries \in [Layers -> Nat]
    /\ own \in [Layers -> {"none", "ok", "err", "throw"}]

\* A layer is settled once: whoever races to settle it (its body, resolve and
\* reject, the stop of the executor), the published result never changes.
SettledForGood ==
    [][\A l \in Layers : settled[l] => settled'[l] /\ result'[l] = result[l]]_vars

\* The JavaScript-like contract of a chain: a layer is settled after its
\* upstream, and with the upstream's rejection (then, promise), the upstream's
\* fulfilment (catch), the upstream's result whatever it is (finally), or what
\* its own code made of it; or as stopped, without its code having finished,
\* when the executor was stopped.  And a body that asks for a gate slot is
\* entered a second time and never a third.
ChainSemantics ==
  /\ \A l \in Layers : tries[l] <= 2
  /\ \A l \in Chained : settled[l] =>
        LET up == result[Up[l]] IN
        /\ settled[Up[l]]
        /\ \/ bStopped /\ result[l] = Stopped /\ own[l] = "none"
           \/ Skipped(l, up) /\ result[l] = up /\ tries[l] = 0
           \/ /\ ~Skipped(l, up) /\ own[l] # "none"
              /\ IF Mode[l] = "promise" /\ own[l] = "ok"
                 THEN settled[Child[l]] /\ result[l] = result[Child[l]]
                 ELSE result[l] = IF Mode[l] = "finally" /\ own[l] # "throw" THEN up
                                  ELSE IF own[l] = "ok" THEN Resolved ELSE Rejected(l)
           \/ ~Skipped(l, up) /\ own[l] = "none" /\ tries[l] = 2 /\ result[l] = Rejected(l)

\* Types and the contract of a chain.
ChainInv == TypeOK /\ ChainSemantics

\* User code of a layer (bodies, starters, factories) runs on the executor's own
\* threads only, whoever settles the upstream layer.
ThreadAffinity == \A p \in Users : ~Running(p)

\* In-place runs are nested at most kMaxInlineDepth deep; a notice that a
\* stopped executor refuses adds its own level, as the code counts it.
InlineDepthBounded ==
    \A p \in Threads : Cardinality({i \in 1..Len(stack[p]) : stack[p][i].inl /\ stack[p][i].l # None})
                       <= MaxInlineDepth

\* In-place execution is safe: the code of a layer runs on threads of its own
\* executor only, and nests no deeper than kMaxInlineDepth, on every path.
InlineSafe == ThreadAffinity /\ InlineDepthBounded

\* When everything is quiet nothing is forgotten: every layer whose upstream
\* (and child) is settled is settled, every started chain's first layer is, and
\* every notice of a settled layer was called exactly once, with its result.
NothingStranded ==
    Quiescent =>
        /\ \A l \in created : Mode[l] = "handler" => settled[l]
        /\ \A l \in created \cap Chained :
             settled[Up[l]] => settled[l] \/ (Mode[l] = "promise" /\ ~settled[Child[l]])
        /\ \A n \in joined : settled[Target[n]] => delivered[n] = <<result[Target[n]]>>

\* Whoever learns of a layer's result learns the final one: a notice is never
\* called before its layer is settled and never twice, Await returns only after
\* it was settled, and both see the published result.
ObserversExact ==
    /\ \A n \in Notices : delivered[n] # <<>> =>
          settled[Target[n]] /\ delivered[n] = <<result[Target[n]]>>
    /\ \A a \in Awaiters : aw[a] = "returned" =>
          settled[Awaited[a]] /\ got[a] = result[Awaited[a]]

\* Notices registered with OnSettled while the layer was pending are called in
\* the order of their registration.
NoticesInOrder ==
    \A l \in Layers : \A i, j \in 1..Len(early[l]) :
        (i < j /\ {early[l][i], early[l][j]} \cap OnNotices = {} /\ delivered[early[l][j]] # <<>>)
            => delivered[early[l][i]] # <<>>

\* What is observed of a layer, and in which order.
ObserversInv == ObserversExact /\ NoticesInOrder

\* No chain stays pending for ever, stopped executor or not.
LayersSettle ==
    \A l \in Layers :
        (/\ l \in created /\ Mode[l] # "starter"
         /\ l \in Chained => settled[Up[l]]
         /\ Mode[l] = "promise" => settled[Child[l]]) ~> settled[l]

\* A notice of a settled layer is called, and no waiter of one keeps waiting.
ObserversReached ==
    /\ \A n \in Notices : (n \in joined /\ settled[Target[n]]) ~> delivered[n] # <<>>
    /\ \A a \in Awaiters : (aw[a] \in {"waiting", "woken"} /\ settled[Awaited[a]])
                           ~> aw[a] \in {"returned", "timeout"}

\* Layers settle and their observers learn of it.
ChainProgress == LayersSettle /\ ObserversReached
===============================================================================

--------------------------- MODULE EventDispatcher ---------------------------
(***************************************************************************)
(* CEventDispatcher (ServerCore/Event): subscriptions changed by some      *)
(* threads while others publish.  Publish copies its targets under the     *)
(* mutex and calls them one by one without it.                             *)
(***************************************************************************)
EXTENDS HandlerTable, FiniteSets

CONSTANTS
    EventTypes,
    Publishers,      \* threads that call Publish and PublishAsync
    AsyncWorker,     \* the executor thread that runs what PublishAsync posted
    MaxSubscribes,   \* bound on Subscribe
    MaxPublishes     \* bound on Publish and PublishAsync

ASSUME DispatcherAssumption == AsyncWorker \notin Publishers /\ {MaxSubscribes, MaxPublishes} \subseteq Nat

VARIABLES
    subs,        \* m_mapSubscriptions and m_mapByType
    publishing,  \* of each thread: the Publish it is in
    asyncQueue,  \* events posted to the executor
    executor,    \* m_pExecutor: none, up, stopped
    published,   \* publications so far
    missed       \* history: ids unsubscribed while a Publish had them among its targets

dispatcherVars == <<subs, publishing, asyncQueue, executor, published, missed>>

\* left: targets to call; got: called; want: the subscribers when it began.
NotPublishing == [on |-> FALSE, left |-> <<>>, got |-> <<>>, want |-> <<>>]

Subscribe(type) ==
    /\ subs.nextId <= MaxSubscribes
    /\ subs' = Added(subs, type)
    /\ UNCHANGED <<publishing, asyncQueue, executor, published, missed>>

\* Unsubscribe, also from a handler; an id that is not known is refused.
Unsubscribe(id) ==
    /\ subs' = IF Known(subs, id) THEN Removed(subs, id) ELSE subs
    /\ missed' = IF Known(subs, id) /\ \E t \in DOMAIN publishing : id \in Range(publishing[t].left)
                 THEN missed \cup {id} ELSE missed
    /\ UNCHANGED <<publishing, asyncQueue, executor, published>>

BeginPublish(t, type) ==
    publishing' = [publishing EXCEPT ![t] =
        [on |-> TRUE, left |-> Targets(subs, type), got |-> <<>>, want |-> Subscribers(subs, type)]]

Publish(t, type) ==
    /\ ~publishing[t].on /\ published < MaxPublishes
    /\ BeginPublish(t, type)
    /\ published' = published + 1
    /\ UNCHANGED <<subs, asyncQueue, executor, missed>>

CallHandler(t) ==
    /\ publishing[t].left # <<>>
    /\ publishing' = [publishing EXCEPT ![t].left = Tail(@), ![t].got = Append(@, Head(publishing[t].left))]
    /\ UNCHANGED <<subs, asyncQueue, executor, published, missed>>

PublishReturns(t) ==
    /\ publishing[t].on /\ publishing[t].left = <<>>
    /\ publishing' = [publishing EXCEPT ![t] = NotPublishing]
    /\ UNCHANGED <<subs, asyncQueue, executor, published, missed>>

\* PublishAsync: without an executor as Publish; a stopped one refuses and the
\* event is gone.
PublishAsync(t, type) ==
    /\ ~publishing[t].on /\ published < MaxPublishes
    /\ published' = published + 1
    /\ IF executor = "none" THEN BeginPublish(t, type) /\ UNCHANGED asyncQueue
       ELSE /\ asyncQueue' = IF executor = "up" THEN Append(asyncQueue, type) ELSE asyncQueue
            /\ UNCHANGED publishing
    /\ UNCHANGED <<subs, executor, missed>>

\* The posted lambda, with the subscribers of this moment.
AsyncPublish ==
    /\ asyncQueue # <<>> /\ ~publishing[AsyncWorker].on
    /\ BeginPublish(AsyncWorker, Head(asyncQueue))
    /\ asyncQueue' = Tail(asyncQueue)
    /\ UNCHANGED <<subs, executor, published, missed>>

DispatcherExecutorStops ==
    /\ executor = "up"
    /\ executor' = "stopped"
    /\ UNCHANGED <<subs, publishing, asyncQueue, published, missed>>

DispatcherInit ==
    /\ subs = EmptyTable(EventTypes)
    /\ publishing = [t \in Publishers \cup {AsyncWorker} |-> NotPublishing]
    /\ asyncQueue = <<>> /\ executor \in {"none", "up"} /\ published = 0 /\ missed = {}

DispatcherNext ==
    \/ \E type \in EventTypes : Subscribe(type) \/ \E t \in Publishers : Publish(t, type) \/ PublishAsync(t, type)
    \/ \E id \in 1 .. subs.nextId : Unsubscribe(id)
    \/ \E t \in DOMAIN publishing : CallHandler(t) \/ PublishReturns(t)
    \/ AsyncPublish \/ DispatcherExecutorStops

DispatcherSpec == DispatcherInit /\ [][DispatcherNext]_dispatcherVars

(***************************************************************************)
(* Properties.                                                             *)
(***************************************************************************)

\* The two maps of the dispatcher agree: every id is listed once under its type,
\* in the order of subscription, so that Publish and SubscriberCount see the same.
MapsAgree == \A type \in EventTypes : subs.byType[type] = Subscribers(subs, type)

\* A Publish calls exactly the handlers subscribed when it began, once each and
\* in order of subscription, whatever is subscribed and unsubscribed meanwhile;
\* a handler that is called after its Unsubscribe() returned was among the targets
\* of a Publish then in progress.
PublishExact ==
    \A t \in DOMAIN publishing :
        /\ publishing[t].got \o publishing[t].left = publishing[t].want
        /\ \A id \in Range(publishing[t].left) : Known(subs, id) \/ id \in missed

\* Subscriptions and publications.
DispatchInv == MapsAgree /\ PublishExact
=============================================================================

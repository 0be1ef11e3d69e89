------------------------------ MODULE FileStore ------------------------------
(***************************************************************************)
(* CFileStore (Common/Storage): one table of items of several tenants,     *)
(* with per-tenant statistics for the quotas and a sequence number that    *)
(* clients use as a cursor.  Every operation holds the mutex throughout.   *)
(* A client of each tenant pulls with ListSince from where it left off.    *)
(***************************************************************************)
EXTENDS Naturals, Sequences, FiniteSets, SequencesExt, Functions, Ascending

CONSTANTS
    Tenants,
    ItemIds,       \* short codes; GenerateId returns one that is not in use
    Sizes,         \* payload sizes, 0 is refused
    MaxItems, MaxTotalBytes, MaxItemBytes,  \* StoreLimits; 0 is no limit
    MaxSaves       \* bound on the items saved

ASSUME StoreAssumption == {MaxItems, MaxTotalBytes, MaxItemBytes, MaxSaves} \cup Sizes \subseteq Nat

ItemKinds == {"kText", "kFile"}

VARIABLES
    items,     \* m_mapItems
    stats,     \* m_mapStats: a missing entry is [n |-> 0, bytes |-> 0]
    nextSeq,   \* m_nNextSeq
    cursor,    \* the largest nSeq each tenant's client has seen
    mirror     \* history: the sequence numbers each client has been given

storeVars == <<items, stats, nextSeq, cursor, mirror>>

NoStat == [n |-> 0, bytes |-> 0]

\* The quota test, against the statistics of the tenant.
WithinLimits(t, size) ==
    /\ MaxItems > 0 => stats[t].n < MaxItems
    /\ MaxItemBytes > 0 => size <= MaxItemBytes
    /\ MaxTotalBytes > 0 => stats[t].bytes + size <= MaxTotalBytes

\* GenerateId, for a table with a free code.
GenerateId(id) == id \in ItemIds \ DOMAIN items

Insert(t, kind, size, id) ==
    /\ size > 0 /\ WithinLimits(t, size) /\ GenerateId(id) /\ nextSeq < MaxSaves
    /\ nextSeq' = nextSeq + 1
    /\ items' = [i \in DOMAIN items \cup {id} |->
                   IF i = id THEN [kind |-> kind, tenant |-> t, size |-> size, seq |-> nextSeq + 1] ELSE items[i]]
    /\ stats' = [stats EXCEPT ![t] = [n |-> @.n + 1, bytes |-> @.bytes + size]]
    /\ UNCHANGED <<cursor, mirror>>

SaveText(t, size, id) == Insert(t, "kText", size, id)
SaveFile(t, size, id) == Insert(t, "kFile", size, id)

\* The reads: all filter by tenant.
GetInfo(t, id) == id \in DOMAIN items /\ items[id].tenant = t
GetText(t, id) == GetInfo(t, id) /\ items[id].kind = "kText"
GetFile(t, id) == GetInfo(t, id) /\ items[id].kind = "kFile"
List(t) == {id \in DOMAIN items : items[id].tenant = t}
ListSince(t, since) == InOrder({items[id].seq : id \in {i \in List(t) : items[i].seq > since}})

\* Remove: an item of another tenant does not exist.
RemoveItem(t, id) ==
    /\ GetInfo(t, id)
    /\ items' = Restrict(items, DOMAIN items \ {id})
    /\ stats' = [stats EXCEPT ![t] = [n |-> IF @.n > 0 THEN @.n - 1 ELSE 0,
                                      bytes |-> IF @.bytes >= items[id].size THEN @.bytes - items[id].size ELSE 0]]
    /\ UNCHANGED <<nextSeq, cursor, mirror>>

\* Mutant: the sequence starts again.
ClearStoreRestarts ==
    /\ items' = <<>>
    /\ stats' = [t \in Tenants |-> NoStat]
    /\ nextSeq' = 0
    /\ UNCHANGED <<cursor, mirror>>

\* Clear: the sequence goes on.
ClearStore ==
    /\ items' = <<>>
    /\ stats' = [t \in Tenants |-> NoStat]
    /\ UNCHANGED <<nextSeq, cursor, mirror>>

\* A client pulls what is new and remembers the last number.
Pull(t) ==
    LET new == ListSince(t, cursor[t]) IN
    /\ new # <<>>
    /\ cursor' = [cursor EXCEPT ![t] = Last(new)]
    /\ mirror' = [mirror EXCEPT ![t] = @ \o new]
    /\ UNCHANGED <<items, stats, nextSeq>>

StoreInit ==
    /\ items = <<>> /\ nextSeq = 0
    /\ stats = [t \in Tenants |-> NoStat]
    /\ cursor = [t \in Tenants |-> 0] /\ mirror = [t \in Tenants |-> <<>>]

StoreNext ==
    \/ ClearStore
    \/ \E t \in Tenants :
         \/ Pull(t)
         \/ \E id \in ItemIds : RemoveItem(t, id) \/ \E size \in Sizes : SaveText(t, size, id) \/ SaveFile(t, size, id)

StoreSpec == StoreInit /\ [][StoreNext]_storeVars

(***************************************************************************)
(* Properties.                                                             *)
(***************************************************************************)

\* Every byte that is stored for a tenant.
BytesOf(t) == UNION {{id} \X (1 .. items[id].size) : id \in List(t)}

\* Count() and TotalBytes(), from which the quotas are decided, are the number
\* and the size of the tenant's items after every sequence of saves, removals and
\* clears, and no tenant is over its quota.
StatsExact ==
    \A t \in Tenants :
        /\ stats[t].n = Cardinality(List(t))
        /\ stats[t].bytes = Cardinality(BytesOf(t))
        /\ MaxItems > 0 => Cardinality(List(t)) <= MaxItems
        /\ MaxTotalBytes > 0 => stats[t].bytes <= MaxTotalBytes

\* Pulling from the last number seen misses nothing and repeats nothing: every
\* item of the tenant up to the cursor has been given to its client, once and in
\* order, also across removals, reuse of short codes and Clear().
CursorComplete ==
    \A t \in Tenants :
        /\ \A id \in List(t) : items[id].seq <= cursor[t] => items[id].seq \in Range(mirror[t])
        /\ \A j, k \in 1 .. Len(mirror[t]) : j < k => mirror[t][j] < mirror[t][k]
        /\ \A u \in Tenants : u # t => Range(mirror[t]) \cap Range(mirror[u]) = {}

\* The store.
StoreInv == StatsExact /\ CursorComplete
=============================================================================

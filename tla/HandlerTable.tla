----------------------------- MODULE HandlerTable ----------------------------
(***************************************************************************)
(* The two maps that CEventDispatcher and CMessageRouter both keep: the    *)
(* handler of each id, and the ids of each type in the order they came.    *)
(* Both are changed and read under one mutex.                              *)
(***************************************************************************)
EXTENDS Naturals, Sequences, SequencesExt, Functions, Ascending

\* nextId is m_nNextId, typeOf the keys of the first map with their type,
\* byType the second; a type without ids has no entry there.
EmptyTable(types) == [nextId |-> 1, typeOf |-> <<>>, byType |-> [t \in types |-> <<>>]]

Known(table, id) == id \in DOMAIN table.typeOf

\* Subscribe / RegisterHandler.
Added(table, type) ==
    [nextId |-> table.nextId + 1,
     typeOf |-> [i \in DOMAIN table.typeOf \cup {table.nextId} |->
                   IF i = table.nextId THEN type ELSE table.typeOf[i]],
     byType |-> [table.byType EXCEPT ![type] = Append(@, table.nextId)]]

\* Mutant: the last id of the type is taken out.
RemovedLast(table, id) ==
    [table EXCEPT !.typeOf = Restrict(@, DOMAIN @ \ {id}),
                  !.byType[table.typeOf[id]] = SubSeq(@, 1, Len(@) - 1)]

Removed(table, id) ==
    [nextId |-> table.nextId,
     typeOf |-> Restrict(table.typeOf, DOMAIN table.typeOf \ {id}),
     byType |-> [table.byType EXCEPT ![table.typeOf[id]] = RemoveFirst(@, id)]]

\* The entries of ids at the positions pos, in the order of pos.
Selected(ids, pos) == [k \in DOMAIN pos |-> ids[pos[k]]]

\* What Publish / Dispatch copies under the mutex.
Targets(table, type) ==
    LET ids == table.byType[type]
    IN  Selected(ids, InOrder({k \in DOMAIN ids : Known(table, ids[k])}))

\* The same by the first map alone.
Subscribers(table, type) == InOrder({i \in DOMAIN table.typeOf : table.typeOf[i] = type})
=============================================================================

--------------------------------- MODULE Gather ---------------------------------
(***************************************************************************)
(* Common/Async/Combine.h: WhenAll, WhenAllSettled, WhenRace and WhenAny.  *)
(* The children settle on threads of their own, before, while or after the *)
(* aggregate registers on them; each settlement reaches OnChildSettled     *)
(* once (PromiseChain, ObserversExact), in any order.                        *)
(***************************************************************************)
EXTENDS Naturals, Sequences, FiniteSets

CONSTANTS MaxChildren   \* bound on the number of children

ASSUME GatherAssumption == MaxChildren \in Nat

Policies == {"all", "allSettled", "race", "any"}

\* Results; a rejection carries the number of the child it comes from, 0 for
\* the framework's own: without a reason, or by a stopped executor.
PendingResult == [s |-> "pending", by |-> 0]
ResolvedResult == [s |-> "resolved", by |-> 0]
RejectedResult(c) == [s |-> "rejected", by |-> c]
Unspecified == RejectedResult(0)
StoppedResult == [s |-> "stopped", by |-> 0]

VARIABLES
    policy,       \* m_ePolicy
    nTotal,       \* how many children the caller passed
    start,        \* the aggregate's first layer: new, posted, binding, bound
    nBound,       \* children registered on so far, in argument order
    child,        \* per child: pending, resolved or rejected
    notices,        \* children whose notice is about to call OnChildSettled
    nPending, bRejectSeen, bDone,  \* the members of CGatherState
    firstReject,  \* m_firstReject
    verdict,      \* what OnChildSettled hands over after its unlock, still to be applied
    aggregate,    \* the result of the aggregate layer
    bStopped,     \* the aggregate's executor refuses
    order         \* history: the results in the order of the OnChildSettled notices

gatherVars == <<policy, nTotal, start, nBound, child, notices, nPending, bRejectSeen, bDone,
          firstReject, verdict, aggregate, bStopped, order>>

Children == 1..nTotal
Outcomes(c) == {ResolvedResult, RejectedResult(c)}

-------------------------------------------------------------------------------

ResolveEmptyGather(pol) == IF pol \in {"all", "allSettled"} THEN ResolvedResult ELSE Unspecified

\* The first Settle of the aggregate layer counts.
SettleAggregate(res) == aggregate' = IF aggregate = PendingResult THEN res ELSE aggregate

\* Gather: the aggregate's layer is posted or run in place; both are "posted".
\* A stopped executor settles it at once and no child is registered on.
GatherStart ==
    /\ start = "new"
    /\ IF bStopped THEN start' = "bound" /\ SettleAggregate(StoppedResult)
       ELSE start' = "posted" /\ aggregate' = aggregate
    /\ UNCHANGED <<policy, nTotal, nBound, child, notices, nPending, bRejectSeen, bDone,
                   firstReject, verdict, bStopped, order>>

\* The layer runs: without children it yields the result at once, else it
\* creates the CGatherState.
GatherRun ==
    /\ start = "posted"
    /\ IF nTotal = 0 THEN start' = "bound" /\ SettleAggregate(ResolveEmptyGather(policy))
       ELSE start' = "binding" /\ aggregate' = aggregate
    /\ nPending' = nTotal
    /\ UNCHANGED <<policy, nTotal, nBound, child, notices, bRejectSeen, bDone, firstReject,
                   verdict, bStopped, order>>

\* BindChildGather for the next child: a child that is settled already notices
\* back as well.
BindChildGather ==
    /\ start = "binding"
    /\ nBound' = nBound + 1
    /\ start' = IF nBound + 1 = nTotal THEN "bound" ELSE "binding"
    /\ notices' = IF child[nBound + 1] = PendingResult THEN notices ELSE notices \cup {nBound + 1}
    /\ UNCHANGED <<policy, nTotal, child, nPending, bRejectSeen, bDone, firstReject, verdict,
                   aggregate, bStopped, order>>

ChildSettles(c, res) ==
    /\ child[c] = PendingResult
    /\ child' = [child EXCEPT ![c] = res]
    /\ notices' = IF c <= nBound THEN notices \cup {c} ELSE notices
    /\ UNCHANGED <<policy, nTotal, start, nBound, nPending, bRejectSeen, bDone, firstReject,
                   verdict, aggregate, bStopped, order>>

\* Mutant: WhenAny rejects with the last rejection.
VerdictLastReject(c, left, reject) ==
    CASE policy = "all" /\ child[c] # ResolvedResult -> <<child[c]>>
      [] policy = "all" /\ child[c] = ResolvedResult -> IF left = 0 THEN <<ResolvedResult>> ELSE <<>>
      [] policy = "allSettled" -> IF left = 0 THEN <<ResolvedResult>> ELSE <<>>
      [] policy = "race" -> <<child[c]>>
      [] policy = "any" /\ child[c] = ResolvedResult -> <<ResolvedResult>>
      [] policy = "any" /\ child[c] # ResolvedResult -> IF left = 0 THEN <<child[c]>> ELSE <<>>

\* What child c, with left children still out, decides: a result or nothing.
Verdict(c, left, reject) ==
    CASE policy = "all" /\ child[c] # ResolvedResult -> <<child[c]>>
      [] policy = "all" /\ child[c] = ResolvedResult -> IF left = 0 THEN <<ResolvedResult>> ELSE <<>>
      [] policy = "allSettled" -> IF left = 0 THEN <<ResolvedResult>> ELSE <<>>
      [] policy = "race" -> <<child[c]>>
      [] policy = "any" /\ child[c] = ResolvedResult -> <<ResolvedResult>>
      [] policy = "any" /\ child[c] # ResolvedResult -> IF left = 0 THEN <<reject>> ELSE <<>>

\* OnChildSettled, with the lock held.
OnChildSettled(c) ==
    LET first == IF child[c] # ResolvedResult /\ ~bRejectSeen THEN child[c] ELSE firstReject
        out == Verdict(c, nPending - 1, first) IN
    /\ c \in notices
    /\ notices' = notices \ {c}
    /\ order' = Append(order, child[c])
    /\ IF bDone THEN UNCHANGED <<nPending, bRejectSeen, firstReject, bDone, verdict>>
       ELSE /\ nPending' = nPending - 1
            /\ bRejectSeen' = (bRejectSeen \/ child[c] # ResolvedResult)
            /\ firstReject' = first
            /\ bDone' = (out # <<>>)
            /\ verdict' = verdict \o out
    /\ UNCHANGED <<policy, nTotal, start, nBound, child, aggregate, bStopped>>

\* After the unlock: resolve or reject of the aggregate.
ApplyVerdict ==
    /\ verdict # <<>>
    /\ SettleAggregate(Head(verdict))
    /\ verdict' = Tail(verdict)
    /\ UNCHANGED <<policy, nTotal, start, nBound, child, notices, nPending, bRejectSeen, bDone,
                   firstReject, bStopped, order>>

StopExecutor ==
    /\ ~bStopped
    /\ bStopped' = TRUE
    /\ UNCHANGED <<policy, nTotal, start, nBound, child, notices, nPending, bRejectSeen, bDone,
                   firstReject, verdict, aggregate, order>>

-------------------------------------------------------------------------------
GatherInit ==
    /\ policy \in Policies /\ nTotal \in 0..MaxChildren
    /\ start = "new" /\ nBound = 0
    /\ child = [c \in Children |-> PendingResult] /\ notices = {}
    /\ nPending = 0 /\ bRejectSeen = FALSE /\ bDone = FALSE /\ firstReject = Unspecified
    /\ verdict = <<>> /\ aggregate = PendingResult
    /\ bStopped = FALSE /\ order = <<>>

GatherStep == GatherRun \/ BindChildGather
GatherQuiet == start = "bound" /\ notices = {} /\ verdict = <<>>
GatherFinished == GatherQuiet /\ (\A c \in Children : child[c] # PendingResult) /\ UNCHANGED gatherVars

GatherNext ==
    \/ GatherStart \/ GatherStep
    \/ \E c \in Children : OnChildSettled(c) \/ \E res \in Outcomes(c) : ChildSettles(c, res)
    \/ ApplyVerdict
    \/ StopExecutor
    \/ GatherFinished

GatherSpec == GatherInit /\ [][GatherNext]_gatherVars

\* The framework's threads go on; nobody is obliged to call, no child to settle.
GatherFairness ==
    /\ WF_gatherVars(GatherStep) /\ WF_gatherVars(ApplyVerdict)
    /\ \A c \in 1..MaxChildren : WF_gatherVars(c \in Children /\ OnChildSettled(c))

GatherFairSpec == GatherSpec /\ GatherFairness

-------------------------------------------------------------------------------
(* Properties. *)

\* Every variable keeps its type.
GatherTypeOK ==
    /\ policy \in Policies /\ nTotal \in 0..MaxChildren
    /\ start \in {"new", "posted", "binding", "bound"} /\ nBound \in 0..nTotal
    /\ (\A c \in Children : child[c] \in {PendingResult} \cup Outcomes(c)) /\ notices \subseteq Children
    /\ nPending \in 0..nTotal /\ bRejectSeen \in BOOLEAN /\ bDone \in BOOLEAN
    /\ bStopped \in BOOLEAN /\ Len(verdict) <= 1

\* The JavaScript meaning of the four combinators, as a function of the order in
\* which the children reported: Promise.all, allSettled, race and any.
Rejections == {i \in 1..Len(order) : order[i] # ResolvedResult}
FirstOf(S) == CHOOSE i \in S : \A j \in S : i <= j
Reference ==
    CASE policy = "all" /\ Rejections # {} -> order[FirstOf(Rejections)]
      [] policy = "all" /\ Rejections = {} -> IF Len(order) = nTotal THEN ResolvedResult ELSE PendingResult
      [] policy = "allSettled" -> IF Len(order) = nTotal THEN ResolvedResult ELSE PendingResult
      [] policy = "race" -> IF order = <<>> THEN PendingResult ELSE order[1]
      [] policy = "any" -> IF \E i \in 1..Len(order) : order[i] = ResolvedResult THEN ResolvedResult
                           ELSE IF Len(order) < nTotal THEN PendingResult
                           ELSE order[FirstOf(Rejections)]

\* Whatever the interleaving of registrations and settlements, the aggregate is
\* settled with the reference result as soon as the notices received decide it,
\* and stays pending until then; the decision is made once.  Without children
\* it does not wait: all and allSettled are resolved, race and any rejected.
MatchesReference ==
    aggregate # StoppedResult =>
        /\ nTotal > 0 /\ verdict = <<>> => aggregate = Reference
        /\ nTotal > 0 /\ verdict # <<>> => aggregate = PendingResult /\ verdict = <<Reference>>
        /\ nTotal = 0 /\ GatherQuiet =>
             aggregate = IF policy \in {"all", "allSettled"} THEN ResolvedResult ELSE Unspecified

\* Types, and the result the reference prescribes.
GatherInv == GatherTypeOK /\ MatchesReference

\* Once every child is settled the aggregate gets settled.
AggregateSettles ==
    (start # "new" /\ \A c \in Children : child[c] # PendingResult) ~> aggregate # PendingResult
===============================================================================

----------------------------- MODULE AsyncProofs ------------------------------
(***************************************************************************)
(* Proofs about the combinators (module Gather): for any number of         *)
(* children, whatever the order in which they settle and are registered    *)
(* on, the aggregate has the result its reference prescribes; and about    *)
(* the coroutine (module Coroutine): whatever it awaits and whoever        *)
(* settles it, one continuation carries its body on.                       *)
(***************************************************************************)
EXTENDS Gather, Coroutine, FiniteSetTheorems, TLAPS

\* The children that have reported, by what is left of them: registered on,
\* settled and with no notice on its way.
Heard == {c \in 1..nBound : child[c] # PendingResult} \ notices

\* Results that a child can report.
Reports == {ResolvedResult} \cup {RejectedResult(c) : c \in 1..MaxChildren}

\* The types GatherTypeOK leaves out.
GatherTypes ==
    /\ GatherTypeOK
    /\ child \in [Children -> {PendingResult} \cup Reports]
    /\ order \in Seq(Reports) /\ verdict \in Seq(Reports)

\* Every report is counted, no child reports twice, and only children that are
\* registered on and settled have something to report.
EachCounted ==
    /\ Len(order) = Cardinality(Heard)
    /\ \A c \in notices : c <= nBound /\ child[c] # PendingResult

\* Where the first layer of the aggregate is.  A stopped executor, or an empty
\* list of children, ends it before anything is registered on.
StartKnown ==
    /\ start \in {"new", "posted"} => nBound = 0 /\ aggregate = PendingResult
    /\ start = "binding" => nBound < nTotal
    /\ start = "bound" /\ nTotal = 0 => aggregate \in {StoppedResult, ResolveEmptyGather(policy)}
    /\ start = "binding" \/ nBound > 0 =>
         aggregate # StoppedResult /\ (~bDone => nPending = nTotal - Len(order))
    /\ start = "bound" /\ nBound = 0 /\ nTotal > 0 => aggregate = StoppedResult

\* If there are rejections, one of them was the first.
HasFirst == Rejections # {} => \E i \in Rejections : \A j \in Rejections : i <= j

\* CGatherState is done as soon as the reports decide, and not before; until then
\* it remembers the first rejection.
DoneKnown ==
    IF nTotal = 0 THEN verdict = <<>> ELSE
      /\ bDone <=> Reference # PendingResult
      /\ ~bDone => verdict = <<>>
      /\ ~bDone /\ bRejectSeen => Rejections # {} /\ firstReject = order[FirstOf(Rejections)]
      /\ ~bDone /\ ~bRejectSeen => Rejections = {}

\* The inductive invariant.
GatherIInv == GatherTypes /\ EachCounted /\ StartKnown /\ HasFirst /\ DoneKnown /\ MatchesReference

-------------------------------------------------------------------------------
(* The reference, as an operator on the reports. *)

RejectionsIn(s) == {i \in 1..Len(s) : s[i] # ResolvedResult}
FirstKnown(s) == RejectionsIn(s) # {} => \E i \in RejectionsIn(s) : \A j \in RejectionsIn(s) : i <= j
FirstRejection(s) == s[FirstOf(RejectionsIn(s))]

ReferenceOf(pol, n, s) ==
    CASE pol = "all" /\ RejectionsIn(s) # {} -> FirstRejection(s)
      [] pol = "all" /\ RejectionsIn(s) = {} -> IF Len(s) = n THEN ResolvedResult ELSE PendingResult
      [] pol = "allSettled" -> IF Len(s) = n THEN ResolvedResult ELSE PendingResult
      [] pol = "race" -> IF s = <<>> THEN PendingResult ELSE s[1]
      [] pol = "any" -> IF \E i \in 1..Len(s) : s[i] = ResolvedResult THEN ResolvedResult
                        ELSE IF Len(s) < n THEN PendingResult
                        ELSE FirstRejection(s)

\* It is the reference of the model.
LEMMA ReferenceIs ==
    /\ Rejections = RejectionsIn(order) /\ (HasFirst <=> FirstKnown(order))
    /\ Reference = ReferenceOf(policy, nTotal, order)
BY DEF Rejections, RejectionsIn, HasFirst, FirstKnown, Reference, ReferenceOf, FirstRejection

\* The results are different from one another.
LEMMA ResultsDiffer ==
    /\ ResolvedResult # PendingResult /\ StoppedResult # PendingResult /\ Unspecified # PendingResult
    /\ Unspecified # StoppedResult /\ ResolvedResult # StoppedResult
    /\ \A r \in Reports : r # PendingResult /\ r # StoppedResult
BY DEF ResolvedResult, PendingResult, StoppedResult, Unspecified, RejectedResult, Reports

\* Where the elements of an extended sequence are.
LEMMA Extended ==
    ASSUME NEW S, NEW s \in Seq(S), NEW r \in S, NEW t, t = Append(s, r)
    PROVE  /\ t \in Seq(S) /\ Len(t) = Len(s) + 1 /\ Len(s) \in Nat /\ t[Len(t)] = r /\ t # <<>>
           /\ \A i \in 1..Len(s) : i \in 1..Len(t) /\ t[i] = s[i]
           /\ \A i \in 1..Len(t) : i \in 1..Len(s) \/ i = Len(t)
OBVIOUS

\* A least element is the one FirstOf chooses.
LEMMA FirstIs ==
    ASSUME NEW S \in SUBSET Nat, NEW i \in S, \A j \in S : i <= j
    PROVE  FirstOf(S) = i
<1>1. FirstOf(S) \in S /\ \A j \in S : FirstOf(S) <= j
  BY DEF FirstOf
<1>2. FirstOf(S) <= i /\ i <= FirstOf(S) /\ FirstOf(S) \in Nat /\ i \in Nat
  BY <1>1
<1> QED BY <1>2

\* A report more: the first rejection stays the first, or the report is it.
LEMMA OneMore ==
    ASSUME NEW s \in Seq(Reports), NEW r \in Reports, FirstKnown(s), NEW t, t = Append(s, r)
    PROVE  /\ FirstKnown(t)
           /\ RejectionsIn(t) = RejectionsIn(s) \cup (IF r = ResolvedResult THEN {} ELSE {Len(t)})
           /\ RejectionsIn(s) # {} => FirstRejection(t) = FirstRejection(s) /\ FirstRejection(s) \in Reports
           /\ RejectionsIn(s) = {} /\ r # ResolvedResult => FirstRejection(t) = r
<1>1. /\ Len(t) = Len(s) + 1 /\ Len(s) \in Nat /\ t[Len(t)] = r
      /\ \A i \in 1..Len(s) : i \in 1..Len(t) /\ t[i] = s[i]
      /\ \A i \in 1..Len(t) : i \in 1..Len(s) \/ i = Len(t)
  BY Extended
<1>2. Len(t) \in 1..Len(t) /\ \A i \in 1..Len(s) : i # Len(t) /\ i < Len(t)
  BY <1>1
<1>3. RejectionsIn(t) = RejectionsIn(s) \cup (IF r = ResolvedResult THEN {} ELSE {Len(t)})
  <2>1. ASSUME NEW i, i \in RejectionsIn(t) PROVE i \in RejectionsIn(s) \/ (r # ResolvedResult /\ i = Len(t))
    BY <1>1, <2>1 DEF RejectionsIn
  <2>2. ASSUME NEW i, i \in RejectionsIn(s) PROVE i \in RejectionsIn(t)
    BY <1>1, <2>2 DEF RejectionsIn
  <2>3. r # ResolvedResult => Len(t) \in RejectionsIn(t)
    BY <1>1, <1>2 DEF RejectionsIn
  <2> QED BY <2>1, <2>2, <2>3
<1>4. RejectionsIn(s) \in SUBSET Nat /\ RejectionsIn(t) \in SUBSET Nat
  BY DEF RejectionsIn
<1>5. ASSUME RejectionsIn(s) # {}
      PROVE  FirstKnown(t) /\ FirstRejection(t) = FirstRejection(s) /\ FirstRejection(s) \in Reports
  <2>1. PICK i \in RejectionsIn(s) : \A j \in RejectionsIn(s) : i <= j
    BY <1>5 DEF FirstKnown
  <2>2. i \in 1..Len(s) /\ i <= Len(t)
    BY <1>1, <2>1 DEF RejectionsIn
  <2>3. i \in RejectionsIn(t) /\ \A j \in RejectionsIn(t) : i <= j
    BY <1>3, <2>1, <2>2
  <2>4. FirstOf(RejectionsIn(s)) = i
    BY <1>4, <2>1, FirstIs
  <2>5. FirstOf(RejectionsIn(t)) = i
    BY <1>4, <2>3, FirstIs
  <2>6. s[i] \in Reports
    BY <2>2
  <2> QED BY <1>1, <2>2, <2>3, <2>4, <2>5, <2>6 DEF FirstKnown, FirstRejection
<1>6. ASSUME RejectionsIn(s) = {}, r # ResolvedResult
      PROVE  FirstKnown(t) /\ FirstRejection(t) = r
  <2>1. RejectionsIn(t) = {Len(t)} /\ Len(t) \in Nat
    BY <1>1, <1>3, <1>6
  <2>2. FirstOf(RejectionsIn(t)) = Len(t)
    BY <2>1, FirstIs, <1>4
  <2> QED BY <1>1, <2>1, <2>2 DEF FirstKnown, FirstRejection
<1>7. ASSUME RejectionsIn(s) = {}, r = ResolvedResult PROVE FirstKnown(t)
  BY <1>3, <1>7 DEF FirstKnown
<1> QED BY <1>3, <1>5, <1>6, <1>7

\* What is decided stays decided, as long as children are left to report.
LEMMA DecidedStays ==
    ASSUME NEW pol \in Policies, NEW n \in Nat, NEW s \in Seq(Reports), NEW r \in Reports,
           FirstKnown(s), Len(s) < n, NEW t, t = Append(s, r), ReferenceOf(pol, n, s) # PendingResult
    PROVE  ReferenceOf(pol, n, t) = ReferenceOf(pol, n, s)
<1>1. /\ Len(t) = Len(s) + 1 /\ Len(s) \in Nat /\ t # <<>>
      /\ \A i \in 1..Len(s) : i \in 1..Len(t) /\ t[i] = s[i]
  BY Extended
<1>2. RejectionsIn(s) # {} => FirstRejection(t) = FirstRejection(s) /\ RejectionsIn(t) # {}
  <2>1. RejectionsIn(t) = RejectionsIn(s) \cup (IF r = ResolvedResult THEN {} ELSE {Len(t)})
    BY OneMore
  <2>2. RejectionsIn(s) # {} => FirstRejection(t) = FirstRejection(s)
    BY OneMore
  <2> QED BY <2>1, <2>2
<1>3. CASE pol = "all"
  BY <1>2, <1>3 DEF ReferenceOf
<1>4. CASE pol = "allSettled"
  BY <1>4 DEF ReferenceOf
<1>5. CASE pol = "race"
  <2>1. s # <<>> /\ 1 \in 1..Len(s)
    BY <1>5 DEF ReferenceOf
  <2> QED BY <1>1, <1>5, <2>1 DEF ReferenceOf
<1>6. CASE pol = "any"
  BY <1>1, <1>6 DEF ReferenceOf
<1> QED BY <1>3, <1>4, <1>5, <1>6 DEF Policies

\* A verdict says what the result is, or nothing while it is pending.
Says(out, res) == out = IF res = PendingResult THEN <<>> ELSE <<res>>

\* With nothing decided, OnChildSettled decides what the reference says.
LEMMA VerdictIsReference ==
    ASSUME NEW n \in Nat, NEW s \in Seq(Reports), NEW c, child[c] \in Reports, policy \in Policies,
           FirstKnown(s), Len(s) < n, ReferenceOf(policy, n, s) = PendingResult,
           NEW t, t = Append(s, child[c]), NEW first,
           RejectionsIn(t) # {} => first = FirstRejection(t)
    PROVE  Says(Verdict(c, n - Len(s) - 1, first), ReferenceOf(policy, n, t))
<1>1. /\ Len(t) = Len(s) + 1 /\ Len(s) \in Nat /\ t[Len(t)] = child[c] /\ t # <<>>
      /\ \A i \in 1..Len(s) : i \in 1..Len(t) /\ t[i] = s[i]
      /\ \A i \in 1..Len(t) : i \in 1..Len(s) \/ i = Len(t)
  BY Extended
<1>2. /\ RejectionsIn(t) = RejectionsIn(s) \cup (IF child[c] = ResolvedResult THEN {} ELSE {Len(t)})
      /\ RejectionsIn(s) # {} => FirstRejection(t) = FirstRejection(s) /\ FirstRejection(s) \in Reports
      /\ RejectionsIn(s) = {} /\ child[c] # ResolvedResult => FirstRejection(t) = child[c]
  BY OneMore
<1>3. (n - Len(s) - 1 = 0 <=> Len(t) = n) /\ (Len(t) < n <=> Len(t) # n)
  BY <1>1
<1>4. child[c] # PendingResult /\ ResolvedResult # PendingResult /\ \A r \in Reports : r # PendingResult
  BY ResultsDiffer
<1>5. CASE policy = "all"
  <2>1. RejectionsIn(s) = {}
    BY <1>2, <1>4, <1>5 DEF ReferenceOf
  <2> QED BY <1>2, <1>3, <1>4, <1>5, <2>1 DEF ReferenceOf, Verdict, Says
<1>6. CASE policy = "allSettled"
  BY <1>3, <1>4, <1>6 DEF ReferenceOf, Verdict, Says
<1>7. CASE policy = "race"
  <2>1. s = <<>>
    <3>1. ASSUME s # <<>> PROVE FALSE
      <4>1. s[1] \in Reports
        BY <3>1
      <4> QED BY <1>4, <1>7, <3>1, <4>1 DEF ReferenceOf
    <3> QED BY <3>1
  <2>2. t[1] = child[c]
    BY <1>1, <2>1
  <2> QED BY <1>1, <1>4, <1>7, <2>2 DEF ReferenceOf, Verdict, Says
<1>8. CASE policy = "any"
  <2>1. \A i \in 1..Len(s) : s[i] # ResolvedResult
    BY <1>4, <1>8 DEF ReferenceOf
  <2>2. (\E i \in 1..Len(t) : t[i] = ResolvedResult) <=> child[c] = ResolvedResult
    <3>1. Len(t) \in 1..Len(t)
      BY <1>1
    <3> QED BY <1>1, <2>1, <3>1
  <2>3. ASSUME child[c] # ResolvedResult PROVE first = FirstRejection(t) /\ first # PendingResult
    <3>1. RejectionsIn(t) # {}
      BY <1>2, <2>3
    <3>2. FirstRejection(t) \in Reports
      BY <1>2, <2>3
    <3> QED BY <1>4, <3>1, <3>2
  <2> QED BY <1>3, <1>4, <1>8, <2>2, <2>3 DEF ReferenceOf, Verdict, Says
<1> QED BY <1>5, <1>6, <1>7, <1>8 DEF Policies

-------------------------------------------------------------------------------
(* The steps. *)

\* Nothing is decided before anything is reported.
LEMMA NothingYet ==
    ASSUME NEW pol \in Policies, NEW n \in Nat, n > 0
    PROVE  ReferenceOf(pol, n, <<>>) = PendingResult /\ RejectionsIn(<<>>) = {} /\ FirstKnown(<<>>)
<1>1. RejectionsIn(<<>>) = {} /\ Len(<<>>) = 0
  BY DEF RejectionsIn
<1> QED BY <1>1 DEF ReferenceOf, FirstKnown, Policies

\* The set of those heard is finite, and all are children.
LEMMA HeardFinite ==
    ASSUME GatherTypes
    PROVE  /\ IsFiniteSet(Heard) /\ Cardinality(Heard) \in Nat
           /\ Heard \subseteq Children /\ Cardinality(Heard) <= nTotal
           /\ \A c \in Children \ Heard : Cardinality(Heard) < nTotal
<1>1. nTotal \in Nat /\ nBound \in 0..nTotal
  BY GatherAssumption DEF GatherTypes, GatherTypeOK
<1>2. IsFiniteSet(1..nTotal) /\ Cardinality(1..nTotal) = nTotal
  BY <1>1, FS_Interval
<1>3. Heard \subseteq 1..nTotal
  BY <1>1 DEF Heard
<1>4. IsFiniteSet(Heard) /\ Cardinality(Heard) <= nTotal /\ (nTotal = Cardinality(Heard) => 1..nTotal = Heard)
  BY <1>2, <1>3, FS_Subset
<1>5. Cardinality(Heard) \in Nat
  BY <1>4, FS_CardinalityType
<1> QED BY <1>1, <1>3, <1>4, <1>5 DEF Children

\* A new aggregate.
LEMMA GatherInitIInv == GatherInit => GatherIInv
<1> SUFFICES ASSUME GatherInit PROVE GatherIInv
  OBVIOUS
<1>1. nTotal \in Nat /\ policy \in Policies /\ order = <<>> /\ verdict = <<>>
  BY GatherAssumption DEF GatherInit
<1>2. GatherTypes
  <2>1. child \in [Children -> {PendingResult} \cup Reports] /\ \A c \in Children : child[c] = PendingResult
    BY DEF GatherInit
  <2>2. GatherTypeOK
    <3>1. Len(verdict) <= 1 /\ 0 \in 0..nTotal
      BY <1>1
    <3> QED BY <2>1, <3>1 DEF GatherInit, GatherTypeOK
  <2> QED BY <1>1, <2>1, <2>2 DEF GatherTypes
<1>3. EachCounted
  <2>1. Heard = {}
    BY DEF GatherInit, Heard
  <2> QED BY <1>1, <2>1, FS_EmptySet DEF GatherInit, EachCounted
<1>4. StartKnown
  BY DEF GatherInit, StartKnown
<1>5. nTotal > 0 => Reference = PendingResult /\ Rejections = {}
  BY <1>1, NothingYet, ReferenceIs
<1>6. Rejections = {}
  BY <1>1 DEF Rejections
<1>7. DoneKnown /\ HasFirst
  BY <1>1, <1>5, <1>6 DEF GatherInit, DoneKnown, HasFirst
<1>8. MatchesReference
  BY <1>1, <1>5 DEF GatherInit, MatchesReference, GatherQuiet
<1> QED BY <1>2, <1>3, <1>4, <1>7, <1>8 DEF GatherIInv

\* A step that leaves the reports and the arguments alone leaves the reference alone.
LEMMA SameReference ==
    ASSUME UNCHANGED <<policy, nTotal, order>>
    PROVE  /\ Reference' = Reference /\ Rejections' = Rejections /\ Children' = Children
           /\ FirstOf(Rejections)' = FirstOf(Rejections) /\ (HasFirst' <=> HasFirst)
BY DEF Reference, Rejections, FirstOf, Children, HasFirst

\* Gather() posts the layer, or settles it if the executor is stopped.
LEMMA GatherStartStep == ASSUME GatherIInv, GatherStart PROVE GatherIInv'
<1> USE DEF GatherIInv
<1>1. /\ start = "new" /\ nBound = 0 /\ aggregate = PendingResult
      /\ UNCHANGED <<policy, nTotal, nBound, child, notices, nPending, bRejectSeen, bDone,
                   firstReject, verdict, bStopped, order>>
      /\ \/ start' = "bound" /\ aggregate' = StoppedResult
         \/ start' = "posted" /\ aggregate' = aggregate
  BY DEF GatherStart, SettleAggregate, StartKnown
<1>2. GatherTypes'
  BY <1>1 DEF GatherTypes, GatherTypeOK, Children
<1>3. EachCounted'
  BY <1>1 DEF EachCounted, Heard
<1>4. StartKnown'
  BY <1>1 DEF StartKnown
<1>5. HasFirst' /\ DoneKnown'
  BY <1>1, SameReference DEF DoneKnown
<1>6. MatchesReference'
  BY <1>1, SameReference, ResultsDiffer DEF MatchesReference, GatherQuiet
<1> QED BY <1>2, <1>3, <1>4, <1>5, <1>6

\* The layer runs and creates the CGatherState, or yields at once.
LEMMA GatherRunStep == ASSUME GatherIInv, GatherRun PROVE GatherIInv'
<1> USE DEF GatherIInv
<1>0. nTotal \in Nat /\ policy \in Policies
  BY GatherAssumption DEF GatherTypes, GatherTypeOK
<1>1. /\ start = "posted" /\ nBound = 0 /\ aggregate = PendingResult /\ nPending' = nTotal
      /\ UNCHANGED <<policy, nTotal, nBound, child, notices, bRejectSeen, bDone, firstReject,
                   verdict, bStopped, order>>
      /\ \/ nTotal = 0 /\ start' = "bound" /\ aggregate' = ResolveEmptyGather(policy)
         \/ nTotal > 0 /\ start' = "binding" /\ aggregate' = aggregate
  BY <1>0 DEF GatherRun, SettleAggregate, StartKnown
<1>2. GatherTypes'
  BY <1>0, <1>1 DEF GatherTypes, GatherTypeOK, Children
<1>3. EachCounted'
  BY <1>1 DEF EachCounted, Heard
<1>4. Len(order) = 0
  <2>1. Heard = {}
    BY <1>1 DEF Heard
  <2> QED BY <2>1, FS_EmptySet DEF EachCounted
<1>5. StartKnown'
  BY <1>0, <1>1, <1>4, ResultsDiffer DEF StartKnown
<1>6. HasFirst' /\ DoneKnown'
  BY <1>1, SameReference DEF DoneKnown
<1>7. MatchesReference'
  BY <1>1, SameReference, ResultsDiffer DEF MatchesReference, GatherQuiet, ResolveEmptyGather
<1> QED BY <1>2, <1>3, <1>5, <1>6, <1>7

\* The next child is registered on: it has not been heard of yet.
LEMMA BindStep == ASSUME GatherIInv, BindChildGather PROVE GatherIInv'
<1> USE DEF GatherIInv
<1>0. nTotal \in Nat /\ policy \in Policies /\ nBound \in 0..nTotal /\ notices \subseteq 1..nTotal
  BY GatherAssumption DEF GatherTypes, GatherTypeOK, Children
<1>1. /\ start = "binding" /\ nBound < nTotal /\ nBound' = nBound + 1
      /\ start' = IF nBound + 1 = nTotal THEN "bound" ELSE "binding"
      /\ notices' = IF child[nBound + 1] = PendingResult THEN notices ELSE notices \cup {nBound + 1}
      /\ UNCHANGED <<policy, nTotal, child, nPending, bRejectSeen, bDone, firstReject, verdict,
                   aggregate, bStopped, order>>
  BY DEF BindChildGather, StartKnown
<1>2. GatherTypes'
  BY <1>0, <1>1 DEF GatherTypes, GatherTypeOK, Children
<1>3. Heard' = Heard
  <2>1. nBound + 1 \notin notices /\ \A c \in 1..nBound : c # nBound + 1
    BY <1>0 DEF EachCounted
  <2>2. \A c : c \in 1..(nBound + 1) <=> c \in 1..nBound \/ c = nBound + 1
    BY <1>0
  <2> QED BY <1>1, <2>1, <2>2 DEF Heard
<1>4. EachCounted'
  BY <1>0, <1>1, <1>3 DEF EachCounted
<1>5. StartKnown'
  BY <1>0, <1>1 DEF StartKnown
<1>6. HasFirst' /\ DoneKnown'
  BY <1>1, SameReference DEF DoneKnown
<1>7. MatchesReference'
  BY <1>0, <1>1, SameReference DEF MatchesReference, GatherQuiet
<1> QED BY <1>2, <1>3, <1>4, <1>5, <1>6, <1>7

\* A child settles, registered on or not.
LEMMA ChildStep ==
    ASSUME GatherIInv, NEW c \in Children, NEW res \in Outcomes(c), ChildSettles(c, res)
    PROVE  GatherIInv'
<1> USE DEF GatherIInv
<1>0. nTotal \in 0..MaxChildren /\ MaxChildren \in Nat /\ nBound \in 0..nTotal /\ notices \subseteq 1..nTotal
  BY GatherAssumption DEF GatherTypes, GatherTypeOK, Children
<1>1. /\ child[c] = PendingResult /\ child' = [child EXCEPT ![c] = res]
      /\ notices' = IF c <= nBound THEN notices \cup {c} ELSE notices
      /\ UNCHANGED <<policy, nTotal, start, nBound, nPending, bRejectSeen, bDone, firstReject,
                   verdict, aggregate, bStopped, order>>
  BY DEF ChildSettles
<1>2. res \in Reports /\ c \in 1..nTotal
  BY <1>0 DEF Outcomes, Reports, Children
<1>3. child' \in [Children -> {PendingResult} \cup Reports] /\ Children' = Children
      /\ child'[c] = res /\ \A d \in Children : d # c => child'[d] = child[d]
  BY <1>1, <1>2 DEF GatherTypes, Children
<1>4. GatherTypes'
  <2>1. \A d \in Children : child'[d] \in {PendingResult} \cup Outcomes(d)
    BY <1>3 DEF GatherTypes, GatherTypeOK
  <2>2. notices' \subseteq Children
    BY <1>0, <1>1, <1>2 DEF Children
  <2>3. GatherTypeOK'
    BY <1>1, <1>3, <2>1, <2>2 DEF GatherTypes, GatherTypeOK, Outcomes
  <2> QED BY <1>1, <1>3, <2>3 DEF GatherTypes
<1>5. res # PendingResult
  BY <1>2, ResultsDiffer
<1>6. Heard' = Heard
  <2>1. ASSUME NEW d \in 1..nBound PROVE d \in Heard' <=> d \in Heard
    <3>1. d \in Children
      BY <1>0 DEF Children
    <3>2. CASE d = c
      BY <1>0, <1>1, <3>2 DEF Heard
    <3>3. CASE d # c
      BY <1>1, <1>3, <3>1, <3>3 DEF Heard
    <3> QED BY <3>2, <3>3
  <2> QED BY <1>1, <2>1 DEF Heard
<1>7. EachCounted'
  <2>1. ASSUME NEW d \in notices' PROVE d <= nBound' /\ child'[d] # PendingResult
    <3>1. CASE d = c
      BY <1>0, <1>1, <1>3, <1>5, <3>1 DEF EachCounted
    <3>2. CASE d # c
      BY <1>0, <1>1, <1>3, <3>2 DEF EachCounted, Children
    <3> QED BY <3>1, <3>2
  <2> QED BY <1>1, <1>6, <2>1 DEF EachCounted
<1>8. StartKnown'
  BY <1>1 DEF StartKnown
<1>9. HasFirst' /\ DoneKnown'
  BY <1>1, SameReference DEF DoneKnown
<1>10. MatchesReference'
  <2>1. nTotal > 0
    BY <1>0, <1>2
  <2> QED BY <1>1, <2>1, SameReference DEF MatchesReference
<1> QED BY <1>4, <1>7, <1>8, <1>9, <1>10

\* The reference is pending or what some child reported or would report.
LEMMA ReferenceType ==
    ASSUME NEW pol \in Policies, NEW n \in Nat, n > 0, NEW s \in Seq(Reports), FirstKnown(s)
    PROVE  ReferenceOf(pol, n, s) \in {PendingResult} \cup Reports
<1>1. RejectionsIn(s) # {} => FirstRejection(s) \in Reports
  <2> SUFFICES ASSUME RejectionsIn(s) # {} PROVE FirstRejection(s) \in Reports
    OBVIOUS
  <2>1. PICK i \in RejectionsIn(s) : \A j \in RejectionsIn(s) : i <= j
    BY DEF FirstKnown
  <2>2. i \in 1..Len(s) /\ RejectionsIn(s) \in SUBSET Nat
    BY DEF RejectionsIn
  <2>3. FirstOf(RejectionsIn(s)) = i
    BY <2>1, <2>2, FirstIs
  <2> QED BY <2>2, <2>3 DEF FirstRejection
<1>2. ResolvedResult \in Reports
  BY DEF Reports
<1>3. CASE pol \in {"all", "allSettled"}
  BY <1>1, <1>2, <1>3 DEF ReferenceOf
<1>4. CASE pol = "race"
  <2>1. s # <<>> => s[1] \in Reports
    OBVIOUS
  <2> QED BY <1>4, <2>1 DEF ReferenceOf
<1>5. CASE pol = "any"
  <2>1. ASSUME \A i \in 1..Len(s) : s[i] # ResolvedResult, ~(Len(s) < n) PROVE RejectionsIn(s) # {}
    <3>1. Len(s) \in 1..Len(s)
      BY <2>1
    <3> QED BY <2>1, <3>1 DEF RejectionsIn
  <2> QED BY <1>1, <1>2, <1>5, <2>1 DEF ReferenceOf
<1> QED BY <1>3, <1>4, <1>5 DEF Policies

\* A notice reaches OnChildSettled: it is counted, and decides what the reference says.
LEMMA NoticeStep ==
    ASSUME GatherIInv, NEW c \in Children, OnChildSettled(c)
    PROVE  GatherIInv'
<1> USE DEF GatherIInv
<1>0. /\ nTotal \in 0..MaxChildren /\ MaxChildren \in Nat /\ nBound \in 0..nTotal /\ policy \in Policies
      /\ c \in 1..nTotal /\ nTotal > 0 /\ nTotal \in Nat /\ nTotal # 0
      /\ order \in Seq(Reports) /\ verdict \in Seq(Reports) /\ Len(order) \in Nat
      /\ bDone \in BOOLEAN /\ bRejectSeen \in BOOLEAN
  BY GatherAssumption DEF GatherTypes, GatherTypeOK, Children
<1>1. /\ c \in notices /\ notices' = notices \ {c} /\ order' = Append(order, child[c])
      /\ UNCHANGED <<policy, nTotal, start, nBound, child, aggregate, bStopped>>
  BY DEF OnChildSettled
<1>2. c <= nBound /\ child[c] # PendingResult /\ child[c] \in Reports /\ c \notin Heard /\ nBound > 0
      /\ aggregate # StoppedResult
  <2>1. c <= nBound /\ child[c] # PendingResult
    BY <1>1 DEF EachCounted
  <2>2. nBound > 0
    BY <1>0, <2>1
  <2> QED BY <1>1, <2>1, <2>2 DEF GatherTypes, Heard, StartKnown
<1>3. Heard' = Heard \cup {c}
  BY <1>0, <1>1, <1>2 DEF Heard
<1>4. Len(order') = Len(order) + 1 /\ order' \in Seq(Reports) /\ Len(order) < nTotal
  <2>1. Len(order) < nTotal
    BY <1>2, HeardFinite DEF EachCounted
  <2> QED BY <1>0, <1>1, <1>2, <2>1
<1>5. EachCounted'
  <2>1. Cardinality(Heard') = Cardinality(Heard) + 1
    BY <1>2, <1>3, HeardFinite, FS_AddElement
  <2> QED BY <1>1, <1>4, <2>1 DEF EachCounted
<1>6. FirstKnown(order) /\ Rejections = RejectionsIn(order) /\ Reference = ReferenceOf(policy, nTotal, order)
  BY ReferenceIs
<1>7. PICK n, s, t, r, pol : n = nTotal /\ s = order /\ t = order' /\ r = child[c] /\ pol = policy
  OBVIOUS
<1>8. /\ n \in Nat /\ n > 0 /\ s \in Seq(Reports) /\ r \in Reports /\ FirstKnown(s) /\ Len(s) < n
      /\ t = Append(s, r) /\ pol \in Policies
  BY <1>0, <1>1, <1>2, <1>4, <1>6, <1>7
<1>9. /\ FirstKnown(t)
      /\ RejectionsIn(t) = RejectionsIn(s) \cup (IF r = ResolvedResult THEN {} ELSE {Len(t)})
      /\ RejectionsIn(s) # {} => FirstRejection(t) = FirstRejection(s) /\ FirstRejection(s) \in Reports
      /\ RejectionsIn(s) = {} /\ r # ResolvedResult => FirstRejection(t) = r
  BY <1>8, OneMore
<1>10. /\ (HasFirst <=> FirstKnown(order))' /\ Rejections' = RejectionsIn(order)'
       /\ Reference' = ReferenceOf(policy, nTotal, order)'
  BY DEF Rejections, RejectionsIn, HasFirst, FirstKnown, Reference, ReferenceOf, FirstRejection
<1>11. /\ HasFirst' /\ Rejections' = RejectionsIn(t) /\ Reference' = ReferenceOf(pol, n, t)
       /\ order'[FirstOf(Rejections)'] = FirstRejection(t)
  <2>1. RejectionsIn(order)' = RejectionsIn(t)
    BY <1>7 DEF RejectionsIn
  <2>2. FirstOf(Rejections)' = FirstOf(RejectionsIn(t))
    BY <1>10, <2>1 DEF FirstOf
  <2>3. FirstRejection(order)' = FirstRejection(t)
    BY <1>7, <2>1 DEF FirstRejection, FirstOf
  <2>4. ReferenceOf(policy, nTotal, order)' = ReferenceOf(pol, n, t)
    BY <1>1, <1>7, <2>1, <2>3 DEF ReferenceOf
  <2>5. FirstKnown(order)'
    BY <1>9, <2>1 DEF FirstKnown
  <2> QED BY <1>7, <1>10, <2>1, <2>2, <2>4, <2>5 DEF FirstRejection
<1>12. GatherTypes' /\ StartKnown' /\ DoneKnown' /\ MatchesReference'
  <2>1. CASE bDone
    <3>1. UNCHANGED <<nPending, bRejectSeen, firstReject, bDone, verdict>>
      BY <2>1 DEF OnChildSettled
    <3>2. Reference # PendingResult
      BY <1>0, <2>1 DEF DoneKnown
    <3>3. Reference' = Reference
      <4>1. ReferenceOf(pol, n, s) = Reference
        BY <1>6, <1>7
      <4> QED BY <1>8, <1>11, <3>2, <4>1, DecidedStays
    <3>4. GatherTypes'
      BY <1>1, <1>4, <3>1 DEF GatherTypes, GatherTypeOK, Children
    <3>5. StartKnown'
      BY <1>1, <2>1, <3>1 DEF StartKnown
    <3>6. DoneKnown'
      BY <1>0, <1>1, <2>1, <3>1, <3>2, <3>3 DEF DoneKnown
    <3>7. MatchesReference'
      BY <1>0, <1>1, <3>1, <3>3 DEF MatchesReference
    <3> QED BY <3>4, <3>5, <3>6, <3>7
  <2>2. CASE ~bDone
    <3> DEFINE first == IF child[c] # ResolvedResult /\ ~bRejectSeen THEN child[c] ELSE firstReject
               out == Verdict(c, nPending - 1, first)
    <3>1. /\ nPending' = nPending - 1 /\ bRejectSeen' = (bRejectSeen \/ child[c] # ResolvedResult)
          /\ firstReject' = first /\ bDone' = (out # <<>>) /\ verdict' = verdict \o out
      BY <2>2 DEF OnChildSettled
    <3>2. Reference = PendingResult /\ verdict = <<>> /\ nPending = nTotal - Len(order)
      BY <1>0, <1>2, <2>2 DEF DoneKnown, StartKnown
    <3>3. aggregate = PendingResult
      BY <1>0, <1>2, <3>2 DEF MatchesReference
    <3>4. /\ bRejectSeen <=> RejectionsIn(s) # {}
          /\ bRejectSeen => firstReject = FirstRejection(s)
      BY <1>0, <1>6, <1>7, <2>2 DEF DoneKnown, FirstRejection
    <3>5. RejectionsIn(t) # {} => first = FirstRejection(t)
      BY <1>7, <1>9, <3>4
    <3>6. nPending - 1 = n - Len(s) - 1
      BY <1>7, <3>2
    <3> HIDE DEF first
    <3>7. out = IF Reference' = PendingResult THEN <<>> ELSE <<Reference'>>
      <4>1. Says(Verdict(c, n - Len(s) - 1, first), ReferenceOf(policy, n, t))
        <5>1. PICK f : f = first
          OBVIOUS
        <5>2. /\ child[c] \in Reports /\ policy \in Policies /\ t = Append(s, child[c])
              /\ ReferenceOf(policy, n, s) = PendingResult
          BY <1>0, <1>2, <1>6, <1>7, <1>8, <3>2
        <5>3. RejectionsIn(t) # {} => f = FirstRejection(t)
          BY <3>5, <5>1
        <5>4. n \in Nat /\ s \in Seq(Reports) /\ FirstKnown(s) /\ Len(s) < n
          BY <1>8
        <5>5. Says(Verdict(c, n - Len(s) - 1, f), ReferenceOf(policy, n, t))
          BY <5>2, <5>3, <5>4, VerdictIsReference
        <5> QED BY <5>1, <5>5
      <4> QED BY <1>7, <1>11, <3>6, <4>1 DEF Says
    <3> HIDE DEF out
    <3>8. Reference' \in {PendingResult} \cup Reports
      <4>1. t \in Seq(Reports)
        BY <1>4, <1>7
      <4> QED BY <1>8, <1>9, <1>11, <4>1, ReferenceType
    <3>9. verdict' = out /\ verdict' \in Seq(Reports) /\ Len(verdict') <= 1
      BY <3>1, <3>2, <3>7, <3>8
    <3>10. bDone' \in BOOLEAN /\ (bDone' <=> Reference' # PendingResult) /\ (~bDone' => verdict' = <<>>)
      BY <3>1, <3>7, <3>9
    <3>11. nPending' = nTotal - Len(order') /\ nPending' \in 0..nTotal
      BY <1>0, <1>4, <3>1, <3>2
    <3>12. /\ bRejectSeen' \in BOOLEAN /\ (bRejectSeen' <=> RejectionsIn(t) # {})
           /\ bRejectSeen' => firstReject' = FirstRejection(t)
      BY <1>0, <1>7, <1>9, <3>1, <3>4, <3>5
    <3>13. GatherTypes'
      BY <1>1, <1>4, <3>9, <3>10, <3>11, <3>12 DEF GatherTypes, GatherTypeOK, Children
    <3>14. StartKnown'
      BY <1>0, <1>1, <1>2, <3>3, <3>11 DEF StartKnown
    <3>15. DoneKnown'
      BY <1>0, <1>1, <1>11, <3>10, <3>12 DEF DoneKnown
    <3>16. MatchesReference'
      BY <1>0, <1>1, <3>3, <3>7, <3>9 DEF MatchesReference
    <3> QED BY <3>13, <3>14, <3>15, <3>16
  <2> QED BY <2>1, <2>2
<1> QED BY <1>5, <1>11, <1>12

\* The aggregate is settled with what was decided, if nothing settled it before.
LEMMA ApplyStep == ASSUME GatherIInv, ApplyVerdict PROVE GatherIInv'
<1> USE DEF GatherIInv
<1>0. /\ nTotal \in Nat /\ policy \in Policies /\ verdict \in Seq(Reports) /\ Len(verdict) <= 1
      /\ order \in Seq(Reports)
  BY GatherAssumption DEF GatherTypes, GatherTypeOK
<1>1. /\ verdict # <<>> /\ aggregate' = (IF aggregate = PendingResult THEN Head(verdict) ELSE aggregate)
      /\ verdict' = Tail(verdict)
      /\ UNCHANGED <<policy, nTotal, start, nBound, child, notices, nPending, bRejectSeen, bDone,
                   firstReject, bStopped, order>>
  BY DEF ApplyVerdict, SettleAggregate
<1>2. verdict' = <<>> /\ Head(verdict) \in Reports /\ nTotal > 0 /\ nTotal # 0
  BY <1>0, <1>1 DEF DoneKnown
<1>3. GatherTypes'
  BY <1>1, <1>2 DEF GatherTypes, GatherTypeOK, Children
<1>4. EachCounted'
  BY <1>1 DEF EachCounted, Heard
<1>5. start \notin {"new", "posted"}
  <2> SUFFICES ASSUME nBound = 0 PROVE FALSE
    BY DEF StartKnown
  <2>1. Heard = {}
    BY DEF Heard
  <2>2. order = <<>>
    BY <1>0, <2>1, FS_EmptySet DEF EachCounted
  <2>3. Reference = PendingResult
    BY <1>0, <1>2, <2>2, NothingYet, ReferenceIs
  <2> QED BY <1>1, <1>2, <2>3 DEF DoneKnown
<1>6. StartKnown'
  BY <1>1, <1>2, <1>5, ResultsDiffer DEF StartKnown
<1>7. HasFirst' /\ DoneKnown'
  BY <1>1, <1>2, SameReference DEF DoneKnown
<1>8. MatchesReference'
  <2>1. CASE aggregate = StoppedResult
    BY <1>1, <2>1, ResultsDiffer DEF MatchesReference
  <2>2. CASE aggregate # StoppedResult
    <3>1. aggregate = PendingResult /\ verdict = <<Reference>>
      BY <1>1, <1>2, <2>2 DEF MatchesReference
    <3>2. aggregate' = Reference
      BY <1>1, <3>1
    <3> QED BY <1>1, <1>2, <3>2, SameReference DEF MatchesReference
  <2> QED BY <2>1, <2>2
<1> QED BY <1>3, <1>4, <1>6, <1>7, <1>8

\* The executor is stopped.
LEMMA StopStep == ASSUME GatherIInv, StopExecutor PROVE GatherIInv'
<1> USE DEF GatherIInv
<1>1. /\ bStopped' = TRUE
      /\ UNCHANGED <<policy, nTotal, start, nBound, child, notices, nPending, bRejectSeen, bDone,
                   firstReject, verdict, aggregate, order>>
  BY DEF StopExecutor
<1>2. GatherTypes' /\ EachCounted' /\ StartKnown'
  BY <1>1 DEF GatherTypes, GatherTypeOK, Children, EachCounted, Heard, StartKnown
<1>3. HasFirst' /\ DoneKnown' /\ MatchesReference'
  BY <1>1, SameReference DEF DoneKnown, MatchesReference, GatherQuiet
<1> QED BY <1>2, <1>3

\* Nothing moves.
LEMMA GatherStutter == ASSUME GatherIInv, UNCHANGED gatherVars PROVE GatherIInv'
<1> USE DEF GatherIInv, gatherVars
<1>1. GatherTypes' /\ EachCounted' /\ StartKnown'
  BY DEF GatherTypes, GatherTypeOK, Children, EachCounted, Heard, StartKnown
<1>2. HasFirst' /\ DoneKnown' /\ MatchesReference'
  BY SameReference DEF DoneKnown, MatchesReference, GatherQuiet
<1> QED BY <1>1, <1>2

\* Every step of the combinators preserves the invariant.
LEMMA GatherNextIInv == GatherIInv /\ [GatherNext]_gatherVars => GatherIInv'
<1> SUFFICES ASSUME GatherIInv, [GatherNext]_gatherVars PROVE GatherIInv'
  OBVIOUS
<1>1. CASE GatherStart \/ GatherStep
  BY <1>1, GatherStartStep, GatherRunStep, BindStep DEF GatherStep
<1>2. CASE \E c \in Children : OnChildSettled(c) \/ \E res \in Outcomes(c) : ChildSettles(c, res)
  BY <1>2, NoticeStep, ChildStep
<1>3. CASE ApplyVerdict \/ StopExecutor
  BY <1>3, ApplyStep, StopStep
<1>4. CASE GatherFinished \/ UNCHANGED gatherVars
  BY <1>4, GatherStutter DEF GatherFinished
<1> QED BY <1>1, <1>2, <1>3, <1>4 DEF GatherNext

-------------------------------------------------------------------------------
\* For any number of children, under each of WhenAll, WhenAllSettled, WhenRace and
\* WhenAny: however settlements, registrations and notices interleave, the decision
\* CGatherState makes under its lock and applies after it is made once, as soon as
\* the reports decide, and is the one the reference prescribes.
THEOREM GatherInvHolds == GatherSpec => []GatherInv
<1>1. GatherIInv => GatherInv
  BY DEF GatherIInv, GatherTypes, GatherInv
<1> QED BY <1>1, GatherInitIInv, GatherNextIInv, PTL DEF GatherSpec
(***************************************************************************)
(* The coroutine.                                                          *)
(*                                                                         *)
(* CoroutineInv is not inductive.  That one continuation carries the body  *)
(* on needs to know what every promise of every await has done (Idle,      *)
(* Suspended), that the awaits of a group that have not counted down are   *)
(* as many as its counter says, and where a rejection waits until the      *)
(* coroutine is settled with it (Verdicts).                                *)
(***************************************************************************)
Segments == 1 .. Len(Awaits) + 1
Verdicts == {Done, Stopped, Threw, Returned} \cup {Rejected(p) : p \in Promises}

CoRecords == [step : -1 .. Len(Awaits), terminated : BOOLEAN, result : Verdicts,
              segment : Verdicts \cup {Unsettled}]

CoTypeOK ==
    /\ co \in CoRecords
    /\ acts \subseteq [seg : Segments, on : ThreadContexts, todo : SUBSET Promises, fresh : BOOLEAN]
    /\ posted \in Seq(Segments)
    /\ group \in [pending : Int, rejected : BOOLEAN, first : Verdicts]
    /\ promise \in [Promises -> {"pending", "ok", "bad"}]
    /\ notice \in [Promises -> {"none", "waiting", "reject", "count", "resume", "done"}]
    /\ noticeOn \in [Promises -> ThreadContexts]
    /\ execStopped \in BOOLEAN

\* A notice that is on its way or done is that of a settled promise.
NoticesFit ==
    \A p \in Promises :
        /\ notice[p] = "waiting" => promise[p] = "pending"
        /\ notice[p] \in {"reject", "count", "resume", "done"} => promise[p] # "pending"
        /\ notice[p] = "count" => ~Single(p)

\* The promises of the await at co.step, and those of the awaits before and after it.
Current == {p \in Promises : AwaitOf(p) = co.step}
Others ==
    \A p \in Promises :
        /\ AwaitOf(p) < co.step => notice[p] = "done" /\ promise[p] = "ok"
        /\ AwaitOf(p) > co.step => notice[p] = "none"

\* Between two awaits every promise of the last one has called back.
Idle == co.step # -1 /\ \A p \in Current : notice[p] = "done"

\* In an await: the promises that have not counted down yet, which the group's
\* counter counts.  The last to count down is about to resume.
Uncounted == {p \in Current : notice[p] \in {"none", "waiting", "reject", "count"}}
Resuming == {p \in Current : notice[p] = "resume"}
Unregistered == {p \in Current : notice[p] = "none"}
Suspended ==
    /\ co.step \in 1 .. Len(Awaits)
    /\ IF Uncounted # {} THEN Resuming = {} ELSE \E p \in Promises : Resuming = {p}
    /\ Cardinality(Current) # 1 => group.pending = Cardinality(Uncounted)

\* Who carries the body on.
NotStarted == co.step = -1 /\ acts = {} /\ posted = <<>>
Running == Idle /\ posted = <<>> /\ \E a \in acts : acts = {a} /\ a.fresh /\ a.todo = {} /\ a.seg = co.step + 1
Queued == Idle /\ acts = {} /\ posted = <<co.step + 1>>
Registering == Suspended /\ posted = <<>>
                 /\ \E a \in acts : acts = {a} /\ ~a.fresh /\ a.todo # {} /\ a.todo = Unregistered
Waiting == Suspended /\ acts = {} /\ posted = <<>> /\ Unregistered = {}
Settled == Idle /\ acts = {} /\ posted = <<>>
CarriedOnce ==
    IF co.segment = Unsettled THEN NotStarted \/ Running \/ Queued \/ Registering \/ Waiting ELSE Settled

\* Where a rejection of the await at co.step is kept until the body resumes, and
\* that there is none if it is not.
RejectedHere(r) == \E p \in Current : r = Rejected(p) /\ promise[p] = "bad"
AllOk(S) == \A p \in S : promise[p] = "ok"
RejectionKept ==
    IF co.segment # Unsettled
    THEN /\ co.segment[1] = "rejected" => RejectedHere(co.segment)
         /\ co.segment \in {Done, Returned} => co.step = Len(Awaits) /\ AllOk(Current)
         /\ co.segment = Stopped => execStopped
    ELSE IF co.terminated THEN RejectedHere(co.result) /\ Uncounted = {}
    ELSE IF Idle THEN AllOk(Current)
    ELSE IF Cardinality(Current) = 1 THEN AllOk(Resuming)
    ELSE IF group.rejected THEN RejectedHere(group.first) /\ Resuming = {}
    ELSE AllOk({p \in Current : notice[p] \in {"count", "resume", "done"}})

CoIInv == CoTypeOK /\ NoticesFit /\ Others /\ CarriedOnce /\ SegmentsPlaced /\ RejectionKept
-------------------------------------------------------------------------------
\* Every promise belongs to one await.
LEMMA AwaitOfPromise ==
  ASSUME NEW p \in Promises PROVE AwaitOf(p) \in 1 .. Len(Awaits) /\ p \in Awaits[AwaitOf(p)]
<1>1. \E k \in 1 .. Len(Awaits) : p \in Awaits[k]
  BY DEF Promises
<1> QED BY <1>1 DEF AwaitOf

\* The promises of the k-th await are those that belong to it; they are finitely many.
LEMMA PromisesOfAwait ==
  ASSUME NEW k \in 1 .. Len(Awaits)
  PROVE {p \in Promises : AwaitOf(p) = k} = Awaits[k] /\ IsFiniteSet(Awaits[k]) /\ Awaits[k] # {}
<1>1. ASSUME NEW p \in Awaits[k] PROVE p \in Promises /\ AwaitOf(p) = k
  <2>1. p \in Promises
    BY DEF Promises
  <2>2. AwaitOf(p) \in 1 .. Len(Awaits) /\ p \in Awaits[AwaitOf(p)]
    BY <2>1, AwaitOfPromise
  <2> QED BY <2>1, <2>2, CoroutineAssumption DEF CoroutineAssumption
<1>2. ASSUME NEW p \in Promises, AwaitOf(p) = k PROVE p \in Awaits[k]
  BY <1>2, AwaitOfPromise
<1> QED BY <1>1, <1>2, CoroutineAssumption DEF CoroutineAssumption

\* In an await Current is the set of its promises.
LEMMA CurrentAwait ==
  ASSUME CoTypeOK, co.step \in 1 .. Len(Awaits)
  PROVE /\ Current = Awaits[co.step] /\ IsFiniteSet(Current) /\ Current # {}
        /\ \A p \in Current : Single(p) <=> Cardinality(Current) = 1
<1>1. PICK k \in 1 .. Len(Awaits) : k = co.step
  OBVIOUS
<1>2. Current = Awaits[k] /\ IsFiniteSet(Current) /\ Current # {}
  BY <1>1, PromisesOfAwait DEF Current
<1> QED BY <1>1, <1>2 DEF Single, Current

\* Without an await there is no current promise.
LEMMA NoCurrent == ASSUME CoTypeOK, co.step \notin 1 .. Len(Awaits) PROVE Current = {}
BY AwaitOfPromise DEF Current

\* The verdicts are told apart by their first element, rejections by their promise.
LEMMA VerdictTags ==
  /\ \A p \in Promises : Rejected(p) \in Verdicts /\ Rejected(p)[1] = "rejected"
                           /\ Rejected(p) \notin {Done, Returned, Stopped, Threw, Unsettled}
  /\ \A r \in Verdicts : r # Unsettled
  /\ \A r \in {Done, Returned, Stopped, Threw} : r \in Verdicts /\ r[1] # "rejected"
  /\ Stopped \notin {Done, Returned, Threw} /\ Threw \notin {Done, Returned}
BY DEF Verdicts, Rejected, Done, Returned, Stopped, Threw, Unsettled

\* An activation is the only carrier: its segment has just begun, or its thread is
\* registering on the promises of an await.
LEMMA WhoRuns ==
  ASSUME CoIInv, NEW a \in acts
  PROVE /\ co.segment = Unsettled /\ acts = {a} /\ posted = <<>>
        /\ a.fresh => Idle /\ a.todo = {} /\ a.seg = co.step + 1 /\ ~Suspended
        /\ ~a.fresh => Suspended /\ ~Idle /\ a.todo # {} /\ a.todo = Unregistered
<1>1. Suspended => ~Idle
  <2> SUFFICES ASSUME Suspended, Idle PROVE FALSE
    OBVIOUS
  <2>1. Uncounted = {} /\ Resuming = {}
    BY DEF Idle, Uncounted, Resuming
  <2> QED BY <2>1 DEF Suspended
<1>2. co.segment = Unsettled
  BY DEF CoIInv, CarriedOnce, Settled
<1>3. Running \/ Registering
  BY <1>2 DEF CoIInv, CarriedOnce, NotStarted, Queued, Waiting
<1> QED BY <1>1, <1>2, <1>3 DEF Running, Registering

\* A notice on its way belongs to the current await.
LEMMA WhoCalls ==
  ASSUME CoIInv, NEW p \in Promises, notice[p] \in {"waiting", "reject", "count", "resume"}
  PROVE /\ p \in Current /\ Suspended /\ ~Idle /\ co.segment = Unsettled
        /\ Registering \/ Waiting
        /\ notice[p] = "resume" => Resuming = {p} /\ Uncounted = {} /\ Waiting
<1>1. p \in Current
  <2>1. PICK k \in Int : k = AwaitOf(p)
    <3>1. PICK n : n = Len(Awaits)
      OBVIOUS
    <3>2. n \in Nat /\ AwaitOf(p) \in 1 .. n
      BY <3>1, AwaitOfPromise, CoroutineAssumption
    <3> QED BY <3>2
  <2>2. PICK s \in Int : s = co.step
    <3>1. co \in CoRecords
      BY DEF CoIInv, CoTypeOK
    <3> QED BY <3>1 DEF CoRecords
  <2>3. ~(k < s) /\ ~(k > s)
    BY <2>1, <2>2 DEF CoIInv, Others
  <2>4. k = s
    BY <2>3
  <2> QED BY <2>1, <2>2, <2>4 DEF Current
<1>2. ~Idle
  BY <1>1 DEF Idle
<1>3. co.step # -1
  BY <1>1, AwaitOfPromise DEF Current
<1>4. co.segment = Unsettled /\ (Registering \/ Waiting)
  BY <1>2, <1>3 DEF CoIInv, CarriedOnce, NotStarted, Running, Queued, Settled
<1>5. Suspended
  BY <1>4 DEF Registering, Waiting
<1>6. ASSUME notice[p] = "resume" PROVE Resuming = {p} /\ Uncounted = {} /\ Waiting
  <2>1. p \in Resuming
    BY <1>1, <1>6 DEF Resuming
  <2>2. Uncounted = {} /\ Resuming = {p}
    BY <2>1, <1>5 DEF Suspended
  <2>3. Unregistered = {}
    BY <2>2 DEF Unregistered, Uncounted
  <2>4. Waiting
    BY <2>3, <1>4 DEF Registering
  <2> QED BY <2>2, <2>4
<1> QED BY <1>1, <1>2, <1>4, <1>5, <1>6
-------------------------------------------------------------------------------
\* What the settling helpers do to the members of the coroutine.
LEMMA SettlingHelpers ==
  ASSUME NEW c \in CoRecords, NEW r \in Verdicts
  PROVE /\ MarkTerminated(c, r) \in CoRecords
        /\ MarkTerminated(c, r).step = c.step /\ MarkTerminated(c, r).segment = c.segment
        /\ MarkTerminated(c, r).terminated /\ MarkTerminated(c, r).result = r
        /\ SegmentSettle(c, r) \in CoRecords /\ SegmentSettle(c, r).step = c.step
        /\ c.segment = Unsettled => SegmentSettle(c, r).segment = r
        /\ Terminate(c, r) \in CoRecords /\ Terminate(c, r).step = c.step
        /\ c.segment = Unsettled => Terminate(c, r).segment = r
BY DEF MarkTerminated, SegmentSettle, Terminate, CoRecords

\* What can be posted.
LEMMA PostedSeq == <<>> \in Seq(Segments) /\ \A k \in Segments : <<k>> \in Seq(Segments)
OBVIOUS

\* Before CoStart nothing carries the coroutine.
LEMMA CoInitIInv == CoInit => CoIInv
<1> SUFFICES ASSUME CoInit PROVE CoIInv
  OBVIOUS
<1> USE DEF CoInit
<1>1. CoTypeOK
  <2>1. Kinds[1] \in {Kinds[k] : k \in 1 .. Len(Kinds)} /\ 0 \in 0 .. MaxInline
    BY CoroutineAssumption DEF CoroutineAssumption
  <2>2. [own |-> FALSE, slot |-> Kinds[1], depth |-> 0] \in ThreadContexts
    BY <2>1 DEF ThreadContexts
  <2>3. Done \in Verdicts
    BY VerdictTags
  <2>4. co \in CoRecords /\ group \in [pending : Int, rejected : BOOLEAN, first : Verdicts]
    BY <2>3, CoroutineAssumption DEF CoRecords, CoroutineAssumption
  <2>5. posted \in Seq(Segments) /\ acts = {} /\ execStopped \in BOOLEAN
    BY PostedSeq
  <2>6. noticeOn \in [Promises -> ThreadContexts]
    BY <2>2
  <2>7. promise \in [Promises -> {"pending", "ok", "bad"}]
        /\ notice \in [Promises -> {"none", "waiting", "reject", "count", "resume", "done"}]
    OBVIOUS
  <2> QED BY <2>4, <2>5, <2>6, <2>7 DEF CoTypeOK
<1>2. Current = {}
  BY <1>1, NoCurrent
<1>3. Others /\ NoticesFit
  BY AwaitOfPromise DEF Others, NoticesFit
<1>4. CarriedOnce /\ SegmentsPlaced
  BY DEF CarriedOnce, NotStarted, SegmentsPlaced
<1>5. RejectionKept
  BY <1>2 DEF RejectionKept, Idle, AllOk, Resuming
<1> QED BY <1>1, <1>3, <1>4, <1>5 DEF CoIInv

\* CoStart posts the first segment, or a stopped executor settles the coroutine.
LEMMA CoStartStep == ASSUME CoIInv, CoStart PROVE CoIInv'
<1> USE DEF CoIInv, CoStart
<1> DEFINE c == [co EXCEPT !.step = 0]
<1>1. c \in CoRecords /\ c.step = 0 /\ c.segment = co.segment /\ c.terminated = co.terminated
  BY CoroutineAssumption DEF CoTypeOK, CoRecords, CoroutineAssumption
<1>2. Stopped \in Verdicts
  BY VerdictTags
<1>3. NotStarted /\ co.segment = Unsettled
  BY CoroutineAssumption DEF CoTypeOK, CarriedOnce, Settled, Idle, Running, Queued, Registering, Waiting, Suspended
<1>4. IF execStopped THEN co' = Terminate(c, Stopped) /\ posted' = posted ELSE co' = c /\ posted' = Append(posted, 1)
  BY DEF PostResume
<1> HIDE DEF c
<1>5. co' \in CoRecords /\ co'.step = 0 /\ (execStopped => co'.segment = Stopped /\ posted' = <<>>)
        /\ (~execStopped => co'.segment = Unsettled /\ co'.terminated = co.terminated /\ posted' = <<1>>)
  BY <1>1, <1>2, <1>3, <1>4, SettlingHelpers DEF NotStarted
<1>6. CoTypeOK'
  <2>1. posted' \in Seq(Segments)
    <3>1. 1 \in Segments
      BY CoroutineAssumption DEF Segments, CoroutineAssumption
    <3> QED BY <1>5, <3>1, PostedSeq DEF CoTypeOK
  <2> QED BY <1>5, <2>1 DEF CoTypeOK
<1>7. Current = {} /\ Current' = {}
  BY <1>3, <1>5, <1>6, AwaitOfPromise DEF NotStarted, Current
<1>8. ~co.terminated
  BY <1>3, <1>7 DEF RejectionKept, RejectedHere
<1>9. NoticesFit' /\ Others' /\ SegmentsPlaced'
  BY <1>3, <1>5, AwaitOfPromise DEF NoticesFit, Others, SegmentsPlaced, Single, NotStarted
<1>10. Idle'
  BY <1>5, <1>7 DEF Idle
<1>11. CarriedOnce'
  BY <1>2, <1>3, <1>5, <1>10, VerdictTags DEF CarriedOnce, NotStarted, Queued, Settled
<1>12. RejectionKept'
  BY <1>5, <1>7, <1>8, <1>10, VerdictTags DEF RejectionKept, AllOk
<1> QED BY <1>6, <1>9, <1>11, <1>12

\* A worker takes the posted segment.
LEMMA ResumeStep == ASSUME CoIInv, Resume PROVE CoIInv'
<1> USE DEF CoIInv, Resume
<1>1. Queued /\ co.segment = Unsettled
  BY DEF CarriedOnce, NotStarted, Running, Registering, Waiting, Settled
<1> DEFINE b == [seg |-> Head(posted), on |-> [own |-> TRUE, slot |-> Kinds[Head(posted)], depth |-> 0],
                 todo |-> {}, fresh |-> TRUE]
<1>2. acts' = {b} /\ b.seg = co.step + 1 /\ b.fresh /\ b.todo = {} /\ posted' = <<>>
  BY <1>1 DEF Queued
<1>3. b.on.own /\ b.on.slot = Kinds[b.seg] /\ b.on.depth = 0 /\ Head(posted) \in Segments
  BY DEF CoTypeOK
<1>4. b \in [seg : Segments, on : ThreadContexts, todo : SUBSET Promises, fresh : BOOLEAN]
  BY <1>3, CoroutineAssumption DEF Segments, ThreadContexts, CoroutineAssumption
<1> HIDE DEF b
<1>5. CoTypeOK'
  BY <1>2, <1>4 DEF CoTypeOK
<1>6. NoticesFit' /\ Others' /\ SegmentsPlaced'
  BY <1>2, <1>3, CoroutineAssumption DEF NoticesFit, Others, SegmentsPlaced, Single, CoroutineAssumption
<1>7. Current' = Current /\ (Idle <=> Idle') /\ Resuming' = Resuming /\ Uncounted' = Uncounted
  BY DEF Current, Idle, Resuming, Uncounted
<1>8. CarriedOnce'
  BY <1>1, <1>2, <1>7 DEF CarriedOnce, Running, Queued
<1>9. RejectionKept'
  BY <1>7 DEF RejectionKept, RejectedHere, AllOk
<1> QED BY <1>5, <1>6, <1>8, <1>9
\* A segment that ends with a verdict settles the coroutine, and nothing carries it on.
LEMMA RunEnds ==
  ASSUME CoIInv, NEW a \in acts, a.fresh, co' \in CoRecords, co'.step = co.step, co'.segment \in Verdicts,
         acts' = acts \ {a}, UNCHANGED <<posted, group, promise, notice, noticeOn, execStopped>>,
         co'.segment[1] = "rejected" => RejectedHere(co'.segment),
         co'.segment \in {Done, Returned} => co.step = Len(Awaits) /\ AllOk(Current),
         co'.segment # Stopped
  PROVE CoIInv'
<1> USE DEF CoIInv
<1>1. acts' = {} /\ posted = <<>> /\ Idle /\ co'.segment # Unsettled
  BY WhoRuns, VerdictTags
<1>2. Current' = Current /\ Idle'
  BY <1>1 DEF Current, Idle
<1>3. CoTypeOK' /\ NoticesFit' /\ Others' /\ SegmentsPlaced'
  BY <1>1 DEF CoTypeOK, NoticesFit, Others, SegmentsPlaced, Single
<1>4. CarriedOnce'
  BY <1>1, <1>2 DEF CarriedOnce, Settled
<1>5. RejectionKept'
  BY <1>1, <1>2 DEF RejectionKept, RejectedHere, AllOk
<1> QED BY <1>3, <1>4, <1>5

\* The segment finds the coroutine terminated, throws, or returns.
LEMMA RunEndsStep ==
  ASSUME CoIInv, NEW a \in acts, RunTerminated(a) \/ RunThrows(a) \/ \E r \in {Done, Returned} : RunReturns(a, r)
  PROVE CoIInv'
<1> USE DEF CoIInv
<1>1. co \in CoRecords /\ co.segment = Unsettled
  BY WhoRuns DEF CoTypeOK
<1>2. a.fresh => Idle
  BY WhoRuns
<1>3. CASE RunTerminated(a)
  <2>1. RejectedHere(co.result) /\ co.result \in Verdicts
    BY <1>1, <1>3 DEF RunTerminated, RejectionKept, CoRecords
  <2>2. co' \in CoRecords /\ co'.step = co.step /\ co'.segment = co.result
    BY <1>1, <1>3, <2>1, SettlingHelpers DEF RunTerminated
  <2>3. co'.segment \notin {Done, Returned, Stopped}
    BY <2>1, <2>2, VerdictTags DEF RejectedHere, Current
  <2> QED BY <1>3, <2>1, <2>2, <2>3, RunEnds DEF RunTerminated
<1>4. CASE RunThrows(a)
  <2>1. co' \in CoRecords /\ co'.step = co.step /\ co'.segment = Threw /\ Threw \in Verdicts
    BY <1>1, <1>4, VerdictTags, SettlingHelpers DEF RunThrows
  <2>2. co'.segment \notin {Done, Returned, Stopped} /\ co'.segment[1] # "rejected"
    BY <2>1, VerdictTags
  <2> QED BY <1>4, <2>1, <2>2, RunEnds DEF RunThrows
<1>5. CASE \E r \in {Done, Returned} : RunReturns(a, r)
  <2>1. PICK r \in {Done, Returned} : RunReturns(a, r)
    BY <1>5
  <2>2. r \in Verdicts /\ r # Stopped /\ r[1] # "rejected"
    BY VerdictTags
  <2>3. co' \in CoRecords /\ co'.step = co.step /\ co'.segment = r
    BY <1>1, <2>1, <2>2, SettlingHelpers DEF RunReturns
  <2>4. co.step = Len(Awaits) /\ AllOk(Current)
    BY <1>1, <1>2, <2>1 DEF RunReturns, RejectionKept
  <2> QED BY <2>1, <2>2, <2>3, <2>4, RunEnds DEF RunReturns
<1> QED BY <1>3, <1>4, <1>5

\* The segment reaches its await: the step is stored and the group set up.
LEMMA AwaitStep == ASSUME CoIInv, NEW a \in acts, Await(a) PROVE CoIInv'
<1> USE DEF CoIInv, Await
<1>1. /\ co.segment = Unsettled /\ ~co.terminated /\ acts = {a} /\ posted = <<>> /\ Idle /\ co.step < Len(Awaits)
      /\ co.step \in -1 .. Len(Awaits) /\ co.step # -1 /\ co \in CoRecords
  BY WhoRuns DEF Idle, CoTypeOK, CoRecords
<1>2. AllOk(Current)
  BY <1>1 DEF RejectionKept
<1> DEFINE k == co.step + 1
           b == [a EXCEPT !.fresh = FALSE, !.todo = Awaits[k]]
<1>3. k \in 1 .. Len(Awaits) /\ k > co.step
  BY <1>1, CoroutineAssumption DEF CoroutineAssumption
<1>4. co' \in CoRecords /\ co'.step = k /\ co'.segment = Unsettled /\ ~co'.terminated
  BY <1>1, <1>3 DEF CoRecords
<1>5. {p \in Promises : AwaitOf(p) = k} = Awaits[k] /\ IsFiniteSet(Awaits[k]) /\ Awaits[k] # {}
  BY <1>3, PromisesOfAwait
<1>6. Current' = Awaits[k] /\ Awaits[k] \subseteq Promises /\ \A p \in Awaits[k] : AwaitOf(p) = k
  BY <1>4, <1>5 DEF Current
<1>7. \A p \in Awaits[k] : notice[p] = "none" /\ notice'[p] = "none"
  BY <1>3, <1>6 DEF Others
<1>8. b \in [seg : Segments, on : ThreadContexts, todo : SUBSET Promises, fresh : BOOLEAN]
        /\ ~b.fresh /\ b.todo = Awaits[k] /\ b.on = a.on
  BY <1>6 DEF CoTypeOK
<1>9. acts' = {b}
  BY <1>1
<1>10. Cardinality(Awaits[k]) \in Nat /\ group' = [pending |-> Cardinality(Awaits[k]), rejected |-> FALSE, first |-> Done]
  BY <1>5, FS_CardinalityType
<1>11. Uncounted' = Awaits[k] /\ Unregistered' = Awaits[k] /\ Resuming' = {}
  BY <1>6, <1>7 DEF Uncounted, Unregistered, Resuming
<1>12. Suspended' /\ ~Idle'
  BY <1>3, <1>4, <1>5, <1>6, <1>7, <1>10, <1>11 DEF Suspended, Idle
<1> HIDE DEF b, k
<1>13. CoTypeOK'
  BY <1>4, <1>8, <1>9, <1>10, VerdictTags DEF CoTypeOK
<1>14. Others'
  <2> SUFFICES ASSUME NEW p \in Promises
               PROVE /\ AwaitOf(p) < k => notice[p] = "done" /\ promise[p] = "ok"
                     /\ AwaitOf(p) > k => notice[p] = "none"
    BY <1>4 DEF Others
  <2>1. AwaitOf(p) \in 1 .. Len(Awaits)
    BY AwaitOfPromise
  <2>2. AwaitOf(p) = co.step => notice[p] = "done" /\ promise[p] = "ok"
    BY <1>1, <1>2 DEF Idle, AllOk, Current
  <2> QED BY <1>1, <2>1, <2>2, CoroutineAssumption DEF Others, k, CoroutineAssumption
<1>15. NoticesFit' /\ SegmentsPlaced'
  BY <1>8, <1>9 DEF NoticesFit, SegmentsPlaced, Single
<1>16. CarriedOnce'
  BY <1>1, <1>4, <1>5, <1>8, <1>9, <1>11, <1>12 DEF CarriedOnce, Registering
<1>17. RejectionKept'
  BY <1>4, <1>6, <1>7, <1>10, <1>11, <1>12 DEF RejectionKept, AllOk
<1> QED BY <1>13, <1>14, <1>15, <1>16, <1>17
\* An await is not over while one of its notices is out.
LEMMA SuspendedNotIdle == Suspended => ~Idle
<1> SUFFICES ASSUME Suspended, Idle PROVE FALSE
  OBVIOUS
<1>1. Uncounted = {} /\ Resuming = {}
  BY DEF Idle, Uncounted, Resuming
<1> QED BY <1>1 DEF Suspended

\* OnSettled of one more promise of the await.
LEMMA AwaitEachStep == ASSUME CoIInv, NEW a \in acts, NEW p \in a.todo, AwaitEach(a, p) PROVE CoIInv'
<1> USE DEF CoIInv, AwaitEach
<1>1. /\ co.segment = Unsettled /\ acts = {a} /\ posted = <<>> /\ Suspended /\ ~a.fresh
      /\ a.todo = Unregistered /\ p \in Current /\ notice[p] = "none" /\ p \in Promises
  BY WhoRuns DEF Unregistered, Current
<1>2. promise[p] \in {"pending", "ok", "bad"} /\ notice'[p] \in {"waiting", "reject"}
        /\ (notice'[p] = "waiting" <=> promise[p] = "pending") /\ \A q \in Promises \ {p} : notice'[q] = notice[q]
  BY <1>1 DEF CoTypeOK
<1>3. Current' = Current /\ Uncounted' = Uncounted /\ Resuming' = Resuming /\ Unregistered' = Unregistered \ {p}
  BY <1>1, <1>2 DEF Current, Uncounted, Resuming, Unregistered
<1>4. Suspended' /\ ~Idle' /\ ~Idle
  BY <1>1, <1>3, SuspendedNotIdle DEF Suspended, Idle
<1> DEFINE b == [a EXCEPT !.todo = @ \ {p}]
<1>5. b \in [seg : Segments, on : ThreadContexts, todo : SUBSET Promises, fresh : BOOLEAN]
        /\ ~b.fresh /\ b.todo = a.todo \ {p} /\ b.on = a.on
  BY <1>1 DEF CoTypeOK
<1>6. acts' = IF a.todo = {p} THEN {} ELSE {b}
  BY <1>1
<1> HIDE DEF b
<1>7. CoTypeOK'
  BY <1>1, <1>5, <1>6 DEF CoTypeOK
<1>8. NoticesFit'
  BY <1>1, <1>2 DEF NoticesFit, Single
<1>9. Others'
  BY <1>1, <1>2 DEF Others, Current, CoTypeOK, CoRecords
<1>10. SegmentsPlaced'
  BY <1>5, <1>6 DEF SegmentsPlaced
<1>11. CarriedOnce'
  <2>1. CASE a.todo = {p}
    BY <1>1, <1>3, <1>4, <1>6, <2>1 DEF CarriedOnce, Waiting
  <2>2. CASE a.todo # {p}
    BY <1>1, <1>3, <1>4, <1>5, <1>6, <2>2 DEF CarriedOnce, Registering
  <2> QED BY <2>1, <2>2
<1>12. {q \in Current : notice'[q] \in {"count", "resume", "done"}} = {q \in Current : notice[q] \in {"count", "resume", "done"}}
  BY <1>1, <1>2 DEF Current
<1>13. RejectionKept'
  BY <1>1, <1>3, <1>4, <1>12 DEF RejectionKept, RejectedHere, AllOk
<1> QED BY <1>7, <1>8, <1>9, <1>10, <1>11, <1>13

\* A promise settles, and calls the notice that waits for it.
LEMMA PromiseSettlesStep ==
  ASSUME CoIInv, NEW p \in Promises, NEW how \in {"ok", "bad"}, NEW ctx \in ThreadContexts, PromiseSettles(p, how, ctx)
  PROVE CoIInv'
<1> USE DEF CoIInv, PromiseSettles
<1>1. promise[p] = "pending" /\ promise'[p] = how /\ \A q \in Promises \ {p} : promise'[q] = promise[q]
  BY DEF CoTypeOK
<1>2. /\ notice[p] \in {"none", "waiting"} /\ notice'[p] = (IF notice[p] = "waiting" THEN "reject" ELSE "none")
      /\ \A q \in Promises \ {p} : notice'[q] = notice[q]
  BY <1>1 DEF CoTypeOK, NoticesFit
<1>3. Current' = Current /\ Uncounted' = Uncounted /\ Resuming' = Resuming /\ Unregistered' = Unregistered
        /\ (Idle' <=> Idle) /\ (Suspended' <=> Suspended)
  <2>1. Current' = Current
    BY DEF Current
  <2>2. Uncounted' = Uncounted /\ Resuming' = Resuming /\ Unregistered' = Unregistered
    BY <1>2, <2>1 DEF Uncounted, Resuming, Unregistered, Current
  <2>3. Idle' <=> Idle
    BY <1>2, <2>1 DEF Idle, Current
  <2> QED BY <2>1, <2>2, <2>3 DEF Suspended
<1>4. Idle => p \notin Current
  BY <1>2 DEF Idle
<1>5. CoTypeOK'
  BY <1>1, <1>2 DEF CoTypeOK
<1>6. NoticesFit' /\ SegmentsPlaced'
  BY <1>1, <1>2 DEF NoticesFit, SegmentsPlaced, Single
<1>7. Others'
  BY <1>1, <1>2 DEF Others
<1>8. CarriedOnce'
  BY <1>3 DEF CarriedOnce, NotStarted, Running, Queued, Registering, Waiting, Settled
<1>9. \A S \in SUBSET Promises : p \notin S /\ AllOk(S) => AllOk(S)'
  BY <1>1 DEF AllOk
<1>10. \A r : RejectedHere(r) => \E q \in Current : r = Rejected(q) /\ promise'[q] = "bad"
  BY <1>1, <1>3 DEF RejectedHere, Current
<1>11. RejectionKept'
  <2>1. {q \in Current : notice'[q] \in {"count", "resume", "done"}} = {q \in Current : notice[q] \in {"count", "resume", "done"}}
    BY <1>2 DEF Current
  <2>2. p \notin {q \in Current : notice[q] \in {"count", "resume", "done"}} /\ p \notin Resuming
    BY <1>2 DEF Resuming
  <2>3. CASE co.segment # Unsettled
    <3>1. Idle
      BY <2>3 DEF CarriedOnce, Settled
    <3> QED BY <2>3, <3>1, <1>1, <1>3, <1>4, <1>10 DEF RejectionKept, RejectedHere, AllOk, Current
  <2>4. CASE co.segment = Unsettled
    BY <2>1, <2>2, <2>4, <1>1, <1>3, <1>4, <1>10 DEF RejectionKept, RejectedHere, AllOk, Current
  <2> QED BY <2>3, <2>4
<1> QED BY <1>5, <1>6, <1>7, <1>8, <1>11

\* The notice of a lone promise passes a rejection on.
LEMMA OnWaitDoneStep == ASSUME CoIInv, NEW p \in Promises, OnWaitDone(p) PROVE CoIInv'
<1> USE DEF CoIInv, OnWaitDone
<1>1. p \in Current /\ Suspended /\ ~Idle /\ co.segment = Unsettled /\ (Registering \/ Waiting) /\ co \in CoRecords
  BY WhoCalls DEF CoTypeOK
<1>2. Cardinality(Current) = 1 /\ IsFiniteSet(Current)
  BY <1>1, CurrentAwait DEF Suspended
<1>3. Current = {p}
  <2>1. PICK q : Current = {q}
    BY <1>2, FS_Singleton
  <2> QED BY <1>1, <2>1
<1>4. notice'[p] = "resume" /\ (\A q \in Promises \ {p} : notice'[q] = notice[q]) /\ promise[p] # "pending"
  BY DEF CoTypeOK, NoticesFit
<1>5. /\ co' \in CoRecords /\ co'.step = co.step /\ co'.segment = Unsettled
      /\ IF promise[p] = "bad" THEN co'.terminated /\ co'.result = Rejected(p) ELSE co' = co
  BY <1>1, SettlingHelpers, VerdictTags
<1>6. Current' = {p} /\ Uncounted' = {} /\ Resuming' = {p} /\ Unregistered' = {} /\ Unregistered = {}
  <2>1. Current' = {p}
    BY <1>3, <1>5 DEF Current
  <2> QED BY <1>3, <1>4, <2>1 DEF Uncounted, Resuming, Unregistered
<1>7. Suspended' /\ ~Idle' /\ Waiting
  BY <1>1, <1>2, <1>3, <1>4, <1>5, <1>6, SuspendedNotIdle DEF Suspended, Idle, Registering
<1>8. CoTypeOK'
  BY <1>4, <1>5 DEF CoTypeOK
<1>9. NoticesFit' /\ SegmentsPlaced' /\ Others'
  BY <1>1, <1>4, <1>5, AwaitOfPromise DEF NoticesFit, SegmentsPlaced, Others, Single, Current, CoRecords
<1>10. CarriedOnce'
  BY <1>5, <1>6, <1>7 DEF CarriedOnce, Waiting
<1>11. RejectionKept'
  <2>1. CASE promise[p] = "bad"
    BY <2>1, <1>5, <1>6 DEF RejectionKept, RejectedHere
  <2>2. CASE promise[p] = "ok"
    BY <2>2, <1>1, <1>2, <1>3, <1>5, <1>6, <1>7 DEF RejectionKept, RejectedHere, AllOk
  <2> QED BY <2>1, <2>2, <1>4 DEF CoTypeOK
<1> QED BY <1>8, <1>9, <1>10, <1>11
\* A notice of a group records its rejection if it is the first.
LEMMA OnAwaitDoneRejectStep == ASSUME CoIInv, NEW p \in Promises, OnAwaitDoneReject(p) PROVE CoIInv'
<1> USE DEF CoIInv, OnAwaitDoneReject
<1>1. p \in Current /\ Suspended /\ ~Idle /\ co.segment = Unsettled /\ (Registering \/ Waiting)
  BY WhoCalls
<1>2. Cardinality(Current) # 1
  BY <1>1, CurrentAwait DEF Suspended
<1>3. notice'[p] = "count" /\ (\A q \in Promises \ {p} : notice'[q] = notice[q]) /\ promise[p] \in {"ok", "bad"}
  BY DEF CoTypeOK, NoticesFit
<1>4. Current' = Current /\ Uncounted' = Uncounted /\ Resuming' = Resuming /\ Unregistered' = Unregistered
        /\ p \in Uncounted /\ Resuming = {}
  <2>1. Current' = Current
    BY DEF Current
  <2>2. Uncounted' = Uncounted /\ Resuming' = Resuming /\ Unregistered' = Unregistered /\ p \in Uncounted
    BY <1>1, <1>3, <2>1 DEF Uncounted, Resuming, Unregistered, Current
  <2> QED BY <2>1, <2>2, <1>1 DEF Suspended
<1>5. /\ group' \in [pending : Int, rejected : BOOLEAN, first : Verdicts] /\ group'.pending = group.pending
      /\ IF promise[p] = "bad" /\ ~group.rejected THEN group'.rejected /\ group'.first = Rejected(p) ELSE group' = group
  BY VerdictTags DEF CoTypeOK
<1>6. Suspended' /\ ~Idle'
  BY <1>1, <1>3, <1>4, <1>5 DEF Suspended, Idle
<1>7. CoTypeOK'
  BY <1>3, <1>5 DEF CoTypeOK
<1>8. NoticesFit' /\ SegmentsPlaced' /\ Others'
  BY <1>1, <1>3, AwaitOfPromise DEF NoticesFit, SegmentsPlaced, Others, Single, Current, CoTypeOK, CoRecords
<1>9. CarriedOnce'
  BY <1>1, <1>4, <1>6 DEF CarriedOnce, Waiting, Registering
<1>10. RejectionKept'
  <2>1. CASE co.terminated
    BY <2>1, <1>1, <1>4 DEF RejectionKept
  <2>2. CASE ~co.terminated
    <3>1. CASE group.rejected
      BY <2>2, <3>1, <1>1, <1>2, <1>4, <1>5, <1>6 DEF RejectionKept, RejectedHere
    <3>2. CASE ~group.rejected /\ promise[p] = "bad"
      BY <2>2, <3>2, <1>1, <1>2, <1>4, <1>5, <1>6 DEF RejectionKept, RejectedHere
    <3>3. CASE ~group.rejected /\ promise[p] = "ok"
      BY <2>2, <3>3, <1>1, <1>2, <1>3, <1>4, <1>5, <1>6 DEF RejectionKept, AllOk, Current
    <3> QED BY <3>1, <3>2, <3>3, <1>3
  <2> QED BY <2>1, <2>2
<1> QED BY <1>7, <1>8, <1>9, <1>10

\* A notice of a group counts down; the last one, which takes the recorded
\* rejection with it, resumes.
LEMMA OnAwaitDoneCountStep == ASSUME CoIInv, NEW p \in Promises, OnAwaitDoneCount(p) PROVE CoIInv'
<1> USE DEF CoIInv, OnAwaitDoneCount
<1>1. p \in Current /\ Suspended /\ ~Idle /\ co.segment = Unsettled /\ (Registering \/ Waiting) /\ co \in CoRecords
  BY WhoCalls DEF CoTypeOK
<1>2. Cardinality(Current) # 1 /\ IsFiniteSet(Current) /\ promise[p] # "pending"
  BY <1>1, CurrentAwait DEF Suspended, NoticesFit
<1>3. p \in Uncounted /\ IsFiniteSet(Uncounted) /\ Resuming = {}
  <2>1. p \in Uncounted /\ Uncounted \subseteq Current
    BY <1>1 DEF Uncounted
  <2>2. IsFiniteSet(Uncounted)
    BY <2>1, <1>2, FS_Subset
  <2> QED BY <2>1, <2>2, <1>1 DEF Suspended
<1>4. Cardinality(Uncounted \ {p}) = Cardinality(Uncounted) - 1 /\ group.pending = Cardinality(Uncounted)
        /\ (Cardinality(Uncounted) = 1 <=> Uncounted = {p}) /\ Cardinality(Uncounted) \in Nat
  <2>1. PICK S, e : S = Uncounted /\ e = p
    OBVIOUS
  <2>2. IsFiniteSet(S) /\ e \in S
    BY <2>1, <1>3
  <2>3. Cardinality(S \ {e}) = Cardinality(S) - 1
    BY <2>2, FS_RemoveElement
  <2>4. Cardinality(S) \in Nat
    BY <2>2, FS_CardinalityType
  <2>5. Cardinality(S) = 1 <=> \E x : S = {x}
    BY <2>2, FS_Singleton
  <2> QED BY <2>1, <2>2, <2>3, <2>4, <2>5, <1>1, <1>2 DEF Suspended
<1> DEFINE last == group.pending = 1
<1>5. notice'[p] = (IF last THEN "resume" ELSE "done") /\ \A q \in Promises \ {p} : notice'[q] = notice[q]
  BY DEF CoTypeOK
<1>6. group' \in [pending : Int, rejected : BOOLEAN, first : Verdicts] /\ group'.pending = group.pending - 1
        /\ group'.rejected = group.rejected /\ group'.first = group.first
  BY DEF CoTypeOK
<1>7. /\ co' \in CoRecords /\ co'.step = co.step /\ co'.segment = Unsettled
      /\ IF last /\ group.rejected THEN co'.terminated /\ co'.result = group.first ELSE co' = co
  <2>1. group.first \in Verdicts
    BY DEF CoTypeOK
  <2> QED BY <2>1, <1>1, SettlingHelpers
<1>8. Current' = Current /\ Uncounted' = Uncounted \ {p} /\ Resuming' = (IF last THEN {p} ELSE {})
        /\ Unregistered' = Unregistered
  <2>1. Current' = Current
    BY <1>7 DEF Current
  <2>2. Uncounted' = Uncounted \ {p} /\ Unregistered' = Unregistered
    BY <1>1, <1>5, <2>1 DEF Uncounted, Unregistered, Current
  <2>3. Resuming' = (IF last THEN {p} ELSE {})
    BY <1>1, <1>3, <1>5, <2>1 DEF Resuming, Current
  <2> QED BY <2>1, <2>2, <2>3
<1>9. last <=> Uncounted' = {}
  BY <1>3, <1>4, <1>8
<1>10. Suspended'
  BY <1>1, <1>4, <1>6, <1>7, <1>8, <1>9 DEF Suspended
<1>11. ~Idle' /\ ~Idle
  <2>1. PICK q \in Current' : q \in Uncounted' \/ q \in Resuming'
    BY <1>8, <1>9 DEF Uncounted, Resuming
  <2> QED BY <2>1, <1>1 DEF Uncounted, Resuming, Idle
<1>12. CoTypeOK'
  BY <1>5, <1>6, <1>7 DEF CoTypeOK
<1>13. NoticesFit' /\ SegmentsPlaced' /\ Others'
  BY <1>1, <1>2, <1>5, <1>7, AwaitOfPromise DEF NoticesFit, SegmentsPlaced, Others, Single, Current, CoRecords
<1>14. CarriedOnce'
  BY <1>1, <1>7, <1>8, <1>10 DEF CarriedOnce, Waiting, Registering
<1>15. RejectionKept'
  <2>1. CASE co.terminated
    BY <2>1, <1>1, <1>3 DEF RejectionKept
  <2>2. CASE ~co.terminated /\ group.rejected
    <3>1. RejectedHere(group.first)
      BY <2>2, <1>1, <1>2 DEF RejectionKept
    <3>2. CASE last
      BY <2>2, <3>1, <3>2, <1>7, <1>8, <1>9 DEF RejectionKept, RejectedHere
    <3>3. CASE ~last
      BY <2>2, <3>1, <3>3, <1>2, <1>6, <1>7, <1>8, <1>11 DEF RejectionKept, RejectedHere
    <3> QED BY <3>2, <3>3
  <2>3. CASE ~co.terminated /\ ~group.rejected
    BY <2>3, <1>1, <1>2, <1>5, <1>6, <1>7, <1>8, <1>11 DEF RejectionKept, AllOk, Current
  <2> QED BY <2>1, <2>2, <2>3
<1> QED BY <1>12, <1>13, <1>14, <1>15
\* The last notice resumes the body: in place, by a post, or, refused by a stopped
\* executor, by settling the coroutine.
LEMMA ResumeInlineStep == ASSUME CoIInv, NEW p \in Promises, NEW idle \in BOOLEAN, ResumeInline(p, idle) PROVE CoIInv'
<1> USE DEF CoIInv, ResumeInline
<1> DEFINE k == SegmentOf(AwaitOf(p))
           ctx == noticeOn[p]
           b == [seg |-> k, on |-> [ctx EXCEPT !.depth = @ + 1], todo |-> {}, fresh |-> TRUE]
           inline == ~execStopped /\ idle /\ ShouldInline(ctx, k)
<1>1. /\ p \in Current /\ Suspended /\ ~Idle /\ co.segment = Unsettled /\ co \in CoRecords
      /\ Resuming = {p} /\ Uncounted = {} /\ acts = {} /\ posted = <<>>
  BY WhoCalls DEF CoTypeOK, Waiting
<1>2. AwaitOf(p) = co.step /\ co.step \in 1 .. Len(Awaits) /\ k = co.step + 1 /\ k \in Segments
  BY <1>1, CoroutineAssumption DEF Current, Suspended, SegmentOf, Segments, CoroutineAssumption
<1>3. notice'[p] = "done" /\ (\A q \in Promises \ {p} : notice'[q] = notice[q]) /\ promise[p] # "pending"
  BY DEF CoTypeOK, NoticesFit
<1>4. Stopped \in Verdicts
  BY VerdictTags
<1>5. co' \in CoRecords /\ co'.step = co.step /\ (execStopped => co'.segment = Stopped) /\ (~execStopped => co' = co)
  BY <1>1, <1>4, SettlingHelpers DEF PostResume
<1>6. acts' = (IF inline THEN {b} ELSE {}) /\ posted' = (IF execStopped \/ inline THEN <<>> ELSE <<k>>)
  BY <1>1 DEF PostResume
<1>7. inline => b \in [seg : Segments, on : ThreadContexts, todo : SUBSET Promises, fresh : BOOLEAN]
        /\ b.fresh /\ b.todo = {} /\ b.seg = k /\ b.on.own /\ b.on.slot = Kinds[k] /\ b.on.depth <= MaxInline
  <2> SUFFICES ASSUME inline
               PROVE b \in [seg : Segments, on : ThreadContexts, todo : SUBSET Promises, fresh : BOOLEAN]
                       /\ b.fresh /\ b.todo = {} /\ b.seg = k /\ b.on.own /\ b.on.slot = Kinds[k] /\ b.on.depth <= MaxInline
    OBVIOUS
  <2>1. ctx \in ThreadContexts /\ ctx.own /\ ctx.slot = Kinds[k] /\ ctx.depth < MaxInline
    BY DEF CoTypeOK, ShouldInline
  <2>2. [ctx EXCEPT !.depth = @ + 1] \in ThreadContexts
    <3>1. PICK n \in 0 .. MaxInline : n = ctx.depth + 1
      BY <2>1, CoroutineAssumption DEF ThreadContexts, CoroutineAssumption
    <3>2. [ctx EXCEPT !.depth = @ + 1] = [ctx EXCEPT !.depth = n]
      BY <3>1
    <3>3. [ctx EXCEPT !.depth = n] \in ThreadContexts
      BY <2>1, <3>1 DEF ThreadContexts
    <3> QED BY <3>2, <3>3
  <2> QED BY <1>2, <2>1, <2>2, CoroutineAssumption DEF ThreadContexts, CoroutineAssumption
<1> HIDE DEF b, inline
<1>8. Current' = Current /\ Resuming' = {} /\ Uncounted' = {} /\ Idle'
  <2>1. Current' = Current
    BY <1>5 DEF Current
  <2>2. \A q \in Current : notice'[q] = "done"
    <3> SUFFICES ASSUME NEW q \in Current, q # p PROVE notice'[q] = "done"
      BY <1>3
    <3>1. q \in Promises /\ q \notin Resuming /\ q \notin Uncounted
      BY <1>1 DEF Current
    <3>2. notice[q] = "done"
      BY <3>1 DEF CoTypeOK, Resuming, Uncounted
    <3> QED BY <1>3, <3>1, <3>2
  <2> QED BY <1>1, <1>2, <1>5, <2>1, <2>2, CoroutineAssumption DEF Idle, Resuming, Uncounted, CoroutineAssumption
<1>9. ~Suspended'
  BY <1>8 DEF Suspended
<1>10. CoTypeOK'
  <2>1. posted' \in Seq(Segments)
    BY <1>2, <1>6, PostedSeq
  <2> QED BY <1>3, <1>5, <1>6, <1>7, <2>1 DEF CoTypeOK
<1>11. NoticesFit' /\ Others'
  BY <1>1, <1>3, <1>5, AwaitOfPromise DEF NoticesFit, Others, Single, Current, CoRecords
<1>12. SegmentsPlaced'
  BY <1>6, <1>7 DEF SegmentsPlaced
<1>13. CarriedOnce'
  <2>1. CASE execStopped
    BY <2>1, <1>4, <1>5, <1>6, <1>8, VerdictTags DEF CarriedOnce, Settled, inline
  <2>2. CASE ~execStopped /\ inline
    BY <2>2, <1>1, <1>2, <1>5, <1>6, <1>7, <1>8 DEF CarriedOnce, Running
  <2>3. CASE ~execStopped /\ ~inline
    BY <2>3, <1>1, <1>2, <1>5, <1>6, <1>8 DEF CarriedOnce, Queued
  <2> QED BY <2>1, <2>2, <2>3
<1>14. RejectionKept'
  <2>1. CASE execStopped
    BY <2>1, <1>4, <1>5, VerdictTags DEF RejectionKept
  <2>2. CASE ~execStopped /\ co.terminated
    BY <2>2, <1>1, <1>5, <1>8 DEF RejectionKept, RejectedHere
  <2>3. CASE ~execStopped /\ ~co.terminated
    <3>1. AllOk(Current)
      <4>1. CASE Cardinality(Current) = 1
        <5>1. PICK q : Current = {q}
          BY <4>1, <1>1, CurrentAwait, FS_Singleton DEF Suspended
        <5>2. AllOk(Resuming)
          BY <2>3, <1>1, <4>1 DEF RejectionKept
        <5> QED BY <5>1, <5>2, <1>1 DEF AllOk
      <4>2. CASE Cardinality(Current) # 1
        <5>1. AllOk({q \in Current : notice[q] \in {"count", "resume", "done"}})
          BY <2>3, <1>1, <4>2 DEF RejectionKept
        <5>2. \A q \in Current : notice[q] \in {"resume", "done"}
          BY <1>1 DEF CoTypeOK, Uncounted, Current
        <5> QED BY <5>1, <5>2 DEF AllOk
      <4> QED BY <4>1, <4>2
    <3> QED BY <2>3, <3>1, <1>1, <1>5, <1>8 DEF RejectionKept, AllOk
  <2> QED BY <2>1, <2>2, <2>3
<1> QED BY <1>10, <1>11, <1>12, <1>13, <1>14

\* The executor stops, or nothing moves.
LEMMA CoOtherStep == ASSUME CoIInv, ExecutorStops \/ UNCHANGED coVars PROVE CoIInv'
<1> USE DEF CoIInv, ExecutorStops, coVars
<1>1. /\ CoTypeOK' /\ NoticesFit' /\ Others' /\ SegmentsPlaced'
      /\ Current' = Current /\ Uncounted' = Uncounted /\ Resuming' = Resuming /\ Unregistered' = Unregistered
  <2>1. CoTypeOK' /\ SegmentsPlaced'
    BY DEF CoTypeOK, SegmentsPlaced
  <2>2. NoticesFit' /\ Others'
    BY DEF NoticesFit, Others, Single
  <2>3. Current' = Current
    BY DEF Current
  <2>4. Uncounted' = Uncounted /\ Resuming' = Resuming /\ Unregistered' = Unregistered
    BY <2>3 DEF Uncounted, Resuming, Unregistered
  <2> QED BY <2>1, <2>2, <2>3, <2>4
<1>2. (Idle' <=> Idle) /\ (Suspended' <=> Suspended)
  BY <1>1 DEF Idle, Suspended
<1>3. CarriedOnce'
  BY <1>1, <1>2 DEF CarriedOnce, NotStarted, Running, Queued, Registering, Waiting, Settled
<1>4. RejectionKept'
  BY <1>1, <1>2 DEF RejectionKept, RejectedHere, AllOk, CoTypeOK
<1> QED BY <1>1, <1>3, <1>4

\* Every step of the coroutine, its executor and its promises preserves the invariant.
LEMMA CoNextIInv == CoIInv /\ [CoNext]_coVars => CoIInv'
<1> SUFFICES ASSUME CoIInv, [CoNext]_coVars PROVE CoIInv'
  OBVIOUS
<1>1. CASE CoStart \/ Resume
  BY <1>1, CoStartStep, ResumeStep
<1>2. ASSUME NEW a \in acts,
             RunTerminated(a) \/ RunThrows(a) \/ Await(a) \/ (\E r \in {Done, Returned} : RunReturns(a, r))
               \/ (\E p \in a.todo : AwaitEach(a, p))
      PROVE CoIInv'
  BY <1>2, RunEndsStep, AwaitStep, AwaitEachStep
<1>3. ASSUME NEW p \in Promises,
             OnWaitDone(p) \/ OnAwaitDoneReject(p) \/ OnAwaitDoneCount(p) \/ (\E idle \in BOOLEAN : ResumeInline(p, idle))
      PROVE CoIInv'
  BY <1>3, OnWaitDoneStep, OnAwaitDoneRejectStep, OnAwaitDoneCountStep, ResumeInlineStep
<1>4. CASE Settling
  BY <1>4, PromiseSettlesStep DEF Settling
<1>5. CASE ExecutorStops \/ UNCHANGED coVars
  BY <1>5, CoOtherStep
<1> QED BY <1>1, <1>2, <1>3, <1>4, <1>5 DEF CoNext, CoThreads

-------------------------------------------------------------------------------
\* Of its carriers a coroutine has as many as OneContinuation allows.
LEMMA CarriedIsOneContinuation == CoIInv => OneContinuation
<1> SUFFICES ASSUME CoIInv, co.step # -1 PROVE OneContinuation
  BY DEF OneContinuation
<1> DEFINE A == {a \in acts : a.fresh \/ a.todo # {}}
           out == \E p \in Promises : notice[p] \in {"waiting", "reject", "count", "resume"}
<1>1. A = acts
  BY WhoRuns
<1>2. Cardinality({}) = 0 /\ \A x : Cardinality({x}) = 1
  BY FS_EmptySet, FS_Singleton
<1>3. ASSUME out PROVE Suspended /\ ~Idle /\ co.segment = Unsettled /\ (Registering \/ Waiting)
  BY <1>3, WhoCalls
<1>4. CASE co.segment # Unsettled
  <2>1. acts = {} /\ posted = <<>> /\ ~out
    BY <1>3, <1>4 DEF CoIInv, CarriedOnce, Settled
  <2>2. Calling = {}
    BY <2>1 DEF Calling
  <2> QED BY <2>1, <2>2, <1>1, <1>2, <1>4 DEF OneContinuation
<1>5. CASE co.segment = Unsettled
  <2>1. Running \/ Queued \/ Registering \/ Waiting
    BY <1>5 DEF CoIInv, CarriedOnce, NotStarted
  <2>2. CASE Running \/ Queued
    <3>1. ~out
      BY <1>3, <2>2 DEF Running, Queued
    <3>2. Cardinality(A) + Len(posted) = 1
      <4>1. CASE Running
        <5>1. PICK a : acts = {a} /\ posted = <<>>
          BY <4>1 DEF Running
        <5>2. Cardinality(A) = 1 /\ Len(posted) = 0
          BY <5>1, <1>1, <1>2
        <5> QED BY <5>2
      <4>2. CASE Queued
        <5>1. Cardinality(A) = 0
          BY <4>2, <1>1, <1>2 DEF Queued
        <5>2. Len(posted) = 1
          BY <4>2 DEF Queued
        <5> QED BY <5>1, <5>2
      <4> QED BY <2>2, <4>1, <4>2
    <3> QED BY <3>1, <3>2, <1>5 DEF OneContinuation, Outstanding
  <2>3. CASE Registering
    <3>1. Cardinality(A) + Len(posted) = 1 /\ posted = <<>> /\ ~\E a \in acts : a.fresh
      <4>1. PICK a \in acts : acts = {a} /\ ~a.fresh /\ posted = <<>>
        BY <2>3 DEF Registering
      <4>2. Cardinality(A) = 1 /\ Len(posted) = 0
        BY <4>1, <1>1, <1>2
      <4> QED BY <4>1, <4>2
    <3> QED BY <3>1, <1>5 DEF OneContinuation, Outstanding
  <2>4. CASE Waiting
    <3>1. Cardinality(A) + Len(posted) = 0 /\ posted = <<>> /\ ~\E a \in acts : a.fresh
      BY <2>4, <1>1, <1>2 DEF Waiting
    <3>2. PICK q \in Current : q \in Uncounted \/ q \in Resuming
      BY <2>4 DEF Waiting, Suspended, Uncounted, Resuming
    <3>3. q \notin Unregistered /\ q \in Promises
      BY <2>4 DEF Waiting, Current
    <3>4. notice[q] \in {"waiting", "reject", "count", "resume"}
      BY <3>2, <3>3 DEF Uncounted, Resuming, Unregistered
    <3> QED BY <3>1, <3>3, <3>4, <1>5 DEF OneContinuation, Outstanding
  <2> QED BY <2>1, <2>2, <2>3, <2>4
<1> QED BY <1>4, <1>5

\* The verdict of the coroutine is that of its body run from top to bottom.
LEMMA VerdictIsSequential == CoIInv => ResultIsSequential
<1> SUFFICES ASSUME CoIInv, co.segment # Unsettled PROVE ResultIsSequential
  BY VerdictTags DEF ResultIsSequential, Unsettled, Done, Returned, Stopped
<1>1. Idle
  BY DEF CoIInv, CarriedOnce, Settled
<1>2. ASSUME co.segment[1] = "rejected"
      PROVE /\ AwaitOf(co.segment[2]) = co.step /\ promise[co.segment[2]] = "bad"
            /\ \A k \in 1 .. co.step : \A p \in Awaits[k] : promise[p] # "pending" /\ (k < co.step => promise[p] = "ok")
  <2>1. PICK q \in Current : co.segment = Rejected(q) /\ promise[q] = "bad"
    BY <1>2 DEF CoIInv, RejectionKept, RejectedHere
  <2>2. co.segment[2] = q
    BY <2>1 DEF Rejected
  <2>3. co.step \in 1 .. Len(Awaits)
    BY <2>1, AwaitOfPromise DEF Current
  <2>4. ASSUME NEW k \in 1 .. co.step, NEW p \in Awaits[k]
        PROVE promise[p] # "pending" /\ (k < co.step => promise[p] = "ok")
    <3>1. p \in Promises /\ AwaitOf(p) = k
      BY <2>3, PromisesOfAwait, CoroutineAssumption DEF CoroutineAssumption
    <3>2. notice[p] = "done"
      BY <2>3, <3>1, <1>1, CoroutineAssumption DEF CoIInv, Others, Idle, Current, CoroutineAssumption
    <3> QED BY <3>1, <3>2 DEF CoIInv, Others, NoticesFit
  <2> QED BY <2>1, <2>2, <2>4 DEF Current
<1>3. ASSUME co.segment \in {Done, Returned} PROVE \A p \in Promises : promise[p] = "ok"
  <2> SUFFICES ASSUME NEW p \in Promises PROVE promise[p] = "ok"
    OBVIOUS
  <2>1. co.step = Len(Awaits) /\ AllOk(Current)
    BY <1>3 DEF CoIInv, RejectionKept
  <2>2. AwaitOf(p) \in 1 .. Len(Awaits)
    BY AwaitOfPromise
  <2> QED BY <2>1, <2>2, CoroutineAssumption DEF CoIInv, Others, AllOk, Current, CoroutineAssumption
<1>4. co.segment = Stopped => execStopped
  BY DEF CoIInv, RejectionKept
<1> QED BY <1>2, <1>3, <1>4 DEF ResultIsSequential

\* For any sequence of awaits, of any finite size, any gate kinds and any inline limit:
\* whoever settles the awaited promises and whenever, the body of the coroutine is
\* carried on by exactly one of an activation, a posted Resume and a suspended await,
\* its segments run where they must, and its verdict is that of the sequential program.
THEOREM CoroutineInvHolds == CoSpec => []CoroutineInv
<1>1. CoIInv => CoroutineInv
  BY CarriedIsOneContinuation, VerdictIsSequential DEF CoIInv, CoroutineInv
<1> QED BY <1>1, CoInitIInv, CoNextIInv, PTL DEF CoSpec
===============================================================================

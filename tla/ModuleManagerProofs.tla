------------------------- MODULE ModuleManagerProofs -------------------------
(***************************************************************************)
(* What ModuleManager and Application promise, proved for any modules,     *)
(* interfaces, names, dependencies and numbers of calls.                   *)
(***************************************************************************)
EXTENDS Application, FiniteSetTheorems, WellFoundedInduction, TLAPS

(***************************************************************************)
(* Induction over the numbers up to a bound.                               *)
(***************************************************************************)
\* Every non-empty set of natural numbers has a least element.
LEMMA Least ==
    ASSUME NEW T, T \subseteq Nat, T # {}
    PROVE  \E x \in T : \A y \in T : x <= y
<1>1. IsWellFoundedOn(OpToRel(<, Nat), Nat)
  BY NatLessThanWellFounded
<1>2. PICK R : R = OpToRel(<, Nat)
  OBVIOUS
<1>3. R = {s \in Nat \X Nat : s[1] < s[2]}
  BY <1>2 DEF OpToRel
<1>4. PICK x \in T : \A y \in T : ~(<<y, x>> \in R)
  BY <1>1, <1>2, WFMin
<1>5. ASSUME NEW y \in T PROVE x <= y
  <2>1. ~(<<y, x>> \in R) /\ x \in Nat /\ y \in Nat
    BY <1>4
  <2>2. <<y, x>> \in Nat \X Nat /\ <<y, x>>[1] = y /\ <<y, x>>[2] = x
    BY <2>1
  <2>3. ~(y < x)
    BY <2>1, <2>2, <1>3
  <2> QED BY <2>1, <2>3
<1> QED BY <1>5

\* A set that holds 0 and the successor, up to a bound, of each of its numbers
\* holds every number up to the bound.
LEMMA UpTo ==
    ASSUME NEW S, NEW N \in Nat, 0 \in S, \A n \in 0 .. N : n \in S /\ n < N => n + 1 \in S
    PROVE  \A n \in 0 .. N : n \in S
<1> SUFFICES ASSUME NEW m \in 0 .. N, m \notin S PROVE FALSE
  OBVIOUS
<1> DEFINE T == {n \in 0 .. N : n \notin S}
<1>1. T \subseteq Nat /\ T # {}
  OBVIOUS
<1> HIDE DEF T
<1>2. PICK x \in T : \A y \in T : x <= y
  BY <1>1, Least
<1>3. x \in 0 .. N /\ x # 0 /\ x - 1 \in 0 .. N /\ x \notin S
  BY DEF T
<1>4. x - 1 \in S
  BY <1>2, <1>3 DEF T
<1> QED BY <1>3, <1>4

IsIteration(f, Q, q, F, N) ==
    f \in [0 .. N -> Q] /\ f[0] = q /\ \A k \in 1 .. N : f[k] = F[f[k - 1]]

\* Iterating a function from a start value: the sequence of its values exists.
LEMMA Iterates ==
    ASSUME NEW Q, NEW q \in Q, NEW F \in [Q -> Q], NEW N \in Nat
    PROVE  \E f : IsIteration(f, Q, q, F, N)
<1> DEFINE Good(n, f) == f[0] = q /\ \A k \in 1 .. n : f[k] = F[f[k - 1]]
           S == {n \in Nat : \E f \in [0 .. n -> Q] : Good(n, f)}
<1>1. 0 \in S
  <2> DEFINE f == [k \in 0 .. 0 |-> q]
  <2>1. f \in [0 .. 0 -> Q] /\ f[0] = q /\ 1 .. 0 = {}
    OBVIOUS
  <2> QED BY <2>1
<1>2. ASSUME NEW n \in Nat, n \in S PROVE n + 1 \in S
  <2>1. PICK f \in [0 .. n -> Q] : Good(n, f)
    BY <1>2
  <2> DEFINE g == [k \in 0 .. n + 1 |-> IF k \in 0 .. n THEN f[k] ELSE F[f[n]]]
  <2>2. g \in [0 .. n + 1 -> Q]
    OBVIOUS
  <2>3. g[0] = q
    BY <2>1
  <2>4. ASSUME NEW k \in 1 .. n + 1 PROVE g[k] = F[g[k - 1]]
    <3>1. k - 1 \in 0 .. n /\ k \in 0 .. n + 1 /\ g[k - 1] = f[k - 1]
      OBVIOUS
    <3>2. CASE k = n + 1
      BY <3>1, <3>2
    <3>3. CASE k # n + 1
      <4>1. k \in 1 .. n /\ g[k] = f[k]
        BY <3>3
      <4> QED BY <4>1, <3>1, <2>1
    <3> QED BY <3>2, <3>3
  <2> HIDE DEF g
  <2> QED BY <2>2, <2>3, <2>4
<1> HIDE DEF S
<1>3. \A n \in 0 .. N : n \in S
  BY <1>1, <1>2, UpTo
<1>4. N \in S
  BY <1>3
<1> QED BY <1>4 DEF S, IsIteration

(***************************************************************************)
(* InOrder.                                                                *)
(***************************************************************************)
\* InOrder lists exactly the numbers of a finite set, counting up.
LEMMA InOrderLists ==
    ASSUME NEW S \in SUBSET Nat, IsFiniteSet(S)
    PROVE  /\ InOrder(S) \in Seq(S) /\ Len(InOrder(S)) = Cardinality(S)
           /\ \A j, k \in 1 .. Len(InOrder(S)) : j < k => InOrder(S)[j] < InOrder(S)[k]
           /\ \A i \in S : \E k \in 1 .. Len(InOrder(S)) : InOrder(S)[k] = i
<1> DEFINE Below(i) == {j \in S : j <= i}
           r == [i \in S |-> Cardinality(Below(i))]
           n == Cardinality(S)
<1>1. n \in Nat
  BY FS_CardinalityType
<1>2. ASSUME NEW i \in S PROVE IsFiniteSet(Below(i)) /\ Cardinality(Below(i)) \in 1 .. n
  <2>1. IsFiniteSet(Below(i)) /\ Cardinality(Below(i)) <= n
    BY FS_Subset, Below(i) \subseteq S
  <2>2. Cardinality(Below(i)) \in Nat /\ (Cardinality(Below(i)) = 0 <=> Below(i) = {})
    BY <2>1, FS_CardinalityType, FS_EmptySet
  <2>3. i \in Below(i)
    OBVIOUS
  <2> HIDE DEF Below
  <2> QED BY <2>1, <2>2, <2>3, <1>1
<1>3. ASSUME NEW i \in S, NEW j \in S, i < j
      PROVE  Cardinality(Below(i)) < Cardinality(Below(j))
  <2>1. Below(i) \subseteq Below(j) /\ j \in Below(j) /\ j \notin Below(i)
    <3>1. i \in Nat /\ j \in Nat /\ i < j /\ \A k \in S : k \in Nat
      BY <1>3
    <3>2. \A k \in S : k <= i => k <= j
      BY <3>1
    <3>3. j <= j /\ ~(j <= i)
      BY <3>1
    <3> QED BY <3>2, <3>3
  <2>2. /\ Cardinality(Below(i)) <= Cardinality(Below(j))
        /\ Cardinality(Below(j)) = Cardinality(Below(i)) => Below(j) = Below(i)
    BY <1>2, <2>1, FS_Subset
  <2>3. Cardinality(Below(i)) \in 1 .. n /\ Cardinality(Below(j)) \in 1 .. n
    BY <1>2
  <2> HIDE DEF Below
  <2> QED BY <1>1, <2>1, <2>2, <2>3
<1> HIDE DEF Below
<1>4. r \in [S -> 1 .. n]
  BY <1>2
<1>5. \A i, j \in S : i # j => r[i] # r[j]
  BY <1>1, <1>2, <1>3
<1>6. r \in Injection(S, 1 .. n)
  BY <1>4, <1>5 DEF Injection, IsInjective
<1>7. IsFiniteSet(1 .. n) /\ Cardinality(1 .. n) = n
  <2>1. 1 \in Int /\ n \in Int
    BY <1>1
  <2> QED BY <1>1, <2>1, FS_Interval
<1>8. r \in Surjection(S, 1 .. n)
  BY <1>6, <1>7, FS_Injection
<1>9. ASSUME NEW k \in 1 .. n PROVE InOrder(S)[k] \in S /\ Cardinality(Below(InOrder(S)[k])) = k
  <2>1. PICK i \in S : r[i] = k
    BY <1>8 DEF Surjection
  <2>2. Cardinality({j \in S : j <= i}) = k
    BY <2>1 DEF Below
  <2>3. InOrder(S)[k] = CHOOSE m \in S : Cardinality({j \in S : j <= m}) = k
    BY DEF InOrder
  <2> QED BY <2>2, <2>3 DEF Below
<1>10. InOrder(S) \in [1 .. n -> S]
  BY <1>9 DEF InOrder
<1>11. InOrder(S) \in Seq(S) /\ Len(InOrder(S)) = n
  BY <1>1, <1>10
<1>12. ASSUME NEW j \in 1 .. n, NEW k \in 1 .. n, j < k PROVE InOrder(S)[j] < InOrder(S)[k]
  <2>1. PICK a \in S, b \in S : /\ a = InOrder(S)[j] /\ b = InOrder(S)[k]
                               /\ Cardinality(Below(a)) = j /\ Cardinality(Below(b)) = k
    BY <1>9
  <2>2. a \in Nat /\ b \in Nat
    OBVIOUS
  <2>3. ~(b < a) /\ b # a
    BY <1>1, <1>3, <1>12, <2>1
  <2> QED BY <2>1, <2>2, <2>3
<1>13. ASSUME NEW i \in S PROVE \E k \in 1 .. n : InOrder(S)[k] = i
  <2>1. r[i] \in 1 .. n /\ r[i] = Cardinality(Below(i))
    BY <1>4
  <2>2. InOrder(S)[r[i]] \in S /\ r[InOrder(S)[r[i]]] = r[i]
    BY <1>9, <2>1
  <2> QED BY <1>5, <2>1, <2>2
<1> QED BY <1>11, <1>12, <1>13

(***************************************************************************)
(* ComputeStartOrder.                                                      *)
(***************************************************************************)
Entries == [m : Modules, iid : Iids \cup {NoKey}]
RegistryTypes == reg \in Seq(Entries) /\ deps \in [Modules -> SUBSET Iids]

KahnStates == [queue : Seq(Indexes), order : Seq(Indexes)]
KahnStart == [queue |-> InOrder({i \in Indexes : DependsOn(i) = {}}), order |-> <<>>]
KahnTurn(s) == IF s.queue = <<>> THEN s ELSE KahnStep(s)

\* Counting up a set of positions gives a sequence of positions.
LEMMA InOrderIndexes ==
    ASSUME reg \in Seq(Entries), NEW S \in SUBSET Indexes
    PROVE  /\ InOrder(S) \in Seq(S) /\ InOrder(S) \in Seq(Indexes)
           /\ \A j, k \in 1 .. Len(InOrder(S)) : j < k => InOrder(S)[j] < InOrder(S)[k]
           /\ \A i \in S : \E k \in 1 .. Len(InOrder(S)) : InOrder(S)[k] = i
<1>1. Len(reg) \in Nat /\ Indexes = 1 .. Len(reg)
  BY DEF Indexes
<1>2. IsFiniteSet(S) /\ S \in SUBSET Nat
  <2>1. 1 \in Int /\ Len(reg) \in Int
    BY <1>1
  <2>2. IsFiniteSet(Indexes)
    BY <1>1, <2>1, FS_Interval
  <2>3. S \subseteq Indexes /\ S \in SUBSET Nat
    BY <1>1
  <2> QED BY <2>2, <2>3, FS_Subset
<1>3. /\ InOrder(S) \in Seq(S)
      /\ \A j, k \in 1 .. Len(InOrder(S)) : j < k => InOrder(S)[j] < InOrder(S)[k]
      /\ \A i \in S : \E k \in 1 .. Len(InOrder(S)) : InOrder(S)[k] = i
  BY <1>2, InOrderLists
<1>4. PICK I : I = Indexes
  OBVIOUS
<1>5. InOrder(S) \in Seq(I)
  BY <1>3, <1>4
<1> QED BY <1>3, <1>4, <1>5

\* The entries an entry waits for are entries.
LEMMA DependsOnIndexes ==
    ASSUME NEW i PROVE DependsOn(i) \subseteq Indexes
  BY DEF DependsOn, Provider

\* A turn of the loop of ComputeStartOrder keeps positions in both lists.
LEMMA KahnTurnType ==
    ASSUME RegistryTypes, NEW s \in KahnStates
    PROVE  KahnTurn(s) \in KahnStates
<1>1. CASE s.queue = <<>>
  BY <1>1 DEF KahnTurn
<1>2. CASE s.queue # <<>>
  <2>1. Head(s.queue) \in Indexes /\ Tail(s.queue) \in Seq(Indexes) /\ s.order \in Seq(Indexes)
    BY <1>2 DEF KahnStates
  <2> DEFINE S == {i \in Indexes : Head(s.queue) \in DependsOn(i)
                     /\ DependsOn(i) \subseteq Range(s.order) \cup {Head(s.queue)}}
  <2>2. Freed(Head(s.queue), s.order) = InOrder(S) /\ S \in SUBSET Indexes
    BY DEF Freed
  <2>3. Freed(Head(s.queue), s.order) \in Seq(Indexes)
    BY <2>2, InOrderIndexes DEF RegistryTypes
  <2>4. /\ Tail(s.queue) \o Freed(Head(s.queue), s.order) \in Seq(Indexes)
        /\ Append(s.order, Head(s.queue)) \in Seq(Indexes)
    BY <2>1, <2>3
  <2> QED BY <1>2, <2>4 DEF KahnTurn, KahnStep, KahnStates
<1> QED BY <1>1, <1>2

\* The loop of ComputeStartOrder: its states after each turn, from the entries
\* that wait for nothing to what it returns.
LEMMA KahnDefined ==
    ASSUME RegistryTypes
    PROVE  \E run \in [0 .. Len(reg) -> KahnStates] :
              /\ run[0] = KahnStart /\ KahnRun = run[Len(reg)].order
              /\ \A k \in 1 .. Len(reg) : run[k] = KahnTurn(run[k - 1])
<1> DEFINE F == [s \in KahnStates |-> KahnTurn(s)]
           N == Len(reg)
           Turns(run) == run = [k \in 0 .. Len(reg) |->
              IF k = 0 THEN [queue |-> InOrder({i \in Indexes : DependsOn(i) = {}}), order |-> <<>>]
              ELSE IF run[k - 1].queue = <<>> THEN run[k - 1] ELSE KahnStep(run[k - 1])]
<1>1. F \in [KahnStates -> KahnStates]
  BY KahnTurnType
<1>2. KahnStart \in KahnStates
  <2>1. InOrder({i \in Indexes : DependsOn(i) = {}}) \in Seq(Indexes)
    BY InOrderIndexes, {i \in Indexes : DependsOn(i) = {}} \in SUBSET Indexes DEF RegistryTypes
  <2> QED BY <2>1 DEF KahnStart, KahnStates
<1>3. N \in Nat
  BY DEF RegistryTypes
<1> HIDE DEF F
<1>4. PICK f \in [0 .. N -> KahnStates] : f[0] = KahnStart /\ \A k \in 1 .. N : f[k] = F[f[k - 1]]
  <2>1. PICK Q, q, G, n : Q = KahnStates /\ q = KahnStart /\ G = F /\ n = N
    OBVIOUS
  <2>2. q \in Q /\ G \in [Q -> Q] /\ n \in Nat
    BY <1>1, <1>2, <1>3, <2>1
  <2>3. \E f : IsIteration(f, Q, q, G, n)
    BY <2>2, Iterates
  <2> QED BY <2>1, <2>3 DEF IsIteration
<1>5. ASSUME NEW k \in 1 .. N PROVE k - 1 \in 0 .. N /\ f[k - 1] \in KahnStates /\ f[k] = KahnTurn(f[k - 1])
  BY <1>3, <1>4 DEF F
<1>6. Turns(f)
  <2>1. \A k \in 0 .. N : k # 0 => k \in 1 .. N
    BY <1>3
  <2> QED BY <1>4, <1>5, <2>1 DEF KahnStart, KahnTurn
<1>7. PICK run : run = CHOOSE g : Turns(g)
  OBVIOUS
<1>8. KahnRun = run[Len(reg)].order
  BY <1>7 DEF KahnRun
<1>9. Turns(run)
  BY <1>6, <1>7
<1> QED OBVIOUS

Once(s) == \A j, k \in 1 .. Len(s) : s[j] = s[k] => j = k

\* What a sequence holds is what it has at its positions.
LEMMA RangeSeq ==
    ASSUME NEW S, NEW s \in Seq(S)
    PROVE  \A x : x \in Range(s) <=> \E k \in 1 .. Len(s) : s[k] = x
  BY DEF Range

Extended(u, s, e) ==
    /\ Len(u) = Len(s) + 1 /\ Len(s) \in Nat
    /\ u[Len(s) + 1] = e /\ \A k \in 1 .. Len(s) : u[k] = s[k]
    /\ \A x : x \in Range(u) <=> x \in Range(s) \/ x = e
    /\ Once(s) /\ e \notin Range(s) => Once(u)

\* Append adds its element at the end.
LEMMA AppendHolds ==
    ASSUME NEW S, NEW s \in Seq(S), NEW e \in S
    PROVE  Append(s, e) \in Seq(S) /\ Extended(Append(s, e), s, e)
<1>1. /\ Append(s, e) \in Seq(S) /\ Len(Append(s, e)) = Len(s) + 1 /\ Len(s) \in Nat
      /\ Append(s, e)[Len(s) + 1] = e /\ \A k \in 1 .. Len(s) : Append(s, e)[k] = s[k]
  OBVIOUS
<1>2. \A x : x \in Range(Append(s, e)) <=> \E k \in 1 .. Len(s) + 1 : Append(s, e)[k] = x
  <2>1. PICK u : u = Append(s, e)
    OBVIOUS
  <2>2. \A x : x \in Range(u) <=> \E k \in 1 .. Len(u) : u[k] = x
    BY <1>1, <2>1, RangeSeq
  <2> QED BY <1>1, <2>1, <2>2
<1>3. \A x : x \in Range(s) <=> \E k \in 1 .. Len(s) : s[k] = x
  BY RangeSeq
<1>4. \A k \in 1 .. Len(s) + 1 : k \in 1 .. Len(s) \/ k = Len(s) + 1
  BY <1>1
<1>5. (Len(s) + 1) \in 1 .. Len(s) + 1 /\ \A k \in 1 .. Len(s) : k \in 1 .. Len(s) + 1
  BY <1>1
<1>6. \A x : x \in Range(Append(s, e)) <=> x \in Range(s) \/ x = e
  BY <1>1, <1>2, <1>3, <1>4, <1>5
<1>7. ASSUME Once(s), e \notin Range(s) PROVE Once(Append(s, e))
  BY <1>1, <1>3, <1>4, <1>7 DEF Once
<1> QED BY <1>1, <1>6, <1>7 DEF Extended

Joined(u, s, t) ==
    /\ Len(u) = Len(s) + Len(t) /\ Len(s) \in Nat /\ Len(t) \in Nat
    /\ \A k \in 1 .. Len(s) : u[k] = s[k]
    /\ \A k \in 1 .. Len(t) : u[Len(s) + k] = t[k]
    /\ \A x : x \in Range(u) <=> x \in Range(s) \/ x \in Range(t)
    /\ Once(s) /\ Once(t) /\ (\A x \in Range(s) : x \notin Range(t)) => Once(u)

\* Concatenation holds what its two parts hold.
LEMMA ConcatHolds ==
    ASSUME NEW S, NEW s \in Seq(S), NEW t \in Seq(S)
    PROVE  s \o t \in Seq(S) /\ Joined(s \o t, s, t)
<1> DEFINE n == Len(s) u == s \o t
<1>1. /\ u \in Seq(S) /\ Len(u) = n + Len(t) /\ n \in Nat /\ Len(t) \in Nat
      /\ \A k \in 1 .. n : u[k] = s[k]
      /\ \A k \in 1 .. Len(t) : u[n + k] = t[k]
  OBVIOUS
<1> HIDE DEF u, n
<1>2. \A k \in 1 .. n + Len(t) : k \in 1 .. n \/ (k - n \in 1 .. Len(t) /\ k = n + (k - n))
  BY <1>1
<1>3. (\A k \in 1 .. n : k \in 1 .. n + Len(t)) /\ \A k \in 1 .. Len(t) : n + k \in 1 .. n + Len(t)
  BY <1>1
<1>4. /\ \A x : x \in Range(u) <=> \E k \in 1 .. n + Len(t) : u[k] = x
      /\ \A x : x \in Range(s) <=> \E k \in 1 .. n : s[k] = x
      /\ \A x : x \in Range(t) <=> \E k \in 1 .. Len(t) : t[k] = x
  <2>1. \A x : x \in Range(u) <=> \E k \in 1 .. Len(u) : u[k] = x
    BY <1>1, RangeSeq
  <2>2. \A x : x \in Range(s) <=> \E k \in 1 .. n : s[k] = x
    BY RangeSeq DEF n
  <2>3. \A x : x \in Range(t) <=> \E k \in 1 .. Len(t) : t[k] = x
    BY RangeSeq
  <2> QED BY <1>1, <2>1, <2>2, <2>3
<1>5. ASSUME NEW x PROVE x \in Range(u) <=> x \in Range(s) \/ x \in Range(t)
  <2>1. ASSUME NEW k \in 1 .. n + Len(t), u[k] = x PROVE x \in Range(s) \/ x \in Range(t)
    <3>1. CASE k \in 1 .. n
      BY <1>1, <1>4, <2>1, <3>1
    <3>2. CASE k - n \in 1 .. Len(t) /\ k = n + (k - n)
      <4>1. t[k - n] = x
        BY <1>1, <2>1, <3>2
      <4> QED BY <1>4, <3>2, <4>1
    <3> QED BY <1>2, <3>1, <3>2
  <2>2. ASSUME NEW k \in 1 .. n, s[k] = x PROVE x \in Range(u)
    BY <1>1, <1>3, <1>4, <2>2
  <2>3. ASSUME NEW k \in 1 .. Len(t), t[k] = x PROVE x \in Range(u)
    BY <1>1, <1>3, <1>4, <2>3
  <2> QED BY <1>4, <2>1, <2>2, <2>3
<1>6. ASSUME Once(s), Once(t), \A x \in Range(s) : x \notin Range(t),
             NEW j \in 1 .. Len(u), NEW k \in 1 .. Len(u), u[j] = u[k]
      PROVE  j = k
  <2>1. CASE j \in 1 .. n /\ k \in 1 .. n
    BY <1>1, <1>6, <2>1 DEF Once, n
  <2>2. CASE j \notin 1 .. n /\ k \notin 1 .. n
    <3>1. j - n \in 1 .. Len(t) /\ k - n \in 1 .. Len(t) /\ u[j] = t[j - n] /\ u[k] = t[k - n]
      BY <1>1, <1>2, <2>2
    <3>2. j - n = k - n
      BY <1>6, <3>1 DEF Once
    <3> QED BY <1>1, <3>2
  <2>3. ASSUME NEW a \in 1 .. n, NEW b \in 1 .. Len(u), b \notin 1 .. n, u[a] = u[b] PROVE FALSE
    <3>1. b - n \in 1 .. Len(t) /\ b = n + (b - n)
      BY <1>1, <1>2, <2>3
    <3>2. PICK c \in 1 .. Len(t) : u[b] = t[c]
      BY <1>1, <3>1
    <3>3. u[a] \in Range(s) /\ u[b] \in Range(t)
      BY <1>1, <1>4, <3>2
    <3> QED BY <1>6, <2>3, <3>3
  <2> QED BY <1>6, <2>1, <2>2, <2>3
<1> QED BY <1>1, <1>5, <1>6 DEF Joined, Once, u, n

\* A sequence is its head and its tail.
LEMMA TailHolds ==
    ASSUME NEW S, NEW s \in Seq(S), s # <<>>
    PROVE  /\ Head(s) \in S /\ Tail(s) \in Seq(S) /\ Len(Tail(s)) = Len(s) - 1 /\ Len(s) \in Nat /\ Len(s) # 0
           /\ s[1] = Head(s) /\ \A k \in 1 .. Len(s) - 1 : Tail(s)[k] = s[k + 1]
           /\ \A x : x \in Range(s) <=> x = Head(s) \/ x \in Range(Tail(s))
           /\ Once(s) => Once(Tail(s)) /\ Head(s) \notin Range(Tail(s))
<1> DEFINE t == Tail(s) n == Len(s)
<1>1. /\ Head(s) \in S /\ t \in Seq(S) /\ Len(t) = n - 1 /\ n \in Nat /\ n # 0
      /\ s[1] = Head(s) /\ \A k \in 1 .. n - 1 : t[k] = s[k + 1]
  OBVIOUS
<1>2. /\ \A x : x \in Range(s) <=> \E k \in 1 .. n : s[k] = x
      /\ \A x : x \in Range(t) <=> \E k \in 1 .. n - 1 : t[k] = x
  BY <1>1, RangeSeq, ZenonT(30)
<1> HIDE DEF t, n
<1>3. /\ 1 \in 1 .. n /\ \A k \in 1 .. n - 1 : k + 1 \in 1 .. n /\ k + 1 # 1
      /\ \A k \in 1 .. n : k = 1 \/ (k - 1 \in 1 .. n - 1 /\ k = (k - 1) + 1)
  BY <1>1
<1>4. ASSUME NEW x PROVE x \in Range(s) <=> x = Head(s) \/ x \in Range(t)
  <2>1. ASSUME NEW k \in 1 .. n, s[k] = x PROVE x = Head(s) \/ x \in Range(t)
    <3>1. CASE k = 1
      BY <1>1, <2>1, <3>1
    <3>2. CASE k - 1 \in 1 .. n - 1 /\ k = (k - 1) + 1
      <4>1. t[k - 1] = x
        BY <1>1, <2>1, <3>2
      <4> QED BY <1>2, <3>2, <4>1
    <3> QED BY <1>3, <3>1, <3>2
  <2>2. ASSUME NEW k \in 1 .. n - 1, t[k] = x PROVE x \in Range(s)
    BY <1>1, <1>2, <1>3, <2>2
  <2>3. Head(s) \in Range(s)
    BY <1>1, <1>2, <1>3
  <2> QED BY <1>2, <2>1, <2>2, <2>3
<1>5. ASSUME Once(s) PROVE Once(t) /\ Head(s) \notin Range(t)
  <2>1. \A j, k \in 1 .. n : s[j] = s[k] => j = k
    BY <1>5 DEF Once, n
  <2>2. ASSUME NEW j \in 1 .. n - 1, NEW k \in 1 .. n - 1, t[j] = t[k] PROVE j = k
    <3>1. j + 1 = k + 1
      BY <1>1, <1>3, <2>1, <2>2
    <3> QED BY <3>1, <1>1
  <2>3. Head(s) \notin Range(t)
    BY <1>1, <1>2, <1>3, <2>1
  <2> QED BY <1>1, <2>2, <2>3 DEF Once
<1> QED BY <1>1, <1>4, <1>5 DEF t, n

(***************************************************************************)
(* After k turns: each entry is listed once, at most, in the order or in   *)
(* the queue, and it is listed exactly if the order has all it waits for;  *)
(* in the order it comes after them.                                       *)
(***************************************************************************)
Behind(s) == \A p \in 1 .. Len(s) : \A j \in DependsOn(s[p]) : \E q \in 1 .. p - 1 : s[q] = j

KahnInv(k, s) ==
    /\ s \in KahnStates
    /\ Len(s.order) = k \/ s.queue = <<>>
    /\ Once(s.order) /\ Once(s.queue) /\ \A x \in Range(s.order) : x \notin Range(s.queue)
    /\ \A i \in Indexes : i \in Range(s.order) \/ i \in Range(s.queue) <=> DependsOn(i) \subseteq Range(s.order)
    /\ Behind(s.order)

\* A list that counts up holds nothing twice.
LEMMA CountingUpOnce ==
    ASSUME NEW s \in Seq(Nat), \A j, k \in 1 .. Len(s) : j < k => s[j] < s[k]
    PROVE  Once(s)
<1> SUFFICES ASSUME NEW j \in 1 .. Len(s), NEW k \in 1 .. Len(s), s[j] = s[k], j < k PROVE FALSE
  BY DEF Once
<1>1. s[j] < s[k] /\ s[j] \in Nat
  OBVIOUS
<1> QED BY <1>1

\* Positions counted up: exactly the ones of the set, each once.
LEMMA InOrderOnce ==
    ASSUME reg \in Seq(Entries), NEW S \in SUBSET Indexes
    PROVE  /\ InOrder(S) \in Seq(Indexes) /\ Once(InOrder(S))
           /\ \A x : x \in Range(InOrder(S)) <=> x \in S
<1>1. PICK s : s = InOrder(S)
  OBVIOUS
<1>2. /\ s \in Seq(S) /\ s \in Seq(Indexes)
      /\ \A j, k \in 1 .. Len(s) : j < k => s[j] < s[k]
      /\ \A i \in S : \E k \in 1 .. Len(s) : s[k] = i
  BY <1>1, InOrderIndexes
<1>3. \A k \in 1 .. Len(s) : s[k] \in S /\ s[k] \in Nat
  BY <1>2, SMTT(30) DEF Indexes
<1>4. s \in Seq(Nat)
  BY <1>2, <1>3
<1>5. Once(s)
  BY <1>2, <1>4, CountingUpOnce
<1>6. \A x : x \in Range(s) <=> \E k \in 1 .. Len(s) : s[k] = x
  BY <1>2, RangeSeq
<1> QED BY <1>1, <1>2, <1>3, <1>5, <1>6

\* A turn of ComputeStartOrder keeps the lists exact and the order behind what it
\* waits for.
LEMMA KahnTurnKeeps ==
    ASSUME RegistryTypes, NEW k \in Nat, NEW s, KahnInv(k, s)
    PROVE  KahnInv(k + 1, KahnTurn(s))
<1>0. s \in KahnStates /\ s.order \in Seq(Indexes) /\ s.queue \in Seq(Indexes)
  BY DEF KahnInv, KahnStates
<1>1. CASE s.queue = <<>>
  BY <1>1 DEF KahnInv, KahnTurn
<1>2. CASE s.queue # <<>>
  <2> DEFINE cur == Head(s.queue) rest == Tail(s.queue)
             S == {i \in Indexes : cur \in DependsOn(i) /\ DependsOn(i) \subseteq Range(s.order) \cup {cur}}
             freed == Freed(cur, s.order) order == Append(s.order, cur) queue == rest \o freed
  <2>1. PICK I : I = Indexes
    OBVIOUS
  <2>2. /\ cur \in Indexes /\ rest \in Seq(I)
        /\ \A x : x \in Range(s.queue) <=> x = cur \/ x \in Range(rest)
        /\ Once(rest) /\ cur \notin Range(rest)
    BY <1>0, <1>2, <2>1, TailHolds DEF KahnInv
  <2>3. freed = InOrder(S) /\ S \in SUBSET Indexes
    BY DEF Freed
  <2>4. /\ freed \in Seq(I) /\ Once(freed)
        /\ \A x : x \in Range(freed) <=> x \in S
    BY <2>1, <2>3, InOrderOnce DEF RegistryTypes
  <2>5. cur \notin Range(s.order) /\ Once(s.order)
    BY <2>2 DEF KahnInv
  <2>6. /\ order \in Seq(I) /\ Len(order) = Len(s.order) + 1 /\ Len(s.order) \in Nat
        /\ order[Len(s.order) + 1] = cur /\ \A j \in 1 .. Len(s.order) : order[j] = s.order[j]
        /\ \A x : x \in Range(order) <=> x \in Range(s.order) \/ x = cur
        /\ Once(order)
    BY <1>0, <2>1, <2>2, <2>5, AppendHolds DEF Extended
  <2>7. \A x \in Range(freed) : x \notin Range(s.order) /\ x \notin Range(s.queue)
    BY <2>4, <2>5 DEF KahnInv
  <2>8. /\ queue \in Seq(I) /\ Once(queue)
        /\ \A x : x \in Range(queue) <=> x \in Range(rest) \/ x \in Range(freed)
    <3>1. \A x \in Range(rest) : x \notin Range(freed)
      BY <2>2, <2>7
    <3>2. PICK a, b, u : a = rest /\ b = freed /\ u = a \o b
      OBVIOUS
    <3>3. u \in Seq(I) /\ Joined(u, a, b)
      BY <2>2, <2>4, <3>2, ConcatHolds
    <3>4. Once(u) /\ \A x : x \in Range(u) <=> x \in Range(a) \/ x \in Range(b)
      BY <2>2, <2>4, <3>1, <3>2, <3>3 DEF Joined
    <3> QED BY <3>2, <3>3, <3>4
  <2>9. \A x \in Range(order) : x \notin Range(queue)
    <3>1. \A x \in Range(s.order) : x \notin Range(rest)
      BY <2>2 DEF KahnInv
    <3>2. cur \notin Range(freed)
      BY <2>2, <2>7
    <3> QED BY <2>2, <2>6, <2>7, <2>8, <3>1, <3>2
  <2>10. ASSUME NEW i \in Indexes
         PROVE  i \in Range(order) \/ i \in Range(queue) <=> DependsOn(i) \subseteq Range(order)
    <3>1. i \in Range(s.order) \/ i \in Range(s.queue) <=> DependsOn(i) \subseteq Range(s.order)
      BY DEF KahnInv
    <3>2. i \in Range(order) \/ i \in Range(queue)
            <=> i \in Range(s.order) \/ i \in Range(s.queue) \/ i \in S
      BY <2>2, <2>4, <2>6, <2>8
    <3>3. i \in S => DependsOn(i) \subseteq Range(order)
      BY <2>6
    <3>4. DependsOn(i) \subseteq Range(order) /\ ~(DependsOn(i) \subseteq Range(s.order)) => i \in S
      BY <2>6
    <3>5. DependsOn(i) \subseteq Range(s.order) => DependsOn(i) \subseteq Range(order)
      BY <2>6
    <3> QED BY <3>1, <3>2, <3>3, <3>4, <3>5
  <2>11. Behind(order)
    <3> SUFFICES ASSUME NEW p \in 1 .. Len(s.order) + 1, NEW j \in DependsOn(order[p])
                 PROVE  \E q \in 1 .. p - 1 : order[q] = j
      BY <2>6 DEF Behind
    <3>1. CASE p \in 1 .. Len(s.order)
      <4>1. PICK q \in 1 .. p - 1 : s.order[q] = j
        BY <2>6, <3>1 DEF KahnInv, Behind
      <4>2. q \in 1 .. Len(s.order)
        BY <2>6, <3>1
      <4> QED BY <2>6, <4>1, <4>2
    <3>2. CASE p = Len(s.order) + 1
      <4>1. j \in Range(s.order)
        BY <2>2, <2>6, <3>2 DEF KahnInv
      <4>2. PICK q \in 1 .. Len(s.order) : s.order[q] = j
        BY <1>0, <2>1, <4>1, RangeSeq
      <4>3. q \in 1 .. p - 1
        BY <2>6, <3>2
      <4> QED BY <2>6, <4>2, <4>3
    <3> QED BY <2>6, <3>1, <3>2
  <2>12. Len(order) = k + 1
    BY <1>2, <2>6 DEF KahnInv
  <2>13. KahnTurn(s) = [queue |-> queue, order |-> order]
    BY <1>2 DEF KahnTurn, KahnStep
  <2> HIDE DEF queue, order
  <2>14. /\ KahnTurn(s) \in KahnStates /\ KahnTurn(s).queue = queue /\ KahnTurn(s).order = order
    BY <2>1, <2>6, <2>8, <2>13 DEF KahnStates
  <2> QED BY <2>6, <2>8, <2>9, <2>10, <2>11, <2>12, <2>14 DEF KahnInv
<1> QED BY <1>1, <1>2

\* The loop ends with every entry in the order, except those that wait for one
\* another, directly or behind a cycle.
LEMMA KahnRuns ==
    ASSUME RegistryTypes
    PROVE  /\ KahnRun \in Seq(Indexes) /\ Once(KahnRun) /\ Behind(KahnRun)
           /\ \A i \in Indexes : i \notin Range(KahnRun) => i \in CyclicTail
<1>1. PICK run \in [0 .. Len(reg) -> KahnStates] :
          /\ run[0] = KahnStart /\ KahnRun = run[Len(reg)].order
          /\ \A k \in 1 .. Len(reg) : run[k] = KahnTurn(run[k - 1])
  BY KahnDefined
<1>2. PICK N \in Nat : N = Len(reg)
  BY DEF RegistryTypes
<1> DEFINE S == {k \in 0 .. N : KahnInv(k, run[k])}
<1>3. 0 \in S
  <2>1. PICK q : q = InOrder({i \in Indexes : DependsOn(i) = {}})
    OBVIOUS
  <2>2. q \in Seq(Indexes) /\ Once(q) /\ \A x : x \in Range(q) <=> x \in {i \in Indexes : DependsOn(i) = {}}
    BY <2>1, InOrderOnce, {i \in Indexes : DependsOn(i) = {}} \in SUBSET Indexes DEF RegistryTypes
  <2>3. PICK e : e = <<>>
    OBVIOUS
  <2>4. e \in Seq(Indexes) /\ Len(e) = 0 /\ 1 .. 0 = {}
    BY <2>3
  <2>5. (\A x : x \notin Range(e)) /\ Once(e) /\ Behind(e)
    BY <2>4 DEF Range, Once, Behind
  <2>6. KahnStart = [queue |-> q, order |-> e]
    BY <2>1, <2>3 DEF KahnStart
  <2>7. KahnStart \in KahnStates /\ KahnStart.queue = q /\ KahnStart.order = e
    BY <2>2, <2>4, <2>6 DEF KahnStates
  <2>8. KahnInv(0, KahnStart)
    BY <2>2, <2>4, <2>5, <2>7 DEF KahnInv
  <2> QED BY <1>1, <1>2, <2>8
<1>4. ASSUME NEW k \in 0 .. N, k \in S, k < N PROVE k + 1 \in S
  <2>1. k \in Nat /\ k + 1 \in 1 .. N /\ (k + 1) - 1 = k /\ k + 1 \in 0 .. N
    BY <1>2, <1>4
  <2>2. KahnInv(k + 1, KahnTurn(run[k]))
    BY <1>4, <2>1, KahnTurnKeeps
  <2>3. run[k + 1] = KahnTurn(run[k])
    BY <1>1, <1>2, <2>1
  <2> QED BY <2>1, <2>2, <2>3
<1>5. KahnInv(N, run[N])
  <2> HIDE DEF S
  <2>1. \A k \in 0 .. N : k \in S
    BY <1>3, <1>4, UpTo
  <2> QED BY <1>2, <2>1 DEF S
<1>6. PICK s : s = run[N]
  OBVIOUS
<1>7. PICK I : I = Indexes
  OBVIOUS
<1>8. /\ s.order \in Seq(I) /\ s.queue \in Seq(I) /\ I = 1 .. N /\ KahnRun = s.order
      /\ KahnInv(N, s)
  BY <1>1, <1>2, <1>5, <1>6, <1>7 DEF KahnInv, KahnStates, Indexes
<1>9. s.queue = <<>>
  <2> SUFFICES ASSUME s.queue # <<>> PROVE FALSE
    OBVIOUS
  <2>1. Len(s.order) = N /\ Once(s.order) /\ Head(s.queue) \in Range(s.queue) /\ Head(s.queue) \in I
    BY <1>8, TailHolds DEF KahnInv
  <2>2. s.order \in [1 .. N -> 1 .. N]
    BY <1>8, <2>1, SMTT(30)
  <2>3. s.order \in Injection(1 .. N, 1 .. N)
    BY <2>1, <2>2 DEF Once, Injection, IsInjective
  <2>4. IsFiniteSet(1 .. N)
    <3>1. 1 \in Int /\ N \in Int
      BY <1>2
    <3> QED BY <3>1, FS_Interval
  <2>5. s.order \in Surjection(1 .. N, 1 .. N)
    BY <2>3, <2>4, FS_Injection
  <2>6. \E k \in 1 .. N : s.order[k] = Head(s.queue)
    BY <1>8, <2>1, <2>5 DEF Surjection
  <2>7. Head(s.queue) \in Range(s.order)
    BY <1>8, <2>1, <2>6, RangeSeq
  <2> QED BY <1>8, <2>1, <2>7 DEF KahnInv
<1>10. ASSUME NEW i \in Indexes, i \notin Range(s.order) PROVE i \in CyclicTail
  <2> DEFINE T == {j \in Indexes : j \notin Range(s.order)}
  <2>1. \A x : x \notin Range(s.queue)
    BY <1>9 DEF Range
  <2>2. ASSUME NEW j \in T PROVE DependsOn(j) \cap T # {}
    <3>1. ~(DependsOn(j) \subseteq Range(s.order))
      BY <1>8, <2>1 DEF KahnInv
    <3> QED BY <3>1, DependsOnIndexes
  <2>3. T \in SUBSET Indexes /\ i \in T
    BY <1>10
  <2> QED BY <2>2, <2>3 DEF CyclicTail
<1> QED BY <1>7, <1>8, <1>10 DEF KahnInv

\* ComputeStartOrder lists every entry, each after all it waits for unless a
\* dependency cycle keeps it from being ordered.
LEMMA StartOrderOK ==
    ASSUME RegistryTypes
    PROVE  /\ ComputeStartOrder \in Seq(Indexes)
           /\ \A i \in Indexes : \E p \in 1 .. Len(ComputeStartOrder) : ComputeStartOrder[p] = i
           /\ \A p \in 1 .. Len(ComputeStartOrder) :
                ComputeStartOrder[p] \notin CyclicTail =>
                  \A j \in DependsOn(ComputeStartOrder[p]) :
                    \E q \in 1 .. p - 1 : ComputeStartOrder[q] = j
<1>1. PICK s, t, o, I : s = KahnRun /\ t = InOrder(Indexes \ Range(s)) /\ o = s \o t /\ I = Indexes
  OBVIOUS
<1>2. ComputeStartOrder = o
  BY <1>1 DEF ComputeStartOrder
<1>3. s \in Seq(I) /\ Behind(s) /\ \A i \in Indexes : i \notin Range(s) => i \in CyclicTail
  BY <1>1, KahnRuns
<1>4. t \in Seq(I) /\ \A x : x \in Range(t) <=> x \in I \ Range(s)
  BY <1>1, InOrderOnce, Indexes \ Range(s) \in SUBSET Indexes DEF RegistryTypes
<1>5. /\ o \in Seq(I) /\ Len(o) = Len(s) + Len(t) /\ Len(s) \in Nat /\ Len(t) \in Nat
      /\ \A k \in 1 .. Len(s) : o[k] = s[k]
      /\ \A k \in 1 .. Len(t) : o[Len(s) + k] = t[k]
      /\ \A x : x \in Range(o) <=> x \in Range(s) \/ x \in Range(t)
  <2>1. o \in Seq(I) /\ Joined(o, s, t)
    BY <1>1, <1>3, <1>4, ConcatHolds
  <2> QED BY <2>1 DEF Joined
<1>6. \A i \in Indexes : \E p \in 1 .. Len(o) : o[p] = i
  <2>1. \A x : x \in Range(o) <=> \E k \in 1 .. Len(o) : o[k] = x
    BY <1>5, RangeSeq
  <2> QED BY <1>1, <1>4, <1>5, <2>1
<1>7. ASSUME NEW p \in 1 .. Len(o), o[p] \notin CyclicTail, NEW j \in DependsOn(o[p])
      PROVE  \E q \in 1 .. p - 1 : o[q] = j
  <2>1. CASE p \in 1 .. Len(s)
    <3>1. PICK q \in 1 .. p - 1 : s[q] = j
      BY <1>3, <1>5, <1>7, <2>1 DEF Behind
    <3>2. q \in 1 .. Len(s)
      BY <1>5, <2>1
    <3> QED BY <1>5, <3>1, <3>2
  <2>2. CASE p \notin 1 .. Len(s)
    <3>1. p - Len(s) \in 1 .. Len(t) /\ p = Len(s) + (p - Len(s))
      BY <1>5, <2>2
    <3>2. PICK c \in 1 .. Len(t) : o[p] = t[c]
      BY <1>5, <3>1
    <3>3. o[p] \in Range(t)
      BY <1>4, <3>2, RangeSeq
    <3> QED BY <1>1, <1>3, <1>4, <1>7, <3>3
  <2> QED BY <2>1, <2>2
<1>8. o \in Seq(Indexes)
  BY <1>1, <1>5
<1>9. \A p \in 1 .. Len(o) : o[p] \notin CyclicTail => \A j \in DependsOn(o[p]) : \E q \in 1 .. p - 1 : o[q] = j
  BY <1>7
<1> QED BY <1>2, <1>6, <1>8, <1>9

(***************************************************************************)
(* The registry: the vector and what is derived from it.                   *)
(***************************************************************************)
NameEntries(v) == {<<NameOf[v[i].m], i>> : i \in {j \in 1 .. Len(v) : v[j].iid = NoKey}}
IidEntries(v) == {<<v[i].iid, i>> : i \in {j \in 1 .. Len(v) : v[j].iid # NoKey}}
Rising(keys) == \A j, k \in 1 .. Len(keys) : j < k => keys[j][2] < keys[k][2]
Distinct(v) == \A i, j \in 1 .. Len(v) : i # j => v[i].m # v[j].m
Named(v) == \A i \in 1 .. Len(v) : v[i].iid = NoKey => NameOf[v[i].m] # NoKey
KeyEntries == (Iids \cup {NoKey}) \X Nat

VectorOK(v, names, keys) ==
    /\ v \in Seq(Entries) /\ keys \in Seq(KeyEntries)
    /\ names = NameEntries(v) /\ Range(keys) = IidEntries(v)
    /\ Rising(keys) /\ Distinct(v) /\ Named(v)

\* What NameEntries and IidEntries hold.
LEMMA EntriesHold ==
    ASSUME NEW v
    PROVE  /\ \A e : e \in NameEntries(v) <=>
                 \E i \in 1 .. Len(v) : v[i].iid = NoKey /\ e = <<NameOf[v[i].m], i>>
           /\ \A e : e \in IidEntries(v) <=>
                 \E i \in 1 .. Len(v) : v[i].iid # NoKey /\ e = <<v[i].iid, i>>
  BY DEF NameEntries, IidEntries

\* A vector with one more entry at the end.
LEMMA VectorAppend ==
    ASSUME NEW v \in Seq(Entries), NEW e \in Entries, Distinct(v), Named(v),
           \A i \in 1 .. Len(v) : v[i].m # e.m, e.iid = NoKey => NameOf[e.m] # NoKey
    PROVE  LET w == Append(v, e) n == Len(v) + 1 IN
           /\ w \in Seq(Entries) /\ Distinct(w) /\ Named(w)
           /\ NameEntries(w) = NameEntries(v) \cup (IF e.iid = NoKey THEN {<<NameOf[e.m], n>>} ELSE {})
           /\ IidEntries(w) = IidEntries(v) \cup (IF e.iid # NoKey THEN {<<e.iid, n>>} ELSE {})
<1> DEFINE w == Append(v, e) n == Len(v) + 1
<1>1. /\ w \in Seq(Entries) /\ Len(w) = n /\ Len(v) \in Nat /\ n \in Nat
      /\ w[n] = e /\ \A k \in 1 .. Len(v) : w[k] = v[k]
  OBVIOUS
<1>2. /\ \A k \in 1 .. n : k \in 1 .. Len(v) \/ k = n
      /\ n \in 1 .. n /\ n \notin 1 .. Len(v) /\ \A k \in 1 .. Len(v) : k \in 1 .. n
  BY <1>1
<1> HIDE DEF w, n
<1>3. Distinct(w)
  BY <1>1, <1>2 DEF Distinct
<1>4. Named(w)
  BY <1>1, <1>2 DEF Named
<1>5. ASSUME NEW x PROVE x \in NameEntries(w) <=> x \in NameEntries(v) \/ (e.iid = NoKey /\ x = <<NameOf[e.m], n>>)
  <2>1. x \in NameEntries(w) <=> \E i \in 1 .. n : w[i].iid = NoKey /\ x = <<NameOf[w[i].m], i>>
    BY <1>1 DEF NameEntries
  <2>2. x \in NameEntries(v) <=> \E i \in 1 .. Len(v) : v[i].iid = NoKey /\ x = <<NameOf[v[i].m], i>>
    BY EntriesHold
  <2>3. ASSUME NEW i \in 1 .. n, w[i].iid = NoKey, x = <<NameOf[w[i].m], i>>
        PROVE  x \in NameEntries(v) \/ (e.iid = NoKey /\ x = <<NameOf[e.m], n>>)
    <3>1. CASE i \in 1 .. Len(v)
      BY <1>1, <2>2, <2>3, <3>1
    <3>2. CASE i = n
      BY <1>1, <2>3, <3>2
    <3> QED BY <1>2, <3>1, <3>2
  <2>4. ASSUME NEW i \in 1 .. Len(v), v[i].iid = NoKey, x = <<NameOf[v[i].m], i>> PROVE x \in NameEntries(w)
    BY <1>1, <1>2, <2>1, <2>4
  <2>5. ASSUME e.iid = NoKey, x = <<NameOf[e.m], n>> PROVE x \in NameEntries(w)
    BY <1>1, <1>2, <2>1, <2>5
  <2> QED BY <2>1, <2>2, <2>3, <2>4, <2>5
<1>6. ASSUME NEW x PROVE x \in IidEntries(w) <=> x \in IidEntries(v) \/ (e.iid # NoKey /\ x = <<e.iid, n>>)
  BY <1>1, <1>2, EntriesHold, SMTT(30)
<1>7. NameEntries(w) = NameEntries(v) \cup (IF e.iid = NoKey THEN {<<NameOf[e.m], n>>} ELSE {})
  BY <1>5
<1>8. IidEntries(w) = IidEntries(v) \cup (IF e.iid # NoKey THEN {<<e.iid, n>>} ELSE {})
  BY <1>6
<1> QED BY <1>1, <1>3, <1>4, <1>7, <1>8 DEF w, n

\* Registration by name keeps vector and indexes in step.
LEMMA AppendNamed ==
    ASSUME NEW v, NEW names, NEW keys, VectorOK(v, names, keys), NEW m \in Modules,
           NameOf[m] # NoKey, \A i \in 1 .. Len(v) : v[i].m # m
    PROVE  VectorOK(Append(v, [m |-> m, iid |-> NoKey]), names \cup {<<NameOf[m], Len(v) + 1>>}, keys)
<1>1. PICK e : e = [m |-> m, iid |-> NoKey]
  OBVIOUS
<1>2. e \in Entries /\ e.m = m /\ e.iid = NoKey
  BY <1>1 DEF Entries
<1>3. PICK w, n : w = Append(v, e) /\ n = Len(v) + 1
  OBVIOUS
<1>4. /\ w \in Seq(Entries) /\ Distinct(w) /\ Named(w)
      /\ NameEntries(w) = NameEntries(v) \cup {<<NameOf[m], n>>}
      /\ IidEntries(w) = IidEntries(v)
  BY <1>2, <1>3, VectorAppend, ZenonT(30) DEF VectorOK
<1> QED BY <1>1, <1>3, <1>4 DEF VectorOK

\* Registration by interface does too: the new position is the largest.
LEMMA AppendKeyed ==
    ASSUME NEW v, NEW names, NEW keys, VectorOK(v, names, keys), NEW m \in Modules,
           NEW iid \in Iids, iid # NoKey, \A i \in 1 .. Len(v) : v[i].m # m
    PROVE  VectorOK(Append(v, [m |-> m, iid |-> iid]), names, Append(keys, <<iid, Len(v) + 1>>))
<1>1. PICK e : e = [m |-> m, iid |-> iid]
  OBVIOUS
<1>2. e \in Entries /\ e.m = m /\ e.iid = iid
  BY <1>1 DEF Entries
<1>3. PICK w, n : w = Append(v, e) /\ n = Len(v) + 1
  OBVIOUS
<1>4. /\ w \in Seq(Entries) /\ Distinct(w) /\ Named(w)
      /\ NameEntries(w) = NameEntries(v)
      /\ IidEntries(w) = IidEntries(v) \cup {<<iid, n>>}
  BY <1>2, <1>3, VectorAppend DEF VectorOK
<1>5. PICK k, ks : k = <<iid, n>> /\ ks = Append(keys, k)
  OBVIOUS
<1>6. k \in KeyEntries /\ k[2] = n /\ n \in Nat /\ keys \in Seq(KeyEntries)
  BY <1>3, <1>5 DEF KeyEntries, VectorOK
<1>7. /\ ks \in Seq(KeyEntries) /\ Len(ks) = Len(keys) + 1 /\ Len(keys) \in Nat
      /\ ks[Len(keys) + 1] = k /\ \A j \in 1 .. Len(keys) : ks[j] = keys[j]
      /\ \A x : x \in Range(ks) <=> x \in Range(keys) \/ x = k
  <2>1. ks \in Seq(KeyEntries) /\ Extended(ks, keys, k)
    BY <1>5, <1>6, AppendHolds
  <2> QED BY <2>1 DEF Extended
<1>8. ASSUME NEW j \in 1 .. Len(keys) PROVE keys[j][2] \in Nat /\ keys[j][2] < n
  <2>1. keys[j] \in IidEntries(v)
    <3>1. keys[j] \in Range(keys)
      BY <1>6, RangeSeq
    <3> QED BY <3>1 DEF VectorOK
  <2>2. PICK i \in 1 .. Len(v) : keys[j] = <<v[i].iid, i>>
    BY <2>1, EntriesHold
  <2>3. v \in Seq(Entries)
    BY DEF VectorOK
  <2> QED BY <1>3, <2>2, <2>3
<1>9. Rising(ks)
  <2> SUFFICES ASSUME NEW a \in 1 .. Len(keys) + 1, NEW b \in 1 .. Len(keys) + 1, a < b
               PROVE  ks[a][2] < ks[b][2]
    BY <1>7 DEF Rising
  <2>1. a \in 1 .. Len(keys) /\ (b \in 1 .. Len(keys) \/ b = Len(keys) + 1)
    BY <1>7
  <2>2. CASE b \in 1 .. Len(keys)
    BY <1>7, <2>1, <2>2 DEF VectorOK, Rising
  <2>3. CASE b = Len(keys) + 1
    BY <1>5, <1>6, <1>7, <1>8, <2>1, <2>3
  <2> QED BY <2>1, <2>2, <2>3
<1>10. Range(ks) = IidEntries(w)
  BY <1>4, <1>5, <1>7 DEF VectorOK
<1>11. names = NameEntries(w)
  BY <1>4 DEF VectorOK
<1> QED BY <1>1, <1>3, <1>4, <1>5, <1>7, <1>9, <1>10, <1>11 DEF VectorOK

\* Erasing an entry shifts the ones behind it.
LEMMA Erased ==
    ASSUME NEW v \in Seq(Entries), NEW i \in 1 .. Len(v)
    PROVE  /\ RemoveAt(v, i) \in Seq(Entries) /\ Len(RemoveAt(v, i)) = Len(v) - 1
           /\ \A k \in 1 .. Len(v) - 1 : RemoveAt(v, i)[k] = IF k < i THEN v[k] ELSE v[k + 1]
           /\ Distinct(v) => Distinct(RemoveAt(v, i))
           /\ Named(v) => Named(RemoveAt(v, i))
           /\ \A k \in 1 .. Len(v) - 1 : \E j \in 1 .. Len(v) : j # i /\ RemoveAt(v, i)[k] = v[j]
<1> DEFINE w == RemoveAt(v, i) a == SubSeq(v, 1, i - 1) b == SubSeq(v, i + 1, Len(v))
<1>1. /\ a \in Seq(Entries) /\ Len(a) = i - 1 /\ \A k \in 1 .. i - 1 : a[k] = v[k]
  OBVIOUS
<1>2. /\ b \in Seq(Entries) /\ Len(b) = Len(v) - i /\ \A k \in 1 .. Len(v) - i : b[k] = v[i + k]
  OBVIOUS
<1>3. w = a \o b /\ Len(v) \in Nat /\ i \in Nat
  BY DEF RemoveAt
<1> HIDE DEF a, b, w
<1>4. /\ w \in Seq(Entries) /\ Len(w) = Len(v) - 1
      /\ \A k \in 1 .. Len(v) - 1 : w[k] = IF k < i THEN v[k] ELSE v[k + 1]
  <2>1. w \in Seq(Entries) /\ Joined(w, a, b)
    BY <1>1, <1>2, <1>3, ConcatHolds
  <2>2. Len(w) = Len(v) - 1
    BY <1>1, <1>2, <1>3, <2>1 DEF Joined
  <2>3. ASSUME NEW k \in 1 .. Len(v) - 1 PROVE w[k] = IF k < i THEN v[k] ELSE v[k + 1]
    <3>1. CASE k < i
      <4>1. k \in 1 .. i - 1
        BY <3>1, <1>3
      <4> QED BY <1>1, <2>1, <3>1, <4>1 DEF Joined
    <3>2. CASE ~(k < i)
      <4>1. PICK c : c = k - (i - 1)
        OBVIOUS
      <4>2. c \in 1 .. Len(v) - i /\ k = (i - 1) + c /\ i + c = k + 1
        BY <1>3, <3>2, <4>1
      <4>3. w[k] = b[c]
        BY <1>1, <1>2, <2>1, <4>2 DEF Joined
      <4> QED BY <1>2, <3>2, <4>2, <4>3
    <3> QED BY <3>1, <3>2
  <2> QED BY <2>1, <2>2, <2>3
<1>5. ASSUME NEW k \in 1 .. Len(v) - 1
      PROVE  \E j \in 1 .. Len(v) : j # i /\ w[k] = v[j] /\ j = IF k < i THEN k ELSE k + 1
  BY <1>3, <1>4
<1>6. ASSUME Distinct(v) PROVE Distinct(w)
  <2> SUFFICES ASSUME NEW k \in 1 .. Len(v) - 1, NEW l \in 1 .. Len(v) - 1, k # l PROVE w[k].m # w[l].m
    BY <1>4 DEF Distinct
  <2>1. PICK j \in 1 .. Len(v) : w[k] = v[j] /\ j = IF k < i THEN k ELSE k + 1
    BY <1>5
  <2>2. PICK h \in 1 .. Len(v) : w[l] = v[h] /\ h = IF l < i THEN l ELSE l + 1
    BY <1>5
  <2>3. j # h
    BY <1>3, <2>1, <2>2
  <2> QED BY <1>6, <2>1, <2>2, <2>3 DEF Distinct
<1>7. ASSUME Named(v) PROVE Named(w)
  <2> SUFFICES ASSUME NEW k \in 1 .. Len(v) - 1, w[k].iid = NoKey PROVE NameOf[w[k].m] # NoKey
    BY <1>4 DEF Named
  <2>1. PICK j \in 1 .. Len(v) : w[k] = v[j]
    BY <1>5
  <2> QED BY <1>7, <2>1 DEF Named
<1>8. \A k \in 1 .. Len(v) - 1 : \E j \in 1 .. Len(v) : j # i /\ w[k] = v[j]
  BY <1>5
<1> QED BY <1>4, <1>6, <1>7, <1>8 DEF w

\* RebuildIndexes makes both indexes from the vector.
LEMMA Rebuilt ==
    ASSUME NEW v \in Seq(Entries), Distinct(v), Named(v), RebuildIndexes(v)
    PROVE  VectorOK(v, byName', byIid')
<1> DEFINE S == {i \in 1 .. Len(v) : v[i].iid # NoKey}
<1>1. PICK keyed : keyed = InOrder(S)
  OBVIOUS
<1>2. Len(v) \in Nat /\ S \in SUBSET Nat /\ IsFiniteSet(S)
  <2>1. Len(v) \in Nat /\ 1 \in Int /\ Len(v) \in Int
    OBVIOUS
  <2>2. IsFiniteSet(1 .. Len(v)) /\ S \subseteq 1 .. Len(v)
    BY <2>1, FS_Interval
  <2>3. IsFiniteSet(S)
    BY <2>2, FS_Subset
  <2> QED BY <2>1, <2>2, <2>3
<1>3. /\ keyed \in Seq(S) /\ Len(keyed) \in Nat
      /\ \A j, k \in 1 .. Len(keyed) : j < k => keyed[j] < keyed[k]
      /\ \A i \in S : \E k \in 1 .. Len(keyed) : keyed[k] = i
  <2> HIDE DEF S
  <2>1. keyed \in Seq(S) /\ \A i \in S : \E k \in 1 .. Len(keyed) : keyed[k] = i
    BY <1>1, <1>2, InOrderLists
  <2>2. \A j, k \in 1 .. Len(keyed) : j < k => keyed[j] < keyed[k]
    BY <1>1, <1>2, InOrderLists
  <2> QED BY <2>1, <2>2
<1>4. byIid' = [k \in 1 .. Len(keyed) |-> <<v[keyed[k]].iid, keyed[k]>>]
  BY <1>1 DEF RebuildIndexes
<1>5. \A k \in 1 .. Len(keyed) : keyed[k] \in 1 .. Len(v) /\ keyed[k] \in Nat /\ v[keyed[k]].iid # NoKey
                                  /\ v[keyed[k]].iid \in Iids \cup {NoKey}
  <2> SUFFICES ASSUME NEW k \in 1 .. Len(keyed)
               PROVE  /\ keyed[k] \in 1 .. Len(v) /\ keyed[k] \in Nat /\ v[keyed[k]].iid # NoKey
                      /\ v[keyed[k]].iid \in Iids \cup {NoKey}
    OBVIOUS
  <2>1. keyed[k] \in S
    BY <1>3
  <2>2. v[keyed[k]] \in Entries
    BY <2>1
  <2> QED BY <2>1, <2>2 DEF Entries
<1>6. PICK keys : keys = byIid'
  OBVIOUS
<1>7. keys \in [1 .. Len(keyed) -> KeyEntries]
  BY <1>4, <1>5, <1>6 DEF KeyEntries
<1>8. keys \in Seq(KeyEntries) /\ Len(keys) = Len(keyed)
  BY <1>3, <1>7, SMTT(30)
<1>9. \A k \in 1 .. Len(keyed) : keys[k] = <<v[keyed[k]].iid, keyed[k]>> /\ keys[k][2] = keyed[k]
  BY <1>4, <1>6
<1>10. Rising(keys)
  BY <1>3, <1>8, <1>9 DEF Rising
<1>11. ASSUME NEW e PROVE e \in Range(keys) <=> e \in IidEntries(v)
  <2>1. e \in Range(keys) <=> \E k \in 1 .. Len(keyed) : keys[k] = e
    BY <1>8, RangeSeq
  <2>2. e \in IidEntries(v) <=> \E i \in 1 .. Len(v) : v[i].iid # NoKey /\ e = <<v[i].iid, i>>
    BY DEF IidEntries
  <2>3. ASSUME NEW k \in 1 .. Len(keyed), keys[k] = e PROVE e \in IidEntries(v)
    BY <1>5, <1>9, <2>2, <2>3
  <2>4. ASSUME NEW i \in 1 .. Len(v), v[i].iid # NoKey, e = <<v[i].iid, i>> PROVE e \in Range(keys)
    <3>1. PICK k \in 1 .. Len(keyed) : keyed[k] = i
      BY <1>3, <2>4
    <3> QED BY <1>9, <2>1, <2>4, <3>1
  <2> QED BY <2>1, <2>2, <2>3, <2>4
<1>12. ASSUME NEW e PROVE e \in byName' <=> e \in NameEntries(v)
  BY DEF RebuildIndexes, NameEntries, Named
<1> QED BY <1>6, <1>8, <1>10, <1>11, <1>12 DEF VectorOK

(***************************************************************************)
(* The invariant of the registry.                                          *)
(***************************************************************************)
Calls == [kind : Kinds, todo : Seq(Indexes)]

RegistryIInv ==
    /\ VectorOK(reg, byName, byIid)
    /\ deps \in [Modules -> SUBSET Iids]
    /\ state \in [Modules -> States] /\ life \in [Modules -> Lives]
    /\ op \in Calls /\ (op.kind = "none" => op = Idle)
    /\ released \subseteq Modules /\ refused \subseteq Modules /\ starts \in 0 .. MaxStarts
    /\ NothingHeldIsReleased

\* It gives what ModuleManager asks of the registry.
LEMMA RegistryFollows ==
    ASSUME RegistryIInv PROVE RegistryInv /\ RegistryTypes
<1>1. reg \in Seq(Entries)
  BY DEF RegistryIInv, VectorOK
<1>2. op.kind \in Kinds /\ op.todo \in Seq(Indexes)
  BY DEF RegistryIInv, Calls
<1>3. PICK I, s : I = Indexes /\ s = op.todo
  OBVIOUS
<1>4. Range(op.todo) \subseteq Indexes
  <2>1. s \in Seq(I)
    BY <1>2, <1>3
  <2>2. \A x : x \in Range(s) => x \in I
    BY <2>1, RangeSeq
  <2> QED BY <1>3, <2>2
<1>5. TypeOK
  BY <1>1, <1>2, <1>4 DEF RegistryIInv, TypeOK, Entries
<1>6. IndexesExact
  BY DEF RegistryIInv, VectorOK, IndexesExact, Indexes, NameEntries, IidEntries, Rising, Distinct
<1> QED BY <1>1, <1>5, <1>6 DEF RegistryIInv, RegistryInv, RegistryTypes

\* Idle is a call in progress with nothing to do, whatever the vector.
LEMMA IdleCall ==
    ASSUME NEW I PROVE Idle \in [kind : Kinds, todo : Seq(I)] /\ Idle.kind = "none" /\ Idle.todo = <<>>
  BY DEF Idle, Kinds

\* A step that leaves the vector and its indexes alone keeps the registry sound.
LEMMA SameRegistry ==
    ASSUME RegistryIInv, UNCHANGED <<reg, byName, byIid, released, refused, deps>>,
           state' \in [Modules -> States], life' \in [Modules -> Lives],
           op' \in Calls, op'.kind = "none" => op' = Idle, starts' \in 0 .. MaxStarts
    PROVE  RegistryIInv'
<1>1. Calls' = Calls /\ Held' = Held
  BY DEF Calls, Held, Indexes
<1> QED BY <1>1 DEF RegistryIInv, NothingHeldIsReleased

\* A step of a registration, a removal or Clear, from what it does to the vector.
LEMMA NewRegistry ==
    ASSUME RegistryIInv, op = Idle, UNCHANGED <<deps, state, op, life, starts>>,
           VectorOK(reg', byName', byIid'),
           released' \subseteq Modules, refused' \subseteq Modules,
           \A i \in 1 .. Len(reg') : reg'[i].m \notin released'
    PROVE  RegistryIInv'
<1>1. NothingHeldIsReleased'
  BY DEF NothingHeldIsReleased, Held, Indexes
<1>2. op' \in Calls'
  BY IdleCall DEF Calls
<1> QED BY <1>1, <1>2 DEF RegistryIInv

\* The modules held are those of the vector.
LEMMA HeldModules ==
    ASSUME RegistryIInv
    PROVE  /\ \A i \in Indexes : reg[i] \in Entries /\ reg[i].m \in Modules /\ reg[i].m \in Held /\ reg[i].m \notin released
           /\ \A m \in Held : \E i \in Indexes : reg[i].m = m
           /\ Indexes = 1 .. Len(reg) /\ Len(reg) \in Nat /\ reg \in Seq(Entries)
<1>1. reg \in Seq(Entries) /\ Indexes = 1 .. Len(reg) /\ Len(reg) \in Nat
  BY DEF RegistryIInv, VectorOK, Indexes
<1>2. \A i \in Indexes : reg[i] \in Entries
  BY <1>1
<1> QED BY <1>1, <1>2 DEF Entries, Held, RegistryIInv, NothingHeldIsReleased

\* RegisterByName keeps the registry sound, refused or not.
LEMMA RegisterByNameKeeps ==
    ASSUME RegistryIInv, NEW m \in Modules, RegisterByName(m) PROVE RegistryIInv'
<1>1. op = Idle /\ m \notin Held /\ m \notin released
  BY DEF RegisterByName, Fresh
<1>2. \A i \in 1 .. Len(reg) : reg[i].m # m
  BY <1>1, HeldModules
<1>3. released \subseteq Modules /\ refused \subseteq Modules /\ VectorOK(reg, byName, byIid)
  BY DEF RegistryIInv
<1>4. CASE NameOf[m] = NoKey \/ \E e \in byName : e[1] = NameOf[m]
  <2>1. /\ released' = released \cup {m} /\ refused' = refused \cup {m}
        /\ UNCHANGED <<reg, byName, byIid, deps, state, op, life, starts>>
    BY <1>4 DEF RegisterByName
  <2>2. \A i \in 1 .. Len(reg') : reg'[i].m \notin released'
    BY <1>2, <2>1, HeldModules
  <2> QED BY <1>1, <1>3, <2>1, <2>2, NewRegistry
<1>5. CASE ~(NameOf[m] = NoKey \/ \E e \in byName : e[1] = NameOf[m])
  <2>1. /\ byName' = byName \cup {<<NameOf[m], Len(reg) + 1>>} /\ reg' = Append(reg, [m |-> m, iid |-> NoKey])
        /\ UNCHANGED <<released, refused, byIid, deps, state, op, life, starts>>
    BY <1>5 DEF RegisterByName
  <2>2. PICK v, n, k : v = reg /\ n = byName /\ k = byIid
    OBVIOUS
  <2>3. VectorOK(Append(v, [m |-> m, iid |-> NoKey]), n \cup {<<NameOf[m], Len(v) + 1>>}, k)
    BY <1>2, <1>3, <1>5, <2>2, AppendNamed
  <2>4. VectorOK(reg', byName', byIid')
    BY <2>1, <2>2, <2>3
  <2>5. ASSUME NEW i \in 1 .. Len(reg') PROVE reg'[i].m \notin released'
    <3>1. (i \in 1 .. Len(reg) /\ reg'[i] = reg[i]) \/ reg'[i].m = m
      BY <2>1, HeldModules
    <3> QED BY <1>1, <2>1, <3>1, HeldModules
  <2> QED BY <1>1, <1>3, <2>1, <2>4, <2>5, NewRegistry
<1> QED BY <1>4, <1>5

\* RegisterByIid keeps the registry sound, refused or not.
LEMMA RegisterByIidKeeps ==
    ASSUME RegistryIInv, NEW m \in Modules, NEW iid \in Iids \cup {NoKey}, RegisterByIid(m, iid)
    PROVE  RegistryIInv'
<1>1. op = Idle /\ m \notin Held /\ m \notin released
  BY DEF RegisterByIid, Fresh
<1>2. \A i \in 1 .. Len(reg) : reg[i].m # m
  BY <1>1, HeldModules
<1>3. released \subseteq Modules /\ refused \subseteq Modules /\ VectorOK(reg, byName, byIid)
  BY DEF RegistryIInv
<1>4. CASE iid = NoKey
  <2>1. /\ refused' = refused \cup {m}
        /\ UNCHANGED <<released, reg, byName, byIid, deps, state, op, life, starts>>
    BY <1>4 DEF RegisterByIid
  <2>2. \A i \in 1 .. Len(reg') : reg'[i].m \notin released'
    BY <2>1, HeldModules
  <2> QED BY <1>1, <1>3, <2>1, <2>2, NewRegistry
<1>5. CASE iid # NoKey
  <2>1. /\ byIid' = Append(byIid, <<iid, Len(reg) + 1>>) /\ reg' = Append(reg, [m |-> m, iid |-> iid])
        /\ UNCHANGED <<released, refused, byName, deps, state, op, life, starts>>
    BY <1>5 DEF RegisterByIid
  <2>2. PICK v, n, k : v = reg /\ n = byName /\ k = byIid
    OBVIOUS
  <2>3. VectorOK(Append(v, [m |-> m, iid |-> iid]), n, Append(k, <<iid, Len(v) + 1>>))
    BY <1>2, <1>3, <1>5, <2>2, AppendKeyed
  <2>4. VectorOK(reg', byName', byIid')
    BY <2>1, <2>2, <2>3
  <2>5. ASSUME NEW i \in 1 .. Len(reg') PROVE reg'[i].m \notin released'
    <3>1. (i \in 1 .. Len(reg) /\ reg'[i] = reg[i]) \/ reg'[i].m = m
      BY <2>1, HeldModules
    <3> QED BY <1>1, <2>1, <3>1, HeldModules
  <2> QED BY <1>1, <1>3, <2>1, <2>4, <2>5, NewRegistry
<1> QED BY <1>4, <1>5

\* Erasing an entry and rebuilding the indexes keeps the registry sound: the
\* positions shift, and the module erased is held nowhere else.
LEMMA EraseKeeps ==
    ASSUME RegistryIInv, NEW i \in Indexes, EraseAt(i) PROVE RegistryIInv'
<1>1. PICK v, w : v = reg /\ w = RemoveAt(reg, i)
  OBVIOUS
<1>2. /\ op = Idle /\ reg' = w /\ RebuildIndexes(w) /\ released' = released \cup {v[i].m}
      /\ UNCHANGED <<deps, state, op, result, life, refused, starts>>
  BY <1>1 DEF EraseAt
<1>3. v \in Seq(Entries) /\ i \in 1 .. Len(v) /\ Distinct(v) /\ Named(v) /\ w = RemoveAt(v, i)
  BY <1>1 DEF RegistryIInv, VectorOK, Indexes
<1>4. /\ w \in Seq(Entries) /\ Len(w) = Len(v) - 1 /\ Distinct(w) /\ Named(w)
      /\ \A k \in 1 .. Len(v) - 1 : \E j \in 1 .. Len(v) : j # i /\ w[k] = v[j]
  BY <1>3, Erased, ZenonT(30)
<1>5. VectorOK(reg', byName', byIid')
  BY <1>2, <1>4, Rebuilt
<1>6. ASSUME NEW k \in 1 .. Len(reg') PROVE reg'[k].m \notin released'
  <2>1. PICK j \in 1 .. Len(v) : j # i /\ w[k] = v[j]
    BY <1>2, <1>4, <1>6
  <2>2. v[j].m # v[i].m
    BY <1>3, <2>1 DEF Distinct
  <2>3. v[j].m \notin released
    BY <1>1, <2>1, HeldModules
  <2> QED BY <1>2, <2>1, <2>2, <2>3
<1>7. released' \subseteq Modules /\ refused' \subseteq Modules
  BY <1>1, <1>2, HeldModules DEF RegistryIInv
<1> QED BY <1>2, <1>5, <1>6, <1>7, NewRegistry

\* UnregisterModule erases the entry the name index points at.
LEMMA UnregisterKeeps ==
    ASSUME RegistryIInv, NEW name, UnregisterModule(name) PROVE RegistryIInv'
<1>1. PICK e \in byName : e[1] = name /\ EraseAt(e[2])
  BY DEF UnregisterModule
<1>2. e[2] \in Indexes
  BY <1>1 DEF RegistryIInv, VectorOK, NameEntries, Indexes
<1> QED BY <1>1, <1>2, EraseKeeps

\* UnregisterModuleByIid erases the first entry of the interface.
LEMMA UnregisterByIidKeeps ==
    ASSUME RegistryIInv, NEW iid, UnregisterModuleByIid(iid) PROVE RegistryIInv'
<1>1. PICK k \in 1 .. Len(byIid) : EraseAt(byIid[k][2])
  BY DEF UnregisterModuleByIid
<1>2. PICK keys, v : keys = byIid /\ v = reg
  OBVIOUS
<1>3. keys \in Seq(KeyEntries) /\ Range(keys) = IidEntries(v)
  BY <1>2 DEF RegistryIInv, VectorOK
<1>4. keys[k] \in IidEntries(v)
  BY <1>1, <1>2, <1>3, RangeSeq
<1>5. byIid[k][2] \in Indexes
  BY <1>2, <1>4 DEF IidEntries, Indexes
<1> QED BY <1>1, <1>5, EraseKeeps

\* Clear gives back everything and leaves an empty vector.
LEMMA ClearKeeps ==
    ASSUME RegistryIInv, op = Idle, ClearRegistry, UNCHANGED <<deps, state, op, result, life, starts>>
    PROVE  RegistryIInv'
<1>1. reg' = <<>> /\ byName' = {} /\ byIid' = <<>> /\ released' = released \cup Held /\ refused' = refused
  BY DEF ClearRegistry
<1>2. 1 .. Len(<<>>) = {}
  OBVIOUS
<1>3. VectorOK(reg', byName', byIid')
  <2>1. reg' \in Seq(Entries) /\ byIid' \in Seq(KeyEntries)
    BY <1>1
  <2>2. Distinct(reg') /\ Named(reg') /\ Rising(byIid')
    BY <1>1, <1>2 DEF Distinct, Named, Rising
  <2>3. NameEntries(reg') = {} /\ IidEntries(reg') = {}
    BY <1>1, <1>2 DEF NameEntries, IidEntries
  <2>4. Range(byIid') = {}
    BY <1>1, <1>2 DEF Range
  <2> QED BY <1>1, <2>1, <2>2, <2>3, <2>4 DEF VectorOK
<1>4. released' \subseteq Modules /\ refused' \subseteq Modules
  BY <1>1, HeldModules DEF RegistryIInv
<1>5. \A i \in 1 .. Len(reg') : reg'[i].m \notin released'
  BY <1>1, <1>2
<1> QED BY <1>3, <1>4, <1>5, NewRegistry

\* The stopping loops count down through the vector.
LEMMA BackwardsCounts ==
    ASSUME RegistryIInv
    PROVE  /\ Backwards \in Seq(Indexes) /\ Len(Backwards) = Len(reg) /\ Len(reg) \in Nat
           /\ \A k \in 1 .. Len(reg) : Backwards[k] = Len(reg) + 1 - k
<1>1. Len(reg) \in Nat /\ Indexes = 1 .. Len(reg)
  BY HeldModules
<1>2. Backwards \in [1 .. Len(reg) -> 1 .. Len(reg)]
  BY <1>1 DEF Backwards
<1>3. Backwards \in Seq(Indexes) /\ Len(Backwards) = Len(reg)
  BY <1>1, <1>2
<1> QED BY <1>1, <1>3 DEF Backwards

\* A life-cycle call begins with a list of indexes.
LEMMA BeginKeeps ==
    ASSUME RegistryIInv, NEW kind \in Kinds \ {"none"}, NEW todo \in Seq(Indexes), Begin(kind, todo),
           starts' \in 0 .. MaxStarts
    PROVE  RegistryIInv'
<1>1. op' \in Calls /\ op'.kind # "none"
  BY DEF Begin, Calls
<1>2. UNCHANGED <<reg, byName, byIid, released, refused, deps, state, life>>
  BY DEF Begin, registry
<1> QED BY <1>1, <1>2, SameRegistry DEF RegistryIInv

\* What becomes of the call in progress in a step of its loop.
LEMMA CallGoesOn ==
    ASSUME RegistryIInv,
           \/ op.todo # <<>> /\ Next1
           \/ op' = Idle
           \/ \E k \in Kinds \ {"none"} : op' = [kind |-> k, todo |-> Backwards]
    PROVE  op' \in Calls /\ (op'.kind = "none" => op' = Idle)
<1>1. CASE op.todo # <<>> /\ Next1
  <2>1. op.kind \in Kinds /\ op.todo \in Seq(Indexes) /\ op.kind # "none"
    BY <1>1, IdleCall DEF RegistryIInv, Calls
  <2>2. Tail(op.todo) \in Seq(Indexes)
    BY <1>1, <2>1
  <2>3. op' = [kind |-> op.kind, todo |-> Tail(op.todo)]
    BY <1>1 DEF Next1, RegistryIInv, Calls
  <2> QED BY <2>1, <2>2, <2>3 DEF Calls
<1>2. CASE op' = Idle
  BY <1>2, IdleCall DEF Calls
<1>3. CASE \E k \in Kinds \ {"none"} : op' = [kind |-> k, todo |-> Backwards]
  BY <1>3, BackwardsCounts DEF Calls
<1> QED BY <1>1, <1>2, <1>3

\* The module a loop is at is one of those held.
LEMMA CurrentHeld ==
    ASSUME RegistryIInv, op.todo # <<>>
    PROVE  /\ Head(op.todo) \in Indexes /\ Current = reg[Head(op.todo)].m
           /\ Current \in Modules /\ Current \in Held /\ op.kind # "none"
<1>1. op.todo \in Seq(Indexes)
  BY DEF RegistryIInv, Calls
<1>2. Head(op.todo) \in Indexes
  BY <1>1
<1>3. op.kind # "none"
  BY IdleCall DEF RegistryIInv
<1> QED BY <1>2, <1>3, HeldModules DEF Current

\* What a callback does to the lives of the modules.
LEMMA CallbackLives ==
    ASSUME RegistryIInv, NEW m \in Modules, NEW from, NEW to \in Lives, Callback(m, from, to)
    PROVE  /\ life' \in [Modules -> Lives]
           /\ life'[m] = (IF life[m] \in from THEN to ELSE "misused")
           /\ \A n \in Modules : n # m => life'[n] = life[n]
  BY DEF Callback, RegistryIInv, Lives

\* What SetModuleState does to the states.
LEMMA StatesSet ==
    ASSUME RegistryIInv, NEW m \in Modules, NEW s \in States, SetModuleState(m, s)
    PROVE  /\ state' \in [Modules -> States] /\ state'[m] = s
           /\ \A n \in Modules : n # m => state'[n] = state[n]
  BY DEF SetModuleState, RegistryIInv, States

\* The stopping loops and the states and callbacks each of them works with.
Stopping == {"StopAll", "RollbackStartedStop"}
Closing == {"ShutdownAll", "RollbackInitialized", "RollbackStartedShutdown"}

Ready(kind) ==
    IF kind \in Stopping THEN {"kStarted"}
    ELSE IF kind = "ShutdownAll" THEN {"kInitialized", "kStarted", "kStopped"}
    ELSE IF kind = "RollbackInitialized" THEN {"kInitialized"}
    ELSE {"kInitialized", "kStopped"}

\* An iteration of one of them: a module that is not ready is left alone.
BackVisit(kind) ==
    /\ InLoop(kind) /\ Next1
    /\ \/ state[Current] \notin Ready(kind) /\ UNCHANGED <<state, life>>
       \/ /\ state[Current] \in Ready(kind) /\ kind \in Stopping
          /\ Callback(Current, {"running"}, "stopped") /\ SetModuleState(Current, "kStopped")
       \/ /\ state[Current] \in Ready(kind) /\ kind \in Closing
          /\ Callback(Current, {"initialized", "startFailed", "running", "stopped"}, "closed")
          /\ SetModuleState(Current, "kShutdown")
    /\ UNCHANGED <<deps, registry, starts, result>>

BackStep ==
    \/ StopStep \/ ShutdownStep
    \/ RollbackInitializedStep \/ RollbackStartedStopStep \/ RollbackStartedShutdownStep

\* The five loops are such iterations.
LEMMA BackSteps ==
    ASSUME BackStep PROVE \E kind \in Stopping \cup Closing : BackVisit(kind)
<1>1. CASE StopStep
  BY <1>1 DEF StopStep, StopVisit, BackVisit, Skip, Ready, Stopping, Closing
<1>2. CASE RollbackStartedStopStep
  BY <1>2 DEF RollbackStartedStopStep, StopVisit, BackVisit, Skip, Ready, Stopping, Closing
<1>3. CASE ShutdownStep
  BY <1>3 DEF ShutdownStep, ShutdownVisit, BackVisit, Skip, Ready, Stopping, Closing
<1>4. CASE RollbackInitializedStep
  BY <1>4 DEF RollbackInitializedStep, ShutdownVisit, BackVisit, Skip, Ready, Stopping, Closing
<1>5. CASE RollbackStartedShutdownStep
  BY <1>5 DEF RollbackStartedShutdownStep, ShutdownVisit, BackVisit, Skip, Ready, Stopping, Closing
<1> QED BY <1>1, <1>2, <1>3, <1>4, <1>5 DEF BackStep

\* An iteration of InitializeAll or StartAll: the state it looks for, the
\* callback, and the rollback that a failure begins.
ForthVisit(kind) ==
    LET ready  == IF kind = "InitializeAll" THEN "kCreated" ELSE "kInitialized"
        next   == IF kind = "InitializeAll" THEN "kInitialized" ELSE "kStarted"
        from   == IF kind = "InitializeAll" THEN "new" ELSE "initialized"
        to     == IF kind = "InitializeAll" THEN "initialized" ELSE "running"
        failed == IF kind = "InitializeAll" THEN "new" ELSE "startFailed"
        back   == IF kind = "InitializeAll" THEN "RollbackInitialized" ELSE "RollbackStartedStop"
    IN  /\ InLoop(kind)
        /\ \/ state[Current] # ready /\ Next1 /\ UNCHANGED <<state, life>>
           \/ /\ state[Current] = ready /\ Next1
              /\ Callback(Current, {from}, to) /\ SetModuleState(Current, next)
           \/ /\ state[Current] = ready /\ op' = [kind |-> back, todo |-> Backwards]
              /\ Callback(Current, {from}, failed) /\ UNCHANGED state
        /\ UNCHANGED <<deps, registry, starts, result>>

\* The two loops that go forth are such iterations.
LEMMA ForthSteps ==
    ASSUME InitializeStep \/ StartStep PROVE \E kind \in {"InitializeAll", "StartAll"} : ForthVisit(kind)
<1>1. CASE InitializeStep
  <2>1. ForthVisit("InitializeAll")
    BY <1>1 DEF InitializeStep, ForthVisit, Skip
  <2> QED BY <2>1
<1>2. CASE StartStep
  <2>1. ForthVisit("StartAll")
    BY <1>2 DEF StartStep, ForthVisit, Skip
  <2> QED BY <2>1
<1> QED BY <1>1, <1>2

\* Every step of a life-cycle call keeps the registry sound.
LEMMA LoopsKeepRegistry ==
    ASSUME RegistryIInv, NEW mayRun, Loops(mayRun) PROVE RegistryIInv'
<1>0. state \in [Modules -> States] /\ life \in [Modules -> Lives] /\ starts \in 0 .. MaxStarts
  BY DEF RegistryIInv
<1>1. CASE BackStep
  <2>1. PICK kind \in Stopping \cup Closing : BackVisit(kind)
    BY <1>1, BackSteps
  <2>2. op.todo # <<>> /\ Next1 /\ UNCHANGED <<reg, byName, byIid, released, refused, deps, starts>>
    BY <2>1 DEF BackVisit, InLoop, registry
  <2>3. state' \in [Modules -> States] /\ life' \in [Modules -> Lives]
    BY <1>0, <2>1, <2>2, CurrentHeld, CallbackLives, StatesSet DEF BackVisit, States, Lives
  <2> QED BY <1>0, <2>2, <2>3, CallGoesOn, SameRegistry
<1>2. CASE InitializeStep \/ StartStep
  <2>1. PICK kind \in {"InitializeAll", "StartAll"} : ForthVisit(kind)
    BY <1>2, ForthSteps
  <2>2. op.todo # <<>> /\ UNCHANGED <<reg, byName, byIid, released, refused, deps, starts>>
    BY <2>1 DEF ForthVisit, InLoop, registry
  <2>3. Next1 \/ \E k \in Kinds \ {"none"} : op' = [kind |-> k, todo |-> Backwards]
    BY <2>1 DEF ForthVisit, Kinds
  <2>4. life' \in [Modules -> Lives]
    BY <1>0, <2>1, <2>2, CurrentHeld, CallbackLives DEF ForthVisit, Lives
  <2>5. state' \in [Modules -> States]
    BY <1>0, <2>1, <2>2, CurrentHeld, StatesSet DEF ForthVisit, States
  <2> QED BY <1>0, <2>2, <2>3, <2>4, <2>5, CallGoesOn, SameRegistry
<1>3. CASE StopTimedStep(mayRun) \/ ShutdownTimedStep(mayRun)
  <2>1. PICK kind, from, to : to \in Lives /\ TimedStep(kind, from, to, mayRun)
    BY <1>3 DEF StopTimedStep, ShutdownTimedStep, Lives
  <2>2. op.todo # <<>> /\ UNCHANGED <<reg, byName, byIid, released, refused, deps, state, starts>>
    BY <2>1 DEF TimedStep, InLoop, registry
  <2>3. Next1 \/ op' = Idle
    BY <2>1 DEF TimedStep, Finish
  <2>4. life' \in [Modules -> Lives]
    BY <1>0, <2>1, <2>2, CurrentHeld, CallbackLives DEF TimedStep
  <2> QED BY <1>0, <2>2, <2>3, <2>4, CallGoesOn, SameRegistry
<1>4. CASE LoopEnd
  <2>1. UNCHANGED <<reg, byName, byIid, released, refused, deps, state, life, starts>>
    BY <1>4 DEF LoopEnd, registry
  <2>2. op' = Idle \/ \E k \in Kinds \ {"none"} : op' = [kind |-> k, todo |-> Backwards]
    BY <1>4 DEF LoopEnd, Finish, Kinds
  <2> QED BY <1>0, <2>1, <2>2, CallGoesOn, SameRegistry
<1> QED BY <1>1, <1>2, <1>3, <1>4 DEF Loops, BackStep

\* At first the registry is empty.
LEMMA RegistryInit ==
    ASSUME Init PROVE RegistryIInv
<1>1. 1 .. Len(<<>>) = {}
  OBVIOUS
<1>2. reg = <<>> /\ byName = {} /\ byIid = <<>>
  BY DEF Init
<1>3. VectorOK(reg, byName, byIid)
  <2>1. reg \in Seq(Entries) /\ byIid \in Seq(KeyEntries)
    BY <1>2
  <2>2. Distinct(reg) /\ Named(reg) /\ Rising(byIid)
    BY <1>1, <1>2 DEF Distinct, Named, Rising
  <2>3. NameEntries(reg) = {} /\ IidEntries(reg) = {}
    BY <1>1, <1>2 DEF NameEntries, IidEntries
  <2>4. Range(byIid) = {}
    BY <1>1, <1>2 DEF Range
  <2> QED BY <1>2, <2>1, <2>2, <2>3, <2>4 DEF VectorOK
<1>4. op \in Calls /\ (op.kind = "none" => op = Idle)
  BY IdleCall DEF Init, Calls
<1>5. state \in [Modules -> States] /\ life \in [Modules -> Lives]
  BY DEF Init, States, Lives
<1>6. deps \in [Modules -> SUBSET Iids]
  BY DepsAssumption DEF Init
<1>7. starts \in 0 .. MaxStarts /\ released = {} /\ refused = {}
  BY MaxStartsAssumption DEF Init
<1>8. NothingHeldIsReleased
  BY <1>7 DEF NothingHeldIsReleased
<1> QED BY <1>3, <1>4, <1>5, <1>6, <1>7, <1>8 DEF RegistryIInv

\* The calls that begin a loop.
BeginStep ==
    \/ BeginInitializeAll \/ BeginStartAll \/ BeginStopAll \/ BeginShutdownAll
    \/ BeginStopAllWithTimeout \/ BeginShutdownAllWithTimeout

\* They keep the registry sound.
LEMMA BeginsKeepRegistry ==
    ASSUME RegistryIInv, BeginStep PROVE RegistryIInv'
<1>1. ComputeStartOrder \in Seq(Indexes)
  BY RegistryFollows, StartOrderOK
<1>2. Backwards \in Seq(Indexes)
  BY BackwardsCounts
<1>3. CASE BeginInitializeAll \/ BeginStartAll
  <2>1. starts' \in 0 .. MaxStarts
    BY <1>3, MaxStartsAssumption DEF BeginInitializeAll, BeginStartAll, RegistryIInv
  <2>2. PICK k \in Kinds \ {"none"} : Begin(k, ComputeStartOrder)
    BY <1>3 DEF BeginInitializeAll, BeginStartAll, Kinds
  <2>3. op' \in Calls /\ op'.kind # "none"
    BY <1>1, <2>2 DEF Begin, Calls
  <2>4. UNCHANGED <<reg, byName, byIid, released, refused, deps, state, life>>
    BY <2>2 DEF Begin, registry
  <2> QED BY <2>1, <2>3, <2>4, SameRegistry DEF RegistryIInv
<1>4. CASE BeginStopAll \/ BeginShutdownAll \/ BeginStopAllWithTimeout \/ BeginShutdownAllWithTimeout
  <2>1. starts' \in 0 .. MaxStarts
    BY <1>4 DEF BeginStopAll, BeginShutdownAll, BeginStopAllWithTimeout, BeginShutdownAllWithTimeout, RegistryIInv
  <2>2. PICK k \in Kinds \ {"none"} : Begin(k, Backwards)
    BY <1>4 DEF BeginStopAll, BeginShutdownAll, BeginStopAllWithTimeout, BeginShutdownAllWithTimeout, Kinds
  <2>3. op' \in Calls /\ op'.kind # "none"
    BY <1>2, <2>2 DEF Begin, Calls
  <2>4. UNCHANGED <<reg, byName, byIid, released, refused, deps, state, life>>
    BY <2>2 DEF Begin, registry
  <2> QED BY <2>1, <2>3, <2>4, SameRegistry DEF RegistryIInv
<1> QED BY <1>3, <1>4 DEF BeginStep

\* The calls of a program that add to the registry or take from it.
RegistryStep ==
    \/ \E m \in Modules : RegisterByName(m)
    \/ \E m \in Modules, iid \in Iids \cup {NoKey} : RegisterByIid(m, iid)
    \/ \E m \in Modules : UnregisterModule(NameOf[m])
    \/ \E iid \in Iids : UnregisterModuleByIid(iid)
    \/ Clear

\* They keep it sound.
LEMMA RegistryStepsKeep ==
    ASSUME RegistryIInv, RegistryStep PROVE RegistryIInv'
<1>1. ASSUME Clear PROVE RegistryIInv'
  BY <1>1, ClearKeeps DEF Clear
<1> QED BY <1>1, RegisterByNameKeeps, RegisterByIidKeeps, UnregisterKeeps, UnregisterByIidKeeps DEF RegistryStep

\* The steps of a program are those of the registry, the beginnings of a call
\* and the steps of its loops.
LEMMA NextSteps ==
    ASSUME Next PROVE RegistryStep \/ BeginStep \/ Loops(FALSE)
  BY DEF Next, RegistryStep, BeginStep, Loops

\* A step of the program, or none, keeps the registry sound.
LEMMA RegistryNext ==
    ASSUME RegistryIInv, [Next]_vars PROVE RegistryIInv'
<1>1. CASE UNCHANGED vars
  BY <1>1, SameRegistry DEF vars, RegistryIInv
<1>2. CASE Next
  BY <1>2, NextSteps, RegistryStepsKeep, BeginsKeepRegistry, LoopsKeepRegistry
<1> QED BY <1>1, <1>2

\* However modules are registered, refused, removed and taken through their
\* life cycle, the name and interface indexes of CModuleManager point at exactly
\* the entries of the vector, in registration order, no module is held twice,
\* and none that is held has been released.
THEOREM RegistryInvHolds == Spec => []RegistryInv
  BY RegistryInit, RegistryNext, RegistryFollows, PTL DEF Spec

(***************************************************************************)
(* The life cycle.                                                         *)
(***************************************************************************)
\* The state recorded for a module and what its callbacks took it through:
\* the two differ only where a Start failed.
Agreeing ==
    {<<"kCreated", "new">>, <<"kInitialized", "initialized">>, <<"kInitialized", "startFailed">>,
     <<"kStarted", "running">>, <<"kStopped", "stopped">>, <<"kShutdown", "closed">>}

StatesAgree == \A m \in Modules : <<state[m], life[m]>> \in Agreeing

Backs == Stopping \cup Closing

\* The stopping loops are at the last entry they have not visited.
CountingDown ==
    op.kind \in Backs =>
        /\ Len(op.todo) <= Len(reg)
        /\ \A k \in 1 .. Len(op.todo) : op.todo[k] = Len(op.todo) + 1 - k

\* No entry they have visited is in a state they look for.
VisitedDone ==
    op.kind \in Backs =>
        \A i \in Indexes : i > Len(op.todo) => state[reg[i].m] \notin Ready(op.kind)

\* The second loop of RollbackStarted finds none running.
NoneStarted ==
    op.kind = "RollbackStartedShutdown" => \A i \in Indexes : state[reg[i].m] # "kStarted"

\* A module whose Start failed is waiting to be shut down by the rollback.
FailedIsRolledBack ==
    \A m \in Modules : life[m] = "startFailed" =>
        \E i \in Indexes :
            /\ reg[i].m = m
            /\ \/ op.kind = "RollbackStartedStop"
               \/ op.kind = "RollbackStartedShutdown" /\ i <= Len(op.todo)

LifeCore == StatesAgree /\ CountingDown /\ VisitedDone /\ NoneStarted /\ FailedIsRolledBack

\* What the last call returned is about modules that have not come back.
ResultKnown ==
    /\ result.saw \subseteq Held \cup released
    /\ ~result.ok => result.call \in {"InitializeAll", "StartAll"}
    /\ RollbackComplete

LifeIInv == RegistryIInv /\ LifeCore /\ ResultKnown

\* What InitializeAll and StartAll have still to do keeps the order of
\* dependencies: each entry waits only for ones that come before it in the
\* list or are past the state the loop looks for.
Awaited(kind) == IF kind = "InitializeAll" THEN "kCreated" ELSE "kInitialized"

OrderKept ==
    op.kind \in {"InitializeAll", "StartAll"} =>
        \A p \in 1 .. Len(op.todo) :
            op.todo[p] \notin CyclicTail =>
                \A j \in DependsOn(op.todo[p]) :
                    \/ \E q \in 1 .. p - 1 : op.todo[q] = j
                    \/ state[reg[j].m] # Awaited(op.kind)

\* Who is held after a step of the registry: the modules that leave the vector
\* are released, and those that enter it never were.
HeldMoved ==
    /\ Held \cup released \subseteq Held' \cup released'
    /\ \A m \in Held' : m \in Held \/ m \notin released

\* An entry at the end adds a module.
LEMMA AppendedHeld ==
    ASSUME RegistryIInv, NEW e \in Entries, e.m \notin Held \cup released, reg' = Append(reg, e), UNCHANGED released
    PROVE  HeldMoved
<1>1. /\ Len(reg) \in Nat /\ Len(reg') = Len(reg) + 1 /\ reg'[Len(reg) + 1] = e
      /\ \A k \in 1 .. Len(reg) : reg'[k] = reg[k]
  BY HeldModules
<1>2. \A m : m \in Held <=> \E i \in 1 .. Len(reg) : reg[i].m = m
  BY DEF Held, Indexes
<1>3. \A m : m \in Held' <=> \E i \in 1 .. Len(reg') : reg'[i].m = m
  BY DEF Held, Indexes
<1>4. ASSUME NEW m \in Held PROVE m \in Held'
  <2>1. PICK i \in 1 .. Len(reg) : reg[i].m = m
    BY <1>2
  <2>2. i \in 1 .. Len(reg')
    BY <1>1
  <2> QED BY <1>1, <1>3, <2>1, <2>2
<1>5. ASSUME NEW m \in Held' PROVE m \in Held \/ m \notin released
  <2>1. PICK i \in 1 .. Len(reg') : reg'[i].m = m
    BY <1>3
  <2>2. i \in 1 .. Len(reg) \/ i = Len(reg) + 1
    BY <1>1
  <2> QED BY <1>1, <1>2, <2>1, <2>2
<1> QED BY <1>4, <1>5 DEF HeldMoved

\* Erasing an entry takes its module out.
LEMMA ErasedHeld ==
    ASSUME RegistryIInv, NEW i \in Indexes, EraseAt(i) PROVE HeldMoved
<1>1. PICK v, w : v = reg /\ w = RemoveAt(reg, i)
  OBVIOUS
<1>2. reg' = w /\ released' = released \cup {v[i].m}
  BY <1>1 DEF EraseAt
<1>3. v \in Seq(Entries) /\ i \in 1 .. Len(v) /\ w = RemoveAt(v, i) /\ Len(v) \in Nat /\ i \in Nat
  BY <1>1, HeldModules DEF Indexes
<1>4. /\ Len(w) = Len(v) - 1
      /\ \A k \in 1 .. Len(v) - 1 : w[k] = IF k < i THEN v[k] ELSE v[k + 1]
      /\ \A k \in 1 .. Len(v) - 1 : \E j \in 1 .. Len(v) : w[k] = v[j]
  BY <1>3, Erased, ZenonT(30)
<1>5. \A m : m \in Held <=> \E j \in 1 .. Len(v) : v[j].m = m
  BY <1>1 DEF Held, Indexes
<1>6. \A m : m \in Held' <=> \E j \in 1 .. Len(w) : w[j].m = m
  BY <1>2 DEF Held, Indexes
<1>7. ASSUME NEW m \in Held PROVE m \in Held' \cup released'
  <2>1. PICK j \in 1 .. Len(v) : v[j].m = m
    BY <1>5
  <2>2. CASE j = i
    BY <1>2, <2>1, <2>2
  <2>3. CASE j < i
    <3>1. j \in 1 .. Len(v) - 1
      BY <1>3, <2>3
    <3>2. w[j] = v[j]
      BY <1>4, <2>3, <3>1
    <3> QED BY <1>4, <1>6, <2>1, <3>1, <3>2
  <2>4. CASE j > i
    <3>1. j - 1 \in 1 .. Len(v) - 1 /\ ~(j - 1 < i) /\ (j - 1) + 1 = j
      BY <1>3, <2>4
    <3>2. w[j - 1] = v[j]
      BY <1>4, <3>1
    <3> QED BY <1>4, <1>6, <2>1, <3>1, <3>2
  <2> QED BY <1>3, <2>2, <2>3, <2>4
<1>8. ASSUME NEW m \in Held' PROVE m \in Held
  BY <1>4, <1>5, <1>6
<1> QED BY <1>2, <1>7, <1>8 DEF HeldMoved

\* What the steps of the registry have in common.
LEMMA RegistryStepFrame ==
    ASSUME RegistryIInv, RegistryStep
    PROVE  op = Idle /\ UNCHANGED <<deps, state, op, result, life, starts>> /\ HeldMoved
<1>1. ASSUME NEW m \in Modules, RegisterByName(m)
      PROVE  op = Idle /\ UNCHANGED <<deps, state, op, result, life, starts>> /\ HeldMoved
  <2>1. op = Idle /\ UNCHANGED <<deps, state, op, result, life, starts>> /\ m \notin Held \cup released
    BY <1>1 DEF RegisterByName, Fresh
  <2>2. CASE reg' = reg /\ released \subseteq released'
    BY <2>1, <2>2 DEF HeldMoved, Held, Indexes
  <2>3. CASE reg' = Append(reg, [m |-> m, iid |-> NoKey]) /\ released' = released
    <3>1. PICK e : e = [m |-> m, iid |-> NoKey]
      OBVIOUS
    <3>2. e \in Entries /\ e.m = m
      BY <3>1 DEF Entries
    <3> QED BY <2>1, <2>3, <3>1, <3>2, AppendedHeld
  <2> QED BY <1>1, <2>1, <2>2, <2>3 DEF RegisterByName
<1>2. ASSUME NEW m \in Modules, NEW iid \in Iids \cup {NoKey}, RegisterByIid(m, iid)
      PROVE  op = Idle /\ UNCHANGED <<deps, state, op, result, life, starts>> /\ HeldMoved
  <2>1. op = Idle /\ UNCHANGED <<deps, state, op, result, life, starts, released>> /\ m \notin Held \cup released
    BY <1>2 DEF RegisterByIid, Fresh
  <2>2. CASE reg' = reg
    BY <2>1, <2>2 DEF HeldMoved, Held, Indexes
  <2>3. CASE reg' = Append(reg, [m |-> m, iid |-> iid])
    <3>1. PICK e : e = [m |-> m, iid |-> iid]
      OBVIOUS
    <3>2. e \in Entries /\ e.m = m
      BY <3>1 DEF Entries
    <3> QED BY <2>1, <2>3, <3>1, <3>2, AppendedHeld
  <2> QED BY <1>2, <2>1, <2>2, <2>3 DEF RegisterByIid
<1>3. ASSUME NEW i \in Indexes, EraseAt(i)
      PROVE  op = Idle /\ UNCHANGED <<deps, state, op, result, life, starts>> /\ HeldMoved
  <2>1. op = Idle /\ UNCHANGED <<deps, state, op, result, life, starts>>
    BY <1>3 DEF EraseAt
  <2> QED BY <1>3, <2>1, ErasedHeld
<1>4. ASSUME NEW name, UnregisterModule(name) PROVE \E i \in Indexes : EraseAt(i)
  <2>1. PICK e \in byName : EraseAt(e[2])
    BY <1>4 DEF UnregisterModule
  <2>2. e[2] \in Indexes
    BY <2>1 DEF RegistryIInv, VectorOK, NameEntries, Indexes
  <2> QED BY <2>1, <2>2
<1>5. ASSUME NEW iid, UnregisterModuleByIid(iid) PROVE \E i \in Indexes : EraseAt(i)
  <2>1. PICK k \in 1 .. Len(byIid) : EraseAt(byIid[k][2])
    BY <1>5 DEF UnregisterModuleByIid
  <2>2. PICK keys, v : keys = byIid /\ v = reg
    OBVIOUS
  <2>3. keys \in Seq(KeyEntries) /\ Range(keys) = IidEntries(v)
    BY <2>2 DEF RegistryIInv, VectorOK
  <2>4. keys[k] \in IidEntries(v)
    BY <2>1, <2>2, <2>3, RangeSeq
  <2>5. byIid[k][2] \in Indexes
    BY <2>2, <2>4 DEF IidEntries, Indexes
  <2> QED BY <2>1, <2>5
<1>6. ASSUME Clear
      PROVE  op = Idle /\ UNCHANGED <<deps, state, op, result, life, starts>> /\ HeldMoved
  <2>1. op = Idle /\ UNCHANGED <<deps, state, op, result, life, starts>>
    BY <1>6 DEF Clear
  <2>2. 1 .. Len(<<>>) = {} /\ reg' = <<>> /\ released' = released \cup Held
    BY <1>6 DEF Clear, ClearRegistry
  <2>3. Held' = {}
    BY <2>2 DEF Held, Indexes
  <2> QED BY <2>1, <2>2, <2>3 DEF HeldMoved
<1> QED BY <1>1, <1>2, <1>3, <1>4, <1>5, <1>6 DEF RegistryStep

\* Between calls no Start has failed and not been dealt with.
LEMMA NoFailureLeft ==
    ASSUME LifeCore, op.kind \notin {"RollbackStartedStop", "RollbackStartedShutdown"}
    PROVE  \A m \in Modules : life[m] # "startFailed"
  BY DEF LifeCore, FailedIsRolledBack

\* A step that leaves the states and the lives alone, and what it needs of
\* the call it begins, goes on with or ends.
LEMMA QuietStep ==
    ASSUME RegistryIInv, LifeCore, UNCHANGED <<state, life>>,
           op.kind \notin {"RollbackStartedStop", "RollbackStartedShutdown"},
           \/ op'.kind \notin Backs
           \/ UNCHANGED reg /\ op'.kind \in Backs /\ op'.kind # "RollbackStartedShutdown" /\ op'.todo = Backwards
    PROVE  LifeCore'
<1>1. StatesAgree'
  BY DEF LifeCore, StatesAgree
<1>2. FailedIsRolledBack'
  BY NoFailureLeft DEF FailedIsRolledBack
<1>3. CASE op'.kind \notin Backs
  BY <1>1, <1>2, <1>3 DEF LifeCore, CountingDown, VisitedDone, NoneStarted, Backs, Closing
<1>4. CASE /\ UNCHANGED reg /\ op'.kind \in Backs /\ op'.kind # "RollbackStartedShutdown" /\ op'.todo = Backwards
  <2>1. /\ Len(op'.todo) = Len(reg') /\ Len(reg') \in Nat
        /\ \A k \in 1 .. Len(op'.todo) : op'.todo[k] = Len(op'.todo) + 1 - k
    BY <1>4, BackwardsCounts
  <2>2. CountingDown'
    BY <2>1 DEF CountingDown
  <2>3. VisitedDone'
    BY <2>1 DEF VisitedDone, Indexes
  <2> QED BY <1>1, <1>2, <1>4, <2>2, <2>3 DEF LifeCore, NoneStarted
<1> QED BY <1>3, <1>4

\* An iteration of a stopping loop that is at entry i, the last not visited.
LEMMA CountsOn ==
    ASSUME RegistryIInv, CountingDown, NEW kind \in Backs, InLoop(kind), Next1, UNCHANGED reg
    PROVE  /\ op'.kind = kind /\ Len(op.todo) \in Nat \ {0} /\ Head(op.todo) = Len(op.todo)
           /\ Len(op'.todo) = Len(op.todo) - 1 /\ CountingDown'
<1>1. op.kind = kind /\ op.todo # <<>> /\ op.todo \in Seq(Indexes) /\ op' = [op EXCEPT !.todo = Tail(op.todo)]
  BY DEF InLoop, Next1, RegistryIInv, Calls
<1>2. op'.kind = kind /\ op'.todo = Tail(op.todo)
  BY <1>1 DEF RegistryIInv, Calls
<1>3. Len(op.todo) <= Len(reg) /\ \A k \in 1 .. Len(op.todo) : op.todo[k] = Len(op.todo) + 1 - k
  BY <1>1 DEF CountingDown
<1>4. PICK s, n, I : s = op.todo /\ n = Len(op.todo) /\ I = Indexes
  OBVIOUS
<1>5. s \in Seq(I) /\ s # <<>> /\ n = Len(s) /\ \A k \in 1 .. n : s[k] = n + 1 - k
  BY <1>1, <1>3, <1>4
<1>6. n \in Nat \ {0} /\ Head(s) = n /\ Len(Tail(s)) = n - 1 /\ \A k \in 1 .. n - 1 : Tail(s)[k] = s[k + 1]
  <2>1. n \in Nat /\ n # 0
    BY <1>5
  <2>2. Head(s) = s[1] /\ Len(Tail(s)) = n - 1 /\ \A k \in 1 .. n - 1 : Tail(s)[k] = s[k + 1]
    BY <1>5, <2>1
  <2>3. 1 \in 1 .. n
    BY <2>1
  <2> QED BY <1>5, <2>1, <2>2, <2>3
<1>7. ASSUME NEW k \in 1 .. n - 1 PROVE Tail(s)[k] = (n - 1) + 1 - k
  BY <1>5, <1>6
<1>8. CountingDown'
  <2>1. n - 1 <= Len(reg) /\ Len(reg) \in Nat
    BY <1>3, <1>4, <1>6, HeldModules
  <2> QED BY <1>2, <1>4, <1>6, <1>7, <2>1 DEF CountingDown
<1> QED BY <1>2, <1>4, <1>6, <1>8

\* An iteration of a stopping loop.
LEMMA BackVisitKeeps ==
    ASSUME RegistryIInv, LifeCore, NEW kind \in Backs, BackVisit(kind) PROVE LifeCore'
<1>1. /\ InLoop(kind) /\ Next1 /\ UNCHANGED <<reg, released>> /\ op.kind = kind /\ op.todo # <<>>
  BY DEF BackVisit, InLoop, registry
<1>2. PICK n : n = Len(op.todo)
  OBVIOUS
<1>3. /\ op'.kind = kind /\ n \in Nat \ {0} /\ Head(op.todo) = n /\ Len(op'.todo) = n - 1 /\ CountingDown'
  BY <1>1, <1>2, CountsOn DEF LifeCore
<1>4. PICK m : m = Current
  OBVIOUS
<1>5. n \in Indexes /\ m = reg[n].m /\ m \in Modules
  BY <1>1, <1>3, <1>4, CurrentHeld
<1>6. \A i, j \in Indexes : i # j => reg[i].m # reg[j].m
  BY DEF RegistryIInv, VectorOK, Distinct, Indexes
<1>7. /\ \A x \in Modules : x # m => state'[x] = state[x] /\ life'[x] = life[x]
      /\ \/ state'[m] = state[m] /\ life'[m] = life[m] /\ state[m] \notin Ready(kind)
         \/ state[m] \in Ready(kind) /\ kind \in Stopping /\ state'[m] = "kStopped" /\ life'[m] = "stopped"
         \/ state[m] \in Ready(kind) /\ kind \in Closing /\ state'[m] = "kShutdown" /\ life'[m] = "closed"
  <2>1. <<state[m], life[m]>> \in Agreeing
    BY <1>5 DEF LifeCore, StatesAgree
  <2>2. CASE state[m] \notin Ready(kind) /\ UNCHANGED <<state, life>>
    BY <2>2
  <2>3. CASE /\ state[m] \in Ready(kind) /\ kind \in Stopping
             /\ Callback(m, {"running"}, "stopped") /\ SetModuleState(m, "kStopped")
    <3>1. life[m] = "running"
      BY <2>1, <2>3 DEF Agreeing, Ready
    <3> QED BY <1>5, <2>3, <3>1, CallbackLives, StatesSet DEF Lives, States
  <2>4. CASE /\ state[m] \in Ready(kind) /\ kind \in Closing
             /\ Callback(m, {"initialized", "startFailed", "running", "stopped"}, "closed")
             /\ SetModuleState(m, "kShutdown")
    <3>1. life[m] \in {"initialized", "startFailed", "running", "stopped"}
      BY <2>1, <2>4 DEF Agreeing, Ready, Stopping, Closing
    <3> QED BY <1>5, <2>4, <3>1, CallbackLives, StatesSet DEF Lives, States
  <2> QED BY <1>4, <2>2, <2>3, <2>4 DEF BackVisit
<1>8. StatesAgree'
  <2> SUFFICES ASSUME NEW x \in Modules PROVE <<state'[x], life'[x]>> \in Agreeing
    BY DEF StatesAgree
  <2>1. <<state[x], life[x]>> \in Agreeing
    BY DEF LifeCore, StatesAgree
  <2> QED BY <1>7, <2>1 DEF Agreeing
<1>9. state'[m] \notin Ready(kind)
  BY <1>7 DEF Ready, Stopping, Closing
<1>10. VisitedDone'
  <2> SUFFICES ASSUME NEW i \in Indexes, i > n - 1 PROVE state'[reg[i].m] \notin Ready(kind)
    BY <1>1, <1>3 DEF VisitedDone, Indexes
  <2>1. reg[i].m \in Modules /\ i \in Nat
    BY HeldModules
  <2>2. CASE i = n
    BY <1>5, <1>9, <2>2
  <2>3. CASE i > n
    <3>1. state[reg[i].m] \notin Ready(kind)
      BY <1>1, <1>2, <2>3 DEF LifeCore, VisitedDone
    <3>2. reg[i].m # m
      BY <1>3, <1>5, <1>6, <2>1, <2>3
    <3> QED BY <1>7, <2>1, <3>1, <3>2
  <2> QED BY <1>3, <2>1, <2>2, <2>3
<1>11. NoneStarted'
  <2> SUFFICES ASSUME kind = "RollbackStartedShutdown", NEW i \in Indexes PROVE state'[reg[i].m] # "kStarted"
    BY <1>1, <1>3 DEF NoneStarted, Indexes
  <2>1. state[reg[i].m] # "kStarted" /\ reg[i].m \in Modules
    BY <1>1, HeldModules DEF LifeCore, NoneStarted
  <2> QED BY <1>7, <2>1
<1>12. FailedIsRolledBack'
  <2> SUFFICES ASSUME NEW x \in Modules, life'[x] = "startFailed"
               PROVE  \E i \in Indexes :
                         /\ reg[i].m = x
                         /\ \/ kind = "RollbackStartedStop"
                            \/ kind = "RollbackStartedShutdown" /\ i <= n - 1
    BY <1>1, <1>3 DEF FailedIsRolledBack, Indexes
  <2>1. life[x] = "startFailed"
    BY <1>7
  <2>2. PICK i \in Indexes :
           /\ reg[i].m = x
           /\ \/ kind = "RollbackStartedStop"
              \/ kind = "RollbackStartedShutdown" /\ i <= n
    BY <1>1, <1>2, <2>1 DEF LifeCore, FailedIsRolledBack
  <2>3. CASE kind = "RollbackStartedStop"
    BY <2>2, <2>3
  <2>4. CASE kind = "RollbackStartedShutdown" /\ i # n
    <3>1. i \in Nat
      BY HeldModules
    <3> QED BY <1>3, <2>2, <2>4, <3>1
  <2>5. CASE kind = "RollbackStartedShutdown" /\ i = n
    <3>1. x = m /\ state[m] = "kInitialized"
      BY <1>5, <2>1, <2>2, <2>5 DEF LifeCore, StatesAgree, Agreeing
    <3>2. state[m] \in Ready(kind)
      BY <2>5, <3>1 DEF Ready, Stopping
    <3>3. life'[m] # "startFailed"
      BY <1>7, <3>2
    <3> QED BY <3>1, <3>3
  <2> QED BY <2>2, <2>3, <2>4, <2>5
<1> QED BY <1>3, <1>8, <1>10, <1>11, <1>12 DEF LifeCore

\* An iteration of InitializeAll or StartAll.
LEMMA ForthVisitKeeps ==
    ASSUME RegistryIInv, LifeCore, NEW kind \in {"InitializeAll", "StartAll"}, ForthVisit(kind) PROVE LifeCore'
<1>1. UNCHANGED <<reg, released>> /\ op.kind = kind /\ op.todo # <<>>
  BY DEF ForthVisit, InLoop, registry
<1>2. PICK m : m = Current
  OBVIOUS
<1>3. m \in Modules /\ m \in Held
  BY <1>1, <1>2, CurrentHeld
<1>4. <<state[m], life[m]>> \in Agreeing /\ \A x \in Modules : life[x] # "startFailed"
  BY <1>1, <1>3, NoFailureLeft DEF LifeCore, StatesAgree
<1>5. CASE Next1 /\ UNCHANGED <<state, life>>
  <2>1. op'.kind = kind
    BY <1>1, <1>5 DEF Next1, RegistryIInv, Calls
  <2> QED BY <1>1, <1>5, <2>1, QuietStep DEF Backs, Stopping, Closing
<1>6. CASE /\ Next1 /\ state[m] = Awaited(kind)
           /\ \/ /\ kind = "InitializeAll" /\ Callback(m, {"new"}, "initialized") /\ SetModuleState(m, "kInitialized")
              \/ /\ kind = "StartAll" /\ Callback(m, {"initialized"}, "running") /\ SetModuleState(m, "kStarted")
  <2>1. op'.kind = kind
    BY <1>1, <1>6 DEF Next1, RegistryIInv, Calls
  <2>2. /\ \A x \in Modules : x # m => state'[x] = state[x] /\ life'[x] = life[x]
        /\ \/ state'[m] = "kInitialized" /\ life'[m] = "initialized"
           \/ state'[m] = "kStarted" /\ life'[m] = "running"
    <3>1. CASE kind = "InitializeAll"
      <4>1. life[m] = "new"
        BY <1>4, <1>6, <3>1 DEF Agreeing, Awaited
      <4> QED BY <1>3, <1>6, <3>1, <4>1, CallbackLives, StatesSet DEF Lives, States
    <3>2. CASE kind = "StartAll"
      <4>1. life[m] = "initialized"
        BY <1>3, <1>4, <1>6, <3>2 DEF Agreeing, Awaited
      <4> QED BY <1>3, <1>6, <3>2, <4>1, CallbackLives, StatesSet DEF Lives, States
    <3> QED BY <3>1, <3>2
  <2>3. StatesAgree'
    <3> SUFFICES ASSUME NEW x \in Modules PROVE <<state'[x], life'[x]>> \in Agreeing
      BY DEF StatesAgree
    <3>1. <<state[x], life[x]>> \in Agreeing
      BY DEF LifeCore, StatesAgree
    <3> QED BY <2>2, <3>1 DEF Agreeing
  <2>4. FailedIsRolledBack'
    BY <1>4, <2>2 DEF FailedIsRolledBack
  <2>5. op'.kind \notin Backs /\ op'.kind # "RollbackStartedShutdown"
    BY <2>1 DEF Backs, Stopping, Closing
  <2> QED BY <2>3, <2>4, <2>5 DEF LifeCore, CountingDown, VisitedDone, NoneStarted
<1>7. CASE /\ kind = "InitializeAll" /\ state[m] = "kCreated" /\ Callback(m, {"new"}, "new")
           /\ op' = [kind |-> "RollbackInitialized", todo |-> Backwards] /\ UNCHANGED state
  <2>1. life[m] = "new"
    BY <1>4, <1>7 DEF Agreeing
  <2>2. UNCHANGED life
    BY <1>3, <1>7, <2>1 DEF Callback, RegistryIInv
  <2>3. op'.kind \in Backs /\ op'.kind # "RollbackStartedShutdown" /\ op'.todo = Backwards
    BY <1>7 DEF Backs, Closing
  <2> QED BY <1>1, <1>7, <2>2, <2>3, QuietStep
<1>8. CASE /\ kind = "StartAll" /\ state[m] = "kInitialized" /\ Callback(m, {"initialized"}, "startFailed")
           /\ op' = [kind |-> "RollbackStartedStop", todo |-> Backwards] /\ UNCHANGED state
  <2>1. life[m] = "initialized"
    BY <1>3, <1>4, <1>8 DEF Agreeing
  <2>2. life'[m] = "startFailed" /\ \A x \in Modules : x # m => life'[x] = life[x]
    BY <1>3, <1>8, <2>1, CallbackLives DEF Lives
  <2>3. StatesAgree'
    <3> SUFFICES ASSUME NEW x \in Modules PROVE <<state'[x], life'[x]>> \in Agreeing
      BY DEF StatesAgree
    <3>1. <<state[x], life[x]>> \in Agreeing
      BY DEF LifeCore, StatesAgree
    <3> QED BY <1>8, <2>2, <3>1 DEF Agreeing
  <2>4. op'.kind = "RollbackStartedStop" /\ op'.todo = Backwards
    BY <1>8
  <2>5. FailedIsRolledBack'
    <3>1. PICK i \in Indexes : reg[i].m = m
      BY <1>3, HeldModules
    <3>2. \A x \in Modules : life'[x] = "startFailed" => x = m
      BY <1>4, <2>2
    <3> QED BY <1>1, <2>4, <3>1, <3>2 DEF FailedIsRolledBack, Indexes
  <2>6. /\ Len(op'.todo) = Len(reg') /\ Len(reg') \in Nat
        /\ \A k \in 1 .. Len(op'.todo) : op'.todo[k] = Len(op'.todo) + 1 - k
    BY <1>1, <2>4, BackwardsCounts
  <2>7. CountingDown' /\ VisitedDone'
    BY <2>6 DEF CountingDown, VisitedDone, Indexes
  <2> QED BY <2>3, <2>4, <2>5, <2>7 DEF LifeCore, NoneStarted
<1>9. CASE kind = "InitializeAll"
  BY <1>2, <1>5, <1>6, <1>7, <1>9 DEF ForthVisit, Awaited
<1>10. CASE kind = "StartAll"
  BY <1>2, <1>5, <1>6, <1>8, <1>10 DEF ForthVisit, Awaited
<1> QED BY <1>9, <1>10

\* The end of a loop: a return, or the second loop of RollbackStarted, which
\* the first one leaves with no module running.
LEMMA LoopEndKeeps ==
    ASSUME RegistryIInv, LifeCore, LoopEnd PROVE LifeCore'
<1>1. UNCHANGED <<reg, released, state, life>>
  BY DEF LoopEnd, registry
<1>2. CASE AfterLoop("RollbackStartedStop") /\ op' = [kind |-> "RollbackStartedShutdown", todo |-> Backwards]
  <2>1. op.kind = "RollbackStartedStop" /\ op.todo = <<>>
    BY <1>2 DEF AfterLoop
  <2>2. op'.kind = "RollbackStartedShutdown" /\ op'.todo = Backwards
    BY <1>2
  <2>3. /\ Len(op'.todo) = Len(reg') /\ Len(reg') \in Nat
        /\ \A k \in 1 .. Len(op'.todo) : op'.todo[k] = Len(op'.todo) + 1 - k
    BY <1>1, <2>2, BackwardsCounts
  <2>4. CountingDown' /\ VisitedDone'
    BY <2>3 DEF CountingDown, VisitedDone, Indexes
  <2>5. NoneStarted'
    <3> SUFFICES ASSUME NEW i \in Indexes PROVE state[reg[i].m] # "kStarted"
      BY <1>1 DEF NoneStarted, Indexes
    <3>1. i > Len(op.todo)
      BY <2>1, HeldModules
    <3> QED BY <2>1, <3>1 DEF LifeCore, VisitedDone, Backs, Stopping, Ready
  <2>6. FailedIsRolledBack'
    <3> SUFFICES ASSUME NEW x \in Modules, life[x] = "startFailed"
                 PROVE  \E i \in Indexes : reg[i].m = x /\ i <= Len(reg)
      BY <1>1, <2>2, <2>3 DEF FailedIsRolledBack, Indexes
    <3> QED BY HeldModules DEF LifeCore, FailedIsRolledBack
  <2>7. StatesAgree'
    BY <1>1 DEF LifeCore, StatesAgree
  <2> QED BY <2>4, <2>5, <2>6, <2>7 DEF LifeCore
<1>3. CASE AfterLoop("RollbackStartedShutdown") /\ Finish("StartAll", FALSE)
  <2>1. op.kind = "RollbackStartedShutdown" /\ op.todo = <<>> /\ op' = Idle
    BY <1>3 DEF AfterLoop, Finish
  <2>2. \A x \in Modules : life[x] # "startFailed"
    <3> SUFFICES ASSUME NEW x \in Modules, life[x] = "startFailed" PROVE FALSE
      OBVIOUS
    <3>1. PICK i \in Indexes : i <= Len(op.todo)
      BY <2>1 DEF LifeCore, FailedIsRolledBack
    <3> QED BY <2>1, <3>1, HeldModules
  <2>3. FailedIsRolledBack'
    BY <1>1, <2>2 DEF FailedIsRolledBack
  <2>4. StatesAgree'
    BY <1>1 DEF LifeCore, StatesAgree
  <2>5. op'.kind \notin Backs /\ op'.kind # "RollbackStartedShutdown"
    BY <2>1, IdleCall DEF Backs, Stopping, Closing
  <2> QED BY <2>3, <2>4, <2>5 DEF LifeCore, CountingDown, VisitedDone, NoneStarted
<1>4. CASE op.kind \notin {"RollbackStartedStop", "RollbackStartedShutdown"} /\ op' = Idle
  <2>1. op'.kind \notin Backs
    BY <1>4, IdleCall DEF Backs, Stopping, Closing
  <2> QED BY <1>1, <1>4, <2>1, QuietStep
<1>5. \/ AfterLoop("RollbackStartedStop") /\ op' = [kind |-> "RollbackStartedShutdown", todo |-> Backwards]
      \/ AfterLoop("RollbackStartedShutdown") /\ Finish("StartAll", FALSE)
      \/ op.kind \notin {"RollbackStartedStop", "RollbackStartedShutdown"} /\ op' = Idle
  BY DEF LoopEnd, AfterLoop, Finish
<1> QED BY <1>2, <1>3, <1>4, <1>5

\* The steps that change no state: registry, beginnings, timed loops that do
\* not run.
LEMMA OtherStepsKeep ==
    ASSUME RegistryIInv, LifeCore, RegistryStep \/ BeginStep \/ StopTimedStep(FALSE) \/ ShutdownTimedStep(FALSE)
    PROVE  LifeCore'
<1>1. CASE RegistryStep
  <2>1. op = Idle /\ UNCHANGED <<state, life, op>>
    BY <1>1, RegistryStepFrame
  <2> QED BY <2>1, QuietStep, IdleCall DEF Backs, Stopping, Closing
<1>2. CASE BeginStep
  <2>1. PICK kind, todo :
           /\ Begin(kind, todo)
           /\ kind \notin Backs \/ (kind \in {"StopAll", "ShutdownAll"} /\ todo = Backwards)
    BY <1>2 DEF BeginStep, BeginInitializeAll, BeginStartAll, BeginStopAll, BeginShutdownAll,
                BeginStopAllWithTimeout, BeginShutdownAllWithTimeout, Backs, Stopping, Closing
  <2>2. op = Idle /\ UNCHANGED <<reg, state, life>> /\ op'.kind = kind /\ op'.todo = todo
    BY <2>1 DEF Begin, registry
  <2>3. op.kind = "none"
    BY <2>2, IdleCall
  <2> QED BY <2>1, <2>2, <2>3, QuietStep DEF Backs, Stopping, Closing
<1>3. CASE StopTimedStep(FALSE) \/ ShutdownTimedStep(FALSE)
  <2>1. op' = Idle /\ UNCHANGED <<state, life>> /\ op.kind \in {"StopAllWithTimeout", "ShutdownAllWithTimeout"}
    BY <1>3 DEF StopTimedStep, ShutdownTimedStep, TimedStep, Finish, InLoop
  <2>2. op'.kind \notin Backs
    BY <2>1, IdleCall DEF Backs, Stopping, Closing
  <2> QED BY <2>1, <2>2, QuietStep
<1> QED BY <1>1, <1>2, <1>3

\* Every step of a life-cycle call keeps states and lives in agreement, as long
\* as the timed loops do not run.
LEMMA LoopsKeepLife ==
    ASSUME RegistryIInv, LifeCore, Loops(FALSE) PROVE LifeCore'
<1>1. CASE BackStep
  BY <1>1, BackSteps, BackVisitKeeps DEF Backs
<1>2. CASE InitializeStep \/ StartStep
  BY <1>2, ForthSteps, ForthVisitKeeps
<1>3. CASE StopTimedStep(FALSE) \/ ShutdownTimedStep(FALSE)
  BY <1>3, OtherStepsKeep
<1>4. CASE LoopEnd
  BY <1>4, LoopEndKeeps
<1> QED BY <1>1, <1>2, <1>3, <1>4 DEF Loops, BackStep

\* At first no module has been called.
LEMMA LifeInit ==
    ASSUME Init PROVE LifeCore /\ ResultKnown
<1>1. op.kind = "none"
  BY IdleCall DEF Init
<1>2. StatesAgree
  BY DEF Init, StatesAgree, Agreeing
<1>3. FailedIsRolledBack
  BY DEF Init, FailedIsRolledBack
<1>4. LifeCore
  BY <1>1, <1>2, <1>3 DEF LifeCore, CountingDown, VisitedDone, NoneStarted, Backs, Stopping, Closing
<1>5. ResultKnown
  BY DEF Init, ResultKnown, RollbackComplete
<1> QED BY <1>4, <1>5

\* A step of the registry does not bring back a module the last call saw.
LEMMA RegistryStepResult ==
    ASSUME LifeIInv, RegistryStep PROVE ResultKnown'
<1>1. op = Idle /\ UNCHANGED <<state, op, result>> /\ HeldMoved
  BY RegistryStepFrame DEF LifeIInv
<1>2. /\ result.saw \subseteq Held \cup released
      /\ ~result.ok => result.call \in {"InitializeAll", "StartAll"}
      /\ RollbackComplete
  BY DEF LifeIInv, ResultKnown
<1>3. result.saw \subseteq Held' \cup released'
  BY <1>1, <1>2 DEF HeldMoved
<1>4. \A m \in result.saw : m \in Held' => m \in Held
  BY <1>1, <1>2 DEF HeldMoved
<1>5. RollbackComplete'
  BY <1>1, <1>2, <1>4 DEF RollbackComplete
<1> QED BY <1>1, <1>2, <1>3, <1>5 DEF ResultKnown

\* While a call is in progress what the last one returned is not looked at.
LEMMA BusyResult ==
    ASSUME LifeIInv, UNCHANGED <<reg, released, result>>, op' # Idle PROVE ResultKnown'
<1>1. Held' = Held
  BY DEF Held, Indexes
<1> QED BY <1>1 DEF LifeIInv, ResultKnown, RollbackComplete

\* A call that returns records what it saw.  When it returns false the rollback
\* has visited every entry.
LEMMA LoopEndResult ==
    ASSUME LifeIInv, LoopEnd PROVE ResultKnown'
<1>1. UNCHANGED <<reg, released, state>>
  BY DEF LoopEnd, registry
<1>2. Held' = Held
  BY <1>1 DEF Held, Indexes
<1>3. ASSUME NEW kind \in {"RollbackInitialized", "RollbackStartedShutdown"}, AfterLoop(kind), NEW m \in Held
      PROVE  state[m] \notin Ready(kind) /\ (kind = "RollbackStartedShutdown" => state[m] # "kStarted")
  <2>1. PICK i \in Indexes : reg[i].m = m
    BY HeldModules DEF LifeIInv
  <2>2. op.kind = kind /\ i > Len(op.todo)
    BY <1>3, HeldModules DEF LifeIInv, AfterLoop
  <2> QED BY <2>1, <2>2 DEF LifeIInv, LifeCore, VisitedDone, NoneStarted, Backs, Closing
<1>4. CASE \E k : Finish(k, TRUE)
  <2>1. result'.ok /\ result'.saw = Held
    BY <1>4 DEF Finish
  <2> QED BY <1>2, <2>1 DEF ResultKnown, RollbackComplete
<1>5. CASE AfterLoop("RollbackInitialized") /\ Finish("InitializeAll", FALSE)
  <2>1. result'.call = "InitializeAll" /\ result'.saw = Held
    BY <1>5 DEF Finish
  <2>2. \A m \in Held : state[m] # "kInitialized"
    BY <1>3, <1>5 DEF Ready, Stopping
  <2> QED BY <1>1, <1>2, <2>1, <2>2 DEF ResultKnown, RollbackComplete
<1>6. CASE AfterLoop("RollbackStartedShutdown") /\ Finish("StartAll", FALSE)
  <2>1. result'.call = "StartAll" /\ result'.saw = Held
    BY <1>6 DEF Finish
  <2>2. \A m \in Held : state[m] \notin {"kInitialized", "kStarted", "kStopped"}
    BY <1>3, <1>6 DEF Ready, Stopping
  <2> QED BY <1>1, <1>2, <2>1, <2>2 DEF ResultKnown, RollbackComplete
<1>7. CASE op' = [kind |-> "RollbackStartedShutdown", todo |-> Backwards] /\ UNCHANGED result
  <2>1. op' # Idle
    BY <1>7, IdleCall
  <2> QED BY <1>1, <1>7, <2>1, BusyResult
<1> QED BY <1>4, <1>5, <1>6, <1>7 DEF LoopEnd

\* A step of a loop keeps the call in progress.
LEMMA StillBusy ==
    ASSUME RegistryIInv, op.todo # <<>>, Next1 \/ \E k \in Kinds \ {"none"} : op' = [kind |-> k, todo |-> Backwards]
    PROVE  op' # Idle
<1>1. op.kind # "none" /\ op'.kind # "none"
  BY CurrentHeld DEF Next1, RegistryIInv, Calls
<1> QED BY <1>1, IdleCall

\* A step of the program, or none, keeps the invariant of the life cycle.
LEMMA LifeNext ==
    ASSUME LifeIInv, [Next]_vars PROVE LifeIInv'
<1>1. RegistryIInv /\ LifeCore /\ ResultKnown /\ RegistryIInv'
  BY RegistryNext DEF LifeIInv
<1>2. CASE UNCHANGED vars
  <2>1. LifeCore'
    BY <1>1, <1>2 DEF vars, LifeCore, StatesAgree, CountingDown, VisitedDone, NoneStarted, FailedIsRolledBack, Indexes
  <2>2. ResultKnown'
    BY <1>1, <1>2 DEF vars, ResultKnown, RollbackComplete, Held, Indexes
  <2> QED BY <1>1, <2>1, <2>2 DEF LifeIInv
<1>3. CASE RegistryStep
  BY <1>1, <1>3, OtherStepsKeep, RegistryStepResult DEF LifeIInv
<1>4. CASE BeginInitializeAll \/ BeginStartAll \/ BeginStopAll \/ BeginShutdownAll
  <2>1. LifeCore'
    BY <1>1, <1>4, OtherStepsKeep DEF BeginStep
  <2>2. UNCHANGED <<reg, released, result>> /\ op'.kind # "none"
    BY <1>4 DEF BeginInitializeAll, BeginStartAll, BeginStopAll, BeginShutdownAll, Begin, registry
  <2>3. op' # Idle
    BY <2>2, IdleCall
  <2> QED BY <1>1, <2>1, <2>2, <2>3, BusyResult DEF LifeIInv
<1>5. CASE BackStep
  <2>1. PICK kind \in Backs : BackVisit(kind)
    BY <1>5, BackSteps DEF Backs
  <2>2. op.todo # <<>> /\ Next1 /\ UNCHANGED <<reg, released, result>>
    BY <2>1 DEF BackVisit, InLoop, registry
  <2>3. op' # Idle
    BY <1>1, <2>2, StillBusy
  <2> QED BY <1>1, <2>1, <2>2, <2>3, BackVisitKeeps, BusyResult DEF LifeIInv
<1>6. CASE InitializeStep \/ StartStep
  <2>1. PICK kind \in {"InitializeAll", "StartAll"} : ForthVisit(kind)
    BY <1>6, ForthSteps
  <2>2. op.todo # <<>> /\ UNCHANGED <<reg, released, result>>
    BY <2>1 DEF ForthVisit, InLoop, registry
  <2>3. Next1 \/ \E k \in Kinds \ {"none"} : op' = [kind |-> k, todo |-> Backwards]
    BY <2>1 DEF ForthVisit, Kinds
  <2>4. op' # Idle
    BY <1>1, <2>2, <2>3, StillBusy
  <2> QED BY <1>1, <2>1, <2>2, <2>4, ForthVisitKeeps, BusyResult DEF LifeIInv
<1>7. CASE LoopEnd
  BY <1>1, <1>7, LoopEndKeeps, LoopEndResult DEF LifeIInv
<1> QED BY <1>2, <1>3, <1>4, <1>5, <1>6, <1>7 DEF Next, RegistryStep, BackStep

\* What the invariant says of the life cycle.
LEMMA LifeFollows ==
    ASSUME LifeIInv PROVE LifeCycleInv
<1>1. CallbackProtocol
  BY DEF LifeIInv, LifeCore, StatesAgree, Agreeing, CallbackProtocol
<1>2. StateMatchesLife
  <2> SUFFICES ASSUME op = Idle, NEW m \in Modules
               PROVE  /\ (state[m] = "kStarted") = (life[m] = "running")
                      /\ (state[m] = "kShutdown") = (life[m] = "closed")
                      /\ life[m] # "startFailed"
    BY DEF StateMatchesLife
  <2>1. op.kind = "none"
    BY IdleCall
  <2>2. life[m] # "startFailed"
    BY <2>1, NoFailureLeft DEF LifeIInv
  <2> QED BY <2>2 DEF LifeIInv, LifeCore, StatesAgree, Agreeing
<1> QED BY <1>1, <1>2 DEF LifeIInv, ResultKnown, LifeCycleInv

\* Whatever a program calls in whatever order, and whichever callbacks fail,
\* no module is called out of its protocol, the states CModuleManager
\* reports are those the callbacks led to, and a call that returned false has
\* undone what it did.
THEOREM LifeCycleInvHolds == Spec => []LifeCycleInv
<1>1. ASSUME Init PROVE LifeIInv
  BY <1>1, RegistryInit, LifeInit DEF LifeIInv
<1> QED BY <1>1, LifeNext, LifeFollows, PTL DEF Spec

(***************************************************************************)
(* The order of dependencies.                                              *)
(***************************************************************************)
\* The dependencies are those of the registry.
LEMMA SameDependencies ==
    ASSUME UNCHANGED <<reg, deps>>
    PROVE  Indexes' = Indexes /\ (\A i : DependsOn(i)' = DependsOn(i)) /\ CyclicTail' = CyclicTail
<1>1. Indexes' = Indexes
  BY DEF Indexes
<1>2. \A i : DependsOn(i)' = DependsOn(i)
  BY <1>1 DEF DependsOn, Provider
<1>3. CyclicTail' = CyclicTail
  BY <1>1, <1>2 DEF CyclicTail
<1> QED BY <1>1, <1>2, <1>3

\* InitializeAll and StartAll begin with the order of ComputeStartOrder.
LEMMA BeginOrderKept ==
    ASSUME RegistryIInv, BeginStep PROVE OrderKept'
<1>1. UNCHANGED <<reg, deps, state>>
  BY DEF BeginStep, BeginInitializeAll, BeginStartAll, BeginStopAll, BeginShutdownAll,
         BeginStopAllWithTimeout, BeginShutdownAllWithTimeout, Begin, registry
<1>2. CASE BeginInitializeAll \/ BeginStartAll
  <2>1. op'.todo = ComputeStartOrder
    BY <1>2 DEF BeginInitializeAll, BeginStartAll, Begin
  <2> SUFFICES ASSUME NEW p \in 1 .. Len(op'.todo), op'.todo[p] \notin CyclicTail', NEW j \in DependsOn(op.todo[p])'
               PROVE  \E q \in 1 .. p - 1 : op'.todo[q] = j
    BY DEF OrderKept
  <2>2. PICK i : i = op'.todo[p]
    OBVIOUS
  <2>3. i \notin CyclicTail /\ j \in DependsOn(i)
    BY <1>1, <2>2, SameDependencies
  <2> QED BY <2>1, <2>2, <2>3, RegistryFollows, StartOrderOK, ZenonT(30)
<1>3. CASE BeginStopAll \/ BeginShutdownAll \/ BeginStopAllWithTimeout \/ BeginShutdownAllWithTimeout
  <2>1. op'.kind \notin {"InitializeAll", "StartAll"}
    BY <1>3 DEF BeginStopAll, BeginShutdownAll, BeginStopAllWithTimeout, BeginShutdownAllWithTimeout, Begin
  <2> QED BY <2>1 DEF OrderKept
<1> QED BY <1>2, <1>3 DEF BeginStep

\* What an iteration of InitializeAll or StartAll leaves of the list, and the
\* state of the module it was at.
LEMMA ForthVisitStates ==
    ASSUME RegistryIInv, NEW kind \in {"InitializeAll", "StartAll"}, ForthVisit(kind), Next1
    PROVE  /\ state'[Current] # Awaited(kind)
           /\ \A m \in Modules : state[m] # Awaited(kind) => state'[m] # Awaited(kind)
<1>1. op.todo # <<>>
  BY DEF ForthVisit, InLoop
<1>2. PICK m : m = Current
  OBVIOUS
<1>3. m \in Modules
  BY <1>1, <1>2, CurrentHeld
<1>4. op'.kind = op.kind /\ op.kind = kind
  BY DEF Next1, RegistryIInv, Calls, ForthVisit, InLoop
<1>5. CASE kind = "InitializeAll"
  <2>1. \/ state[m] # "kCreated" /\ UNCHANGED state
        \/ SetModuleState(m, "kInitialized")
    BY <1>2, <1>4, <1>5 DEF ForthVisit
  <2> QED BY <1>2, <1>3, <1>5, <2>1, StatesSet DEF Awaited, States
<1>6. CASE kind = "StartAll"
  <2>1. \/ state[m] # "kInitialized" /\ UNCHANGED state
        \/ SetModuleState(m, "kStarted")
    BY <1>2, <1>4, <1>6 DEF ForthVisit
  <2> QED BY <1>2, <1>3, <1>6, <2>1, StatesSet DEF Awaited, States
<1> QED BY <1>5, <1>6

\* What the loop has still to do stays in order.
LEMMA ForthOrderKept ==
    ASSUME RegistryIInv, OrderKept, NEW kind \in {"InitializeAll", "StartAll"}, ForthVisit(kind) PROVE OrderKept'
<1>1. op.kind = kind /\ op.todo # <<>> /\ UNCHANGED <<reg, deps>>
  BY DEF ForthVisit, InLoop, registry
<1>2. CASE Next1
  <2>1. PICK s, I : s = op.todo /\ I = Indexes
    OBVIOUS
  <2>2. s \in Seq(I) /\ s # <<>> /\ op'.kind = kind /\ op'.todo = Tail(s)
    BY <1>1, <1>2, <2>1 DEF RegistryIInv, Calls, Next1
  <2>3. Len(s) \in Nat /\ Len(Tail(s)) = Len(s) - 1 /\ \A k \in 1 .. Len(s) - 1 : Tail(s)[k] = s[k + 1]
    BY <2>2
  <2> SUFFICES ASSUME NEW p \in 1 .. Len(s) - 1, Tail(s)[p] \notin CyclicTail', NEW j \in DependsOn(Tail(s)[p])'
               PROVE  (\E q \in 1 .. p - 1 : Tail(s)[q] = j) \/ state'[reg[j].m] # Awaited(kind)
    BY <1>1, <2>2, <2>3 DEF OrderKept
  <2>4. PICK i : i = Tail(s)[p]
    OBVIOUS
  <2>5. i \notin CyclicTail /\ j \in DependsOn(i) /\ i = s[p + 1] /\ p + 1 \in 1 .. Len(s)
    BY <1>1, <2>3, <2>4, SameDependencies
  <2>6. j \in Indexes /\ reg[j].m \in Modules
    BY <2>5, DependsOnIndexes, HeldModules
  <2>7. (\E q \in 1 .. (p + 1) - 1 : s[q] = j) \/ state[reg[j].m] # Awaited(kind)
    BY <1>1, <2>1, <2>5 DEF OrderKept
  <2>8. CASE state[reg[j].m] # Awaited(kind)
    BY <1>2, <2>6, <2>8, ForthVisitStates
  <2>9. ASSUME NEW q \in 1 .. p, s[q] = j
        PROVE  (\E r \in 1 .. p - 1 : Tail(s)[r] = j) \/ state'[reg[j].m] # Awaited(kind)
    <3>1. CASE q = 1
      <4>1. j = Head(op.todo)
        BY <2>1, <2>2, <2>9, <3>1
      <4>2. reg[j].m = Current
        BY <4>1 DEF Current
      <4> QED BY <1>2, <4>2, ForthVisitStates
    <3>2. CASE q # 1
      <4>1. q - 1 \in 1 .. p - 1 /\ q - 1 \in 1 .. Len(s) - 1 /\ (q - 1) + 1 = q
        BY <2>3, <3>2
      <4>2. Tail(s)[q - 1] = j
        BY <2>3, <2>9, <4>1
      <4> QED BY <4>1, <4>2
    <3> QED BY <3>1, <3>2
  <2>10. (p + 1) - 1 = p
    OBVIOUS
  <2> QED BY <2>7, <2>8, <2>9, <2>10
<1>3. CASE op'.kind \notin {"InitializeAll", "StartAll"}
  BY <1>3 DEF OrderKept
<1> QED BY <1>2, <1>3 DEF ForthVisit

\* A step of the program, or none, keeps the order.
LEMMA OrderNext ==
    ASSUME RegistryIInv, OrderKept, [Next]_vars PROVE OrderKept'
<1>1. CASE UNCHANGED vars
  <2>1. UNCHANGED <<reg, deps, op, state>>
    BY <1>1 DEF vars
  <2>2. (\A i : DependsOn(i)' = DependsOn(i)) /\ CyclicTail' = CyclicTail
    BY <2>1, SameDependencies
  <2> SUFFICES ASSUME op.kind \in {"InitializeAll", "StartAll"}, NEW p \in 1 .. Len(op.todo),
                      op.todo[p] \notin CyclicTail', NEW j \in DependsOn(op.todo[p])'
               PROVE  (\E q \in 1 .. p - 1 : op.todo[q] = j) \/ state[reg[j].m] # Awaited(op.kind)
    BY <2>1 DEF OrderKept
  <2>3. PICK i : i = op'.todo[p]
    OBVIOUS
  <2>4. i = op.todo[p] /\ j \in DependsOn(i) /\ i \notin CyclicTail
    BY <2>1, <2>2, <2>3
  <2> QED BY <2>4 DEF OrderKept
<1>2. CASE RegistryStep
  <2>1. op' = Idle
    BY <1>2, RegistryStepFrame
  <2> QED BY <2>1, IdleCall DEF OrderKept
<1>3. CASE BeginStep
  BY <1>3, BeginOrderKept
<1>4. CASE InitializeStep \/ StartStep
  BY <1>4, ForthSteps, ForthOrderKept
<1>5. CASE BackStep
  <2>1. PICK kind \in Stopping \cup Closing : BackVisit(kind)
    BY <1>5, BackSteps
  <2>2. op'.kind = kind
    BY <2>1 DEF BackVisit, InLoop, Next1, RegistryIInv, Calls
  <2> QED BY <2>2 DEF OrderKept, Stopping, Closing
<1>6. CASE LoopEnd
  <2>1. op' = Idle \/ op'.kind = "RollbackStartedShutdown"
    BY <1>6 DEF LoopEnd, Finish
  <2> QED BY <2>1, IdleCall DEF OrderKept
<1>7. CASE StopTimedStep(FALSE) \/ ShutdownTimedStep(FALSE)
  <2>1. op' = Idle
    BY <1>7 DEF StopTimedStep, ShutdownTimedStep, TimedStep, Finish
  <2> QED BY <2>1, IdleCall DEF OrderKept
<1> QED BY <1>1, <1>2, <1>3, <1>4, <1>5, <1>6, <1>7, NextSteps DEF Loops, BackStep

\* No two entries of the vector are of the same module.
LEMMA OneEntry ==
    ASSUME RegistryIInv PROVE \A i, j \in Indexes : reg[i].m = reg[j].m => i = j
  BY DEF RegistryIInv, VectorOK, Distinct, Indexes

\* Which step changes what a module has been through, and for which module.
LEMMA WhoIsCalled ==
    ASSUME LifeIInv, [Next]_vars, NEW m \in Modules, life'[m] # life[m]
    PROVE  /\ op.todo # <<>> /\ m = Current
           /\ \/ \E kind \in {"InitializeAll", "StartAll"} :
                   ForthVisit(kind) /\ state[m] = Awaited(kind) /\ op.kind = kind
              \/ \E kind \in Backs : BackVisit(kind) /\ state[m] \in Ready(kind) /\ op.kind = kind
<1>0. RegistryIInv
  BY DEF LifeIInv
<1>1. CASE UNCHANGED life
  BY <1>1
<1>2. CASE InitializeStep \/ StartStep
  <2>1. PICK kind \in {"InitializeAll", "StartAll"} : ForthVisit(kind)
    BY <1>2, ForthSteps
  <2>2. op.todo # <<>> /\ op.kind = kind
    BY <2>1 DEF ForthVisit, InLoop
  <2>3. state[Current] = Awaited(kind) /\ \E from : \E to \in Lives : Callback(Current, from, to)
    <3>1. CASE kind = "InitializeAll"
      BY <2>1, <3>1 DEF ForthVisit, Awaited, Lives
    <3>2. CASE kind = "StartAll"
      BY <2>1, <3>2 DEF ForthVisit, Awaited, Lives
    <3> QED BY <3>1, <3>2
  <2>4. m = Current
    <3>1. PICK x : x = Current
      OBVIOUS
    <3>2. x \in Modules
      BY <1>0, <2>2, <3>1, CurrentHeld
    <3>3. PICK from, to : to \in Lives /\ Callback(x, from, to)
      BY <2>3, <3>1
    <3> QED BY <1>0, <3>1, <3>2, <3>3, CallbackLives
  <2> QED BY <2>1, <2>2, <2>3, <2>4
<1>3. CASE BackStep
  <2>1. PICK kind \in Backs : BackVisit(kind)
    BY <1>3, BackSteps DEF Backs
  <2>2. op.todo # <<>> /\ op.kind = kind
    BY <2>1 DEF BackVisit, InLoop
  <2>3. state[Current] \in Ready(kind) /\ \E from : \E to \in Lives : Callback(Current, from, to)
    BY <2>1 DEF BackVisit, Lives
  <2>4. m = Current
    <3>1. PICK x : x = Current
      OBVIOUS
    <3>2. x \in Modules
      BY <1>0, <2>2, <3>1, CurrentHeld
    <3>3. PICK from, to : to \in Lives /\ Callback(x, from, to)
      BY <2>3, <3>1
    <3> QED BY <1>0, <3>1, <3>2, <3>3, CallbackLives
  <2> QED BY <2>1, <2>2, <2>3, <2>4
<1>4. CASE RegistryStep
  BY <1>0, <1>1, <1>4, RegistryStepFrame
<1>5. CASE BeginStep
  <2>1. UNCHANGED life
    BY <1>5 DEF BeginStep, BeginInitializeAll, BeginStartAll, BeginStopAll, BeginShutdownAll,
                BeginStopAllWithTimeout, BeginShutdownAllWithTimeout, Begin
  <2> QED BY <1>1, <2>1
<1>6. CASE LoopEnd \/ StopTimedStep(FALSE) \/ ShutdownTimedStep(FALSE)
  <2>1. UNCHANGED life
    BY <1>6 DEF LoopEnd, StopTimedStep, ShutdownTimedStep, TimedStep
  <2> QED BY <1>1, <2>1
<1>7. CASE UNCHANGED vars
  BY <1>1, <1>7 DEF vars
<1> QED BY <1>2, <1>3, <1>4, <1>5, <1>6, <1>7, NextSteps DEF Loops, BackStep

\* A module that is initialized or started is at the head of the list, so all
\* it waits for is past the state the loop looks for.
LEMMA UpInOrder ==
    ASSUME LifeIInv, OrderKept, [Next]_vars PROVE ComesUpInOrder
<1>0. RegistryIInv
  BY DEF LifeIInv
<1> SUFFICES ASSUME NEW i \in Indexes \ CyclicTail, NEW j \in DependsOn(i),
                    NEW m, m = reg[i].m,
                    \/ life[m] = "initialized" /\ life'[m] = "running"
                    \/ life[m] = "new" /\ life'[m] = "initialized"
             PROVE  /\ life[m] = "initialized" => state[reg[j].m] # "kInitialized"
                    /\ life[m] = "new" => state[reg[j].m] # "kCreated"
  BY DEF ComesUpInOrder
<1>1. m \in Modules
  BY <1>0, HeldModules
<1>2. <<state[m], life[m]>> \in Agreeing
  BY <1>1 DEF LifeIInv, LifeCore, StatesAgree
<1>3. life'[m] # life[m] /\ life'[m] \in {"running", "initialized"}
  OBVIOUS
<1>4. op.todo # <<>> /\ m = Current
  BY <1>1, <1>3, WhoIsCalled
<1>5. \/ \E kind \in {"InitializeAll", "StartAll"} : op.kind = kind /\ state[m] = Awaited(kind)
      \/ \E kind \in Backs : BackVisit(kind) /\ state[m] \in Ready(kind)
  BY <1>1, <1>3, WhoIsCalled
<1>6. ASSUME NEW kind \in Backs, BackVisit(kind), state[m] \in Ready(kind) PROVE FALSE
  <2>1. PICK from, to : to \in {"stopped", "closed"} /\ Callback(m, from, to)
    BY <1>4, <1>6 DEF BackVisit
  <2>2. to \in Lives
    BY <2>1 DEF Lives
  <2>3. life'[m] \in {to, "misused"}
    BY <1>0, <1>1, <2>1, <2>2, CallbackLives
  <2> QED BY <1>3, <2>1, <2>3
<1>7. PICK kind \in {"InitializeAll", "StartAll"} : op.kind = kind /\ state[m] = Awaited(kind)
  BY <1>5, <1>6
<1>8. i = Head(op.todo)
  <2>1. Head(op.todo) \in Indexes /\ reg[Head(op.todo)].m = m
    BY <1>0, <1>4, CurrentHeld
  <2> QED BY <1>0, <2>1, OneEntry
<1>9. 1 \in 1 .. Len(op.todo) /\ op.todo[1] = i
  <2>1. op.todo \in Seq(Indexes)
    BY <1>0 DEF RegistryIInv, Calls
  <2> QED BY <1>4, <1>8, <2>1
<1>10. (\E q \in 1 .. 1 - 1 : op.todo[q] = j) \/ state[reg[j].m] # Awaited(kind)
  BY <1>7, <1>9 DEF OrderKept
<1>11. 1 .. 1 - 1 = {}
  OBVIOUS
<1>12. state[reg[j].m] # Awaited(kind)
  BY <1>10, <1>11
<1>13. CASE kind = "InitializeAll"
  BY <1>2, <1>7, <1>12, <1>13 DEF Awaited, Agreeing
<1>14. CASE kind = "StartAll"
  BY <1>2, <1>7, <1>12, <1>14 DEF Awaited, Agreeing
<1> QED BY <1>13, <1>14

\* A module that is stopped or closed is the last not visited, so a running one
\* behind it would have been stopped before.
LEMMA DownInOrder ==
    ASSUME LifeIInv, [Next]_vars PROVE GoesDownInOrder
<1>0. RegistryIInv /\ LifeCore
  BY DEF LifeIInv
<1> SUFFICES ASSUME NEW i \in Indexes, NEW j \in DependsOn(i), j < i,
                    life[reg[j].m] \in {"running", "stopped"},
                    life'[reg[j].m] \in {"stopped", "closed"}, life'[reg[j].m] # life[reg[j].m],
                    life[reg[i].m] = "running"
             PROVE  FALSE
  BY DEF GoesDownInOrder
<1>1. PICK m, x : m = reg[j].m /\ x = reg[i].m
  OBVIOUS
<1>2. j \in Indexes /\ m \in Modules /\ x \in Modules /\ i \in Nat /\ j \in Nat
  BY <1>0, <1>1, DependsOnIndexes, HeldModules
<1>3. op.todo # <<>> /\ m = Current
  BY <1>1, <1>2, WhoIsCalled
<1>4. j = Head(op.todo)
  <2>1. Head(op.todo) \in Indexes /\ reg[Head(op.todo)].m = m
    BY <1>0, <1>3, CurrentHeld
  <2> QED BY <1>0, <1>1, <1>2, <2>1, OneEntry
<1>5. <<state[m], life[m]>> \in Agreeing /\ <<state[x], life[x]>> \in Agreeing
  BY <1>0, <1>2 DEF LifeCore, StatesAgree
<1>6. state[m] \in {"kStarted", "kStopped"} /\ state[x] = "kStarted"
  BY <1>1, <1>5 DEF Agreeing
<1>7. \/ \E kind \in {"InitializeAll", "StartAll"} : state[m] = Awaited(kind)
      \/ \E kind \in Backs : BackVisit(kind) /\ op.kind = kind /\ state[m] \in Ready(kind)
  BY <1>1, <1>2, WhoIsCalled
<1>8. PICK kind \in Backs : BackVisit(kind) /\ op.kind = kind /\ state[m] \in Ready(kind)
  BY <1>6, <1>7 DEF Awaited
<1>9. Head(op.todo) = Len(op.todo)
  <2>1. InLoop(kind) /\ Next1 /\ UNCHANGED reg
    BY <1>8 DEF BackVisit, registry
  <2> QED BY <1>0, <2>1, CountsOn DEF LifeCore
<1>10. state[x] \notin Ready(kind)
  <2>1. i > Len(op.todo)
    BY <1>2, <1>4, <1>9
  <2> QED BY <1>0, <1>1, <1>8, <2>1 DEF LifeCore, VisitedDone
<1>11. kind = "RollbackStartedShutdown" => state[x] # "kStarted"
  BY <1>0, <1>1, <1>8 DEF LifeCore, NoneStarted
<1>12. kind \in Stopping \/ kind = "ShutdownAll" \/ kind = "RollbackInitialized" \/ kind = "RollbackStartedShutdown"
  BY DEF Backs, Closing
<1> QED BY <1>6, <1>8, <1>10, <1>11, <1>12 DEF Ready, Stopping

\* Whatever a program calls, CModuleManager brings a module up only after the
\* ones it depends on, unless a dependency cycle forbids it, and takes none down
\* under a running module that depends on it and was registered later.
THEOREM DependencyOrderHolds == Spec => DependencyOrder
<1>1. ASSUME Init PROVE LifeIInv /\ OrderKept
  <2>1. op.kind = "none"
    BY <1>1, IdleCall DEF Init
  <2> QED BY <1>1, <2>1, RegistryInit, LifeInit DEF LifeIInv, OrderKept
<1>2. ASSUME LifeIInv /\ OrderKept, [Next]_vars PROVE (LifeIInv /\ OrderKept)'
  BY <1>2, LifeNext, OrderNext DEF LifeIInv
<1>3. LifeIInv /\ OrderKept /\ [Next]_vars => [ComesUpInOrder]_vars /\ [GoesDownInOrder]_vars
  BY UpInOrder, DownInOrder
<1> QED BY <1>1, <1>2, <1>3, PTL DEF Spec, DependencyOrder

(***************************************************************************)
(* The application.                                                        *)
(***************************************************************************)
\* Where main() waits for each call of the manager.
Site(kind) ==
    IF kind \in {"InitializeAll", "RollbackInitialized"} THEN "initialize"
    ELSE IF kind \in {"StartAll", "RollbackStartedStop", "RollbackStartedShutdown"} THEN "start"
    ELSE IF kind = "StopAll" THEN "stopAll"
    ELSE IF kind = "ShutdownAll" THEN "shutdownAll"
    ELSE IF kind = "StopAllWithTimeout" THEN "stopTimed"
    ELSE "shutdownTimed"

CallsAtSites == op.kind # "none" => pc = "killed" \/ pc = Site(op.kind)

\* The flags of Run(): the handlers are installed while g_instance is set.
FlagsSet ==
    /\ pc \in Steps /\ shutdownTimeoutMs \in Nat
    /\ running \in BOOLEAN /\ stopRequested \in BOOLEAN /\ instance \in BOOLEAN /\ handler \in BOOLEAN
    /\ handler => pc \in {"loop", "run5"}
    /\ pc \in {"run4", "loop", "run5", "run6"} => instance

\* How many of the two starting calls main() has made.
StartsMade ==
    /\ pc = "register" => starts = 0
    /\ pc \in {"initialize", "onInitialize"} => starts = 1
    /\ pc = "failed" => starts \in {0, 1}

\* The timed loops have not called a module.
Untimed == shutdownTimeoutMs = 0 \/ pc \notin {"stopTimed", "shutdownTimed", "clear", "exited", "killed"}

\* A module that was called is held until Clear() releases it.
CalledHeld ==
    /\ pc = "register" => \A m \in Modules : life[m] = "new"
    /\ pc \notin {"failed", "clear", "exited", "killed"} => \A m \in Modules : life[m] # "new" => m \in Held
    /\ pc # "killed" => \A m \in Modules : life[m] # "new" => m \in Held \cup released
    /\ pc \in {"clear", "exited"} => Held = {}

Open == {"initialized", "startFailed", "running", "stopped"}

\* After ShutdownAll no module is left open.
NoneOpen ==
    (\/ pc = "shutdownAll" /\ op.kind = "none"
     \/ pc \in {"stopTimed", "shutdownTimed", "clear"}
     \/ pc = "exited" /\ starts = 2) => \A m \in Modules : life[m] \notin Open

AppIInv ==
    /\ RegistryIInv /\ (Untimed => LifeCore)
    /\ CallsAtSites /\ FlagsSet /\ StartsMade /\ CalledHeld /\ NoneOpen

\* A move of main() outside Run() leaves the flags alone.
LEMMA GotoFlags ==
    ASSUME FlagsSet, NEW from, NEW to, Goto(from, to), from \notin {"loop", "run5"},
           to \in Steps \ {"run4", "loop", "run5", "run6"}
    PROVE  FlagsSet'
  BY DEF FlagsSet, Goto, flags

\* Every step keeps the flags in order.
LEMMA FlagsNext ==
    ASSUME FlagsSet, [AppNext]_allVars PROVE FlagsSet'
<1>1. CASE UNCHANGED appVars
  BY <1>1 DEF appVars, FlagsSet
<1>2. CASE \/ RegisterModules \/ RegistrationFails \/ InitializeCalls \/ InitializeReturns
           \/ OnInitialize \/ StartReturns \/ OnStart
  <2>1. \E from, to : /\ Goto(from, to) /\ from \notin {"loop", "run5"}
                      /\ to \in Steps \ {"run4", "loop", "run5", "run6"}
    BY <1>2 DEF RegisterModules, RegistrationFails, InitializeCalls, InitializeReturns,
                OnInitialize, StartReturns, OnStart, Steps
  <2> QED BY <2>1, GotoFlags
<1>3. CASE \/ ShutdownStops \/ ShutdownCloses \/ ShutdownStopsTimed \/ ShutdownClosesTimed
           \/ ShutdownClears \/ MainReturns \/ MainFails
  <2>1. \E from, to : /\ Goto(from, to) /\ from \notin {"loop", "run5"}
                      /\ to \in Steps \ {"run4", "loop", "run5", "run6"}
    BY <1>3 DEF ShutdownStops, ShutdownCloses, ShutdownStopsTimed, ShutdownClosesTimed,
                ShutdownClears, MainReturns, MainFails, Steps
  <2> QED BY <2>1, GotoFlags
<1>4. CASE RunSetsRunning
  BY <1>4 DEF RunSetsRunning, FlagsSet, Steps
<1>5. CASE RunClearsRequests
  BY <1>5 DEF RunClearsRequests, FlagsSet, Steps
<1>6. CASE RunSetsInstance
  BY <1>6 DEF RunSetsInstance, FlagsSet, Steps
<1>7. CASE RunInstallsHandlers
  BY <1>7 DEF RunInstallsHandlers, FlagsSet, Steps
<1>8. CASE OnRun
  BY <1>8 DEF OnRun, Goto, flags, FlagsSet, Steps
<1>9. CASE RunRestoresHandlers
  BY <1>9 DEF RunRestoresHandlers, FlagsSet, Steps
<1>10. CASE RunClearsInstance
  BY <1>10 DEF RunClearsInstance, FlagsSet, Steps
<1>11. CASE HandleSignal
  <2>1. CASE handler
    BY <1>11, <2>1 DEF HandleSignal, FlagsSet
  <2>2. CASE ~handler
    BY <1>11, <2>2 DEF HandleSignal, FlagsSet, flags, Steps
  <2> QED BY <2>1, <2>2
<1>12. CASE Stop
  BY <1>12 DEF Stop, FlagsSet
<1>13. CASE ManagerRuns
  BY <1>1, <1>13 DEF ManagerRuns
<1>14. CASE UNCHANGED allVars
  BY <1>1, <1>14 DEF allVars
<1> QED BY <1>2, <1>3, <1>4, <1>5, <1>6, <1>7, <1>8, <1>9, <1>10, <1>11, <1>12, <1>13, <1>14 DEF AppNext, MainStep

\* The moves of main() that do not touch the manager.
Moves ==
    {<<"register", "failed">>, <<"initialize", "onInitialize">>, <<"onInitialize", "failed">>,
     <<"start", "onStart">>, <<"start", "onShutdown">>, <<"onStart", "run1">>, <<"onStart", "onShutdown">>,
     <<"run1", "run2">>, <<"run2", "run3">>, <<"run3", "run4">>, <<"run4", "loop">>, <<"loop", "run5">>,
     <<"run5", "run6">>, <<"run6", "onShutdown">>, <<"clear", "exited">>}

PlainMove ==
    /\ UNCHANGED <<vars, shutdownTimeoutMs>>
    /\ \/ pc' \in {pc, "killed"}
       \/ <<pc, pc'>> \in Moves /\ (pc \in {"initialize", "start"} => op = Idle)

\* They keep everything else.
LEMMA PlainMoveKeeps ==
    ASSUME AppIInv, PlainMove, FlagsSet' PROVE AppIInv'
<1>1. UNCHANGED <<vars, shutdownTimeoutMs>> /\ Held' = Held /\ op' = op
  BY DEF PlainMove, vars, Held, Indexes
<1>2. RegistryIInv'
  <2>1. RegistryIInv /\ [Next]_vars
    BY <1>1 DEF AppIInv
  <2> QED BY <2>1, RegistryNext
<1>3. CASE pc' \in {pc, "killed"}
  <2>1. Untimed' => LifeCore'
    <3>1. Untimed' => Untimed
      BY <1>1, <1>3 DEF Untimed
    <3>2. LifeCore => LifeCore'
      BY <1>1 DEF vars, LifeCore, StatesAgree, CountingDown, VisitedDone, NoneStarted, FailedIsRolledBack, Indexes
    <3> QED BY <3>1, <3>2 DEF AppIInv
  <2>2. CallsAtSites' /\ StartsMade' /\ CalledHeld' /\ NoneOpen'
    BY <1>1, <1>3 DEF AppIInv, vars, CallsAtSites, StartsMade, CalledHeld, NoneOpen
  <2> QED BY <1>2, <2>1, <2>2 DEF AppIInv
<1>4. CASE <<pc, pc'>> \in Moves /\ (pc \in {"initialize", "start"} => op = Idle)
  <2>1. Untimed' => LifeCore'
    <3>1. Untimed' => Untimed
      BY <1>1, <1>4 DEF Untimed, Moves
    <3>2. LifeCore => LifeCore'
      BY <1>1 DEF vars, LifeCore, StatesAgree, CountingDown, VisitedDone, NoneStarted, FailedIsRolledBack, Indexes
    <3> QED BY <3>1, <3>2 DEF AppIInv
  <2>2. CallsAtSites'
    <3>1. op.kind = "none"
      BY <1>4, IdleCall DEF AppIInv, CallsAtSites, Site, Moves
    <3> QED BY <1>1, <3>1 DEF CallsAtSites
  <2>3. StartsMade'
    BY <1>1, <1>4 DEF AppIInv, vars, StartsMade, Moves
  <2>4. CalledHeld'
    BY <1>1, <1>4 DEF AppIInv, vars, CalledHeld, Moves
  <2>5. NoneOpen'
    BY <1>1, <1>4 DEF AppIInv, vars, NoneOpen, Moves
  <2> QED BY <1>2, <2>1, <2>2, <2>3, <2>4, <2>5 DEF AppIInv
<1> QED BY <1>3, <1>4 DEF PlainMove

\* Which of main()'s steps they are.
LEMMA PlainMoves ==
    ASSUME AppIInv,
           \/ RegistrationFails \/ (InitializeReturns /\ pc' = "onInitialize")
           \/ (OnInitialize /\ pc' = "failed") \/ StartReturns \/ OnStart
           \/ RunSetsRunning \/ RunClearsRequests \/ RunSetsInstance \/ RunInstallsHandlers
           \/ OnRun \/ RunRestoresHandlers \/ RunClearsInstance \/ MainReturns
           \/ HandleSignal \/ Stop \/ UNCHANGED allVars
    PROVE  PlainMove
<1>1. CASE RegistrationFails \/ StartReturns \/ OnStart \/ OnRun \/ MainReturns
  BY <1>1 DEF RegistrationFails, StartReturns, OnStart, OnRun, MainReturns, Goto, flags, PlainMove, Moves
<1>2. CASE InitializeReturns /\ pc' = "onInitialize"
  BY <1>2 DEF InitializeReturns, Goto, flags, PlainMove, Moves
<1>3. CASE OnInitialize /\ pc' = "failed"
  BY <1>3 DEF OnInitialize, Goto, flags, PlainMove, Moves
<1>4. CASE \/ RunSetsRunning \/ RunClearsRequests \/ RunSetsInstance \/ RunInstallsHandlers
           \/ RunRestoresHandlers \/ RunClearsInstance
  BY <1>4 DEF RunSetsRunning, RunClearsRequests, RunSetsInstance, RunInstallsHandlers,
              RunRestoresHandlers, RunClearsInstance, PlainMove, Moves
<1>5. CASE HandleSignal \/ Stop
  BY <1>5 DEF HandleSignal, Stop, flags, PlainMove
<1>6. CASE UNCHANGED allVars
  BY <1>6 DEF allVars, appVars, PlainMove
<1> QED BY <1>1, <1>2, <1>3, <1>4, <1>5, <1>6

\* What the steps of the loops have in common, timed or not.
LEMMA LoopsFrame ==
    ASSUME RegistryIInv, NEW mayRun, Loops(mayRun)
    PROVE  /\ UNCHANGED <<reg, released, starts>>
           /\ \A m \in Modules : life'[m] # life[m] => m \in Held
           /\ \/ op'.kind = op.kind
              \/ op' = Idle
              \/ <<op.kind, op'.kind>> \in {<<"InitializeAll", "RollbackInitialized">>,
                                            <<"StartAll", "RollbackStartedStop">>,
                                            <<"RollbackStartedStop", "RollbackStartedShutdown">>}
<1>0. ASSUME NEW from, NEW to, to \in Lives, op.todo # <<>>, Callback(Current, from, to)
      PROVE  \A m \in Modules : life'[m] # life[m] => m \in Held
  <2>1. PICK x : x = Current
    OBVIOUS
  <2>2. x \in Modules /\ x \in Held
    BY <1>0, <2>1, CurrentHeld
  <2> QED BY <1>0, <2>1, <2>2, CallbackLives
<1>1. ASSUME Next1 PROVE op'.kind = op.kind
  BY <1>1 DEF Next1, RegistryIInv, Calls
<1>2. CASE BackStep
  <2>1. PICK kind \in Stopping \cup Closing : BackVisit(kind)
    BY <1>2, BackSteps
  <2>2. op.todo # <<>> /\ Next1 /\ UNCHANGED <<reg, released, starts>>
    BY <2>1 DEF BackVisit, InLoop, registry
  <2>3. UNCHANGED life \/ \E from, to : to \in Lives /\ Callback(Current, from, to)
    BY <2>1 DEF BackVisit, Lives
  <2> QED BY <1>0, <1>1, <2>2, <2>3
<1>3. CASE InitializeStep \/ StartStep
  <2>1. PICK kind \in {"InitializeAll", "StartAll"} : ForthVisit(kind)
    BY <1>3, ForthSteps
  <2>2. op.todo # <<>> /\ op.kind = kind /\ UNCHANGED <<reg, released, starts>>
    BY <2>1 DEF ForthVisit, InLoop, registry
  <2>3. UNCHANGED life \/ \E from, to : to \in Lives /\ Callback(Current, from, to)
    BY <2>1 DEF ForthVisit, Lives
  <2>4. \/ Next1
        \/ <<op.kind, op'.kind>> \in {<<"InitializeAll", "RollbackInitialized">>,
                                      <<"StartAll", "RollbackStartedStop">>}
    BY <2>1, <2>2 DEF ForthVisit
  <2> QED BY <1>0, <1>1, <2>2, <2>3, <2>4
<1>4. CASE StopTimedStep(mayRun) \/ ShutdownTimedStep(mayRun)
  <2>1. PICK kind, from, to : to \in Lives /\ TimedStep(kind, from, to, mayRun)
    BY <1>4 DEF StopTimedStep, ShutdownTimedStep, Lives
  <2>2. op.todo # <<>> /\ UNCHANGED <<reg, released, starts>>
    BY <2>1 DEF TimedStep, InLoop, registry
  <2>3. (Next1 /\ Callback(Current, from, to)) \/ (op' = Idle /\ UNCHANGED life)
    BY <2>1 DEF TimedStep, Finish
  <2> QED BY <1>0, <1>1, <2>1, <2>2, <2>3
<1>5. CASE LoopEnd
  <2>1. UNCHANGED <<reg, released, starts, life>>
    BY <1>5 DEF LoopEnd, registry
  <2>2. op' = Idle \/ (op.kind = "RollbackStartedStop" /\ op'.kind = "RollbackStartedShutdown")
    BY <1>5 DEF LoopEnd, Finish, AfterLoop
  <2> QED BY <2>1, <2>2
<1> QED BY <1>2, <1>3, <1>4, <1>5 DEF Loops, BackStep

\* The last two calls of Shutdown() find no open module, so their callbacks
\* open none.
LEMMA TimedOpensNone ==
    ASSUME RegistryIInv, NEW mayRun, Loops(mayRun), op.kind \in {"StopAllWithTimeout", "ShutdownAllWithTimeout"},
           \A m \in Modules : life[m] \notin Open
    PROVE  \A m \in Modules : life'[m] \notin Open
<1>1. CASE StopTimedStep(mayRun) \/ ShutdownTimedStep(mayRun)
  <2>1. PICK kind, from, to : to \in Lives /\ from \subseteq Open /\ TimedStep(kind, from, to, mayRun)
    BY <1>1 DEF StopTimedStep, ShutdownTimedStep, Lives, Open
  <2>2. PICK x : x = Current
    OBVIOUS
  <2>3. op.todo # <<>> /\ (Callback(x, from, to) \/ UNCHANGED life)
    BY <2>1, <2>2 DEF TimedStep, InLoop
  <2>4. x \in Modules
    BY <2>2, <2>3, CurrentHeld
  <2>5. CASE Callback(x, from, to)
    <3>1. life'[x] = "misused" /\ \A n \in Modules : n # x => life'[n] = life[n]
      BY <2>1, <2>4, <2>5, CallbackLives
    <3> QED BY <3>1 DEF Open
  <2> QED BY <2>3, <2>5
<1>2. CASE LoopEnd
  BY <1>2 DEF LoopEnd
<1>3. CASE BackStep
  BY <1>3, BackSteps DEF BackVisit, InLoop, Stopping, Closing
<1>4. CASE InitializeStep \/ StartStep
  BY <1>4, ForthSteps DEF ForthVisit, InLoop
<1> QED BY <1>1, <1>2, <1>3, <1>4 DEF Loops, BackStep

\* ShutdownAll leaves no module open among those held.
LEMMA ShutdownLeavesNone ==
    ASSUME RegistryIInv, LifeCore, NEW mayRun, Loops(mayRun), op.kind = "ShutdownAll", op'.kind = "none",
           \A m \in Modules : life[m] # "new" => m \in Held
    PROVE  \A m \in Modules : life'[m] \notin Open
<1>1. LoopEnd
  <2>1. CASE BackStep
    BY <2>1, BackSteps DEF BackVisit, InLoop, Next1, RegistryIInv, Calls
  <2>2. CASE InitializeStep \/ StartStep
    BY <2>2, ForthSteps DEF ForthVisit, InLoop
  <2>3. CASE StopTimedStep(mayRun) \/ ShutdownTimedStep(mayRun)
    BY <2>3 DEF StopTimedStep, ShutdownTimedStep, TimedStep, InLoop
  <2> QED BY <2>1, <2>2, <2>3 DEF Loops, BackStep
<1>2. op.todo = <<>> /\ UNCHANGED life
  BY <1>1 DEF LoopEnd, AfterLoop
<1> SUFFICES ASSUME NEW m \in Modules, life[m] \in Open PROVE FALSE
  BY <1>2
<1>3. PICK i \in Indexes : reg[i].m = m
  BY HeldModules DEF Open
<1>4. i > Len(op.todo)
  BY <1>2, HeldModules
<1>5. state[m] \notin {"kInitialized", "kStarted", "kStopped"}
  BY <1>3, <1>4 DEF LifeCore, VisitedDone, Backs, Closing, Stopping, Ready
<1> QED BY <1>5 DEF LifeCore, StatesAgree, Agreeing, Open

\* A step of the manager call in progress.
LEMMA ManagerRunsKeeps ==
    ASSUME AppIInv, ManagerRuns PROVE AppIInv'
<1>0. RegistryIInv /\ CallsAtSites /\ FlagsSet /\ StartsMade /\ CalledHeld /\ NoneOpen
  BY DEF AppIInv
<1>1. PICK mayRun : mayRun = (shutdownTimeoutMs > 0)
  OBVIOUS
<1>2. Loops(mayRun) /\ op # Idle /\ pc # "killed" /\ UNCHANGED appVars /\ UNCHANGED <<pc, shutdownTimeoutMs>>
  BY <1>1 DEF ManagerRuns, appVars
<1>3. op.kind # "none" /\ pc = Site(op.kind) /\ op.kind \in Kinds
  BY <1>0, <1>2 DEF RegistryIInv, CallsAtSites, Calls
<1>4. RegistryIInv'
  BY <1>0, <1>2, LoopsKeepRegistry
<1>5. FlagsSet'
  BY <1>0, <1>2 DEF FlagsSet, appVars
<1>6. UNCHANGED <<reg, released, starts>> /\ \A m \in Modules : life'[m] # life[m] => m \in Held
  BY <1>0, <1>2, LoopsFrame
<1>7. Held' = Held
  BY <1>6 DEF Held, Indexes
<1>8. CallsAtSites'
  <2>1. \/ op'.kind = op.kind
        \/ op' = Idle
        \/ <<op.kind, op'.kind>> \in {<<"InitializeAll", "RollbackInitialized">>,
                                      <<"StartAll", "RollbackStartedStop">>,
                                      <<"RollbackStartedStop", "RollbackStartedShutdown">>}
    BY <1>0, <1>2, LoopsFrame
  <2>2. CASE op' = Idle
    BY <2>2, IdleCall DEF CallsAtSites
  <2>3. CASE op' # Idle
    <3>1. Site(op'.kind) = Site(op.kind)
      BY <2>1, <2>3 DEF Site
    <3> QED BY <1>2, <1>3, <3>1 DEF CallsAtSites
  <2> QED BY <2>2, <2>3
<1>9. StartsMade'
  BY <1>0, <1>2, <1>6 DEF StartsMade
<1>10. pc \in {"initialize", "start", "stopAll", "shutdownAll", "stopTimed", "shutdownTimed"}
  BY <1>3 DEF Site
<1>11. CalledHeld'
  BY <1>0, <1>2, <1>6, <1>7, <1>10 DEF CalledHeld
<1>12. Untimed' => LifeCore'
  <2> SUFFICES ASSUME Untimed PROVE LifeCore'
    BY <1>2 DEF Untimed
  <2>1. LifeCore
    BY DEF AppIInv
  <2>2. Loops(FALSE)
    <3>1. CASE shutdownTimeoutMs = 0
      <4>1. ~(shutdownTimeoutMs > 0)
        BY <3>1
      <4>2. ~mayRun
        BY <1>1, <4>1
      <4>3. /\ StopTimedStep(mayRun) => StopTimedStep(FALSE)
            /\ ShutdownTimedStep(mayRun) => ShutdownTimedStep(FALSE)
        BY <4>2 DEF StopTimedStep, ShutdownTimedStep, TimedStep
      <4> QED BY <1>2, <4>3 DEF Loops
    <3>2. CASE shutdownTimeoutMs # 0
      <4>1. op.kind \notin {"StopAllWithTimeout", "ShutdownAllWithTimeout"}
        BY <1>3, <3>2 DEF Untimed, Site
      <4>2. ~StopTimedStep(mayRun) /\ ~ShutdownTimedStep(mayRun)
        BY <4>1 DEF StopTimedStep, ShutdownTimedStep, TimedStep, InLoop
      <4> QED BY <1>2, <4>2 DEF Loops
    <3> QED BY <3>1, <3>2
  <2> QED BY <1>0, <2>1, <2>2, LoopsKeepLife
<1>13. NoneOpen'
  <2>1. CASE pc = "shutdownAll" /\ op'.kind = "none"
    <3>1. op.kind = "ShutdownAll"
      BY <1>3, <2>1 DEF Site, Kinds
    <3>2. LifeCore /\ \A m \in Modules : life[m] # "new" => m \in Held
      BY <1>0, <2>1 DEF AppIInv, Untimed, CalledHeld
    <3>3. \A m \in Modules : life'[m] \notin Open
      BY <1>0, <1>2, <2>1, <3>1, <3>2, ShutdownLeavesNone
    <3> QED BY <3>3 DEF NoneOpen
  <2>2. CASE pc \in {"stopTimed", "shutdownTimed"}
    <3>1. op.kind \in {"StopAllWithTimeout", "ShutdownAllWithTimeout"}
      BY <1>3, <2>2 DEF Site, Kinds
    <3>2. \A m \in Modules : life[m] \notin Open
      BY <1>0, <2>2 DEF NoneOpen
    <3>3. \A m \in Modules : life'[m] \notin Open
      BY <1>0, <1>2, <3>1, <3>2, TimedOpensNone
    <3> QED BY <3>3 DEF NoneOpen
  <2>3. CASE /\ pc \notin {"stopTimed", "shutdownTimed"} /\ ~(pc = "shutdownAll" /\ op'.kind = "none")
    BY <1>2, <1>10, <2>3 DEF NoneOpen
  <2> QED BY <2>1, <2>2, <2>3
<1> QED BY <1>4, <1>5, <1>8, <1>9, <1>11, <1>12, <1>13 DEF AppIInv

\* RegisterModules.
LEMMA RegisterModulesKeeps ==
    ASSUME AppIInv, RegisterModules, FlagsSet' PROVE AppIInv'
<1>0. RegistryIInv /\ StartsMade /\ CalledHeld
  BY DEF AppIInv
<1>1. pc = "register" /\ pc' = "register" /\ RegistryStep
  BY DEF RegisterModules, Goto, RegistryStep
<1>2. op = Idle /\ UNCHANGED <<op, life, starts>>
  BY <1>0, <1>1, RegistryStepFrame
<1>3. LifeCore
  BY <1>1 DEF AppIInv, Untimed
<1>4. RegistryIInv' /\ LifeCore'
  BY <1>0, <1>1, <1>3, RegistryStepsKeep, OtherStepsKeep
<1>5. CallsAtSites' /\ NoneOpen'
  BY <1>1, <1>2, IdleCall DEF CallsAtSites, NoneOpen
<1>6. StartsMade' /\ CalledHeld'
  BY <1>0, <1>1, <1>2 DEF StartsMade, CalledHeld
<1> QED BY <1>4, <1>5, <1>6 DEF AppIInv

\* The steps of main() that begin a call of the manager.
LEMMA CallsKeep ==
    ASSUME AppIInv, FlagsSet',
           \/ InitializeCalls \/ (OnInitialize /\ pc' = "start")
           \/ ShutdownStops \/ ShutdownCloses \/ ShutdownStopsTimed \/ ShutdownClosesTimed
    PROVE  AppIInv'
<1>0. RegistryIInv /\ CallsAtSites /\ StartsMade /\ CalledHeld /\ NoneOpen
  BY DEF AppIInv
<1>1. \/ pc = "register" /\ pc' = "initialize" /\ BeginInitializeAll
      \/ pc = "onInitialize" /\ pc' = "start" /\ BeginStartAll
      \/ pc = "onShutdown" /\ pc' = "stopAll" /\ BeginStopAll
      \/ pc = "stopAll" /\ pc' = "shutdownAll" /\ BeginShutdownAll
      \/ pc = "shutdownAll" /\ pc' = "stopTimed" /\ BeginStopAllWithTimeout
      \/ pc = "stopTimed" /\ pc' = "shutdownTimed" /\ BeginShutdownAllWithTimeout
  BY DEF InitializeCalls, OnInitialize, ShutdownStops, ShutdownCloses, ShutdownStopsTimed, ShutdownClosesTimed, Goto
<1>2. BeginStep /\ UNCHANGED shutdownTimeoutMs
  <2>1. UNCHANGED shutdownTimeoutMs
    BY DEF InitializeCalls, OnInitialize, ShutdownStops, ShutdownCloses, ShutdownStopsTimed, ShutdownClosesTimed,
           Goto, flags
  <2> QED BY <1>1, <2>1 DEF BeginStep
<1>3. op = Idle /\ UNCHANGED <<reg, released, life>>
  BY <1>1 DEF BeginInitializeAll, BeginStartAll, BeginStopAll, BeginShutdownAll,
              BeginStopAllWithTimeout, BeginShutdownAllWithTimeout, Begin, registry
<1>4. Held' = Held
  BY <1>3 DEF Held, Indexes
<1>5. op'.kind # "none" /\ pc' = Site(op'.kind)
  BY <1>1 DEF BeginInitializeAll, BeginStartAll, BeginStopAll, BeginShutdownAll,
              BeginStopAllWithTimeout, BeginShutdownAllWithTimeout, Begin, Site
<1>6. RegistryIInv'
  BY <1>0, <1>2, BeginsKeepRegistry
<1>7. Untimed' => LifeCore'
  <2>1. Untimed' => Untimed
    BY <1>1, <1>2 DEF Untimed
  <2>2. LifeCore => LifeCore'
    BY <1>0, <1>2, OtherStepsKeep
  <2> QED BY <2>1, <2>2 DEF AppIInv
<1>8. CallsAtSites'
  BY <1>5 DEF CallsAtSites
<1>9. StartsMade'
  BY <1>0, <1>1 DEF StartsMade, BeginInitializeAll
<1>10. CalledHeld'
  BY <1>0, <1>1, <1>3, <1>4 DEF CalledHeld
<1>11. NoneOpen'
  BY <1>0, <1>1, <1>3, <1>5, IdleCall DEF NoneOpen
<1> QED BY <1>6, <1>7, <1>8, <1>9, <1>10, <1>11 DEF AppIInv

\* The steps of main() that release every module.
LEMMA ClearsKeep ==
    ASSUME AppIInv, FlagsSet', (InitializeReturns /\ pc' = "failed") \/ ShutdownClears \/ MainFails
    PROVE  AppIInv'
<1>0. RegistryIInv /\ CallsAtSites /\ StartsMade /\ CalledHeld /\ NoneOpen
  BY DEF AppIInv
<1>1. /\ \/ pc = "initialize" /\ pc' = "failed"
         \/ pc = "shutdownTimed" /\ pc' = "clear"
         \/ pc = "failed" /\ pc' = "exited"
      /\ ClearRegistry /\ UNCHANGED <<deps, state, op, result, life, starts, shutdownTimeoutMs>>
  BY DEF InitializeReturns, ShutdownClears, MainFails, Goto, flags
<1>2. op = Idle
  <2>1. CASE pc = "failed"
    <3>1. op.kind = "none"
      BY <1>0, <2>1 DEF CallsAtSites, Site
    <3> QED BY <1>0, <3>1 DEF RegistryIInv
  <2>2. CASE pc # "failed"
    BY <2>2 DEF InitializeReturns, ShutdownClears, MainFails, Goto
  <2> QED BY <2>1, <2>2
<1>3. RegistryIInv'
  BY <1>0, <1>1, <1>2, ClearKeeps
<1>4. Held' = {} /\ released' = released \cup Held
  <2>1. reg' = <<>> /\ released' = released \cup Held
    BY <1>1 DEF ClearRegistry
  <2>2. 1 .. Len(<<>>) = {}
    OBVIOUS
  <2> QED BY <2>1, <2>2 DEF Held, Indexes
<1>5. Untimed' => LifeCore'
  <2>1. Untimed' => Untimed
    BY <1>1 DEF Untimed
  <2>2. op.kind = "none" /\ op'.kind = "none" /\ "none" \notin Backs
    BY <1>1, <1>2, IdleCall DEF Backs, Stopping, Closing
  <2>3. LifeCore => LifeCore'
    BY <1>0, <1>1, <2>2, QuietStep
  <2> QED BY <2>1, <2>3 DEF AppIInv
<1>6. CallsAtSites'
  BY <1>1, <1>2, IdleCall DEF CallsAtSites
<1>7. StartsMade' /\ NoneOpen'
  BY <1>0, <1>1 DEF StartsMade, NoneOpen
<1>8. CalledHeld'
  BY <1>0, <1>1, <1>4 DEF CalledHeld
<1> QED BY <1>3, <1>5, <1>6, <1>7, <1>8 DEF AppIInv

\* Every step of the application keeps the invariant.
LEMMA AppNextKeeps ==
    ASSUME AppIInv, [AppNext]_allVars PROVE AppIInv'
<1>0. FlagsSet'
  BY FlagsNext DEF AppIInv
<1>1. CASE ManagerRuns
  BY <1>1, ManagerRunsKeeps
<1>2. CASE RegisterModules
  BY <1>0, <1>2, RegisterModulesKeeps
<1>3. CASE InitializeReturns
  <2>1. pc' = "onInitialize" \/ pc' = "failed"
    BY <1>3 DEF InitializeReturns, Goto
  <2> QED BY <1>0, <1>3, <2>1, PlainMoves, PlainMoveKeeps, ClearsKeep
<1>4. CASE OnInitialize
  <2>1. pc' = "start" \/ pc' = "failed"
    BY <1>4 DEF OnInitialize, Goto
  <2> QED BY <1>0, <1>4, <2>1, PlainMoves, PlainMoveKeeps, CallsKeep
<1>5. CASE InitializeCalls \/ ShutdownStops \/ ShutdownCloses \/ ShutdownStopsTimed \/ ShutdownClosesTimed
  BY <1>0, <1>5, CallsKeep
<1>6. CASE ShutdownClears \/ MainFails
  BY <1>0, <1>6, ClearsKeep
<1>7. CASE \/ RegistrationFails \/ StartReturns \/ OnStart
           \/ RunSetsRunning \/ RunClearsRequests \/ RunSetsInstance \/ RunInstallsHandlers
           \/ OnRun \/ RunRestoresHandlers \/ RunClearsInstance \/ MainReturns
           \/ HandleSignal \/ Stop \/ UNCHANGED allVars
  BY <1>0, <1>7, PlainMoves, PlainMoveKeeps
<1> QED BY <1>1, <1>2, <1>3, <1>4, <1>5, <1>6, <1>7 DEF AppNext, MainStep

\* It holds at first.
LEMMA AppStarts ==
    ASSUME AppInit PROVE AppIInv
<1>1. Init /\ pc = "register" /\ shutdownTimeoutMs \in Nat
  BY TimeoutAssumption DEF AppInit
<1>2. RegistryIInv /\ LifeCore
  BY <1>1, RegistryInit, LifeInit
<1>3. FlagsSet
  BY <1>1 DEF AppInit, FlagsSet, Steps
<1>4. CallsAtSites /\ StartsMade /\ CalledHeld /\ NoneOpen
  BY <1>1, IdleCall DEF Init, CallsAtSites, StartsMade, CalledHeld, NoneOpen
<1> QED BY <1>2, <1>3, <1>4 DEF AppIInv

\* Whatever stops or fails and whenever a signal arrives, g_instance is set
\* whenever CMyApplication's handlers are installed, and no callback of a module
\* is out of its protocol before the timed loops have time to run.
THEOREM AppInvHolds == AppSpec => []AppInv
<1>1. ASSUME AppIInv PROVE AppInv
  <2>1. AppTypeOK
    BY <1>1 DEF AppIInv, FlagsSet, AppTypeOK
  <2>2. ProtocolKeptUntilTimed
    BY <1>1 DEF AppIInv, Untimed, ProtocolKeptUntilTimed, LifeCore, StatesAgree, Agreeing, CallbackProtocol
  <2> QED BY <2>1, <2>2 DEF AppInv
<1> QED BY <1>1, AppStarts, AppNextKeeps, PTL DEF AppSpec

\* When main() returns after CMyApplication::Start was reached, no module is
\* left initialized and not shut down, and every module that was called has been
\* released, however the program came to its end.
THEOREM CleanExitHolds == AppSpec => []CleanExit
<1>1. ASSUME AppIInv PROVE CleanExit
  BY <1>1 DEF AppIInv, CalledHeld, NoneOpen, Open, CleanExit
<1> QED BY <1>1, AppStarts, AppNextKeeps, PTL DEF AppSpec
==============================================================================

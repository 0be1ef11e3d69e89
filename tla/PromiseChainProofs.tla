-------------------------- MODULE PromiseChainProofs --------------------------
(***************************************************************************)
(* Proofs about PromiseChain, for chains of any shape, any number of       *)
(* threads, notices and awaiters, and any limit of in-place nesting.       *)
(*                                                                         *)
(* Every layer that is not settled, and every notice that was not called,  *)
(* has a token: the hook that was registered for it, or the activation or  *)
(* closure that goes on with it.  The safety of a chain rests on there     *)
(* being exactly one, wherever the handlers of a settlement are run.       *)
(***************************************************************************)
EXTENDS PromiseChain, FiniteSetTheorems, TLAPS

FrameType ==
    [k : {"run", "retry", "settle", "notify", "fire", "deliver"}, l : Layers \cup Notices \cup {None},
     res : Results, todo : Seq(Hooks), inl : BOOLEAN]

\* The token a hook stands for: that of its layer or of its notice.
Token(h) == IF h.t = "notice" THEN NoticeHook(h.id) ELSE LayerHook(h.id)
Tokens == {LayerHook(l) : l \in Layers} \cup {NoticeHook(n) : n \in Notices}

\* The layer a hook is registered on.
HookOn(h) == CASE h.t = "layer" -> Up[h.id] [] h.t = "adopt" -> Child[h.id] [] OTHER -> Target[h.id]

\* A frame carries the token of the layer it runs or settles (resolve and reject
\* of a starter layer may settle it any number of times, these carry nothing), of
\* the notice it delivers and of the hooks it has still to run.
Carries(f, x) ==
    \/ f.k \in {"run", "retry"} /\ x = LayerHook(f.l)
    \/ f.k = "settle" /\ Mode[f.l] # "starter" /\ x = LayerHook(f.l)
    \/ f.k = "deliver" /\ x = NoticeHook(f.l)
    \/ \E i \in 1..Len(f.todo) : Token(f.todo[i]) = x

\* Token x is nowhere, given hooks hk, pool pl and stacks st.
Nowhere(x, hk, pl, st) ==
    /\ \A u \in Layers : \A i \in 1..Len(hk[u]) : Token(hk[u][i]) # x
    /\ \A f \in pl : ~Carries(f, x)
    /\ \A p \in Threads : \A i \in 1..Len(st[p]) : ~Carries(st[p][i], x)

OnceIn(f) == \A i, j \in 1..Len(f.todo) : Token(f.todo[i]) = Token(f.todo[j]) => i = j

\* No token is in two places.
Unique(hk, pl, st) ==
    /\ \A u, v \in Layers : \A i \in 1..Len(hk[u]), j \in 1..Len(hk[v]) :
         Token(hk[u][i]) = Token(hk[v][j]) => u = v /\ i = j
    /\ \A u \in Layers : \A i \in 1..Len(hk[u]) :
         /\ \A f \in pl : ~Carries(f, Token(hk[u][i]))
         /\ \A p \in Threads : \A j \in 1..Len(st[p]) : ~Carries(st[p][j], Token(hk[u][i]))
    /\ \A x \in Tokens :
         /\ \A f, g \in pl : Carries(f, x) /\ Carries(g, x) => f = g
         /\ \A f \in pl, p \in Threads : \A i \in 1..Len(st[p]) : ~(Carries(f, x) /\ Carries(st[p][i], x))
         /\ \A p, q \in Threads : \A i \in 1..Len(st[p]), j \in 1..Len(st[q]) :
              Carries(st[p][i], x) /\ Carries(st[q][j], x) => p = q /\ i = j
    /\ \A f \in pl : OnceIn(f)
    /\ \A p \in Threads : \A i \in 1..Len(st[p]) : OnceIn(st[p][i])

\* What a layer may be settled with (r), as ChainSemantics has it.
Outcome(l, r) ==
    LET up == result[Up[l]] IN
    /\ settled[Up[l]]
    /\ \/ bStopped /\ r = Stopped /\ own[l] = "none"
       \/ Skipped(l, up) /\ r = up /\ tries[l] = 0
       \/ /\ ~Skipped(l, up) /\ own[l] # "none"
          /\ IF Mode[l] = "promise" /\ own[l] = "ok"
             THEN settled[Child[l]] /\ r = result[Child[l]]
             ELSE r = IF Mode[l] = "finally" /\ own[l] # "throw" THEN up
                      ELSE IF own[l] = "ok" THEN Resolved ELSE Rejected(l)
       \/ ~Skipped(l, up) /\ own[l] = "none" /\ tries[l] = 2 /\ r = Rejected(l)

\* A registered hook whose turn has not come.
HookLive(h) ==
    /\ h \in Hooks
    /\ h.t = "layer" => h.id \in created \cap Chained /\ ~settled[h.id] /\ tries[h.id] = 0 /\ own[h.id] = "none"
    /\ h.t = "adopt" => /\ h.id \in created /\ Mode[h.id] = "promise" /\ ~settled[h.id]
                        /\ settled[Up[h.id]] /\ ~Skipped(h.id, result[Up[h.id]])
                        /\ own[h.id] = "ok"
    /\ h.t = "notice" => h.id \in joined /\ delivered[h.id] = <<>>

\* A layer whose body is about to run: after its upstream, on the upstream's result.
RunLive(f) ==
    /\ f.l \in created /\ own[f.l] = "none"
    /\ tries[f.l] = IF f.k = "run" THEN 0 ELSE 1
    /\ Mode[f.l] # "starter" => ~settled[f.l]
    /\ f.l \in Chained => settled[Up[f.l]] /\ f.res = result[Up[f.l]] /\ ~Skipped(f.l, f.res)

FrameOK(f) ==
    /\ f \in FrameType
    /\ f.k \in {"run", "retry", "settle", "deliver"} => f.todo = <<>>
    /\ f.k \in {"run", "retry"} => RunLive(f)
    /\ f.k = "settle" =>
         /\ f.l \in created
         /\ Mode[f.l] # "starter" => ~settled[f.l]
         /\ f.l \in Chained => Outcome(f.l, f.res)
    /\ f.k = "deliver" => /\ f.l \in joined /\ delivered[f.l] = <<>>
                          /\ settled[Target[f.l]] /\ f.res = result[Target[f.l]]
    /\ \A i \in 1..Len(f.todo) : /\ HookLive(f.todo[i])
                                 /\ settled[HookOn(f.todo[i])] /\ f.res = result[HookOn(f.todo[i])]

\* The frames of a pool and of stacks, and the hooks of a layer.
FramesIn(pl, st) == pl \cup UNION {{st[p][i] : i \in 1..Len(st[p])} : p \in Threads}
HooksIn(hk, u) == {hk[u][i] : i \in 1..Len(hk[u])}

FramesOK ==
    /\ pool \subseteq FrameType /\ stack \in [Threads -> Seq(FrameType)]
    /\ \A f \in FramesIn(pool, stack) : FrameOK(f)

HooksOK ==
    /\ hooks \in [Layers -> Seq(Hooks)]
    /\ \A u \in Layers : \A h \in HooksIn(hooks, u) : HookLive(h) /\ HookOn(h) = u

\* ChainSemantics, in terms of Outcome.
SettledOK ==
    /\ \A l \in Layers : tries[l] <= 2
    /\ \A l \in Chained : \A r \in Results : settled[l] /\ result[l] = r => Outcome(l, r)

\* A layer that does not exist and a notice that was not registered have no past,
\* and resolve and reject are handed out for starter layers only.
NoPast ==
    /\ \A l \in exposed : Mode[l] = "starter"
    /\ \A l \in Layers \ created : ~settled[l] /\ tries[l] = 0 /\ own[l] = "none"
    /\ delivered \in [Notices -> Seq(Results)]
    /\ \A n \in Notices \ joined : delivered[n] = <<>>

\* Nothing is lost: a layer that exists is settled or its token is somewhere
\* (a starter layer waits for resolve and reject), and so with notices.
NotLost ==
    /\ \A l \in created : Mode[l] # "starter" => settled[l] \/ ~Nowhere(LayerHook(l), hooks, pool, stack)
    /\ \A n \in joined : delivered[n] # <<>> \/ ~Nowhere(NoticeHook(n), hooks, pool, stack)

\* The inductive invariant.
ChainIInv ==
    /\ TypeOK /\ SettledOK /\ ObserversExact
    /\ FramesOK /\ HooksOK /\ NoPast /\ NotLost
    /\ Unique(hooks, pool, stack)

-------------------------------------------------------------------------------
(* Moving tokens.  A step takes some frames and hooks away and puts others   *)
(* down; each lemma says what one such move does to the places of tokens.    *)

Push(st, p, f) == [st EXCEPT ![p] = <<f>> \o @]
Pop(st, p) == [st EXCEPT ![p] = Tail(@)]
Hooked(hk, u, h) == [hk EXCEPT ![u] = Append(@, h)]
Cleared(hk, u) == [hk EXCEPT ![u] = <<>>]

\* The frames above which a new one lies keep their order.
LEMMA PushedSeq ==
    ASSUME NEW S, NEW s \in Seq(S), NEW e \in S
    PROVE  /\ <<e>> \o s \in Seq(S) /\ Len(<<e>> \o s) = Len(s) + 1 /\ Len(s) \in Nat
           /\ (<<e>> \o s)[1] = e
           /\ \A i \in 1..Len(s) : i + 1 \in 1..Len(<<e>> \o s) /\ (<<e>> \o s)[i + 1] = s[i]
           /\ \A j \in 1..Len(<<e>> \o s) : j = 1 \/ (j - 1 \in 1..Len(s) /\ (<<e>> \o s)[j] = s[j - 1])
<1>1. <<e>> \in Seq(S) /\ Len(<<e>>) = 1 /\ <<e>>[1] = e
  OBVIOUS
<1>2. <<e>> \o s \in Seq(S) /\ Len(<<e>> \o s) = Len(s) + 1 /\ Len(s) \in Nat
  BY <1>1
<1>3. (<<e>> \o s)[1] = e
  BY <1>1, <1>2
<1>4. \A j \in 1..Len(<<e>> \o s) : j = 1 \/ (j - 1 \in 1..Len(s) /\ (<<e>> \o s)[j] = s[j - 1])
  BY <1>1, <1>2
<1>5. \A i \in 1..Len(s) : i + 1 \in 1..Len(<<e>> \o s) /\ (<<e>> \o s)[i + 1] = s[i]
  BY <1>2, <1>4
<1> QED BY <1>2, <1>3, <1>4, <1>5

\* Without its first element a sequence keeps the others in order.
LEMMA PoppedSeq ==
    ASSUME NEW S, NEW s \in Seq(S), s # <<>>
    PROVE  /\ Tail(s) \in Seq(S) /\ Len(Tail(s)) = Len(s) - 1 /\ Len(s) \in Nat /\ 1 \in 1..Len(s)
           /\ Head(s) = s[1] /\ s[1] \in S
           /\ \A i \in 1..Len(Tail(s)) : i + 1 \in 1..Len(s) /\ Tail(s)[i] = s[i + 1]
           /\ \A j \in 1..Len(s) : j = 1 \/ (j - 1 \in 1..Len(Tail(s)) /\ Tail(s)[j - 1] = s[j])
           /\ <<Head(s)>> \o Tail(s) = s
<1>1. /\ Tail(s) \in Seq(S) /\ Len(Tail(s)) = Len(s) - 1 /\ Len(s) \in Nat /\ Len(s) >= 1
      /\ Head(s) = s[1] /\ s[1] \in S
      /\ \A i \in 1..Len(s) - 1 : Tail(s)[i] = s[i + 1]
  OBVIOUS
<1>2. \A j \in 1..Len(s) : j = 1 \/ (j - 1 \in 1..Len(Tail(s)) /\ Tail(s)[j - 1] = s[j])
  BY <1>1
<1>3. \A i \in 1..Len(Tail(s)) : i + 1 \in 1..Len(s) /\ Tail(s)[i] = s[i + 1]
  BY <1>1
<1>4. <<Head(s)>> \o Tail(s) = s
  <2>1. Head(s) \in S
    BY <1>1
  <2> DEFINE t == <<Head(s)>> \o Tail(s)
  <2>2. /\ t \in Seq(S) /\ Len(t) = Len(Tail(s)) + 1 /\ t[1] = Head(s)
        /\ \A j \in 1..Len(t) : j = 1 \/ (j - 1 \in 1..Len(Tail(s)) /\ t[j] = Tail(s)[j - 1])
    BY <1>1, <2>1, PushedSeq
  <2> HIDE DEF t
  <2>3. Len(t) = Len(s)
    BY <1>1, <2>2
  <2>4. \A j \in 1..Len(s) : t[j] = s[j]
    BY <1>1, <1>2, <2>2, <2>3
  <2>5. t = s
    BY <2>2, <2>3, <2>4
  <2> QED BY <2>5 DEF t
<1> QED BY <1>1, <1>2, <1>3, <1>4

\* A frame whose tokens were nowhere is put on top of a stack.
LEMMA PushMoves ==
    ASSUME NEW hk, NEW pl, NEW st \in [Threads -> Seq(FrameType)], NEW p \in Threads,
           NEW f \in FrameType, Unique(hk, pl, st), OnceIn(f),
           \A x : Carries(f, x) => Nowhere(x, hk, pl, st)
    PROVE  /\ Push(st, p, f) \in [Threads -> Seq(FrameType)]
           /\ Unique(hk, pl, Push(st, p, f))
           /\ \A x : Nowhere(x, hk, pl, Push(st, p, f)) <=> Nowhere(x, hk, pl, st) /\ ~Carries(f, x)
<1> DEFINE new == Push(st, p, f)
<1>1. st[p] \in Seq(FrameType)
  OBVIOUS
<1>2. new[p] = <<f>> \o st[p] /\ \A q \in Threads : q # p => new[q] = st[q]
  BY DEF Push
<1>3. /\ <<f>> \o st[p] \in Seq(FrameType)
      /\ 1 \in 1..Len(new[p]) /\ new[p][1] = f
      /\ \A i \in 1..Len(st[p]) : i + 1 \in 1..Len(new[p]) /\ new[p][i + 1] = st[p][i]
      /\ \A j \in 1..Len(new[p]) : j = 1 \/ (j - 1 \in 1..Len(st[p]) /\ new[p][j] = st[p][j - 1])
  <2>1. 1 \in 1..Len(<<f>> \o st[p])
    BY <1>1, PushedSeq
  <2> QED BY <1>1, <1>2, <2>1, PushedSeq
<1>4. new \in [Threads -> Seq(FrameType)]
  BY <1>3 DEF Push
<1> HIDE DEF new
<1>5. \A q \in Threads : \A i \in 1..Len(new[q]) :
        \/ q = p /\ i = 1 /\ new[q][i] = f
        \/ q = p /\ i - 1 \in 1..Len(st[q]) /\ new[q][i] = st[q][i - 1]
        \/ q # p /\ i \in 1..Len(st[q]) /\ new[q][i] = st[q][i]
  BY <1>2, <1>3
<1>6. \A x : Nowhere(x, hk, pl, new) <=> Nowhere(x, hk, pl, st) /\ ~Carries(f, x)
  <2> TAKE x
  <2>1. ASSUME Nowhere(x, hk, pl, new) PROVE Nowhere(x, hk, pl, st) /\ ~Carries(f, x)
    <3>1. ~Carries(f, x)
      BY <1>3, <2>1 DEF Nowhere
    <3>2. ASSUME NEW q \in Threads, NEW i \in 1..Len(st[q]) PROVE ~Carries(st[q][i], x)
      BY <1>2, <1>3, <2>1 DEF Nowhere
    <3> QED BY <2>1, <3>1, <3>2 DEF Nowhere
  <2>2. ASSUME Nowhere(x, hk, pl, st), ~Carries(f, x) PROVE Nowhere(x, hk, pl, new)
    <3>1. ASSUME NEW q \in Threads, NEW i \in 1..Len(new[q]) PROVE ~Carries(new[q][i], x)
      BY <1>5, <2>2 DEF Nowhere
    <3> QED BY <2>2, <3>1 DEF Nowhere
  <2> QED BY <2>1, <2>2
<1>7. Unique(hk, pl, new)
  <2>1. ASSUME NEW u \in Layers, NEW i \in 1..Len(hk[u]), NEW q \in Threads, NEW j \in 1..Len(new[q])
        PROVE  ~Carries(new[q][j], Token(hk[u][i]))
    <3>1. ~Carries(f, Token(hk[u][i]))
      BY DEF Nowhere
    <3> QED BY <1>5, <3>1, ZenonT(30) DEF Unique
  <2>2. ASSUME NEW x \in Tokens, NEW g \in pl, NEW q \in Threads, NEW i \in 1..Len(new[q])
        PROVE  ~(Carries(g, x) /\ Carries(new[q][i], x))
    <3>1. ~(Carries(g, x) /\ Carries(f, x))
      BY DEF Nowhere
    <3> QED BY <1>5, <3>1 DEF Unique
  <2>3. ASSUME NEW x \in Tokens, NEW q \in Threads, NEW r \in Threads, NEW i \in 1..Len(new[q]),
               NEW j \in 1..Len(new[r]), Carries(new[q][i], x), Carries(new[r][j], x)
        PROVE  q = r /\ i = j
    <3>1. CASE q = p /\ i = 1 /\ new[q][i] = f
      <4>1. Nowhere(x, hk, pl, st)
        BY <2>3, <3>1
      <4> QED BY <1>5, <2>3, <3>1, <4>1 DEF Nowhere
    <3>2. CASE r = p /\ j = 1 /\ new[r][j] = f
      <4>1. Nowhere(x, hk, pl, st)
        BY <2>3, <3>2
      <4> QED BY <1>5, <2>3, <3>2, <4>1 DEF Nowhere
    <3>3. CASE /\ q = p /\ i - 1 \in 1..Len(st[q]) /\ new[q][i] = st[q][i - 1]
               /\ r = p /\ j - 1 \in 1..Len(st[r]) /\ new[r][j] = st[r][j - 1]
      <4>1. i - 1 = j - 1
        BY <2>3, <3>3 DEF Unique
      <4> QED BY <3>3, <4>1
    <3>4. CASE /\ q = p /\ i - 1 \in 1..Len(st[q]) /\ new[q][i] = st[q][i - 1]
               /\ r # p /\ j \in 1..Len(st[r]) /\ new[r][j] = st[r][j]
      BY <2>3, <3>4 DEF Unique
    <3>5. CASE /\ r = p /\ j - 1 \in 1..Len(st[r]) /\ new[r][j] = st[r][j - 1]
               /\ q # p /\ i \in 1..Len(st[q]) /\ new[q][i] = st[q][i]
      BY <2>3, <3>5 DEF Unique
    <3>6. CASE /\ q # p /\ i \in 1..Len(st[q]) /\ new[q][i] = st[q][i]
               /\ r # p /\ j \in 1..Len(st[r]) /\ new[r][j] = st[r][j]
      BY <2>3, <3>6 DEF Unique
    <3> QED BY <1>5, <3>1, <3>2, <3>3, <3>4, <3>5, <3>6
  <2>4. ASSUME NEW q \in Threads, NEW i \in 1..Len(new[q]) PROVE OnceIn(new[q][i])
    BY <1>5 DEF Unique
  <2>5. /\ \A u, v \in Layers : \A i \in 1..Len(hk[u]), j \in 1..Len(hk[v]) :
             Token(hk[u][i]) = Token(hk[v][j]) => u = v /\ i = j
        /\ \A u \in Layers : \A i \in 1..Len(hk[u]) : \A g \in pl : ~Carries(g, Token(hk[u][i]))
        /\ \A x \in Tokens : \A g, h \in pl : Carries(g, x) /\ Carries(h, x) => g = h
        /\ \A g \in pl : OnceIn(g)
    BY DEF Unique
  <2> QED BY <2>1, <2>2, <2>3, <2>4, <2>5 DEF Unique
<1> QED BY <1>4, <1>6, <1>7 DEF new

\* The top frame goes: what it carried is then nowhere.
LEMMA PopMoves ==
    ASSUME NEW hk, NEW pl, NEW st \in [Threads -> Seq(FrameType)], NEW p \in Threads,
           st[p] # <<>>, Unique(hk, pl, st)
    PROVE  /\ Pop(st, p) \in [Threads -> Seq(FrameType)]
           /\ Unique(hk, pl, Pop(st, p))
           /\ \A x \in Tokens : Nowhere(x, hk, pl, Pop(st, p))
                                  <=> Nowhere(x, hk, pl, st) \/ Carries(Head(st[p]), x)
<1> DEFINE new == Pop(st, p)
<1>1. st[p] \in Seq(FrameType)
  OBVIOUS
<1>2. new[p] = Tail(st[p]) /\ \A q \in Threads : q # p => new[q] = st[q]
  BY DEF Pop
<1>3. /\ Tail(st[p]) \in Seq(FrameType) /\ 1 \in 1..Len(st[p]) /\ Head(st[p]) = st[p][1]
      /\ Len(st[p]) \in Nat
      /\ \A i \in 1..Len(new[p]) : i + 1 \in 1..Len(st[p]) /\ new[p][i] = st[p][i + 1]
      /\ \A j \in 1..Len(st[p]) : j = 1 \/ (j - 1 \in 1..Len(new[p]) /\ new[p][j - 1] = st[p][j])
  BY <1>1, <1>2, PoppedSeq
<1>4. new \in [Threads -> Seq(FrameType)]
  BY <1>3 DEF Pop
<1> HIDE DEF new
<1>5. \A q \in Threads : \A i \in 1..Len(new[q]) :
        \/ q = p /\ i + 1 \in 1..Len(st[q]) /\ i + 1 # 1 /\ new[q][i] = st[q][i + 1]
        \/ q # p /\ i \in 1..Len(st[q]) /\ new[q][i] = st[q][i]
  <2>1. \A i \in 1..Len(new[p]) : i + 1 # 1
    BY <1>3
  <2> QED BY <1>2, <1>3, <2>1
<1>6. \A x \in Tokens : Nowhere(x, hk, pl, new) <=> Nowhere(x, hk, pl, st) \/ Carries(Head(st[p]), x)
  <2> TAKE x \in Tokens
  <2>1. ASSUME Nowhere(x, hk, pl, new), ~Carries(Head(st[p]), x) PROVE Nowhere(x, hk, pl, st)
    <3>1. ASSUME NEW q \in Threads, NEW i \in 1..Len(st[q]) PROVE ~Carries(st[q][i], x)
      <4>1. \A r \in Threads : \A j \in 1..Len(new[r]) : ~Carries(new[r][j], x)
        BY <2>1 DEF Nowhere
      <4>2. CASE q # p
        BY <1>2, <4>1, <4>2
      <4>3. CASE q = p /\ i = 1
        BY <1>3, <2>1, <4>3
      <4>4. CASE q = p /\ i # 1
        <5>1. i - 1 \in 1..Len(new[p]) /\ new[p][i - 1] = st[p][i]
          BY <1>3, <4>4
        <5> QED BY <4>1, <4>4, <5>1
      <4> QED BY <4>2, <4>3, <4>4
    <3> QED BY <2>1, <3>1 DEF Nowhere
  <2>2. ASSUME Nowhere(x, hk, pl, st) PROVE Nowhere(x, hk, pl, new)
    <3>1. ASSUME NEW q \in Threads, NEW i \in 1..Len(new[q]) PROVE ~Carries(new[q][i], x)
      BY <1>5, <2>2 DEF Nowhere
    <3> QED BY <2>2, <3>1 DEF Nowhere
  <2>3. ASSUME Carries(Head(st[p]), x) PROVE Nowhere(x, hk, pl, new)
    <3>1. Carries(st[p][1], x) /\ 1 \in 1..Len(st[p])
      BY <1>3, <2>3
    <3>2. ASSUME NEW q \in Threads, NEW i \in 1..Len(new[q]) PROVE ~Carries(new[q][i], x)
      <4>1. \A r \in Threads : \A j \in 1..Len(st[r]) : Carries(st[r][j], x) => r = p /\ j = 1
        BY <3>1 DEF Unique
      <4> QED BY <1>5, <4>1
    <3>3. \A u \in Layers : \A i \in 1..Len(hk[u]) : Token(hk[u][i]) # x
      BY <3>1 DEF Unique
    <3>4. \A g \in pl : ~Carries(g, x)
      BY <3>1 DEF Unique
    <3> QED BY <3>2, <3>3, <3>4 DEF Nowhere
  <2> QED BY <2>1, <2>2, <2>3
<1>7. Unique(hk, pl, new)
  <2>1. ASSUME NEW u \in Layers, NEW i \in 1..Len(hk[u]), NEW q \in Threads, NEW j \in 1..Len(new[q])
        PROVE  ~Carries(new[q][j], Token(hk[u][i]))
    BY <1>5 DEF Unique
  <2>2. ASSUME NEW x \in Tokens, NEW g \in pl, NEW q \in Threads, NEW i \in 1..Len(new[q])
        PROVE  ~(Carries(g, x) /\ Carries(new[q][i], x))
    BY <1>5 DEF Unique
  <2>3. ASSUME NEW x \in Tokens, NEW q \in Threads, NEW r \in Threads, NEW i \in 1..Len(new[q]),
               NEW j \in 1..Len(new[r]), Carries(new[q][i], x), Carries(new[r][j], x)
        PROVE  q = r /\ i = j
    <3>1. CASE q = p /\ r = p
      <4>1. i + 1 = j + 1
        BY <1>5, <2>3, <3>1 DEF Unique
      <4> QED BY <3>1, <4>1
    <3>2. CASE ~(q = p /\ r = p)
      BY <1>5, <2>3, <3>2 DEF Unique
    <3> QED BY <3>1, <3>2
  <2>4. ASSUME NEW q \in Threads, NEW i \in 1..Len(new[q]) PROVE OnceIn(new[q][i])
    BY <1>5 DEF Unique
  <2>5. /\ \A u, v \in Layers : \A i \in 1..Len(hk[u]), j \in 1..Len(hk[v]) :
             Token(hk[u][i]) = Token(hk[v][j]) => u = v /\ i = j
        /\ \A u \in Layers : \A i \in 1..Len(hk[u]) : \A g \in pl : ~Carries(g, Token(hk[u][i]))
        /\ \A x \in Tokens : \A g, h \in pl : Carries(g, x) /\ Carries(h, x) => g = h
        /\ \A g \in pl : OnceIn(g)
    BY DEF Unique
  <2> QED BY <2>1, <2>2, <2>3, <2>4, <2>5 DEF Unique
<1> QED BY <1>4, <1>6, <1>7 DEF new

\* A closure whose tokens were nowhere is given to the executor.
LEMMA PostMoves ==
    ASSUME NEW hk, NEW pl, NEW st, NEW f, Unique(hk, pl, st), OnceIn(f),
           \A x : Carries(f, x) => Nowhere(x, hk, pl, st)
    PROVE  /\ Unique(hk, pl \cup {f}, st)
           /\ \A x : Nowhere(x, hk, pl \cup {f}, st) <=> Nowhere(x, hk, pl, st) /\ ~Carries(f, x)
<1>1. \A x : Nowhere(x, hk, pl \cup {f}, st) <=> Nowhere(x, hk, pl, st) /\ ~Carries(f, x)
  BY DEF Nowhere
<1>2. ASSUME NEW u \in Layers, NEW i \in 1..Len(hk[u]) PROVE ~Carries(f, Token(hk[u][i]))
  BY DEF Nowhere
<1>3. ASSUME NEW x \in Tokens, NEW g \in pl \cup {f}, NEW h \in pl \cup {f}, Carries(g, x), Carries(h, x)
      PROVE  g = h
  BY <1>3 DEF Nowhere, Unique
<1>4. ASSUME NEW x \in Tokens, NEW g \in pl \cup {f}, NEW p \in Threads, NEW i \in 1..Len(st[p])
      PROVE  ~(Carries(g, x) /\ Carries(st[p][i], x))
  BY DEF Nowhere, Unique
<1>5. /\ \A u, v \in Layers : \A i \in 1..Len(hk[u]), j \in 1..Len(hk[v]) :
           Token(hk[u][i]) = Token(hk[v][j]) => u = v /\ i = j
      /\ \A u \in Layers : \A i \in 1..Len(hk[u]) :
           /\ \A g \in pl : ~Carries(g, Token(hk[u][i]))
           /\ \A p \in Threads : \A j \in 1..Len(st[p]) : ~Carries(st[p][j], Token(hk[u][i]))
      /\ \A x \in Tokens : \A p, q \in Threads : \A i \in 1..Len(st[p]), j \in 1..Len(st[q]) :
           Carries(st[p][i], x) /\ Carries(st[q][j], x) => p = q /\ i = j
      /\ \A g \in pl \cup {f} : OnceIn(g)
      /\ \A p \in Threads : \A i \in 1..Len(st[p]) : OnceIn(st[p][i])
  BY DEF Unique
<1>6. Unique(hk, pl \cup {f}, st)
  BY <1>2, <1>3, <1>4, <1>5 DEF Unique
<1> QED BY <1>1, <1>6

\* A closure is taken out of the pool: what it carried is then nowhere.
LEMMA TakeMoves ==
    ASSUME NEW hk, NEW pl, NEW st, NEW f \in pl, Unique(hk, pl, st)
    PROVE  /\ Unique(hk, pl \ {f}, st) /\ OnceIn(f)
           /\ \A x \in Tokens : Nowhere(x, hk, pl \ {f}, st) <=> Nowhere(x, hk, pl, st) \/ Carries(f, x)
<1>1. Unique(hk, pl \ {f}, st) /\ OnceIn(f)
  BY DEF Unique
<1>2. ASSUME NEW x \in Tokens, Carries(f, x) PROVE Nowhere(x, hk, pl \ {f}, st)
  <2>1. \A u \in Layers : \A i \in 1..Len(hk[u]) : Token(hk[u][i]) # x
    BY <1>2 DEF Unique
  <2>2. \A g \in pl \ {f} : ~Carries(g, x)
    BY <1>2 DEF Unique
  <2>3. \A p \in Threads : \A i \in 1..Len(st[p]) : ~Carries(st[p][i], x)
    BY <1>2 DEF Unique
  <2> QED BY <2>1, <2>2, <2>3 DEF Nowhere
<1>3. ASSUME NEW x \in Tokens, ~Carries(f, x)
      PROVE  Nowhere(x, hk, pl \ {f}, st) <=> Nowhere(x, hk, pl, st)
  BY <1>3 DEF Nowhere
<1>4. ASSUME NEW x \in Tokens, Nowhere(x, hk, pl, st) PROVE Nowhere(x, hk, pl \ {f}, st)
  BY <1>4 DEF Nowhere
<1> QED BY <1>1, <1>2, <1>3, <1>4

\* A hook whose token was nowhere is registered on layer u.
LEMMA HookMoves ==
    ASSUME NEW hk \in [Layers -> Seq(Hooks)], NEW pl, NEW st, NEW u \in Layers, NEW h \in Hooks,
           Unique(hk, pl, st), Nowhere(Token(h), hk, pl, st),
           NEW new, new = Hooked(hk, u, h)
    PROVE  /\ new \in [Layers -> Seq(Hooks)]
           /\ Unique(new, pl, st)
           /\ \A x : Nowhere(x, new, pl, st) <=> Nowhere(x, hk, pl, st) /\ x # Token(h)
           /\ \A v \in Layers : \A i \in 1..Len(new[v]) :
                (i \in 1..Len(hk[v]) /\ new[v][i] = hk[v][i]) \/ (v = u /\ new[v][i] = h)
<1>1. hk[u] \in Seq(Hooks)
  OBVIOUS
<1>2. new[u] = Append(hk[u], h) /\ \A v \in Layers : v # u => new[v] = hk[v]
  BY DEF Hooked
<1>3. /\ Append(hk[u], h) \in Seq(Hooks) /\ Len(new[u]) = Len(hk[u]) + 1 /\ Len(hk[u]) \in Nat
      /\ new[u][Len(hk[u]) + 1] = h
      /\ \A i \in 1..Len(hk[u]) : new[u][i] = hk[u][i]
  BY <1>1, <1>2
<1>4. new \in [Layers -> Seq(Hooks)]
  BY <1>3 DEF Hooked
<1>5. /\ \A i \in 1..Len(hk[u]) : i \in 1..Len(new[u])
      /\ Len(hk[u]) + 1 \in 1..Len(new[u])
      /\ \A i \in 1..Len(new[u]) : i \in 1..Len(hk[u]) \/ i = Len(hk[u]) + 1
      /\ Len(hk[u]) + 1 \notin 1..Len(hk[u])
  BY <1>3
<1>6. \A v \in Layers : \A i \in 1..Len(new[v]) :
        \/ i \in 1..Len(hk[v]) /\ new[v][i] = hk[v][i]
        \/ v = u /\ i = Len(hk[u]) + 1 /\ new[v][i] = h
  BY <1>2, <1>3, <1>5
<1>7. \A x : Nowhere(x, new, pl, st) <=> Nowhere(x, hk, pl, st) /\ x # Token(h)
  <2> TAKE x
  <2>1. ASSUME Nowhere(x, new, pl, st) PROVE Nowhere(x, hk, pl, st) /\ x # Token(h)
    <3>1. x # Token(h)
      BY <1>3, <1>5, <2>1 DEF Nowhere
    <3>2. ASSUME NEW v \in Layers, NEW i \in 1..Len(hk[v]) PROVE Token(hk[v][i]) # x
      <4>1. i \in 1..Len(new[v]) /\ new[v][i] = hk[v][i]
        BY <1>2, <1>3, <1>5
      <4> QED BY <2>1, <4>1 DEF Nowhere
    <3> QED BY <2>1, <3>1, <3>2 DEF Nowhere
  <2>2. ASSUME Nowhere(x, hk, pl, st), x # Token(h) PROVE Nowhere(x, new, pl, st)
    <3>1. ASSUME NEW v \in Layers, NEW i \in 1..Len(new[v]) PROVE Token(new[v][i]) # x
      BY <1>6, <2>2 DEF Nowhere
    <3> QED BY <2>2, <3>1 DEF Nowhere
  <2> QED BY <2>1, <2>2
<1>8. Unique(new, pl, st)
  <2>1. ASSUME NEW v \in Layers, NEW w \in Layers, NEW i \in 1..Len(new[v]), NEW j \in 1..Len(new[w]),
               Token(new[v][i]) = Token(new[w][j])
        PROVE  v = w /\ i = j
    <3>0. \A w2 \in Layers : \A k \in 1..Len(hk[w2]) : Token(hk[w2][k]) # Token(h)
      BY DEF Nowhere
    <3>1. CASE i \in 1..Len(hk[v]) /\ new[v][i] = hk[v][i] /\ j \in 1..Len(hk[w]) /\ new[w][j] = hk[w][j]
      BY <2>1, <3>1 DEF Unique
    <3>2. CASE v = u /\ i = Len(hk[u]) + 1 /\ new[v][i] = h
      BY <1>6, <2>1, <3>0, <3>2
    <3>3. CASE w = u /\ j = Len(hk[u]) + 1 /\ new[w][j] = h
      BY <1>6, <2>1, <3>0, <3>3
    <3> QED BY <1>6, <3>1, <3>2, <3>3
  <2>2. ASSUME NEW v \in Layers, NEW i \in 1..Len(new[v])
        PROVE  /\ \A g \in pl : ~Carries(g, Token(new[v][i]))
               /\ \A p \in Threads : \A j \in 1..Len(st[p]) : ~Carries(st[p][j], Token(new[v][i]))
    <3>1. /\ \A g \in pl : ~Carries(g, Token(h))
          /\ \A p \in Threads : \A j \in 1..Len(st[p]) : ~Carries(st[p][j], Token(h))
      BY DEF Nowhere
    <3>2. CASE i \in 1..Len(hk[v]) /\ new[v][i] = hk[v][i]
      BY <3>2 DEF Unique
    <3>3. CASE new[v][i] = h
      BY <3>1, <3>3
    <3> QED BY <1>6, <3>2, <3>3
  <2>3. /\ \A x \in Tokens :
             /\ \A f, g \in pl : Carries(f, x) /\ Carries(g, x) => f = g
             /\ \A f \in pl, p \in Threads : \A i \in 1..Len(st[p]) : ~(Carries(f, x) /\ Carries(st[p][i], x))
             /\ \A p, q \in Threads : \A i \in 1..Len(st[p]), j \in 1..Len(st[q]) :
                  Carries(st[p][i], x) /\ Carries(st[q][j], x) => p = q /\ i = j
        /\ \A f \in pl : OnceIn(f)
        /\ \A p \in Threads : \A i \in 1..Len(st[p]) : OnceIn(st[p][i])
    BY DEF Unique
  <2> QED BY <2>1, <2>2, <2>3 DEF Unique
<1>9. \A v \in Layers : \A i \in 1..Len(new[v]) :
        (i \in 1..Len(hk[v]) /\ new[v][i] = hk[v][i]) \/ (v = u /\ new[v][i] = h)
  BY <1>6
<1> QED BY <1>4, <1>7, <1>8, <1>9

\* new is hk without the hooks of layer u, whose tokens are then nowhere, each once.
HooksTaken(hk, new, pl, st, u) ==
    /\ new \in [Layers -> Seq(Hooks)]
    /\ Unique(new, pl, st)
    /\ \A x : Nowhere(x, new, pl, st)
                <=> Nowhere(x, hk, pl, st) \/ \E i \in 1..Len(hk[u]) : Token(hk[u][i]) = x
    /\ \A i, j \in 1..Len(hk[u]) : Token(hk[u][i]) = Token(hk[u][j]) => i = j
    /\ \A v \in Layers : \A i \in 1..Len(new[v]) : i \in 1..Len(hk[v]) /\ new[v][i] = hk[v][i]

\* The hooks of layer u are taken: their tokens are then nowhere, each once.
LEMMA ClearMoves ==
    ASSUME NEW hk \in [Layers -> Seq(Hooks)], NEW pl, NEW st, NEW u \in Layers, Unique(hk, pl, st),
           NEW new, new = Cleared(hk, u)
    PROVE  HooksTaken(hk, new, pl, st, u)
<1>1. new \in [Layers -> Seq(Hooks)]
  BY DEF Cleared
<1>2. 1..Len(new[u]) = {} /\ \A v \in Layers : v # u => new[v] = hk[v]
  <2>1. Len(new[u]) = 0
    BY DEF Cleared
  <2> QED BY <2>1 DEF Cleared
<1>3. \A v \in Layers : \A i \in 1..Len(new[v]) : v # u /\ i \in 1..Len(hk[v]) /\ new[v][i] = hk[v][i]
  BY <1>2
<1>4. Unique(new, pl, st)
  BY <1>3 DEF Unique
<1>5. \A x : Nowhere(x, new, pl, st)
               <=> Nowhere(x, hk, pl, st) \/ \E i \in 1..Len(hk[u]) : Token(hk[u][i]) = x
  <2> TAKE x
  <2>1. ASSUME Nowhere(x, hk, pl, st) PROVE Nowhere(x, new, pl, st)
    BY <1>3, <2>1 DEF Nowhere
  <2>2. ASSUME NEW i \in 1..Len(hk[u]), Token(hk[u][i]) = x PROVE Nowhere(x, new, pl, st)
    <3>1. ASSUME NEW v \in Layers, NEW j \in 1..Len(new[v]), Token(new[v][j]) = x PROVE FALSE
      <4>1. v # u /\ j \in 1..Len(hk[v]) /\ Token(hk[v][j]) = Token(hk[u][i])
        BY <1>3, <2>2, <3>1
      <4> QED BY <4>1 DEF Unique
    <3>2. \A g \in pl : ~Carries(g, x)
      BY <2>2 DEF Unique
    <3>3. \A p \in Threads : \A j \in 1..Len(st[p]) : ~Carries(st[p][j], x)
      BY <2>2 DEF Unique
    <3> QED BY <3>1, <3>2, <3>3 DEF Nowhere
  <2>3. ASSUME Nowhere(x, new, pl, st), ~\E i \in 1..Len(hk[u]) : Token(hk[u][i]) = x
        PROVE  Nowhere(x, hk, pl, st)
    BY <1>2, <2>3 DEF Nowhere
  <2> QED BY <2>1, <2>2, <2>3
<1>6. \A i, j \in 1..Len(hk[u]) : Token(hk[u][i]) = Token(hk[u][j]) => i = j
  BY DEF Unique
<1> QED BY <1>1, <1>3, <1>4, <1>5, <1>6 DEF HooksTaken

-------------------------------------------------------------------------------
(* What a step leaves alone.  It only adds to what exists and is settled, and *)
(* only the layers and notices of the tokens it holds, X, make progress.      *)

Grows ==
    /\ created \subseteq created' /\ joined \subseteq joined' /\ (bStopped => bStopped')
    /\ \A l \in Layers : settled[l] => settled'[l] /\ result'[l] = result[l]

Still(X) ==
    /\ \A l \in Layers : LayerHook(l) \notin X =>
         /\ tries'[l] = tries[l] /\ own'[l] = own[l]
         /\ Mode[l] # "starter" => settled'[l] = settled[l]
    /\ \A n \in Notices : NoticeHook(n) \notin X => delivered'[n] = delivered[n]

\* The kinds of layers and what they hang on.
LEMMA Shape ==
    /\ \A l \in Chained : l \in Layers /\ Up[l] \in Layers /\ Mode[l] \notin {"starter", "handler"}
    /\ \A l \in Layers : Mode[l] = "promise" => l \in Chained /\ Child[l] \in Layers /\ Mode[Child[l]] = "starter"
    /\ \A l \in Layers : Mode[l] = "starter" => l \notin Chained
    /\ \A l \in Layers : Mode[l] \in {"then", "catch", "finally"} => l \in Chained
    /\ \A n \in Notices : Target[n] \in Layers
  BY ChainAssumption DEF Chained, Roots

\* A hook is its kind and its layer or notice.
LEMMA HookFields ==
    /\ \A l : /\ LayerHook(l).t = "layer" /\ LayerHook(l).id = l /\ Token(LayerHook(l)) = LayerHook(l)
              /\ AdoptHook(l).t = "adopt" /\ AdoptHook(l).id = l /\ Token(AdoptHook(l)) = LayerHook(l)
              /\ NoticeHook(l).t = "notice" /\ NoticeHook(l).id = l /\ Token(NoticeHook(l)) = NoticeHook(l)
    /\ \A l, m : LayerHook(l) = LayerHook(m) => l = m
    /\ \A l, m : NoticeHook(l) = NoticeHook(m) => l = m
    /\ \A l, n : LayerHook(l) # NoticeHook(n)
    /\ \A h \in Hooks : /\ h.t \in {"layer", "adopt", "notice"} /\ Token(h) \in Tokens
                        /\ h.t # "notice" => h.id \in Layers /\ Token(h) = LayerHook(h.id)
                        /\ h.t = "notice" => h.id \in Notices /\ Token(h) = NoticeHook(h.id)
<1>1. \A l : /\ LayerHook(l).t = "layer" /\ LayerHook(l).id = l
             /\ AdoptHook(l).t = "adopt" /\ AdoptHook(l).id = l
             /\ NoticeHook(l).t = "notice" /\ NoticeHook(l).id = l
  BY DEF LayerHook, AdoptHook, NoticeHook
<1>2. \A h \in Hooks : \/ \E l \in Layers : h = LayerHook(l)
                       \/ \E l \in Layers : h = AdoptHook(l)
                       \/ \E n \in Notices : h = NoticeHook(n)
  BY DEF Hooks
<1>3. \A l, n : LayerHook(l) # NoticeHook(n)
  <2> SUFFICES ASSUME NEW l, NEW n PROVE LayerHook(l).t # NoticeHook(n).t
    OBVIOUS
  <2> QED BY <1>1
<1>4. \A l : /\ Token(LayerHook(l)) = LayerHook(l) /\ Token(AdoptHook(l)) = LayerHook(l)
             /\ Token(NoticeHook(l)) = NoticeHook(l)
  BY <1>1 DEF Token
<1>5. /\ \A l, m : LayerHook(l) = LayerHook(m) => l = m
      /\ \A l, m : NoticeHook(l) = NoticeHook(m) => l = m
  <2>1. ASSUME NEW l, NEW m, LayerHook(l) = LayerHook(m) PROVE l = m
    <3>1. LayerHook(l).id = LayerHook(m).id
      BY <2>1
    <3> QED BY <1>1, <3>1
  <2>2. ASSUME NEW l, NEW m, NoticeHook(l) = NoticeHook(m) PROVE l = m
    <3>1. NoticeHook(l).id = NoticeHook(m).id
      BY <2>2
    <3> QED BY <1>1, <3>1
  <2> QED BY <2>1, <2>2
<1>6. ASSUME NEW h \in Hooks
      PROVE  /\ h.t \in {"layer", "adopt", "notice"} /\ Token(h) \in Tokens
             /\ h.t # "notice" => h.id \in Layers /\ Token(h) = LayerHook(h.id)
             /\ h.t = "notice" => h.id \in Notices /\ Token(h) = NoticeHook(h.id)
  <2>1. CASE \E l \in Layers : h = LayerHook(l)
    BY <1>1, <1>4, <2>1 DEF Tokens
  <2>2. CASE \E l \in Layers : h = AdoptHook(l)
    BY <1>1, <1>4, <2>2 DEF Tokens
  <2>3. CASE \E n \in Notices : h = NoticeHook(n)
    BY <1>1, <1>4, <2>3 DEF Tokens
  <2> QED BY <1>2, <2>1, <2>2, <2>3
<1> QED BY <1>1, <1>3, <1>4, <1>5, <1>6

\* What a layer may be settled with stays what it may be settled with.
LEMMA OutcomeStays ==
    ASSUME NEW l \in Chained, NEW r, Outcome(l, r), Grows, tries'[l] = tries[l], own'[l] = own[l]
    PROVE  Outcome(l, r)'
<1>1. l \in Layers /\ Up[l] \in Layers /\ Mode[l] # "starter"
  BY Shape
<1>2. settled[Up[l]] /\ settled'[Up[l]] /\ result'[Up[l]] = result[Up[l]]
  BY <1>1 DEF Outcome, Grows
<1>4. Mode[l] = "promise" /\ settled[Child[l]] => settled'[Child[l]] /\ result'[Child[l]] = result[Child[l]]
  BY <1>1, Shape DEF Grows
<1>5. bStopped => bStopped'
  BY DEF Grows
<1> QED BY <1>2, <1>4, <1>5 DEF Outcome

\* A hook whose token the step does not hold stays as it is.
LEMMA HookStays ==
    ASSUME NEW h, HookLive(h), Grows, NEW X, Still(X), Token(h) \notin X
    PROVE  HookLive(h)'
<1>1. h \in Hooks
  BY DEF HookLive
<1>2. CASE h.t = "layer"
  <2>1. h.id \in Layers /\ Token(h) = LayerHook(h.id) /\ h.id \in Chained /\ Mode[h.id] # "starter"
    BY <1>1, <1>2, HookFields, Shape DEF HookLive
  <2> QED BY <1>1, <1>2, <2>1 DEF HookLive, Still, Grows
<1>3. CASE h.t = "adopt"
  <2>1. h.id \in Layers /\ Token(h) = LayerHook(h.id) /\ Mode[h.id] = "promise"
    BY <1>1, <1>3, HookFields DEF HookLive
  <2>2. settled[Up[h.id]] /\ settled'[Up[h.id]] /\ result'[Up[h.id]] = result[Up[h.id]]
    BY <1>3, <2>1, Shape DEF HookLive, Grows
  <2> QED BY <1>1, <1>3, <2>1, <2>2 DEF HookLive, Still, Grows
<1>4. CASE h.t = "notice"
  <2>1. h.id \in Notices /\ Token(h) = NoticeHook(h.id)
    BY <1>1, <1>4, HookFields
  <2> QED BY <1>1, <1>4, <2>1 DEF HookLive, Still, Grows
<1> QED BY <1>1, <1>2, <1>3, <1>4, HookFields

\* The layer a live hook is registered on.
LEMMA HookOnLayer ==
    ASSUME NEW h, HookLive(h)
    PROVE  HookOn(h) \in Layers
<1>1. h \in Hooks
  BY DEF HookLive
<1>2. h.t \in {"layer", "adopt", "notice"} /\ (h.t = "notice" => h.id \in Notices)
  BY <1>1, HookFields
<1>3. h.t = "adopt" => h.id \in Layers /\ Mode[h.id] = "promise"
  BY <1>1, HookFields DEF HookLive
<1> QED BY <1>2, <1>3, Shape DEF HookLive, HookOn

\* A frame none of whose tokens the step holds stays as it is.
LEMMA FrameStays ==
    ASSUME NEW f, FrameOK(f), Grows, NEW X, Still(X), \A x \in X : ~Carries(f, x), created \subseteq Layers,
           joined \subseteq Notices
    PROVE  FrameOK(f)'
<1>1. CASE f.k \in {"run", "retry"}
  <2>1. LayerHook(f.l) \notin X /\ f.l \in Layers
    BY <1>1 DEF Carries, FrameOK, RunLive
  <2>2. f.l \in Chained => settled'[Up[f.l]] /\ result'[Up[f.l]] = result[Up[f.l]]
    BY <1>1, Shape DEF FrameOK, RunLive, Grows
  <2>3. RunLive(f)'
    BY <1>1, <2>1, <2>2 DEF FrameOK, RunLive, Grows, Still
  <2>4. f.todo = <<>> /\ 1..Len(f.todo) = {}
    BY <1>1 DEF FrameOK
  <2>5. f \in FrameType
    BY DEF FrameOK
  <2> QED BY <1>1, <2>3, <2>4, <2>5 DEF FrameOK
<1>2. CASE f.k = "settle"
  <2>1. f.l \in Layers /\ (Mode[f.l] # "starter" => LayerHook(f.l) \notin X)
    BY <1>2 DEF Carries, FrameOK
  <2>2. f.l \in Chained => Outcome(f.l, f.res)'
    BY <1>2, <2>1, OutcomeStays, Shape DEF FrameOK, Still
  <2>3. f.l \in created' /\ (Mode[f.l] # "starter" => ~settled'[f.l])
    BY <1>2, <2>1 DEF FrameOK, Grows, Still
  <2>4. f.todo = <<>> /\ 1..Len(f.todo) = {}
    BY <1>2 DEF FrameOK
  <2>5. f \in FrameType
    BY DEF FrameOK
  <2> QED BY <1>2, <2>2, <2>3, <2>4, <2>5 DEF FrameOK
<1>3. CASE f.k = "deliver"
  <2>1. f.l \in Notices /\ NoticeHook(f.l) \notin X
    BY <1>3 DEF Carries, FrameOK
  <2>2. settled'[Target[f.l]] /\ result'[Target[f.l]] = result[Target[f.l]]
    BY <1>3, <2>1, Shape DEF FrameOK, Grows
  <2>4. f.todo = <<>> /\ 1..Len(f.todo) = {}
    BY <1>3 DEF FrameOK
  <2>5. f \in FrameType
    BY DEF FrameOK
  <2> QED BY <1>3, <2>1, <2>2, <2>4, <2>5 DEF FrameOK, Grows, Still
<1>4. CASE f.k \in {"notify", "fire"}
  <2>1. ASSUME NEW i \in 1..Len(f.todo)
        PROVE  HookLive(f.todo[i])' /\ settled'[HookOn(f.todo[i])] /\ f.res = result'[HookOn(f.todo[i])]
    <3>1. PICK h : h = f.todo[i]
      OBVIOUS
    <3>2. HookLive(h) /\ settled[HookOn(h)] /\ f.res = result[HookOn(h)]
      BY <3>1 DEF FrameOK
    <3>3. Token(h) \notin X
      BY <3>1 DEF Carries
    <3>4. HookLive(h)'
      BY <3>2, <3>3, HookStays
    <3>5. settled'[HookOn(h)] /\ f.res = result'[HookOn(h)]
      BY <3>2, HookOnLayer DEF Grows
    <3> QED BY <3>1, <3>4, <3>5
  <2>2. f \in FrameType
    BY DEF FrameOK
  <2> QED BY <1>4, <2>1, <2>2 DEF FrameOK
<1>5. f.k \in {"run", "retry", "settle", "notify", "fire", "deliver"}
  BY DEF FrameOK, FrameType
<1> QED BY <1>1, <1>2, <1>3, <1>4, <1>5

-------------------------------------------------------------------------------
(* A step seen as a move: some frames and hooks are taken away, what is left *)
(* stays as it is, and new ones are put down whose tokens are nowhere else.  *)

\* Hooks hk, pool pl and stacks st are right in the state after the step.
After(hk, pl, st) ==
    /\ hk \in [Layers -> Seq(Hooks)] /\ pl \subseteq FrameType /\ st \in [Threads -> Seq(FrameType)]
    /\ Unique(hk, pl, st)
    /\ \A f \in FramesIn(pl, st) : FrameOK(f)'
    /\ \A u \in Layers : \A h \in HooksIn(hk, u) : HookLive(h)' /\ HookOn(h) = u

\* What the frames of a fire and of a settlement carry.
LEMMA CarriedTokens ==
    ASSUME NEW f, FrameOK(f), created \subseteq Layers, joined \subseteq Notices, NEW x, Carries(f, x)
    PROVE  x \in Tokens
<1>1. CASE f.k \in {"run", "retry", "settle"} /\ x = LayerHook(f.l)
  BY <1>1 DEF FrameOK, RunLive, Tokens
<1>2. CASE f.k = "deliver" /\ x = NoticeHook(f.l)
  BY <1>2 DEF FrameOK, Tokens
<1>3. CASE \E i \in 1..Len(f.todo) : Token(f.todo[i]) = x
  <2>1. PICK i \in 1..Len(f.todo) : Token(f.todo[i]) = x
    BY <1>3
  <2>2. f.todo[i] \in Hooks
    BY DEF FrameOK, HookLive
  <2> QED BY <2>1, <2>2, HookFields
<1> QED BY <1>1, <1>2, <1>3 DEF Carries

\* What is left of the frames and hooks stays as it is, if the step holds every
\* token of X.
LEMMA BaseAfter ==
    ASSUME ChainIInv, Grows, NEW X, Still(X),
           NEW hk \in [Layers -> Seq(Hooks)], NEW pl, NEW st \in [Threads -> Seq(FrameType)], Unique(hk, pl, st),
           pl \subseteq pool, FramesIn(pl, st) \subseteq FramesIn(pool, stack),
           \A u \in Layers : HooksIn(hk, u) \subseteq HooksIn(hooks, u),
           \A x \in X : Nowhere(x, hk, pl, st)
    PROVE  After(hk, pl, st)
<1>1. created \subseteq Layers /\ joined \subseteq Notices /\ pool \subseteq FrameType
  BY DEF ChainIInv, TypeOK, FramesOK
<1>2. ASSUME NEW f \in FramesIn(pl, st) PROVE FrameOK(f)'
  <2>1. FrameOK(f)
    BY DEF ChainIInv, FramesOK
  <2>2. \A x \in X : ~Carries(f, x)
    BY DEF Nowhere, FramesIn
  <2> QED BY <1>1, <2>1, <2>2, FrameStays
<1>3. ASSUME NEW u \in Layers, NEW h \in HooksIn(hk, u) PROVE HookLive(h)' /\ HookOn(h) = u
  <2>1. HookLive(h) /\ HookOn(h) = u
    BY DEF ChainIInv, HooksOK
  <2>2. Token(h) \notin X
    BY DEF Nowhere, HooksIn
  <2> QED BY <2>1, <2>2, HookStays
<1> QED BY <1>1, <1>2, <1>3 DEF After

\* A frame is in the pool or somewhere on a stack.
LEMMA InFrames ==
    ASSUME NEW pl, NEW st, NEW g
    PROVE  g \in FramesIn(pl, st) <=> g \in pl \/ \E q \in Threads : \E i \in 1..Len(st[q]) : g = st[q][i]
<1>1. g \in UNION {{st[q][i] : i \in 1..Len(st[q])} : q \in Threads}
        <=> \E q \in Threads : g \in {st[q][i] : i \in 1..Len(st[q])}
  OBVIOUS
<1> QED BY <1>1 DEF FramesIn

\* The frames of a stack, one more and one fewer.
LEMMA PushFrames ==
    ASSUME NEW pl, NEW st \in [Threads -> Seq(FrameType)], NEW p \in Threads, NEW f \in FrameType
    PROVE  \A g : g \in FramesIn(pl, Push(st, p, f)) <=> g \in FramesIn(pl, st) \/ g = f
<1> DEFINE new == Push(st, p, f)
<1>1. st[p] \in Seq(FrameType)
  OBVIOUS
<1>2. new[p] = <<f>> \o st[p] /\ \A q \in Threads : q # p => new[q] = st[q]
  BY DEF Push
<1>3. /\ 1 \in 1..Len(new[p]) /\ new[p][1] = f
      /\ \A i \in 1..Len(st[p]) : i + 1 \in 1..Len(new[p]) /\ new[p][i + 1] = st[p][i]
      /\ \A j \in 1..Len(new[p]) : j = 1 \/ (j - 1 \in 1..Len(st[p]) /\ new[p][j] = st[p][j - 1])
  <2>1. 1 \in 1..Len(<<f>> \o st[p])
    BY <1>1, PushedSeq
  <2> QED BY <1>1, <1>2, <2>1, PushedSeq
<1> HIDE DEF new
<1>4. ASSUME NEW g, g \in FramesIn(pl, new) PROVE g \in FramesIn(pl, st) \/ g = f
  <2>1. CASE g \in pl
    BY <2>1, InFrames
  <2>2. CASE \E q \in Threads : \E i \in 1..Len(new[q]) : g = new[q][i]
    <3>1. PICK q \in Threads : \E i \in 1..Len(new[q]) : g = new[q][i]
      BY <2>2
    <3>2. PICK i \in 1..Len(new[q]) : g = new[q][i]
      BY <3>1
    <3>3. g = f \/ \E j \in 1..Len(st[q]) : g = st[q][j]
      <4>1. CASE q = p
        <5>1. i = 1 \/ (i - 1 \in 1..Len(st[p]) /\ new[p][i] = st[p][i - 1])
          BY <1>3, <4>1
        <5> QED BY <1>3, <3>2, <4>1, <5>1
      <4>2. CASE q # p
        BY <1>2, <3>2, <4>2
      <4> QED BY <4>1, <4>2
    <3> QED BY <3>3, InFrames
  <2> QED BY <1>4, <2>1, <2>2, InFrames
<1>5. ASSUME NEW g, g \in FramesIn(pl, st) \/ g = f PROVE g \in FramesIn(pl, new)
  <2>1. CASE g \in FramesIn(pl, st)
    <3>1. CASE g \in pl
      BY <3>1, InFrames
    <3>2. CASE \E q \in Threads : \E i \in 1..Len(st[q]) : g = st[q][i]
      <4>1. PICK q \in Threads : \E i \in 1..Len(st[q]) : g = st[q][i]
        BY <3>2
      <4>2. PICK i \in 1..Len(st[q]) : g = st[q][i]
        BY <4>1
      <4>3. \E j \in 1..Len(new[q]) : g = new[q][j]
        BY <1>2, <1>3, <4>2, ZenonT(30)
      <4> QED BY <4>3, InFrames
    <3> QED BY <2>1, <3>1, <3>2, InFrames
  <2>2. CASE g = f
    BY <1>3, <2>2, InFrames
  <2> QED BY <1>5, <2>1, <2>2
<1> QED BY <1>4, <1>5 DEF new

\* Taking the newest activation off a stack removes that frame and no other.
LEMMA PopFrames ==
    ASSUME NEW pl, NEW st \in [Threads -> Seq(FrameType)], NEW p \in Threads, st[p] # <<>>
    PROVE  /\ FramesIn(pl, Pop(st, p)) \subseteq FramesIn(pl, st)
           /\ Head(st[p]) \in FramesIn(pl, st)
           /\ \A f : Push(Pop(st, p), p, f) = [st EXCEPT ![p] = <<f>> \o Tail(st[p])]
<1> DEFINE new == Pop(st, p)
<1>1. st[p] \in Seq(FrameType)
  OBVIOUS
<1>2. new[p] = Tail(st[p]) /\ \A q \in Threads : q # p => new[q] = st[q]
  BY DEF Pop
<1>3. /\ 1 \in 1..Len(st[p]) /\ Head(st[p]) = st[p][1]
      /\ \A i \in 1..Len(new[p]) : i + 1 \in 1..Len(st[p]) /\ new[p][i] = st[p][i + 1]
  BY <1>1, <1>2, PoppedSeq
<1>4. \A f : Push(new, p, f) = [st EXCEPT ![p] = <<f>> \o Tail(st[p])]
  BY DEF Push, Pop
<1> HIDE DEF new
<1>5. ASSUME NEW g \in FramesIn(pl, new) PROVE g \in FramesIn(pl, st)
  <2>1. CASE g \in pl
    BY <2>1, InFrames
  <2>2. CASE \E q \in Threads : \E i \in 1..Len(new[q]) : g = new[q][i]
    <3>1. PICK q \in Threads : \E i \in 1..Len(new[q]) : g = new[q][i]
      BY <2>2
    <3>2. PICK i \in 1..Len(new[q]) : g = new[q][i]
      BY <3>1
    <3>3. \E j \in 1..Len(st[q]) : g = st[q][j]
      BY <1>2, <1>3, <3>2, ZenonT(30)
    <3> QED BY <3>3, InFrames
  <2> QED BY <2>1, <2>2, InFrames
<1>6. Head(st[p]) \in FramesIn(pl, st)
  BY <1>3, InFrames
<1> QED BY <1>4, <1>5, <1>6 DEF new

\* A frame is put on top of a stack.
LEMMA PutPush ==
    ASSUME NEW hk, NEW pl, NEW st, NEW p \in Threads, NEW f, After(hk, pl, st), FrameOK(f)', OnceIn(f),
           \A x : Carries(f, x) => Nowhere(x, hk, pl, st)
    PROVE  /\ After(hk, pl, Push(st, p, f))
           /\ \A x : Nowhere(x, hk, pl, Push(st, p, f)) <=> Nowhere(x, hk, pl, st) /\ ~Carries(f, x)
<1>1. f \in FrameType
  BY DEF FrameOK
<1>2. st \in [Threads -> Seq(FrameType)] /\ Unique(hk, pl, st)
  BY DEF After
<1>3. /\ Push(st, p, f) \in [Threads -> Seq(FrameType)]
      /\ Unique(hk, pl, Push(st, p, f))
      /\ \A x : Nowhere(x, hk, pl, Push(st, p, f)) <=> Nowhere(x, hk, pl, st) /\ ~Carries(f, x)
  BY <1>1, <1>2, PushMoves
<1>4. \A g : g \in FramesIn(pl, Push(st, p, f)) <=> g \in FramesIn(pl, st) \/ g = f
  BY <1>1, <1>2, PushFrames
<1>5. \A g \in FramesIn(pl, Push(st, p, f)) : FrameOK(g)'
  BY <1>4 DEF After
<1> QED BY <1>3, <1>5 DEF After

\* A closure is given to the executor.
LEMMA PutPost ==
    ASSUME NEW hk, NEW pl, NEW st, NEW f, After(hk, pl, st), FrameOK(f)', OnceIn(f),
           \A x : Carries(f, x) => Nowhere(x, hk, pl, st)
    PROVE  /\ After(hk, pl \cup {f}, st)
           /\ \A x : Nowhere(x, hk, pl \cup {f}, st) <=> Nowhere(x, hk, pl, st) /\ ~Carries(f, x)
<1>1. f \in FrameType
  BY DEF FrameOK
<1>2. Unique(hk, pl, st)
  BY DEF After
<1>3. /\ Unique(hk, pl \cup {f}, st)
      /\ \A x : Nowhere(x, hk, pl \cup {f}, st) <=> Nowhere(x, hk, pl, st) /\ ~Carries(f, x)
  BY <1>2, PostMoves
<1>4. FramesIn(pl \cup {f}, st) = FramesIn(pl, st) \cup {f}
  BY DEF FramesIn
<1>5. \A g \in FramesIn(pl \cup {f}, st) : FrameOK(g)'
  BY <1>4 DEF After
<1> QED BY <1>1, <1>3, <1>5 DEF After

\* A hook is registered.
LEMMA PutHook ==
    ASSUME NEW hk, NEW pl, NEW st, NEW u \in Layers, NEW h, After(hk, pl, st), HookLive(h)',
           HookOn(h) = u, Nowhere(Token(h), hk, pl, st)
    PROVE  /\ After(Hooked(hk, u, h), pl, st)
           /\ \A x : Nowhere(x, Hooked(hk, u, h), pl, st)
                       <=> Nowhere(x, hk, pl, st) /\ x # Token(h)
<1>0. PICK new : new = Hooked(hk, u, h)
  OBVIOUS
<1>1. h \in Hooks
  BY DEF HookLive
<1>2. hk \in [Layers -> Seq(Hooks)] /\ Unique(hk, pl, st)
  BY DEF After
<1>3. /\ new \in [Layers -> Seq(Hooks)]
      /\ Unique(new, pl, st)
      /\ \A x : Nowhere(x, new, pl, st) <=> Nowhere(x, hk, pl, st) /\ x # Token(h)
      /\ \A v \in Layers : \A i \in 1..Len(new[v]) :
           (i \in 1..Len(hk[v]) /\ new[v][i] = hk[v][i]) \/ (v = u /\ new[v][i] = h)
  BY <1>0, <1>1, <1>2, HookMoves
<1>4. ASSUME NEW v \in Layers, NEW g \in HooksIn(new, v) PROVE HookLive(g)' /\ HookOn(g) = v
  <2>1. g \in HooksIn(hk, v) \/ (v = u /\ g = h)
    BY <1>3 DEF HooksIn
  <2> QED BY <2>1 DEF After
<1>5. After(new, pl, st)
  BY <1>3, <1>4 DEF After
<1> QED BY <1>0, <1>3, <1>5

\* Nothing is taken away.
LEMMA BaseSame ==
    ASSUME ChainIInv, Grows, NEW X, Still(X), \A x \in X : Nowhere(x, hooks, pool, stack)
    PROVE  After(hooks, pool, stack)
<1>1. /\ hooks \in [Layers -> Seq(Hooks)] /\ stack \in [Threads -> Seq(FrameType)]
      /\ Unique(hooks, pool, stack)
  BY DEF ChainIInv, HooksOK, FramesOK
<1>2. /\ pool \subseteq pool /\ FramesIn(pool, stack) \subseteq FramesIn(pool, stack)
      /\ \A u \in Layers : HooksIn(hooks, u) \subseteq HooksIn(hooks, u)
  OBVIOUS
<1> QED BY <1>1, <1>2, BaseAfter

\* The top frame of a thread is taken away.
LEMMA BasePop ==
    ASSUME ChainIInv, Grows, NEW X, X \subseteq Tokens, Still(X), NEW p \in Threads, ~Idle(p),
           \A x \in X : Nowhere(x, hooks, pool, stack) \/ Carries(Top(p), x)
    PROVE  After(hooks, pool, Pop(stack, p))
<1>1. /\ hooks \in [Layers -> Seq(Hooks)] /\ stack \in [Threads -> Seq(FrameType)]
      /\ Unique(hooks, pool, stack) /\ stack[p] # <<>>
  BY DEF ChainIInv, HooksOK, FramesOK, Idle
<1>2. /\ Pop(stack, p) \in [Threads -> Seq(FrameType)] /\ Unique(hooks, pool, Pop(stack, p))
      /\ \A x \in Tokens : Nowhere(x, hooks, pool, Pop(stack, p))
                             <=> Nowhere(x, hooks, pool, stack) \/ Carries(Head(stack[p]), x)
  BY <1>1, PopMoves
<1>3. FramesIn(pool, Pop(stack, p)) \subseteq FramesIn(pool, stack)
  BY <1>1, PopFrames
<1>4. /\ pool \subseteq pool /\ \A u \in Layers : HooksIn(hooks, u) \subseteq HooksIn(hooks, u)
  OBVIOUS
<1>5. \A x \in X : Nowhere(x, hooks, pool, Pop(stack, p))
  BY <1>2 DEF Top
<1> QED BY <1>1, <1>2, <1>3, <1>4, <1>5, BaseAfter

\* What is known of the top frame of a thread.
LEMMA TopFrame ==
    ASSUME ChainIInv, NEW p \in Threads, ~Idle(p)
    PROVE  /\ FrameOK(Top(p)) /\ OnceIn(Top(p)) /\ Top(p) \in FrameType
           /\ \A x : Carries(Top(p), x) => x \in Tokens
           /\ \A x \in Tokens : Nowhere(x, hooks, pool, Pop(stack, p))
                                  <=> Nowhere(x, hooks, pool, stack) \/ Carries(Top(p), x)
           /\ \A s : SetStack(p, s) /\ s = Rest(p) => stack' = Pop(stack, p)
           /\ \A f : SetStack(p, <<f>> \o Rest(p)) => stack' = Push(Pop(stack, p), p, f)
<1>1. /\ stack \in [Threads -> Seq(FrameType)] /\ Unique(hooks, pool, stack) /\ stack[p] # <<>>
      /\ stack[p] \in Seq(FrameType)
  BY DEF ChainIInv, FramesOK, Idle
<1>2. Top(p) \in FramesIn(pool, stack) /\ 1 \in 1..Len(stack[p]) /\ Top(p) = stack[p][1]
  BY <1>1, PopFrames, PoppedSeq DEF Top
<1>3. FrameOK(Top(p)) /\ OnceIn(Top(p))
  BY <1>2 DEF ChainIInv, FramesOK, Unique
<1>4. created \subseteq Layers /\ joined \subseteq Notices
  BY DEF ChainIInv, TypeOK
<1>5. \A x : Carries(Top(p), x) => x \in Tokens
  BY <1>3, <1>4, CarriedTokens
<1>6. \A x \in Tokens : Nowhere(x, hooks, pool, Pop(stack, p))
                          <=> Nowhere(x, hooks, pool, stack) \/ Carries(Top(p), x)
  BY <1>1, PopMoves DEF Top
<1>7. \A s : SetStack(p, s) /\ s = Rest(p) => stack' = Pop(stack, p)
  BY <1>1 DEF SetStack, Rest, Pop
<1>8. \A f : SetStack(p, <<f>> \o Rest(p)) => stack' = Push(Pop(stack, p), p, f)
  BY <1>1, PopFrames DEF SetStack, Rest
<1>9. Top(p) \in FrameType
  BY <1>3 DEF FrameOK
<1> QED BY <1>3, <1>5, <1>6, <1>7, <1>8, <1>9

\* Putting a frame on a thread that is outside the framework, or leaving it there.
LEMMA IdleStack ==
    ASSUME ChainIInv, NEW p \in Threads, Idle(p)
    PROVE  /\ SetStack(p, <<>>) => stack' = stack
           /\ \A f : <<f>> = <<f>> \o stack[p]
           /\ \A f : SetStack(p, <<f>>) => stack' = Push(stack, p, f)
<1>1. stack \in [Threads -> Seq(FrameType)] /\ stack[p] = <<>>
  BY DEF ChainIInv, FramesOK, Idle
<1>2. \A f : <<f>> = <<f>> \o stack[p]
  BY <1>1
<1>3. SetStack(p, <<>>) => stack' = stack
  BY <1>1 DEF SetStack
<1>4. \A f : SetStack(p, <<f>>) => stack' = Push(stack, p, f)
  BY <1>1, <1>2 DEF SetStack, Push
<1> QED BY <1>2, <1>3, <1>4

\* The other variables.
VarsOK ==
    /\ created \subseteq Layers /\ exposed \subseteq created /\ joined \subseteq Notices
    /\ settled \in [Layers -> BOOLEAN] /\ bStopped \in BOOLEAN
    /\ result \in [Layers -> Results]
    /\ aw \in [Awaiters -> {"none", "waiting", "woken", "returned", "timeout"}]
    /\ got \in [Awaiters -> Results]
    /\ tries \in [Layers -> Nat]
    /\ own \in [Layers -> {"none", "ok", "err", "throw"}]
    /\ delivered \in [Notices -> Seq(Results)]
    /\ \A l \in exposed : Mode[l] = "starter"
    /\ \A l \in Layers : settled[l] => l \in created /\ hooks[l] = <<>>
    /\ \A a \in Awaiters : aw[a] = "returned" => settled[Awaited[a]] /\ got[a] = result[Awaited[a]]

\* The layers and notices of X after the step: settled or called as they should
\* be, or still under way; and no other token is lost.
Accounted(X) ==
    /\ \A l \in Layers : LayerHook(l) \in X =>
         /\ l \in created' /\ tries'[l] <= 2
         /\ Mode[l] # "starter" => settled'[l] \/ ~Nowhere(LayerHook(l), hooks', pool', stack')
         /\ l \in Chained /\ settled'[l] => \A r \in Results : result'[l] = r => Outcome(l, r)'
    /\ \A n \in Notices : NoticeHook(n) \in X =>
         /\ n \in joined'
         /\ \/ delivered'[n] = <<>> /\ ~Nowhere(NoticeHook(n), hooks', pool', stack')
            \/ settled'[Target[n]] /\ delivered'[n] = <<result'[Target[n]]>>
    /\ \A l \in created' : l \in created \/ LayerHook(l) \in X
    /\ \A n \in joined' : n \in joined \/ NoticeHook(n) \in X
    /\ \A x \in Tokens : Nowhere(x, hooks', pool', stack') => Nowhere(x, hooks, pool, stack) \/ x \in X

\* A step that holds the tokens of X and accounts for them keeps the invariant.
LEMMA Step ==
    ASSUME ChainIInv, VarsOK', Grows, NEW X, Still(X), After(hooks', pool', stack'), Accounted(X)
    PROVE  ChainIInv'
<1>1. FramesOK' /\ HooksOK' /\ Unique(hooks, pool, stack)'
  <2>1. FramesOK'
    BY DEF After, FramesOK
  <2>2. HooksOK'
    BY DEF After, HooksOK
  <2>3. Unique(hooks', pool', stack')
    BY DEF After
  <2> QED BY <2>1, <2>2, <2>3
<1>2. TypeOK'
  <2>1. ASSUME NEW l \in Layers, NEW i \in 1..Len(hooks'[l]) PROVE hooks'[l][i] \in Hooks
    BY <1>1 DEF HooksOK
  <2> QED BY <2>1 DEF TypeOK, VarsOK
<1>3. SettledOK'
  <2>1. ASSUME NEW l \in Layers PROVE tries'[l] <= 2
    BY DEF Still, Accounted, ChainIInv, SettledOK
  <2>2. ASSUME NEW l \in Chained, NEW r \in Results, settled'[l], result'[l] = r PROVE Outcome(l, r)'
    <3>1. l \in Layers /\ Mode[l] # "starter"
      BY Shape
    <3>2. CASE LayerHook(l) \in X
      BY <2>2, <3>1, <3>2 DEF Accounted
    <3>3. CASE LayerHook(l) \notin X
      <4>1. settled[l] /\ result[l] = r
        BY <2>2, <3>1, <3>3 DEF Still, Grows
      <4>2. Outcome(l, r)
        BY <4>1 DEF ChainIInv, SettledOK
      <4> QED BY <3>1, <3>3, <4>2, OutcomeStays DEF Still
    <3> QED BY <3>2, <3>3
  <2> QED BY <2>1, <2>2 DEF SettledOK
<1>4. ObserversExact'
  <2>1. ASSUME NEW n \in Notices, delivered'[n] # <<>>
        PROVE  settled'[Target[n]] /\ delivered'[n] = <<result'[Target[n]]>>
    <3>1. CASE NoticeHook(n) \in X
      BY <2>1, <3>1 DEF Accounted
    <3>2. CASE NoticeHook(n) \notin X
      <4>1. delivered'[n] = delivered[n] /\ Target[n] \in Layers
        BY <3>2, Shape DEF Still
      <4>2. settled[Target[n]] /\ delivered[n] = <<result[Target[n]]>>
        BY <2>1, <4>1 DEF ChainIInv, ObserversExact
      <4> QED BY <4>1, <4>2 DEF Grows
    <3> QED BY <3>1, <3>2
  <2> QED BY <2>1 DEF ObserversExact, VarsOK
<1>5. NoPast'
  <2>1. ASSUME NEW l \in Layers, l \notin created'
        PROVE  ~settled'[l] /\ tries'[l] = 0 /\ own'[l] = "none"
    <3>1. LayerHook(l) \notin X /\ l \notin created
      BY <2>1 DEF Accounted, Grows
    <3>2. tries'[l] = 0 /\ own'[l] = "none" /\ ~settled[l]
      BY <3>1 DEF Still, ChainIInv, NoPast
    <3>3. ~settled'[l]
      BY <2>1 DEF VarsOK
    <3> QED BY <3>2, <3>3
  <2>2. ASSUME NEW n \in Notices, n \notin joined' PROVE delivered'[n] = <<>>
    BY <2>2 DEF Accounted, Grows, Still, ChainIInv, NoPast
  <2> QED BY <2>1, <2>2 DEF NoPast, VarsOK
<1>6. NotLost'
  <2>1. ASSUME NEW l \in created', Mode[l] # "starter"
        PROVE  settled'[l] \/ ~Nowhere(LayerHook(l), hooks', pool', stack')
    <3>1. l \in Layers /\ LayerHook(l) \in Tokens
      BY DEF VarsOK, Tokens
    <3>2. CASE LayerHook(l) \in X
      BY <2>1, <3>1, <3>2 DEF Accounted
    <3>3. CASE LayerHook(l) \notin X
      BY <2>1, <3>1, <3>3 DEF Accounted, ChainIInv, NotLost, Grows
    <3> QED BY <3>2, <3>3
  <2>2. ASSUME NEW n \in joined' PROVE delivered'[n] # <<>> \/ ~Nowhere(NoticeHook(n), hooks', pool', stack')
    <3>1. n \in Notices /\ NoticeHook(n) \in Tokens
      BY DEF VarsOK, Tokens
    <3>2. CASE NoticeHook(n) \in X
      <4>1. \A r : <<r>> # <<>>
        OBVIOUS
      <4> QED BY <3>1, <3>2, <4>1 DEF Accounted
    <3>3. CASE NoticeHook(n) \notin X
      BY <3>1, <3>3 DEF Accounted, ChainIInv, NotLost, Still
    <3> QED BY <3>2, <3>3
  <2> QED BY <2>1, <2>2 DEF NotLost
<1> QED BY <1>1, <1>2, <1>3, <1>4, <1>5, <1>6 DEF ChainIInv

\* The invariant says as much of the other variables.
LEMMA VarsKnown ==
    ASSUME ChainIInv
    PROVE  VarsOK
  BY DEF ChainIInv, TypeOK, NoPast, ObserversExact, VarsOK

\* A layer that does not exist, or a notice that was not registered, has no token.
LEMMA NewTokens ==
    ASSUME ChainIInv
    PROVE  /\ \A l \in Layers \ created : Nowhere(LayerHook(l), hooks, pool, stack)
           /\ \A n \in Notices \ joined : Nowhere(NoticeHook(n), hooks, pool, stack)
<1>1. ASSUME NEW h, HookLive(h)
      PROVE  /\ \A l \in Layers \ created : Token(h) # LayerHook(l)
             /\ \A n \in Notices \ joined : Token(h) # NoticeHook(n)
  <2>1. h \in Hooks
    BY <1>1 DEF HookLive
  <2>2. h.t # "notice" => h.id \in created /\ Token(h) = LayerHook(h.id)
    BY <1>1, <2>1, HookFields DEF HookLive
  <2>3. h.t = "notice" => h.id \in joined /\ Token(h) = NoticeHook(h.id)
    BY <1>1, <2>1, HookFields DEF HookLive
  <2> QED BY <2>2, <2>3, HookFields
<1>2. ASSUME NEW f, FrameOK(f)
      PROVE  /\ \A l \in Layers \ created : ~Carries(f, LayerHook(l))
             /\ \A n \in Notices \ joined : ~Carries(f, NoticeHook(n))
  <2>1. f.k \in {"run", "retry", "settle"} => f.l \in created
    BY <1>2 DEF FrameOK, RunLive
  <2>2. f.k = "deliver" => f.l \in joined
    BY <1>2 DEF FrameOK
  <2>3. \A i \in 1..Len(f.todo) : HookLive(f.todo[i])
    BY <1>2 DEF FrameOK
  <2> QED BY <1>1, <2>1, <2>2, <2>3, HookFields DEF Carries
<1>3. \A f \in FramesIn(pool, stack) : FrameOK(f)
  BY DEF ChainIInv, FramesOK
<1>4. \A f \in pool : FrameOK(f)
  BY <1>3, InFrames
<1>5. \A p \in Threads : \A i \in 1..Len(stack[p]) : FrameOK(stack[p][i])
  BY <1>3, InFrames
<1>6. \A u \in Layers : \A i \in 1..Len(hooks[u]) : HookLive(hooks[u][i])
  BY DEF ChainIInv, HooksOK, HooksIn
<1> QED BY <1>1, <1>2, <1>4, <1>5, <1>6 DEF Nowhere

-------------------------------------------------------------------------------
(* The two ways of going on: registering a hook, dispatching a layer. *)

\* What the frames that are put down carry.
LEMMA Carried ==
    /\ \A l, r, b, x : Carries(RunFrame(l, r, b), x) <=> x = LayerHook(l)
    /\ \A l, r, x : Carries(SettleFrame(l, r), x) <=> Mode[l] # "starter" /\ x = LayerHook(l)
    /\ \A h, r, b, x : Carries(FireFrame(h, r, b), x) <=> x = Token(h)
    /\ \A n, r, x : Carries(Frame("deliver", n, r, <<>>, FALSE), x) <=> x = NoticeHook(n)
    /\ \A l, r, b : OnceIn(RunFrame(l, r, b))
    /\ \A l, r : OnceIn(SettleFrame(l, r))
    /\ \A h, r, b : OnceIn(FireFrame(h, r, b))
    /\ \A n, r : OnceIn(Frame("deliver", n, r, <<>>, FALSE))
<1>1. 1..Len(<<>>) = {}
  OBVIOUS
<1>2. \A h : 1..Len(<<h>>) = {1} /\ <<h>>[1] = h
  OBVIOUS
<1>3. \A k, l, r, td, b : LET f == Frame(k, l, r, td, b) IN
        f.k = k /\ f.l = l /\ f.res = r /\ f.todo = td /\ f.inl = b
  BY DEF Frame
<1>4. \A l, r, b, x : Carries(RunFrame(l, r, b), x) <=> x = LayerHook(l)
  BY <1>1, <1>3 DEF Carries, RunFrame
<1>5. /\ \A l, r, x : Carries(SettleFrame(l, r), x) <=> Mode[l] # "starter" /\ x = LayerHook(l)
      /\ \A l, r : OnceIn(SettleFrame(l, r))
  <2> SUFFICES ASSUME NEW l, NEW r, NEW x
               PROVE  /\ Carries(SettleFrame(l, r), x) <=> Mode[l] # "starter" /\ x = LayerHook(l)
                      /\ OnceIn(SettleFrame(l, r))
    OBVIOUS
  <2>1. PICK f : f = SettleFrame(l, r)
    OBVIOUS
  <2>2. f.k = "settle" /\ f.l = l /\ f.todo = <<>>
    BY <2>1 DEF SettleFrame, Frame
  <2>3. (Carries(f, x) <=> Mode[l] # "starter" /\ x = LayerHook(l)) /\ OnceIn(f)
    BY <1>1, <2>2 DEF Carries, OnceIn
  <2> QED BY <2>1, <2>3
<1>6. \A h, r, b, x : Carries(FireFrame(h, r, b), x) <=> x = Token(h)
  BY <1>2, <1>3 DEF Carries, FireFrame
<1>7. /\ \A n, r, x : Carries(Frame("deliver", n, r, <<>>, FALSE), x) <=> x = NoticeHook(n)
      /\ \A n, r : OnceIn(Frame("deliver", n, r, <<>>, FALSE))
  <2> SUFFICES ASSUME NEW n, NEW r, NEW x
               PROVE  /\ Carries(Frame("deliver", n, r, <<>>, FALSE), x) <=> x = NoticeHook(n)
                      /\ OnceIn(Frame("deliver", n, r, <<>>, FALSE))
    OBVIOUS
  <2>1. PICK f : f = Frame("deliver", n, r, <<>>, FALSE)
    OBVIOUS
  <2>2. f.k = "deliver" /\ f.l = n /\ f.todo = <<>>
    BY <2>1 DEF Frame
  <2>3. (Carries(f, x) <=> x = NoticeHook(n)) /\ OnceIn(f)
    BY <1>1, <2>2 DEF Carries, OnceIn
  <2> QED BY <2>1, <2>3
<1>8. \A l, r, b : OnceIn(RunFrame(l, r, b))
  BY <1>1, <1>3 DEF OnceIn, RunFrame
<1>9. \A h, r, b : OnceIn(FireFrame(h, r, b))
  BY <1>2, <1>3 DEF OnceIn, FireFrame
<1> QED BY <1>4, <1>5, <1>6, <1>7, <1>8, <1>9

\* The frames that are put down, in the state after the step.
LEMMA RunOK ==
    ASSUME NEW l \in Layers, NEW r \in Results, NEW b \in BOOLEAN,
           (l \in created /\ own[l] = "none" /\ tries[l] = 0 /\ (Mode[l] # "starter" => ~settled[l]))',
           (l \in Chained => settled[Up[l]] /\ r = result[Up[l]] /\ ~Skipped(l, r))'
    PROVE  FrameOK(RunFrame(l, r, b))'
<1>1. PICK f : f = RunFrame(l, r, b)
  OBVIOUS
<1>2. f \in FrameType /\ f.k = "run" /\ f.l = l /\ f.res = r /\ f.todo = <<>>
  BY <1>1 DEF FrameType, RunFrame, Frame
<1>3. 1..Len(f.todo) = {}
  BY <1>2
<1>4. RunLive(f)'
  BY <1>2 DEF RunLive
<1>5. FrameOK(f)'
  BY <1>2, <1>3, <1>4 DEF FrameOK
<1> QED BY <1>1, <1>5

\* What a settlement (SetOnce with its hooks taken) leaves behind is well formed.
LEMMA SettleOK ==
    ASSUME NEW l \in Layers, NEW r \in Results,
           (l \in created /\ (Mode[l] # "starter" => ~settled[l]))', l \in Chained => Outcome(l, r)'
    PROVE  FrameOK(SettleFrame(l, r))'
<1>1. PICK f : f = SettleFrame(l, r)
  OBVIOUS
<1>2. f \in FrameType /\ f.k = "settle" /\ f.l = l /\ f.res = r /\ f.todo = <<>>
  BY <1>1 DEF FrameType, SettleFrame, Frame
<1>3. 1..Len(f.todo) = {}
  BY <1>2
<1>5. FrameOK(f)'
  BY <1>2, <1>3 DEF FrameOK
<1> QED BY <1>1, <1>5

\* Firing the next hook of a settlement leaves well-formed frames and hooks.
LEMMA FireOK ==
    ASSUME NEW h, NEW r \in Results, NEW b \in BOOLEAN, HookLive(h)',
           settled'[HookOn(h)], r = result'[HookOn(h)]
    PROVE  FrameOK(FireFrame(h, r, b))'
<1>1. PICK f : f = FireFrame(h, r, b)
  OBVIOUS
<1>2. h \in Hooks /\ <<h>> \in Seq(Hooks) /\ 1..Len(<<h>>) = {1} /\ <<h>>[1] = h
  BY DEF HookLive
<1>3. f \in FrameType /\ f.k = "fire" /\ f.res = r /\ f.todo = <<h>>
  BY <1>1, <1>2 DEF FrameType, FireFrame, Frame
<1>4. \A i \in 1..Len(f.todo) : f.todo[i] = h
  BY <1>2, <1>3
<1>5. FrameOK(f)'
  BY <1>3, <1>4 DEF FrameOK
<1> QED BY <1>1, <1>5

\* What p's stack becomes when base is left of it: the stacks of st0, or these
\* with one more frame on top.
Leaves(p, base, st0) ==
    /\ SetStack(p, base) => stack' = st0
    /\ \A f : SetStack(p, <<f>> \o base) => stack' = Push(st0, p, f)

\* A registration puts the hook's token down, whatever becomes of the hook.
LEMMA RegisterPuts ==
    ASSUME VarsOK, UNCHANGED <<settled, result, bStopped>>, NEW p \in Threads, NEW base, NEW st0,
           After(hooks, pool, st0), Leaves(p, base, st0), NEW u \in Layers, NEW h, HookLive(h)', HookOn(h) = u,
           Nowhere(Token(h), hooks, pool, st0), Register(p, base, u, h)
    PROVE  /\ After(hooks', pool', stack')
           /\ \A x : Nowhere(x, hooks', pool', stack') => Nowhere(x, hooks, pool, st0)
           /\ ~Nowhere(Token(h), hooks', pool', stack')
           /\ \A l \in Layers : settled[l] => hooks'[l] = hooks[l]
<1>1. /\ h \in Hooks /\ Stopped \in Results
      /\ settled \in [Layers -> BOOLEAN] /\ result \in [Layers -> Results] /\ result[u] \in Results
  BY DEF HookLive, Results, VarsOK
<1>2. CASE ~settled[u] /\ hooks' = [hooks EXCEPT ![u] = Append(@, h)] /\ SetStack(p, base) /\ pool' = pool
  <2>1. stack' = st0 /\ hooks' = Hooked(hooks, u, h)
    BY <1>2 DEF Leaves, Hooked
  <2>2. /\ After(Hooked(hooks, u, h), pool, st0)
        /\ \A x : Nowhere(x, Hooked(hooks, u, h), pool, st0) <=> Nowhere(x, hooks, pool, st0) /\ x # Token(h)
    BY PutHook
  <2>3. \A l \in Layers : settled[l] => hooks'[l] = hooks[l]
    <3>1. hooks \in [Layers -> Seq(Hooks)]
      BY DEF After
    <3> QED BY <1>2, <3>1
  <2> QED BY <1>2, <2>1, <2>2, <2>3
<1>3. CASE /\ settled[u] /\ pool' = pool \cup {FireFrame(h, result[u], FALSE)}
           /\ SetStack(p, base) /\ hooks' = hooks
  <2>1. PICK f : f = FireFrame(h, result[u], FALSE)
    OBVIOUS
  <2>2. PICK r : r = result[u]
    OBVIOUS
  <2>3. FrameOK(FireFrame(h, r, FALSE))'
    <3>1. settled'[HookOn(h)] /\ r = result'[HookOn(h)] /\ r \in Results /\ FALSE \in BOOLEAN
      BY <1>1, <1>3, <2>2
    <3> QED BY <3>1, FireOK
  <2>4. f = FireFrame(h, r, FALSE)
    BY <2>1, <2>2
  <2>5. FrameOK(f)' /\ OnceIn(f) /\ \A x : Carries(f, x) <=> x = Token(h)
    BY <2>3, <2>4, Carried
  <2>6. /\ After(hooks, pool \cup {f}, st0)
        /\ \A x : Nowhere(x, hooks, pool \cup {f}, st0) <=> Nowhere(x, hooks, pool, st0) /\ ~Carries(f, x)
    BY <2>5, PutPost
  <2>7. stack' = st0 /\ pool' = pool \cup {f} /\ hooks' = hooks
    BY <1>3, <2>1 DEF Leaves
  <2> QED BY <2>5, <2>6, <2>7
<1>4. CASE /\ settled[u] /\ bStopped /\ h.t = "layer" /\ SetStack(p, <<SettleFrame(h.id, Stopped)>> \o base)
           /\ hooks' = hooks /\ pool' = pool
  <2>1. h.id \in Layers /\ Token(h) = LayerHook(h.id)
    BY <1>1, <1>4, HookFields
  <2>2. /\ h.id \in created' /\ h.id \in Chained /\ ~settled'[h.id] /\ own'[h.id] = "none"
    BY <1>4 DEF HookLive
  <2>3. HookOn(h) = Up[h.id] /\ Mode[h.id] # "starter"
    BY <1>4, <2>2, Shape DEF HookOn
  <2>4. PICK l \in Layers : l = h.id
    BY <2>1
  <2>5. Outcome(l, Stopped)'
    BY <1>4, <2>2, <2>3, <2>4 DEF Outcome
  <2>6. FrameOK(SettleFrame(l, Stopped))'
    BY <1>1, <2>2, <2>4, <2>5, SettleOK
  <2>7. PICK f : f = SettleFrame(l, Stopped)
    OBVIOUS
  <2>8. FrameOK(f)' /\ OnceIn(f) /\ \A x : Carries(f, x) <=> x = Token(h)
    BY <2>1, <2>3, <2>4, <2>6, <2>7, Carried
  <2>9. /\ After(hooks, pool, Push(st0, p, f))
        /\ \A x : Nowhere(x, hooks, pool, Push(st0, p, f)) <=> Nowhere(x, hooks, pool, st0) /\ ~Carries(f, x)
    BY <2>8, PutPush
  <2>10. stack' = Push(st0, p, f)
    BY <1>4, <2>4, <2>7 DEF Leaves
  <2> QED BY <1>4, <2>8, <2>9, <2>10
<1>5. CASE /\ settled[u] /\ SetStack(p, <<FireFrame(h, result[u], TRUE)>> \o base)
           /\ hooks' = hooks /\ pool' = pool
  <2>1. PICK f : f = FireFrame(h, result[u], TRUE)
    OBVIOUS
  <2>2. PICK r : r = result[u]
    OBVIOUS
  <2>3. FrameOK(FireFrame(h, r, TRUE))'
    <3>1. settled'[HookOn(h)] /\ r = result'[HookOn(h)] /\ r \in Results /\ TRUE \in BOOLEAN
      BY <1>1, <1>5, <2>2
    <3> QED BY <3>1, FireOK
  <2>4. f = FireFrame(h, r, TRUE)
    BY <2>1, <2>2
  <2>5. FrameOK(f)' /\ OnceIn(f) /\ \A x : Carries(f, x) <=> x = Token(h)
    BY <2>3, <2>4, Carried
  <2>6. /\ After(hooks, pool, Push(st0, p, f))
        /\ \A x : Nowhere(x, hooks, pool, Push(st0, p, f)) <=> Nowhere(x, hooks, pool, st0) /\ ~Carries(f, x)
    BY <2>5, PutPush
  <2>7. stack' = Push(st0, p, f)
    BY <1>5, <2>1 DEF Leaves
  <2> QED BY <1>5, <2>5, <2>6, <2>7
<1> QED BY <1>2, <1>3, <1>4, <1>5 DEF Register

\* A dispatched layer's token is put down, in place, in the pool or, refused, as
\* a settlement (which for a starter layer carries none).
LEMMA DispatchPuts ==
    ASSUME UNCHANGED <<hooks, bStopped>>, NEW p \in Threads, NEW base, NEW st0,
           After(hooks, pool, st0), Leaves(p, base, st0), NEW l \in Layers, NEW r \in Results,
           (l \in created /\ own[l] = "none" /\ tries[l] = 0 /\ (Mode[l] # "starter" => ~settled[l]))',
           (l \in Chained => settled[Up[l]] /\ r = result[Up[l]] /\ ~Skipped(l, r))',
           Nowhere(LayerHook(l), hooks, pool, st0), DispatchInlineOrPost(p, base, l, r)
    PROVE  /\ After(hooks', pool', stack')
           /\ \A x : Nowhere(x, hooks', pool', stack') => Nowhere(x, hooks, pool, st0)
           /\ Mode[l] # "starter" => ~Nowhere(LayerHook(l), hooks', pool', stack')
<1>1. CASE SetStack(p, <<RunFrame(l, r, TRUE)>> \o base) /\ pool' = pool
  <2>1. PICK f : f = RunFrame(l, r, TRUE)
    OBVIOUS
  <2>2. FrameOK(f)' /\ OnceIn(f) /\ \A x : Carries(f, x) <=> x = LayerHook(l)
    <3>1. FrameOK(RunFrame(l, r, TRUE))'
      BY RunOK
    <3> QED BY <2>1, <3>1, Carried
  <2>3. /\ After(hooks, pool, Push(st0, p, f))
        /\ \A x : Nowhere(x, hooks, pool, Push(st0, p, f)) <=> Nowhere(x, hooks, pool, st0) /\ ~Carries(f, x)
    BY <2>2, PutPush
  <2>4. stack' = Push(st0, p, f)
    BY <1>1, <2>1 DEF Leaves
  <2> QED BY <1>1, <2>2, <2>3, <2>4
<1>2. CASE SetStack(p, base) /\ pool' = pool \cup {RunFrame(l, r, FALSE)}
  <2>1. PICK f : f = RunFrame(l, r, FALSE)
    OBVIOUS
  <2>2. FrameOK(f)' /\ OnceIn(f) /\ \A x : Carries(f, x) <=> x = LayerHook(l)
    <3>1. FrameOK(RunFrame(l, r, FALSE))'
      BY RunOK
    <3> QED BY <2>1, <3>1, Carried
  <2>3. /\ After(hooks, pool \cup {f}, st0)
        /\ \A x : Nowhere(x, hooks, pool \cup {f}, st0) <=> Nowhere(x, hooks, pool, st0) /\ ~Carries(f, x)
    BY <2>2, PutPost
  <2>4. stack' = st0 /\ pool' = pool \cup {f}
    BY <1>2, <2>1 DEF Leaves
  <2> QED BY <2>2, <2>3, <2>4
<1>3. CASE bStopped /\ SetStack(p, <<SettleFrame(l, Stopped)>> \o base) /\ pool' = pool
  <2>1. PICK f : f = SettleFrame(l, Stopped)
    OBVIOUS
  <2>2. l \in Chained => Outcome(l, Stopped)'
    BY <1>3 DEF Outcome
  <2>3. FrameOK(f)' /\ OnceIn(f) /\ \A x : Carries(f, x) <=> Mode[l] # "starter" /\ x = LayerHook(l)
    <3>1. Stopped \in Results
      BY DEF Results
    <3>2. FrameOK(SettleFrame(l, Stopped))'
      BY <2>2, <3>1, SettleOK
    <3> QED BY <2>1, <3>2, Carried
  <2>4. /\ After(hooks, pool, Push(st0, p, f))
        /\ \A x : Nowhere(x, hooks, pool, Push(st0, p, f)) <=> Nowhere(x, hooks, pool, st0) /\ ~Carries(f, x)
    BY <2>3, PutPush
  <2>5. stack' = Push(st0, p, f)
    BY <1>3, <2>1 DEF Leaves
  <2> QED BY <1>3, <2>3, <2>4, <2>5
<1> QED BY <1>1, <1>2, <1>3 DEF DispatchInlineOrPost

\* The three bases the actions use: an idle thread, the frames below the top one,
\* the whole stack.
LEMMA Bases ==
    ASSUME ChainIInv, NEW p \in Threads
    PROVE  /\ Idle(p) => Leaves(p, <<>>, stack)
           /\ ~Idle(p) => Leaves(p, Rest(p), Pop(stack, p))
           /\ Leaves(p, stack[p], stack)
<1>1. ASSUME Idle(p) PROVE Leaves(p, <<>>, stack)
  <2>1. \A f : <<f>> \o <<>> = <<f>>
    BY <1>1, IdleStack DEF Idle
  <2> QED BY <1>1, <2>1, IdleStack DEF Leaves
<1>2. ASSUME ~Idle(p) PROVE Leaves(p, Rest(p), Pop(stack, p))
  BY <1>2, TopFrame DEF Leaves
<1>3. Leaves(p, stack[p], stack)
  <2>1. stack \in [Threads -> Seq(FrameType)]
    BY DEF ChainIInv, FramesOK
  <2> QED BY <2>1 DEF Leaves, SetStack, Push
<1> QED BY <1>1, <1>2, <1>3

-------------------------------------------------------------------------------
(* The actions of a caller. *)

\* Then, Catch, Finally, ThenPromise.
LEMMA AppendLayerKeeps ==
    ASSUME ChainIInv, NEW p \in Threads, NEW l \in Layers, AppendLayer(p, l)
    PROVE  ChainIInv'
<1> DEFINE X == {LayerHook(l)}
<1>1. /\ l \in Chained /\ l \notin created /\ Up[l] \in created /\ Up[l] \in Layers
      /\ Mode[l] # "starter" /\ VarsOK
  BY VarsKnown, Shape DEF AppendLayer
<1>2. Grows /\ Still(X)
  BY DEF AppendLayer, Grows, Still
<1>3. Nowhere(LayerHook(l), hooks, pool, stack)
  BY <1>1, NewTokens
<1>4. After(hooks, pool, stack)
  BY <1>2, <1>3, BaseSame
<1>5. HookLive(LayerHook(l))'
  <2>1. LayerHook(l) \in Hooks /\ LayerHook(l).t = "layer" /\ LayerHook(l).id = l
    BY HookFields DEF Hooks
  <2>2. ~settled'[l] /\ tries'[l] = 0 /\ own'[l] = "none" /\ l \in created'
    BY <1>1 DEF AppendLayer, ChainIInv, NoPast
  <2> QED BY <1>1, <2>1, <2>2 DEF HookLive
<1>6. HookOn(LayerHook(l)) = Up[l] /\ Token(LayerHook(l)) = LayerHook(l)
  BY HookFields DEF HookOn
<1>7. Leaves(p, <<>>, stack)
  BY Bases DEF AppendLayer
<1>8. Register(p, <<>>, Up[l], LayerHook(l)) /\ UNCHANGED <<settled, result, bStopped>>
  BY DEF AppendLayer
<1>9. /\ After(hooks', pool', stack')
      /\ \A x : Nowhere(x, hooks', pool', stack') => Nowhere(x, hooks, pool, stack)
      /\ ~Nowhere(LayerHook(l), hooks', pool', stack')
      /\ \A m \in Layers : settled[m] => hooks'[m] = hooks[m]
  BY <1>1, <1>3, <1>4, <1>5, <1>6, <1>7, <1>8, RegisterPuts
<1>10. VarsOK'
  BY <1>1, <1>9 DEF AppendLayer, VarsOK
<1>11. Accounted(X)
  <2>1. ~settled'[l] /\ tries'[l] <= 2 /\ l \in created' /\ created' = created \cup {l} /\ joined' = joined
    BY <1>1 DEF AppendLayer, ChainIInv, NoPast
  <2> QED BY <1>9, <2>1, HookFields DEF Accounted
<1> QED BY <1>2, <1>9, <1>10, <1>11, Step

\* OnSettled, OnSettledOn.
LEMMA OnSettledKeeps ==
    ASSUME ChainIInv, NEW p \in Threads, NEW n \in Notices, OnSettled(p, n)
    PROVE  ChainIInv'
<1> DEFINE X == {NoticeHook(n)}
<1>1. n \notin joined /\ Target[n] \in Layers /\ VarsOK
  BY VarsKnown, Shape DEF OnSettled
<1>2. Grows /\ Still(X)
  BY DEF OnSettled, Grows, Still
<1>3. Nowhere(NoticeHook(n), hooks, pool, stack)
  BY <1>1, NewTokens
<1>4. After(hooks, pool, stack)
  BY <1>2, <1>3, BaseSame
<1>5. HookLive(NoticeHook(n))'
  <2>1. NoticeHook(n) \in Hooks /\ NoticeHook(n).t = "notice" /\ NoticeHook(n).id = n
    BY HookFields DEF Hooks
  <2>2. delivered'[n] = <<>> /\ n \in joined'
    BY <1>1 DEF OnSettled, ChainIInv, NoPast
  <2> QED BY <2>1, <2>2 DEF HookLive
<1>6. HookOn(NoticeHook(n)) = Target[n] /\ Token(NoticeHook(n)) = NoticeHook(n)
  BY HookFields DEF HookOn
<1>7. Leaves(p, <<>>, stack)
  BY Bases DEF OnSettled
<1>8. Register(p, <<>>, Target[n], NoticeHook(n)) /\ UNCHANGED <<settled, result, bStopped>>
  BY DEF OnSettled
<1>9. /\ After(hooks', pool', stack')
      /\ \A x : Nowhere(x, hooks', pool', stack') => Nowhere(x, hooks, pool, stack)
      /\ ~Nowhere(NoticeHook(n), hooks', pool', stack')
      /\ \A m \in Layers : settled[m] => hooks'[m] = hooks[m]
  BY <1>1, <1>3, <1>4, <1>5, <1>6, <1>7, <1>8, RegisterPuts
<1>10. VarsOK'
  BY <1>1, <1>9 DEF OnSettled, VarsOK
<1>11. Accounted(X)
  <2>1. delivered'[n] = <<>> /\ created' = created /\ joined' = joined \cup {n}
    BY <1>1 DEF OnSettled, ChainIInv, NoPast
  <2> QED BY <1>9, <2>1, HookFields DEF Accounted
<1> QED BY <1>2, <1>9, <1>10, <1>11, Step

\* Creating a root layer, once its token is put down.
LEMMA RootKeeps ==
    ASSUME ChainIInv, NEW l \in Roots, l \notin created, created' = created \cup {l},
           After(hooks', pool', stack'), hooks' = hooks,
           \A x : Nowhere(x, hooks', pool', stack') => Nowhere(x, hooks, pool, stack),
           Mode[l] # "starter" => ~Nowhere(LayerHook(l), hooks', pool', stack'),
           UNCHANGED <<settled, result, bStopped, exposed, joined, aw, got, tries, own, delivered>>
    PROVE  ChainIInv'
<1> DEFINE X == {LayerHook(l)}
<1>1. l \in Layers /\ l \notin Chained /\ VarsOK
  BY VarsKnown DEF Roots, Chained
<1>2. Grows /\ Still(X)
  BY DEF Grows, Still
<1>3. VarsOK'
  BY <1>1 DEF VarsOK
<1>4. Accounted(X)
  <2>1. ~settled'[l] /\ tries'[l] <= 2 /\ l \in created'
    BY <1>1 DEF ChainIInv, NoPast
  <2> QED BY <1>1, <2>1, HookFields DEF Accounted
<1> QED BY <1>2, <1>3, <1>4, Step

\* Building a chain, observers and all, keeps the inductive invariant.
LEMMA StartChainKeeps ==
    ASSUME ChainIInv, NEW p \in Threads, NEW l \in Layers, StartChain(p, l)
    PROVE  ChainIInv'
<1>1. l \in Roots /\ l \notin created /\ l \notin Chained /\ Mode[l] # "starter" /\ VarsOK
  BY VarsKnown DEF StartChain, Roots, Chained
<1>2. Grows /\ Still({LayerHook(l)})
  BY DEF StartChain, Grows, Still
<1>3. Nowhere(LayerHook(l), hooks, pool, stack)
  BY <1>1, NewTokens
<1>4. After(hooks, pool, stack)
  BY <1>2, <1>3, BaseSame
<1>5. /\ (l \in created /\ own[l] = "none" /\ tries[l] = 0 /\ (Mode[l] # "starter" => ~settled[l]))'
      /\ Resolved \in Results /\ Stopped \in Results /\ FALSE \in BOOLEAN
  BY <1>1 DEF StartChain, ChainIInv, NoPast, Results
<1>6. /\ After(hooks', pool', stack')
      /\ \A x : Nowhere(x, hooks', pool', stack') => Nowhere(x, hooks, pool, stack)
      /\ ~Nowhere(LayerHook(l), hooks', pool', stack')
  <2>1. CASE stack' = stack /\ pool' = pool \cup {RunFrame(l, Resolved, FALSE)}
    <3>1. PICK f : f = RunFrame(l, Resolved, FALSE)
      OBVIOUS
    <3>2. FrameOK(RunFrame(l, Resolved, FALSE))'
      BY <1>1, <1>5, RunOK
    <3>3. FrameOK(f)' /\ OnceIn(f) /\ \A x : Carries(f, x) <=> x = LayerHook(l)
      BY <3>1, <3>2, Carried
    <3>4. /\ After(hooks, pool \cup {f}, stack)
          /\ \A x : Nowhere(x, hooks, pool \cup {f}, stack) <=> Nowhere(x, hooks, pool, stack) /\ ~Carries(f, x)
      BY <1>3, <1>4, <3>3, PutPost
    <3>5. hooks' = hooks /\ stack' = stack /\ pool' = pool \cup {f}
      BY <2>1, <3>1 DEF StartChain
    <3> QED BY <3>3, <3>4, <3>5
  <2>2. CASE SetStack(p, <<SettleFrame(l, Stopped)>>) /\ pool' = pool
    <3>1. PICK f : f = SettleFrame(l, Stopped)
      OBVIOUS
    <3>2. FrameOK(SettleFrame(l, Stopped))'
      BY <1>1, <1>5, SettleOK
    <3>3. FrameOK(f)' /\ OnceIn(f) /\ \A x : Carries(f, x) <=> x = LayerHook(l)
      BY <1>1, <3>1, <3>2, Carried
    <3>4. /\ After(hooks, pool, Push(stack, p, f))
          /\ \A x : Nowhere(x, hooks, pool, Push(stack, p, f)) <=> Nowhere(x, hooks, pool, stack) /\ ~Carries(f, x)
      BY <1>3, <1>4, <3>3, PutPush
    <3>5. hooks' = hooks /\ stack' = Push(stack, p, f) /\ pool' = pool
      BY <2>2, <3>1, IdleStack DEF StartChain
    <3> QED BY <3>3, <3>4, <3>5
  <2> QED BY <2>1, <2>2 DEF StartChain
<1>7. /\ created' = created \cup {l} /\ hooks' = hooks
      /\ UNCHANGED <<settled, result, bStopped, exposed, joined, aw, got, tries, own, delivered>>
  BY DEF StartChain
<1> QED BY <1>1, <1>6, <1>7, RootKeeps

\* NewPromise and the factory of a promise layer, which starts the child.
LEMMA NewFromHandleKeeps ==
    ASSUME ChainIInv, NEW p \in Threads, NEW base, NEW l \in Layers, NewFromHandle(p, base, l),
           Leaves(p, base, stack)
    PROVE  ChainIInv'
<1>1. l \in Roots /\ l \notin created /\ l \notin Chained /\ VarsOK
  BY VarsKnown DEF NewFromHandle, Roots, Chained
<1>2. Grows /\ Still({LayerHook(l)})
  BY DEF NewFromHandle, Grows, Still
<1>3. Nowhere(LayerHook(l), hooks, pool, stack)
  BY <1>1, NewTokens
<1>4. After(hooks, pool, stack)
  BY <1>2, <1>3, BaseSame
<1>5. /\ (l \in created /\ own[l] = "none" /\ tries[l] = 0 /\ (Mode[l] # "starter" => ~settled[l]))'
      /\ (l \in Chained => settled[Up[l]] /\ Resolved = result[Up[l]] /\ ~Skipped(l, Resolved))'
      /\ Resolved \in Results
  BY <1>1 DEF NewFromHandle, ChainIInv, NoPast, Results
<1>6. DispatchInlineOrPost(p, base, l, Resolved) /\ UNCHANGED <<hooks, bStopped>>
  BY DEF NewFromHandle
<1>7. /\ After(hooks', pool', stack')
      /\ \A x : Nowhere(x, hooks', pool', stack') => Nowhere(x, hooks, pool, stack)
      /\ Mode[l] # "starter" => ~Nowhere(LayerHook(l), hooks', pool', stack')
  BY <1>3, <1>4, <1>5, <1>6, DispatchPuts
<1>8. /\ created' = created \cup {l} /\ hooks' = hooks
      /\ UNCHANGED <<settled, result, bStopped, exposed, joined, aw, got, tries, own, delivered>>
  BY DEF NewFromHandle
<1> QED BY <1>1, <1>7, <1>8, RootKeeps

\* A step that touches no layer and no notice, once its frames are put down.
LEMMA NothingTouched ==
    ASSUME ChainIInv, After(hooks', pool', stack'), hooks' = hooks,
           \A x \in Tokens : Nowhere(x, hooks', pool', stack') => Nowhere(x, hooks, pool, stack), VarsOK',
           UNCHANGED <<created, settled, result, joined, tries, own, delivered>>, bStopped => bStopped'
    PROVE  ChainIInv'
<1>1. Grows /\ Still({})
  BY DEF Grows, Still
<1>2. Accounted({})
  BY DEF Accounted
<1> QED BY <1>1, <1>2, Step

\* resolve and reject of a starter layer.
LEMMA ExternalSettleKeeps ==
    ASSUME ChainIInv, NEW p \in Threads, NEW l \in Layers, NEW res \in Results, ExternalSettle(p, l, res)
    PROVE  ChainIInv'
<1>1. Mode[l] = "starter" /\ l \in created /\ VarsOK /\ Idle(p)
  BY VarsKnown DEF ExternalSettle, VarsOK
<1>2. Grows /\ Still({})
  BY DEF ExternalSettle, Grows, Still
<1>3. After(hooks, pool, stack)
  BY <1>2, BaseSame
<1>4. PICK f : f = SettleFrame(l, res)
  OBVIOUS
<1>5. FrameOK(SettleFrame(l, res))'
  BY <1>1, Shape, SettleOK DEF ExternalSettle
<1>6. FrameOK(f)' /\ OnceIn(f) /\ \A x : ~Carries(f, x)
  BY <1>1, <1>4, <1>5, Carried
<1>7. /\ After(hooks, pool, Push(stack, p, f))
      /\ \A x : Nowhere(x, hooks, pool, Push(stack, p, f)) <=> Nowhere(x, hooks, pool, stack) /\ ~Carries(f, x)
  BY <1>3, <1>6, PutPush
<1>8. hooks' = hooks /\ stack' = Push(stack, p, f) /\ pool' = pool
  BY <1>1, <1>4, IdleStack DEF ExternalSettle
<1>9. VarsOK'
  BY <1>1 DEF ExternalSettle, VarsOK
<1>10. /\ UNCHANGED <<created, settled, result, joined, tries, own, delivered>>
       /\ bStopped => bStopped'
  BY DEF ExternalSettle
<1>11. After(hooks', pool', stack') /\ \A x \in Tokens : Nowhere(x, hooks', pool', stack') => Nowhere(x, hooks, pool, stack)
  BY <1>7, <1>8
<1> QED BY <1>8, <1>9, <1>10, <1>11, NothingTouched

-------------------------------------------------------------------------------
(* Steps that leave every layer and notice alone. *)

\* A step that changes neither the hooks, nor the pool, nor a stack.
LEMMA NothingMoved ==
    ASSUME ChainIInv, UNCHANGED <<hooks, pool, stack>>, VarsOK',
           UNCHANGED <<created, settled, result, joined, tries, own, delivered>>, bStopped => bStopped'
    PROVE  ChainIInv'
<1>1. Grows /\ Still({})
  BY DEF Grows, Still
<1>2. After(hooks, pool, stack)
  BY <1>1, BaseSame
<1> QED BY <1>2, NothingTouched

\* Stopping an executor keeps the inductive invariant.
LEMMA StopExecutorKeeps ==
    ASSUME ChainIInv, StopExecutor
    PROVE  ChainIInv'
<1>1. VarsOK'
  BY VarsKnown DEF StopExecutor, VarsOK
<1> QED BY <1>1, NothingMoved DEF StopExecutor

\* The steps of a thread blocked in Await keep the inductive invariant.
LEMMA AwaitKeeps ==
    ASSUME ChainIInv, NEW a \in Awaiters, AwaitTest(a) \/ AwaitSpuriousWake(a) \/ AwaitTimeout(a)
    PROVE  ChainIInv'
<1>1. VarsOK /\ Awaited[a] \in Layers /\ awaitUnchanged
  BY VarsKnown, ChainAssumption DEF AwaitTest, AwaitSpuriousWake, AwaitTimeout
<1>2. /\ aw' \in [Awaiters -> {"none", "waiting", "woken", "returned", "timeout"}]
      /\ got' \in [Awaiters -> Results]
      /\ \A b \in Awaiters : aw'[b] = "returned" => settled[Awaited[b]] /\ got'[b] = result[Awaited[b]]
  <2>1. CASE settled[Awaited[a]] /\ AwaitReturn(a)
    BY <1>1, <2>1 DEF AwaitReturn, VarsOK
  <2>2. CASE aw' = [aw EXCEPT ![a] = "waiting"] /\ got' = got
    BY <1>1, <2>2 DEF VarsOK
  <2>3. CASE aw' = [aw EXCEPT ![a] = "woken"] /\ got' = got
    BY <1>1, <2>3 DEF VarsOK
  <2>4. CASE aw' = [aw EXCEPT ![a] = "timeout"] /\ got' = got
    BY <1>1, <2>4 DEF VarsOK
  <2> QED BY <2>1, <2>2, <2>3, <2>4 DEF AwaitTest, AwaitSpuriousWake, AwaitTimeout
<1>3. VarsOK'
  BY <1>1, <1>2 DEF VarsOK, awaitUnchanged
<1> QED BY <1>1, <1>3, NothingMoved DEF awaitUnchanged

\* A step that changes nothing keeps the inductive invariant.
LEMMA StutterKeeps ==
    ASSUME ChainIInv, UNCHANGED vars
    PROVE  ChainIInv'
<1>1. VarsOK'
  BY VarsKnown DEF vars, VarsOK
<1> QED BY <1>1, NothingMoved DEF vars

\* A worker takes a closure.
LEMMA WorkerTakeKeeps ==
    ASSUME ChainIInv, NEW w \in Workers, NEW f \in pool, WorkerTake(w, f)
    PROVE  ChainIInv'
<1>1. w \in Threads /\ Idle(w) /\ VarsOK
  BY VarsKnown DEF Threads, WorkerTake
<1>2. Grows /\ Still({})
  BY DEF WorkerTake, Grows, Still
<1>3. /\ hooks \in [Layers -> Seq(Hooks)] /\ stack \in [Threads -> Seq(FrameType)]
      /\ Unique(hooks, pool, stack)
  BY DEF ChainIInv, HooksOK, FramesOK
<1>4. /\ Unique(hooks, pool \ {f}, stack) /\ OnceIn(f)
      /\ \A x \in Tokens : Nowhere(x, hooks, pool \ {f}, stack) <=> Nowhere(x, hooks, pool, stack) \/ Carries(f, x)
  BY <1>3, TakeMoves
<1>5. After(hooks, pool \ {f}, stack)
  <2>1. PICK pl : pl = pool \ {f}
    OBVIOUS
  <2>2. pl \subseteq pool /\ FramesIn(pl, stack) \subseteq FramesIn(pool, stack) /\ Unique(hooks, pl, stack)
    BY <1>4, <2>1 DEF FramesIn
  <2>3. /\ \A u \in Layers : HooksIn(hooks, u) \subseteq HooksIn(hooks, u)
        /\ \A x \in {} : Nowhere(x, hooks, pl, stack)
    OBVIOUS
  <2>4. After(hooks, pl, stack)
    BY <1>2, <1>3, <2>2, <2>3, BaseAfter
  <2> QED BY <2>1, <2>4
<1>6. FrameOK(f)
  BY InFrames DEF ChainIInv, FramesOK
<1>7. created \subseteq Layers /\ joined \subseteq Notices
  BY <1>1 DEF VarsOK
<1>8. FrameOK(f)' /\ \A x : Carries(f, x) => x \in Tokens
  <2>1. \A x \in {} : ~Carries(f, x)
    OBVIOUS
  <2> QED BY <1>2, <1>6, <1>7, <2>1, FrameStays, CarriedTokens
<1>9. /\ After(hooks, pool \ {f}, Push(stack, w, f))
      /\ \A x : Nowhere(x, hooks, pool \ {f}, Push(stack, w, f))
                  <=> Nowhere(x, hooks, pool \ {f}, stack) /\ ~Carries(f, x)
  BY <1>1, <1>4, <1>5, <1>8, PutPush
<1>10. hooks' = hooks /\ stack' = Push(stack, w, f) /\ pool' = pool \ {f}
  BY <1>1, IdleStack DEF WorkerTake
<1>11. VarsOK'
  BY <1>1 DEF WorkerTake, VarsOK
<1>12. /\ UNCHANGED <<created, settled, result, joined, tries, own, delivered>>
       /\ bStopped => bStopped'
  BY DEF WorkerTake
<1>13. /\ After(hooks', pool', stack')
       /\ \A x \in Tokens : Nowhere(x, hooks', pool', stack') => Nowhere(x, hooks, pool, stack)
  BY <1>4, <1>9, <1>10
<1> QED BY <1>10, <1>11, <1>12, <1>13, NothingTouched

-------------------------------------------------------------------------------
(* Running a body. *)

\* What is known of a thread that is about to run the body of layer l.
LEMMA RunningFrame ==
    ASSUME ChainIInv, NEW p \in Threads, Running(p), NEW l, l = Top(p).l
    PROVE  /\ ~Idle(p) /\ l \in Layers /\ l \in created /\ own[l] = "none" /\ Top(p).res \in Results
           /\ tries[l] = IF Top(p).k = "run" THEN 0 ELSE 1
           /\ Mode[l] # "starter" => ~settled[l]
           /\ l \in Chained => settled[Up[l]] /\ Top(p).res = result[Up[l]] /\ ~Skipped(l, Top(p).res)
           /\ Top(p).todo = <<>> /\ Top(p) \in FrameType
           /\ \A x : Carries(Top(p), x) <=> x = LayerHook(l)
<1>1. ~Idle(p) /\ Top(p).k \in {"run", "retry"}
  BY DEF Running
<1>2. FrameOK(Top(p)) /\ Top(p) \in FrameType
  BY <1>1, TopFrame
<1>3. RunLive(Top(p)) /\ Top(p).todo = <<>>
  BY <1>1, <1>2 DEF FrameOK
<1>4. 1..Len(Top(p).todo) = {}
  BY <1>3
<1>5. \A x : Carries(Top(p), x) <=> x = LayerHook(l)
  BY <1>1, <1>4 DEF Carries
<1>6. l \in created /\ created \subseteq Layers
  BY <1>3 DEF RunLive, ChainIInv, TypeOK
<1>7. Top(p).res \in Results
  BY <1>2 DEF FrameType
<1> QED BY <1>1, <1>2, <1>3, <1>5, <1>6, <1>7 DEF RunLive

\* A body was entered and only its layer's history changes.
EntersBody(l) ==
    /\ Enter(l) /\ own' \in [Layers -> {"none", "ok", "err", "throw"}]
    /\ \A m \in Layers : m # l => own'[m] = own[m]
    /\ UNCHANGED <<created, settled, result, bStopped, joined, aw, got, delivered>>

\* The step that begins a layer's callable neither loses nor doubles a claim on a layer.
LEMMA RunStill ==
    ASSUME ChainIInv, NEW l \in Layers, EntersBody(l)
    PROVE  Grows /\ Still({LayerHook(l)}) /\ tries'[l] = tries[l] + 1 /\ tries' \in [Layers -> Nat]
<1>1. tries \in [Layers -> Nat]
  BY DEF ChainIInv, TypeOK
<1>2. /\ tries'[l] = tries[l] + 1 /\ tries' \in [Layers -> Nat]
      /\ \A m \in Layers : m # l => tries'[m] = tries[m]
  BY <1>1 DEF EntersBody, Enter
<1>3. Grows
  BY DEF EntersBody, Grows
<1>4. Still({LayerHook(l)})
  BY <1>2 DEF EntersBody, Still
<1> QED BY <1>2, <1>3, <1>4

\* Beginning a layer's callable keeps the inductive invariant.
LEMMA RunKeeps ==
    ASSUME ChainIInv, NEW l \in created, tries[l] <= 1, Mode[l] # "starter" => ~settled[l], EntersBody(l),
           After(hooks', pool', stack'),
           \A x \in Tokens : Nowhere(x, hooks', pool', stack') => Nowhere(x, hooks, pool, stack) \/ x = LayerHook(l),
           Mode[l] # "starter" => ~Nowhere(LayerHook(l), hooks', pool', stack'),
           exposed' \subseteq created, \A m \in exposed' : Mode[m] = "starter",
           \A m \in Layers : settled[m] => hooks'[m] = hooks[m]
    PROVE  ChainIInv'
<1>1. VarsOK /\ l \in Layers
  BY VarsKnown DEF VarsOK
<1>2. Grows /\ Still({LayerHook(l)}) /\ tries'[l] = tries[l] + 1 /\ tries' \in [Layers -> Nat]
  BY <1>1, RunStill
<1>3. VarsOK'
  BY <1>1, <1>2 DEF EntersBody, VarsOK
<1>4. tries'[l] <= 2
  BY <1>1, <1>2 DEF VarsOK
<1>5. Accounted({LayerHook(l)})
  <2>1. created' = created /\ joined' = joined /\ settled' = settled
    BY DEF EntersBody
  <2>2. l \in Chained => ~settled'[l]
    BY <1>1, <2>1, Shape
  <2> QED BY <1>4, <2>1, <2>2, HookFields DEF Accounted
<1> QED BY <1>2, <1>3, <1>5, Step

\* The body's frame turns into the settlement of its layer.
LEMMA EndRunPuts ==
    ASSUME ChainIInv, NEW p \in Threads, Running(p), NEW l \in Layers, l = Top(p).l, EntersBody(l),
           NEW res \in Results, EndRun(p, res), UNCHANGED <<hooks, pool>>, l \in Chained => Outcome(l, res)'
    PROVE  /\ After(hooks', pool', stack')
           /\ \A x \in Tokens : Nowhere(x, hooks', pool', stack')
                                  => Nowhere(x, hooks, pool, stack) \/ x = LayerHook(l)
           /\ Mode[l] # "starter" => ~Nowhere(LayerHook(l), hooks', pool', stack')
<1>1. PICK f : f = [Top(p) EXCEPT !.k = "settle", !.res = res]
  OBVIOUS
<1>2. /\ ~Idle(p) /\ l \in created /\ Top(p).todo = <<>> /\ Top(p) \in FrameType
      /\ Mode[l] # "starter" => ~settled[l]
      /\ \A x : Carries(Top(p), x) <=> x = LayerHook(l)
  BY RunningFrame
<1>3. f \in FrameType /\ f.k = "settle" /\ f.l = l /\ f.res = res /\ f.todo = <<>>
  BY <1>1, <1>2 DEF FrameType
<1>4. 1..Len(f.todo) = {}
  BY <1>3
<1>5. FrameOK(f)'
  BY <1>2, <1>3, <1>4 DEF FrameOK, EntersBody
<1>6. OnceIn(f) /\ \A x : Carries(f, x) <=> Mode[l] # "starter" /\ x = LayerHook(l)
  BY <1>3, <1>4 DEF OnceIn, Carries
<1>7. LayerHook(l) \in Tokens
  BY DEF Tokens
<1>8. After(hooks, pool, Pop(stack, p))
  <2>1. PICK X : X = {LayerHook(l)}
    OBVIOUS
  <2>2. Grows /\ Still(X) /\ X \subseteq Tokens /\ \A x \in X : Carries(Top(p), x)
    BY <1>2, <1>7, <2>1, RunStill
  <2> QED BY <1>2, <2>2, BasePop
<1>9. \A x \in Tokens : Nowhere(x, hooks, pool, Pop(stack, p))
                          <=> Nowhere(x, hooks, pool, stack) \/ x = LayerHook(l)
  BY <1>2, TopFrame
<1>10. /\ After(hooks, pool, Push(Pop(stack, p), p, f))
       /\ \A x : Nowhere(x, hooks, pool, Push(Pop(stack, p), p, f))
                   <=> Nowhere(x, hooks, pool, Pop(stack, p)) /\ ~Carries(f, x)
  BY <1>5, <1>6, <1>7, <1>8, <1>9, PutPush
<1>11. stack' = Push(Pop(stack, p), p, f) /\ hooks' = hooks /\ pool' = pool
  BY <1>1, <1>2, TopFrame DEF EndRun
<1> QED BY <1>6, <1>9, <1>10, <1>11

\* Every outcome of a layer's callable keeps the inductive invariant.
LEMMA RunBodyKeeps ==
    ASSUME ChainIInv, NEW p \in Threads, NEW end \in {"ok", "err", "throw"}, RunBody(p, end)
    PROVE  ChainIInv'
<1>1. Running(p)
  BY DEF RunBody
<1>2. PICK l : l = Top(p).l
  OBVIOUS
<1>3. PICK r : r = BodyResult(l, Top(p).res, end)
  OBVIOUS
<1>4. /\ l \in Layers /\ l \in created /\ Top(p).res \in Results
      /\ tries[l] = IF Top(p).k = "run" THEN 0 ELSE 1
      /\ Mode[l] # "starter" => ~settled[l]
      /\ l \in Chained => settled[Up[l]] /\ Top(p).res = result[Up[l]] /\ ~Skipped(l, Top(p).res)
  BY <1>1, <1>2, RunningFrame
<1>5. own \in [Layers -> {"none", "ok", "err", "throw"}] /\ tries[l] <= 1
  BY <1>4 DEF ChainIInv, TypeOK
<1>6. EntersBody(l) /\ own'[l] = end
  BY <1>2, <1>4, <1>5 DEF RunBody, EntersBody
<1>7. r \in Results
  BY <1>3, <1>4 DEF BodyResult, Results
<1>8. l \in Chained => Outcome(l, r)'
  <2>1. Mode[l] # "promise"
    BY <1>2 DEF RunBody
  <2> QED BY <1>3, <1>4, <1>6, <2>1 DEF Outcome, EntersBody, BodyResult
<1>9. EndRun(p, r) /\ UNCHANGED <<hooks, pool>>
  BY <1>2, <1>3 DEF RunBody
<1>10. /\ After(hooks', pool', stack')
       /\ \A x \in Tokens : Nowhere(x, hooks', pool', stack')
                              => Nowhere(x, hooks, pool, stack) \/ x = LayerHook(l)
       /\ Mode[l] # "starter" => ~Nowhere(LayerHook(l), hooks', pool', stack')
  BY <1>1, <1>2, <1>4, <1>6, <1>7, <1>8, <1>9, EndRunPuts
<1>11. VarsOK /\ exposed' = exposed
  BY VarsKnown DEF RunBody
<1> QED BY <1>4, <1>5, <1>6, <1>9, <1>10, <1>11, RunKeeps DEF VarsOK

\* A retry factory that throws keeps the inductive invariant.
LEMMA FactoryThrowsKeeps ==
    ASSUME ChainIInv, NEW p \in Threads, FactoryThrows(p)
    PROVE  ChainIInv'
<1>1. Running(p)
  BY DEF FactoryThrows
<1>2. PICK l : l = Top(p).l
  OBVIOUS
<1>3. PICK r : r = Rejected(l)
  OBVIOUS
<1>4. /\ l \in Layers /\ l \in created
      /\ tries[l] = IF Top(p).k = "run" THEN 0 ELSE 1
      /\ Mode[l] # "starter" => ~settled[l]
      /\ l \in Chained => settled[Up[l]] /\ Top(p).res = result[Up[l]] /\ ~Skipped(l, Top(p).res)
  BY <1>1, <1>2, RunningFrame
<1>5. own \in [Layers -> {"none", "ok", "err", "throw"}] /\ tries[l] <= 1
  BY <1>4 DEF ChainIInv, TypeOK
<1>6. EntersBody(l) /\ own'[l] = "throw"
  BY <1>2, <1>4, <1>5 DEF FactoryThrows, EntersBody
<1>7. r \in Results
  BY <1>3, <1>4 DEF Results
<1>8. l \in Chained => Outcome(l, r)'
  <2>1. Mode[l] = "promise"
    BY <1>2 DEF FactoryThrows
  <2> QED BY <1>3, <1>4, <1>6, <2>1 DEF Outcome, EntersBody
<1>9. EndRun(p, r) /\ UNCHANGED <<hooks, pool>>
  BY <1>2, <1>3 DEF FactoryThrows
<1>10. /\ After(hooks', pool', stack')
       /\ \A x \in Tokens : Nowhere(x, hooks', pool', stack')
                              => Nowhere(x, hooks, pool, stack) \/ x = LayerHook(l)
       /\ Mode[l] # "starter" => ~Nowhere(LayerHook(l), hooks', pool', stack')
  BY <1>1, <1>2, <1>4, <1>6, <1>7, <1>8, <1>9, EndRunPuts
<1>11. VarsOK /\ exposed' = exposed
  BY VarsKnown DEF FactoryThrows
<1> QED BY <1>4, <1>5, <1>6, <1>9, <1>10, <1>11, RunKeeps DEF VarsOK

\* A body that asks for a gate slot.
LEMMA RunBodySuspendsKeeps ==
    ASSUME ChainIInv, NEW p \in Threads, RunBodySuspends(p)
    PROVE  ChainIInv'
<1>1. Running(p)
  BY DEF RunBodySuspends
<1>2. PICK l : l = Top(p).l
  OBVIOUS
<1>3. /\ ~Idle(p) /\ l \in Layers /\ l \in created /\ own[l] = "none"
      /\ tries[l] = IF Top(p).k = "run" THEN 0 ELSE 1
      /\ Mode[l] # "starter" => ~settled[l]
      /\ l \in Chained => settled[Up[l]] /\ Top(p).res = result[Up[l]] /\ ~Skipped(l, Top(p).res)
      /\ Top(p).todo = <<>> /\ Top(p) \in FrameType
      /\ \A x : Carries(Top(p), x) <=> x = LayerHook(l)
  BY <1>1, <1>2, RunningFrame
<1>4. own \in [Layers -> {"none", "ok", "err", "throw"}] /\ tries[l] <= 1
  BY <1>3 DEF ChainIInv, TypeOK
<1>5. EntersBody(l) /\ own' = own /\ hooks' = hooks
  BY <1>2, <1>3, <1>4 DEF RunBodySuspends, EntersBody
<1>6. tries'[l] = tries[l] + 1
  BY <1>3, <1>5, RunStill
<1>7. VarsOK /\ exposed' = exposed
  BY VarsKnown DEF RunBodySuspends
<1>8. /\ After(hooks', pool', stack')
      /\ \A x \in Tokens : Nowhere(x, hooks', pool', stack')
                             => Nowhere(x, hooks, pool, stack) \/ x = LayerHook(l)
      /\ Mode[l] # "starter" => ~Nowhere(LayerHook(l), hooks', pool', stack')
  <2>1. CASE Top(p).k = "retry" /\ EndRun(p, Rejected(Top(p).l)) /\ pool' = pool
    <3>1. PICK r : r = Rejected(l)
      OBVIOUS
    <3>2. r \in Results /\ EndRun(p, r)
      BY <1>2, <1>3, <2>1, <3>1 DEF Results
    <3>3. tries'[l] = 2
      BY <1>3, <1>6, <2>1
    <3>4. l \in Chained => Outcome(l, r)'
      BY <1>3, <1>5, <3>1, <3>3 DEF Outcome, EntersBody
    <3> QED BY <1>1, <1>2, <1>3, <1>5, <2>1, <3>2, <3>4, EndRunPuts
  <2>2. CASE /\ Top(p).k = "run" /\ pool' = pool \cup {[Top(p) EXCEPT !.k = "retry", !.inl = FALSE]}
             /\ SetStack(p, Rest(p))
    <3>1. PICK f : f = [Top(p) EXCEPT !.k = "retry", !.inl = FALSE]
      OBVIOUS
    <3>2. f \in FrameType /\ f.k = "retry" /\ f.l = l /\ f.res = Top(p).res /\ f.todo = <<>>
      BY <1>2, <1>3, <3>1 DEF FrameType
    <3>3. 1..Len(f.todo) = {}
      BY <3>2
    <3>4. tries'[l] = 1
      BY <1>3, <1>6, <2>2
    <3>5. RunLive(f)'
      <4>1. PICK r : r = Top(p).res
        OBVIOUS
      <4>2. f.res = r /\ (l \in Chained => settled'[Up[l]] /\ r = result'[Up[l]] /\ ~Skipped(l, r))
        BY <1>3, <1>5, <3>2, <4>1 DEF EntersBody
      <4> QED BY <1>3, <1>5, <3>2, <3>4, <4>2 DEF RunLive, EntersBody
    <3>6. FrameOK(f)'
      BY <3>2, <3>3, <3>5 DEF FrameOK
    <3>7. OnceIn(f) /\ \A x : Carries(f, x) <=> x = LayerHook(l)
      BY <3>2, <3>3 DEF OnceIn, Carries
    <3>8. PICK X : X = {LayerHook(l)}
      OBVIOUS
    <3>9. Grows /\ Still(X) /\ X \subseteq Tokens /\ \A x \in X : Carries(Top(p), x)
      BY <1>3, <1>5, <3>8, RunStill DEF Tokens
    <3>10. After(hooks, pool, Pop(stack, p))
      BY <1>3, <3>9, BasePop
    <3>11. \A x \in Tokens : Nowhere(x, hooks, pool, Pop(stack, p))
                               <=> Nowhere(x, hooks, pool, stack) \/ x = LayerHook(l)
      BY <1>3, TopFrame
    <3>12. /\ After(hooks, pool \cup {f}, Pop(stack, p))
           /\ \A x : Nowhere(x, hooks, pool \cup {f}, Pop(stack, p))
                       <=> Nowhere(x, hooks, pool, Pop(stack, p)) /\ ~Carries(f, x)
      <4>1. \A x : Carries(f, x) => Nowhere(x, hooks, pool, Pop(stack, p))
        BY <3>7, <3>8, <3>9, <3>11
      <4> QED BY <3>6, <3>7, <3>10, <4>1, PutPost
    <3>13. stack' = Pop(stack, p) /\ pool' = pool \cup {f}
      BY <1>3, <2>2, <3>1, TopFrame
    <3> QED BY <1>5, <3>7, <3>11, <3>12, <3>13
  <2>3. CASE bStopped /\ EndRun(p, Stopped) /\ pool' = pool
    <3>1. Stopped \in Results
      BY DEF Results
    <3>2. l \in Chained => Outcome(l, Stopped)'
      BY <1>3, <1>5, <2>3 DEF Outcome, EntersBody
    <3> QED BY <1>1, <1>2, <1>3, <1>5, <2>3, <3>1, <3>2, EndRunPuts
  <2> QED BY <2>1, <2>2, <2>3 DEF RunBodySuspends
<1> QED BY <1>3, <1>4, <1>5, <1>7, <1>8, RunKeeps DEF VarsOK

\* The callback of a starter layer.
LEMMA RunStarterKeeps ==
    ASSUME ChainIInv, NEW p \in Threads, NEW end \in {"return", "ok", "throw"}, RunStarter(p, end)
    PROVE  ChainIInv'
<1>1. Running(p)
  BY DEF RunStarter
<1>2. PICK l : l = Top(p).l
  OBVIOUS
<1>3. /\ ~Idle(p) /\ l \in Layers /\ l \in created
      /\ tries[l] = IF Top(p).k = "run" THEN 0 ELSE 1
      /\ \A x : Carries(Top(p), x) <=> x = LayerHook(l)
  BY <1>1, <1>2, RunningFrame
<1>4. own \in [Layers -> {"none", "ok", "err", "throw"}] /\ tries[l] <= 1
  BY <1>3 DEF ChainIInv, TypeOK
<1>5. EntersBody(l) /\ hooks' = hooks /\ pool' = pool /\ Mode[l] = "starter" /\ l \notin Chained
  BY <1>2, <1>3, <1>4, Shape DEF RunStarter, EntersBody
<1>6. exposed' \subseteq created /\ \A m \in exposed' : Mode[m] = "starter"
  BY <1>2, <1>3, <1>5, VarsKnown DEF RunStarter, VarsOK
<1>7. /\ After(hooks', pool', stack')
      /\ \A x \in Tokens : Nowhere(x, hooks', pool', stack')
                             => Nowhere(x, hooks, pool, stack) \/ x = LayerHook(l)
  <2>1. CASE SetStack(p, Rest(p))
    <3>1. PICK X : X = {LayerHook(l)}
      OBVIOUS
    <3>2. Grows /\ Still(X) /\ X \subseteq Tokens /\ \A x \in X : Carries(Top(p), x)
      BY <1>3, <1>5, <3>1, RunStill DEF Tokens
    <3>3. After(hooks, pool, Pop(stack, p))
      BY <1>3, <3>2, BasePop
    <3>4. \A x \in Tokens : Nowhere(x, hooks, pool, Pop(stack, p))
                              <=> Nowhere(x, hooks, pool, stack) \/ x = LayerHook(l)
      BY <1>3, TopFrame
    <3>5. stack' = Pop(stack, p)
      BY <1>3, <2>1, TopFrame
    <3> QED BY <1>5, <3>3, <3>4, <3>5
  <2>2. CASE EndRun(p, Resolved)
    <3>1. Resolved \in Results
      BY DEF Results
    <3> QED BY <1>1, <1>2, <1>3, <1>5, <2>2, <3>1, EndRunPuts
  <2>3. CASE EndRun(p, Rejected(Top(p).l))
    <3>1. PICK r : r = Rejected(l)
      OBVIOUS
    <3>2. r \in Results /\ EndRun(p, r)
      BY <1>2, <1>3, <2>3, <3>1 DEF Results
    <3> QED BY <1>1, <1>2, <1>3, <1>5, <3>2, EndRunPuts
  <2>4. /\ end = "return" => SetStack(p, Rest(p))
        /\ end = "ok" => EndRun(p, Resolved)
        /\ end = "throw" => EndRun(p, Rejected(Top(p).l))
    BY DEF RunStarter
  <2> QED BY <2>1, <2>2, <2>3, <2>4
<1> QED BY <1>3, <1>4, <1>5, <1>6, <1>7, RunKeeps

\* The factory of a promise layer starts the child.
LEMMA FactoryStartsChildKeeps ==
    ASSUME ChainIInv, NEW p \in Threads, FactoryStartsChild(p)
    PROVE  ChainIInv'
<1>1. PICK l : l = Top(p).l
  OBVIOUS
<1>2. l \in Layers /\ Mode[l] = "promise" /\ Child[l] \in Layers
  BY <1>1, RunningFrame, Shape DEF FactoryStartsChild
<1>3. PICK s, c : s = stack[p] /\ c = Child[l]
  OBVIOUS
<1>4. NewFromHandle(p, s, c) /\ c \in Layers /\ Leaves(p, s, stack)
  BY <1>1, <1>2, <1>3, Bases DEF FactoryStartsChild
<1> QED BY <1>4, NewFromHandleKeeps

\* The factory returned the child, whose settlement will settle this layer.
LEMMA FactoryReturnsKeeps ==
    ASSUME ChainIInv, NEW p \in Threads, FactoryReturns(p)
    PROVE  ChainIInv'
<1>1. Running(p)
  BY DEF FactoryReturns
<1>2. PICK l : l = Top(p).l
  OBVIOUS
<1>3. /\ ~Idle(p) /\ l \in Layers /\ l \in created
      /\ tries[l] = IF Top(p).k = "run" THEN 0 ELSE 1
      /\ Mode[l] # "starter" => ~settled[l]
      /\ l \in Chained => settled[Up[l]] /\ Top(p).res = result[Up[l]] /\ ~Skipped(l, Top(p).res)
      /\ \A x : Carries(Top(p), x) <=> x = LayerHook(l)
  BY <1>1, <1>2, RunningFrame
<1>4. own \in [Layers -> {"none", "ok", "err", "throw"}] /\ tries[l] <= 1
  BY <1>3 DEF ChainIInv, TypeOK
<1>5. EntersBody(l) /\ own'[l] = "ok" /\ Mode[l] = "promise"
  BY <1>2, <1>3, <1>4 DEF FactoryReturns, EntersBody
<1>6. l \in Chained /\ Child[l] \in Layers
  BY <1>3, <1>5, Shape
<1>7. HookLive(AdoptHook(l))'
  <2>1. AdoptHook(l) \in Hooks /\ AdoptHook(l).t = "adopt" /\ AdoptHook(l).id = l
    BY <1>3, HookFields DEF Hooks
  <2>2. PICK r : r = Top(p).res
    OBVIOUS
  <2>3. l \in created' /\ ~settled'[l] /\ settled'[Up[l]] /\ r = result'[Up[l]] /\ ~Skipped(l, r)
    BY <1>3, <1>5, <1>6, <2>2 DEF EntersBody
  <2> QED BY <1>5, <2>1, <2>3 DEF HookLive
<1>8. HookOn(AdoptHook(l)) = Child[l] /\ Token(AdoptHook(l)) = LayerHook(l)
  BY HookFields DEF HookOn
<1>9. PICK X : X = {LayerHook(l)}
  OBVIOUS
<1>10. Grows /\ Still(X) /\ X \subseteq Tokens /\ \A x \in X : Carries(Top(p), x)
  BY <1>3, <1>5, <1>9, RunStill DEF Tokens
<1>11. After(hooks, pool, Pop(stack, p))
  BY <1>3, <1>10, BasePop
<1>12. \A x \in Tokens : Nowhere(x, hooks, pool, Pop(stack, p))
                           <=> Nowhere(x, hooks, pool, stack) \/ x = LayerHook(l)
  BY <1>3, TopFrame
<1>13. PICK b, st0, u, h : b = Rest(p) /\ st0 = Pop(stack, p) /\ u = Child[l] /\ h = AdoptHook(l)
  OBVIOUS
<1>14. /\ Register(p, b, u, h) /\ Leaves(p, b, st0) /\ UNCHANGED <<settled, result, bStopped>>
       /\ exposed' = exposed /\ VarsOK
  BY <1>2, <1>3, <1>13, Bases, VarsKnown DEF FactoryReturns
<1>15. /\ After(hooks, pool, st0) /\ HookLive(h)' /\ HookOn(h) = u /\ u \in Layers
       /\ Nowhere(Token(h), hooks, pool, st0)
  BY <1>6, <1>7, <1>8, <1>9, <1>10, <1>11, <1>12, <1>13
<1>16. /\ After(hooks', pool', stack')
       /\ \A x : Nowhere(x, hooks', pool', stack') => Nowhere(x, hooks, pool, st0)
       /\ ~Nowhere(Token(h), hooks', pool', stack')
       /\ \A m \in Layers : settled[m] => hooks'[m] = hooks[m]
  BY <1>14, <1>15, RegisterPuts
<1>17. /\ \A x \in Tokens : Nowhere(x, hooks', pool', stack')
                              => Nowhere(x, hooks, pool, stack) \/ x = LayerHook(l)
       /\ ~Nowhere(LayerHook(l), hooks', pool', stack')
  BY <1>8, <1>12, <1>13, <1>16
<1> QED BY <1>3, <1>4, <1>5, <1>14, <1>16, <1>17, RunKeeps DEF VarsOK

-------------------------------------------------------------------------------
(* Settling and running the handlers. *)

\* The first settlement publishes the result and takes the handlers.
LEMMA SettleKeeps ==
    ASSUME ChainIInv, NEW p \in Threads, Settle(p)
    PROVE  ChainIInv'
<1>1. ~Idle(p) /\ Top(p).k = "settle"
  BY DEF Settle
<1>2. PICK g, l : g = Top(p) /\ l = g.l
  OBVIOUS
<1>3. /\ FrameOK(g) /\ OnceIn(g) /\ g \in FrameType /\ g.k = "settle"
      /\ \A x \in Tokens : Nowhere(x, hooks, pool, Pop(stack, p))
                             <=> Nowhere(x, hooks, pool, stack) \/ Carries(g, x)
  BY <1>1, <1>2, TopFrame
<1>4. /\ VarsOK /\ l \in created /\ l \in Layers /\ g.todo = <<>> /\ g.res \in Results
      /\ Mode[l] # "starter" => ~settled[l]
      /\ l \in Chained => Outcome(l, g.res)
  BY <1>2, <1>3, VarsKnown DEF FrameOK, FrameType, VarsOK
<1>5. \A x : Carries(g, x) <=> Mode[l] # "starter" /\ x = LayerHook(l)
  <2>1. 1..Len(g.todo) = {}
    BY <1>4
  <2> QED BY <1>2, <1>3, <2>1 DEF Carries
<1>6. UNCHANGED <<created, pool, bStopped, exposed, joined, aw, got, tries, own, delivered>>
  BY DEF Settle
<1>7. CASE settled[l]
  <2>1. stack' = Pop(stack, p) /\ UNCHANGED <<settled, result, hooks>>
    BY <1>1, <1>2, <1>7, TopFrame DEF Settle
  <2>2. Grows /\ Still({})
    BY <1>6, <2>1 DEF Grows, Still
  <2>3. After(hooks, pool, Pop(stack, p))
    BY <1>1, <2>2, BasePop
  <2>4. \A x \in Tokens : Nowhere(x, hooks, pool, Pop(stack, p)) => Nowhere(x, hooks, pool, stack)
    BY <1>3, <1>4, <1>5, <1>7
  <2>5. VarsOK'
    BY <1>4, <1>6, <2>1 DEF VarsOK
  <2> QED BY <1>6, <2>1, <2>3, <2>4, <2>5, NothingTouched
<1>8. CASE ~settled[l]
  <2>1. /\ settled' = [settled EXCEPT ![l] = TRUE] /\ result' = [result EXCEPT ![l] = g.res]
        /\ hooks' = Cleared(hooks, l)
        /\ SetStack(p, <<[g EXCEPT !.k = "notify", !.todo = hooks[l]]>> \o Rest(p))
    BY <1>2, <1>8 DEF Settle, Cleared
  <2>2. /\ settled'[l] /\ result'[l] = g.res
        /\ \A m \in Layers : m # l => settled'[m] = settled[m] /\ result'[m] = result[m]
    BY <1>4, <2>1 DEF VarsOK
  <2>3. PICK X : X = IF Mode[l] = "starter" THEN {} ELSE {LayerHook(l)}
    OBVIOUS
  <2>4. Grows /\ Still(X)
    BY <1>6, <1>8, <2>2, <2>3, HookFields DEF Grows, Still
  <2>5. /\ hooks \in [Layers -> Seq(Hooks)] /\ stack \in [Threads -> Seq(FrameType)]
        /\ Unique(hooks, pool, stack) /\ stack[p] # <<>> /\ pool \subseteq FrameType
    BY <1>1 DEF ChainIInv, HooksOK, FramesOK, Idle
  <2>6. PICK st0, hk0 : st0 = Pop(stack, p) /\ hk0 = Cleared(hooks, l)
    OBVIOUS
  <2>7. /\ st0 \in [Threads -> Seq(FrameType)] /\ Unique(hooks, pool, st0)
        /\ FramesIn(pool, st0) \subseteq FramesIn(pool, stack)
        /\ \A x \in Tokens : Nowhere(x, hooks, pool, st0) <=> Nowhere(x, hooks, pool, stack) \/ Carries(g, x)
    BY <1>3, <2>5, <2>6, PopMoves, PopFrames
  <2>8. /\ hk0 \in [Layers -> Seq(Hooks)] /\ Unique(hk0, pool, st0)
        /\ \A x : Nowhere(x, hk0, pool, st0)
                    <=> Nowhere(x, hooks, pool, st0) \/ \E i \in 1..Len(hooks[l]) : Token(hooks[l][i]) = x
        /\ \A i, j \in 1..Len(hooks[l]) : Token(hooks[l][i]) = Token(hooks[l][j]) => i = j
        /\ \A v \in Layers : \A i \in 1..Len(hk0[v]) : i \in 1..Len(hooks[v]) /\ hk0[v][i] = hooks[v][i]
    <3>1. /\ hooks \in [Layers -> Seq(Hooks)] /\ l \in Layers /\ Unique(hooks, pool, st0)
          /\ hk0 = Cleared(hooks, l)
      BY <1>4, <2>5, <2>6, <2>7
    <3>2. HooksTaken(hooks, hk0, pool, st0, l)
      BY <3>1, ClearMoves
    <3> QED BY <3>2 DEF HooksTaken
  <2>9. X \subseteq Tokens /\ \A x \in X : Nowhere(x, hooks, pool, st0)
    BY <1>4, <1>5, <2>3, <2>7 DEF Tokens
  <2>10. After(hk0, pool, st0)
    <3>1. \A x \in X : Nowhere(x, hk0, pool, st0)
      BY <2>8, <2>9
    <3>2. \A u \in Layers : HooksIn(hk0, u) \subseteq HooksIn(hooks, u)
      BY <2>8 DEF HooksIn
    <3>3. pool \subseteq pool
      OBVIOUS
    <3> QED BY <2>4, <2>7, <2>8, <3>1, <3>2, <3>3, BaseAfter
  <2>11. PICK f : f = [g EXCEPT !.k = "notify", !.todo = hooks[l]]
    OBVIOUS
  <2>12. f \in FrameType /\ f.k = "notify" /\ f.res = g.res /\ f.todo = hooks[l]
    <3>1. hooks[l] \in Seq(Hooks)
      BY <1>4, <2>5
    <3> QED BY <1>3, <2>11, <3>1 DEF FrameType
  <2>14. FrameOK(f)'
    <3>1. ASSUME NEW i \in 1..Len(f.todo)
          PROVE  HookLive(f.todo[i])' /\ settled'[HookOn(f.todo[i])] /\ f.res = result'[HookOn(f.todo[i])]
      <4>1. PICK h : h = f.todo[i]
        OBVIOUS
      <4>2. h \in HooksIn(hooks, l) /\ i \in 1..Len(hooks[l]) /\ h = hooks[l][i]
        BY <2>12, <4>1 DEF HooksIn
      <4>3. HookLive(h) /\ HookOn(h) = l
        BY <1>4, <4>2 DEF ChainIInv, HooksOK
      <4>4. Token(h) \notin X
        BY <1>4, <2>9, <4>2 DEF Nowhere
      <4>5. HookLive(h)'
        BY <2>4, <4>3, <4>4, HookStays
      <4> QED BY <2>2, <2>12, <4>1, <4>3, <4>5
    <3> QED BY <2>12, <3>1 DEF FrameOK
  <2>15. OnceIn(f) /\ \A x : Carries(f, x) <=> \E i \in 1..Len(hooks[l]) : Token(hooks[l][i]) = x
    BY <2>8, <2>12 DEF OnceIn, Carries
  <2>16. /\ After(hk0, pool, Push(st0, p, f))
         /\ \A x : Nowhere(x, hk0, pool, Push(st0, p, f)) <=> Nowhere(x, hk0, pool, st0) /\ ~Carries(f, x)
    BY <2>8, <2>10, <2>14, <2>15, PutPush
  <2>17. hooks' = hk0 /\ pool' = pool /\ stack' = Push(st0, p, f)
    BY <1>1, <1>6, <2>1, <2>6, <2>11, TopFrame
  <2>18. \A x \in Tokens : Nowhere(x, hooks', pool', stack') => Nowhere(x, hooks, pool, stack) \/ x \in X
    BY <1>5, <2>3, <2>7, <2>8, <2>15, <2>16, <2>17
  <2>19. VarsOK'
    <3>1. settled' \in [Layers -> BOOLEAN] /\ result' \in [Layers -> Results]
      BY <1>4, <2>1 DEF VarsOK
    <3>2. \A m \in Layers : settled'[m] => m \in created' /\ hooks'[m] = <<>>
      BY <1>4, <1>6, <2>1, <2>2, <2>5 DEF VarsOK, Cleared
    <3>3. \A a \in Awaiters : aw'[a] = "returned" => settled'[Awaited[a]] /\ got'[a] = result'[Awaited[a]]
      <4>1. \A a \in Awaiters : Awaited[a] \in Layers
        BY ChainAssumption
      <4> QED BY <1>4, <1>6, <1>8, <2>2, <4>1 DEF VarsOK
    <3> QED BY <1>4, <1>6, <3>1, <3>2, <3>3 DEF VarsOK
  <2>20. Accounted(X)
    <3>1. tries[l] <= 2 /\ created' = created /\ joined' = joined /\ tries' = tries /\ own' = own
      BY <1>4, <1>6 DEF ChainIInv, SettledOK
    <3>2. PICK r : r = g.res
      OBVIOUS
    <3>3. l \in Chained => Outcome(l, r)'
      BY <1>4, <2>4, <3>1, <3>2, OutcomeStays
    <3>4. \A m \in Layers : LayerHook(m) \in X => m = l
      BY <2>3, HookFields
    <3>5. \A n \in Notices : NoticeHook(n) \notin X
      BY <2>3, HookFields
    <3> QED BY <1>4, <2>2, <2>18, <3>1, <3>2, <3>3, <3>4, <3>5 DEF Accounted
  <2> QED BY <2>4, <2>16, <2>17, <2>19, <2>20, Step
<1> QED BY <1>7, <1>8

\* The waiters are woken; the handlers are still to be run.
LEMMA SettleNotifyKeeps ==
    ASSUME ChainIInv, NEW p \in Threads, SettleNotify(p)
    PROVE  ChainIInv'
<1>1. ~Idle(p) /\ Top(p).k = "notify"
  BY DEF SettleNotify
<1>2. PICK g, f : g = Top(p) /\ f = [g EXCEPT !.k = "fire"]
  OBVIOUS
<1>3. /\ FrameOK(g) /\ OnceIn(g) /\ g \in FrameType /\ g.k = "notify"
      /\ \A x : Carries(g, x) => x \in Tokens
      /\ \A x \in Tokens : Nowhere(x, hooks, pool, Pop(stack, p))
                             <=> Nowhere(x, hooks, pool, stack) \/ Carries(g, x)
  BY <1>1, <1>2, TopFrame
<1>4. f \in FrameType /\ f.k = "fire" /\ f.res = g.res /\ f.todo = g.todo
  BY <1>2, <1>3 DEF FrameType
<1>5. FrameOK(f) /\ OnceIn(f) /\ \A x : Carries(f, x) <=> Carries(g, x)
  BY <1>3, <1>4 DEF FrameOK, OnceIn, Carries
<1>6. /\ UNCHANGED <<created, settled, result, hooks, pool, bStopped, exposed, joined, got, tries, own, delivered>>
      /\ VarsOK /\ stack' = Push(Pop(stack, p), p, f)
  BY <1>1, <1>2, VarsKnown, TopFrame DEF SettleNotify
<1>7. Grows /\ Still({})
  BY <1>6 DEF Grows, Still
<1>8. FrameOK(f)'
  <2>1. created \subseteq Layers /\ joined \subseteq Notices /\ \A x \in {} : ~Carries(f, x)
    BY <1>6 DEF VarsOK
  <2> QED BY <1>5, <1>7, <2>1, FrameStays
<1>9. After(hooks, pool, Pop(stack, p))
  BY <1>1, <1>7, BasePop
<1>10. /\ After(hooks, pool, Push(Pop(stack, p), p, f))
       /\ \A x : Nowhere(x, hooks, pool, Push(Pop(stack, p), p, f))
                   <=> Nowhere(x, hooks, pool, Pop(stack, p)) /\ ~Carries(f, x)
  BY <1>3, <1>5, <1>8, <1>9, PutPush
<1>11. VarsOK'
  <2>1. /\ aw' \in [Awaiters -> {"none", "waiting", "woken", "returned", "timeout"}]
        /\ \A a \in Awaiters : aw'[a] = "returned" => aw[a] = "returned"
    BY <1>6 DEF SettleNotify, VarsOK
  <2> QED BY <1>6, <2>1 DEF VarsOK
<1>12. /\ After(hooks', pool', stack')
       /\ \A x \in Tokens : Nowhere(x, hooks', pool', stack') => Nowhere(x, hooks, pool, stack)
  BY <1>3, <1>5, <1>6, <1>10
<1> QED BY <1>6, <1>11, <1>12, NothingTouched

\* A cascade is over.
LEMMA FireEndKeeps ==
    ASSUME ChainIInv, NEW p \in Threads, FireEnd(p)
    PROVE  ChainIInv'
<1>1. ~Idle(p) /\ Top(p).k = "fire" /\ Top(p).todo = <<>>
  BY DEF FireEnd
<1>2. \A x : ~Carries(Top(p), x)
  <2>1. 1..Len(Top(p).todo) = {}
    BY <1>1
  <2> QED BY <1>1, <2>1 DEF Carries
<1>3. /\ UNCHANGED <<created, settled, result, hooks, pool, bStopped, exposed, joined, aw, got, tries, own, delivered>>
      /\ VarsOK /\ stack' = Pop(stack, p)
  BY <1>1, VarsKnown, TopFrame DEF FireEnd
<1>4. Grows /\ Still({})
  BY <1>3 DEF Grows, Still
<1>5. After(hooks, pool, Pop(stack, p))
  BY <1>1, <1>4, BasePop
<1>6. \A x \in Tokens : Nowhere(x, hooks, pool, Pop(stack, p)) => Nowhere(x, hooks, pool, stack)
  BY <1>1, <1>2, TopFrame
<1>7. VarsOK'
  BY <1>3 DEF VarsOK
<1> QED BY <1>3, <1>5, <1>6, <1>7, NothingTouched

\* A notice is called with result r.
CallsNotice(n, r) ==
    /\ delivered' = [delivered EXCEPT ![n] = Append(@, r)]
    /\ UNCHANGED <<created, settled, result, bStopped, exposed, joined, aw, got, tries, own, hooks>>

\* Calling an observer neither loses nor doubles a claim on a layer.
LEMMA CallStill ==
    ASSUME ChainIInv, NEW n \in Notices, NEW r, CallsNotice(n, r)
    PROVE  Grows /\ Still({NoticeHook(n)})
<1>1. \A m \in Notices : m # n => delivered'[m] = delivered[m]
  BY DEF ChainIInv, NoPast, CallsNotice
<1> QED BY <1>1 DEF CallsNotice, Grows, Still

\* Calling an observer keeps the inductive invariant.
LEMMA CallKeeps ==
    ASSUME ChainIInv, NEW n \in joined, delivered[n] = <<>>, settled[Target[n]],
           NEW r \in Results, r = result[Target[n]], CallsNotice(n, r), After(hooks', pool', stack'),
           \A x \in Tokens : Nowhere(x, hooks', pool', stack') => Nowhere(x, hooks, pool, stack) \/ x = NoticeHook(n)
    PROVE  ChainIInv'
<1>1. VarsOK /\ n \in Notices
  BY VarsKnown DEF VarsOK
<1>2. Grows /\ Still({NoticeHook(n)})
  BY <1>1, CallStill
<1>3. delivered'[n] = <<r>> /\ delivered' \in [Notices -> Seq(Results)]
  <2>1. delivered \in [Notices -> Seq(Results)] /\ Append(<<>>, r) = <<r>> /\ <<r>> \in Seq(Results)
    BY <1>1 DEF VarsOK
  <2> QED BY <1>1, <2>1 DEF CallsNotice
<1>4. VarsOK'
  BY <1>1, <1>3 DEF VarsOK, CallsNotice
<1>5. Accounted({NoticeHook(n)})
  <2>1. created' = created /\ joined' = joined /\ settled' = settled /\ result' = result
    BY DEF CallsNotice
  <2> QED BY <1>1, <1>3, <2>1, HookFields DEF Accounted
<1> QED BY <1>2, <1>4, <1>5, Step

\* A notice that was posted to its executor is called.
LEMMA DeliverPostedKeeps ==
    ASSUME ChainIInv, NEW p \in Threads, DeliverPosted(p)
    PROVE  ChainIInv'
<1>1. ~Idle(p) /\ Top(p).k = "deliver"
  BY DEF DeliverPosted
<1>2. PICK g, n, r : g = Top(p) /\ n = g.l /\ r = g.res
  OBVIOUS
<1>3. /\ FrameOK(g) /\ g \in FrameType /\ g.k = "deliver"
      /\ \A x \in Tokens : Nowhere(x, hooks, pool, Pop(stack, p))
                             <=> Nowhere(x, hooks, pool, stack) \/ Carries(g, x)
  BY <1>1, <1>2, TopFrame
<1>4. /\ n \in joined /\ delivered[n] = <<>> /\ settled[Target[n]] /\ r = result[Target[n]] /\ r \in Results
      /\ g.todo = <<>> /\ n \in Notices
  BY <1>2, <1>3, VarsKnown DEF FrameOK, FrameType, VarsOK
<1>5. \A x : Carries(g, x) <=> x = NoticeHook(n)
  <2>1. 1..Len(g.todo) = {}
    BY <1>4
  <2> QED BY <1>2, <1>3, <2>1 DEF Carries
<1>6. CallsNotice(n, r) /\ stack' = Pop(stack, p) /\ hooks' = hooks /\ pool' = pool
  BY <1>1, <1>2, TopFrame DEF DeliverPosted, CallsNotice
<1>7. PICK X : X = {NoticeHook(n)}
  OBVIOUS
<1>8. Grows /\ Still(X) /\ X \subseteq Tokens /\ \A x \in X : Carries(Top(p), x)
  BY <1>2, <1>4, <1>5, <1>6, <1>7, CallStill DEF Tokens
<1>9. After(hooks, pool, Pop(stack, p))
  BY <1>1, <1>8, BasePop
<1>10. /\ After(hooks', pool', stack')
       /\ \A x \in Tokens : Nowhere(x, hooks', pool', stack')
                              => Nowhere(x, hooks, pool, stack) \/ x = NoticeHook(n)
  BY <1>3, <1>5, <1>6, <1>9
<1> QED BY <1>4, <1>6, <1>10, CallKeeps

\* The next handler h of a cascade is taken out of the top frame g; g2 is left.
LEMMA FireBase ==
    ASSUME ChainIInv, NEW p \in Threads, ~Idle(p), Top(p).k = "fire", Top(p).todo # <<>>,
           NEW g, g = Top(p), NEW h, h = Head(g.todo), NEW g2, g2 = [g EXCEPT !.todo = Tail(g.todo)],
           NEW X, X \subseteq {Token(h)}, Grows, Still(X), NEW st0, st0 = Push(Pop(stack, p), p, g2)
    PROVE  /\ After(hooks, pool, st0)
           /\ Leaves(p, <<g2>> \o Rest(p), st0)
           /\ Nowhere(Token(h), hooks, pool, st0)
           /\ \A x \in Tokens : Nowhere(x, hooks, pool, st0) => Nowhere(x, hooks, pool, stack) \/ x = Token(h)
           /\ HookLive(h) /\ settled[HookOn(h)] /\ g.res = result[HookOn(h)] /\ g.res \in Results
<1>1. /\ FrameOK(g) /\ OnceIn(g) /\ g \in FrameType /\ g.k = "fire"
      /\ \A x : Carries(g, x) => x \in Tokens
      /\ \A x \in Tokens : Nowhere(x, hooks, pool, Pop(stack, p))
                             <=> Nowhere(x, hooks, pool, stack) \/ Carries(g, x)
  BY TopFrame
<1>2. g.todo \in Seq(Hooks) /\ g.todo # <<>> /\ g.res \in Results
  BY <1>1 DEF FrameType
<1>3. PICK td, tl : td = g.todo /\ tl = Tail(g.todo)
  OBVIOUS
<1>4. /\ tl \in Seq(Hooks) /\ 1 \in 1..Len(td) /\ h = td[1]
      /\ \A i \in 1..Len(tl) : i + 1 \in 1..Len(td) /\ tl[i] = td[i + 1]
      /\ \A j \in 1..Len(td) : j = 1 \/ (j - 1 \in 1..Len(tl) /\ tl[j - 1] = td[j])
      /\ \A i \in 1..Len(tl) : i + 1 # 1
  <2>1. /\ tl \in Seq(Hooks) /\ 1 \in 1..Len(td) /\ h = td[1]
        /\ \A i \in 1..Len(tl) : i + 1 \in 1..Len(td) /\ tl[i] = td[i + 1]
        /\ \A j \in 1..Len(td) : j = 1 \/ (j - 1 \in 1..Len(tl) /\ tl[j - 1] = td[j])
    BY <1>2, <1>3, PoppedSeq
  <2>2. Len(tl) \in Nat
    BY <2>1
  <2>3. \A i \in 1..Len(tl) : i + 1 # 1
    BY <2>2
  <2> QED BY <2>1, <2>3
<1>5. g2 \in FrameType /\ g2.k = "fire" /\ g2.res = g.res /\ g2.todo = tl
  BY <1>1, <1>3, <1>4 DEF FrameType
<1>6. /\ \A x : Carries(g, x) <=> \E i \in 1..Len(td) : Token(td[i]) = x
      /\ \A x : Carries(g2, x) <=> \E i \in 1..Len(tl) : Token(tl[i]) = x
  BY <1>1, <1>3, <1>5 DEF Carries
<1>7. \A i, j \in 1..Len(td) : Token(td[i]) = Token(td[j]) => i = j
  BY <1>1, <1>3 DEF OnceIn
<1>8. OnceIn(g2) /\ ~Carries(g2, Token(h))
  <2>1. ASSUME NEW i \in 1..Len(tl), NEW j \in 1..Len(tl), Token(tl[i]) = Token(tl[j]) PROVE i = j
    <3>1. i + 1 = j + 1
      BY <1>4, <1>7, <2>1
    <3> QED BY <3>1
  <2>2. ASSUME NEW i \in 1..Len(tl), Token(tl[i]) = Token(h) PROVE FALSE
    <3>1. i + 1 \in 1..Len(td) /\ Token(td[i + 1]) = Token(td[1]) /\ 1 \in 1..Len(td) /\ i + 1 # 1
      BY <1>4, <2>2
    <3> QED BY <1>7, <3>1
  <2> QED BY <1>5, <1>6, <2>1, <2>2 DEF OnceIn
<1>9. Carries(g, Token(h)) /\ (\A x : Carries(g, x) => x = Token(h) \/ Carries(g2, x))
      /\ \A x : Carries(g2, x) => Carries(g, x)
  BY <1>4, <1>6
<1>10. \A i \in 1..Len(td) : HookLive(td[i]) /\ settled[HookOn(td[i])] /\ g.res = result[HookOn(td[i])]
  BY <1>1, <1>3 DEF FrameOK
<1>11. FrameOK(g2)
  <2>1. \A i \in 1..Len(tl) : HookLive(tl[i]) /\ settled[HookOn(tl[i])] /\ g2.res = result[HookOn(tl[i])]
    BY <1>4, <1>5, <1>10
  <2> QED BY <1>5, <2>1 DEF FrameOK
<1>12. FrameOK(g2)'
  <2>1. created \subseteq Layers /\ joined \subseteq Notices
    BY DEF ChainIInv, TypeOK
  <2>2. \A x \in X : ~Carries(g2, x)
    BY <1>8
  <2> QED BY <1>11, <2>1, <2>2, FrameStays
<1>13. After(hooks, pool, Pop(stack, p))
  <2>1. X \subseteq Tokens /\ \A x \in X : Carries(Top(p), x)
    BY <1>1, <1>9
  <2> QED BY <2>1, BasePop
<1>14. \A x : Carries(g2, x) => Nowhere(x, hooks, pool, Pop(stack, p))
  BY <1>1, <1>9
<1>15. /\ After(hooks, pool, st0)
       /\ \A x : Nowhere(x, hooks, pool, st0) <=> Nowhere(x, hooks, pool, Pop(stack, p)) /\ ~Carries(g2, x)
  BY <1>8, <1>12, <1>13, <1>14, PutPush
<1>16. Nowhere(Token(h), hooks, pool, st0)
  BY <1>1, <1>8, <1>9, <1>15
<1>17. \A x \in Tokens : Nowhere(x, hooks, pool, st0) => Nowhere(x, hooks, pool, stack) \/ x = Token(h)
  BY <1>1, <1>9, <1>15
<1>18. Leaves(p, <<g2>> \o Rest(p), st0)
  <2>1. SetStack(p, <<g2>> \o Rest(p)) => stack' = st0
    BY TopFrame
  <2>2. stack \in [Threads -> Seq(FrameType)]
    BY DEF ChainIInv, FramesOK
  <2>3. st0 = [stack EXCEPT ![p] = <<g2>> \o Rest(p)]
    BY <2>2 DEF Push, Pop, Rest
  <2>4. PICK b : b = <<g2>> \o Rest(p)
    OBVIOUS
  <2>5. \A f : SetStack(p, <<f>> \o b) => stack' = Push(st0, p, f)
    BY <2>2, <2>3, <2>4 DEF SetStack, Push
  <2> QED BY <2>1, <2>4, <2>5 DEF Leaves
<1> QED BY <1>2, <1>4, <1>10, <1>15, <1>16, <1>17, <1>18

\* The next handler of a cascade is run.
LEMMA FireKeeps ==
    ASSUME ChainIInv, NEW p \in Threads, Fire(p)
    PROVE  ChainIInv'
<1>1. ~Idle(p) /\ Top(p).k = "fire" /\ Top(p).todo # <<>>
  BY DEF Fire
<1>2. PICK g : g = Top(p)
  OBVIOUS
<1>3. PICK h, g2, res : h = Head(g.todo) /\ g2 = [g EXCEPT !.todo = Tail(g.todo)] /\ res = g.res
  OBVIOUS
<1>4. PICK st0, b : st0 = Push(Pop(stack, p), p, g2) /\ b = <<g2>> \o Rest(p)
  OBVIOUS
<1>5. RunHook(p, h, res, b)
  BY <1>2, <1>3, <1>4 DEF Fire
<1>6. /\ UNCHANGED <<created, settled, result, hooks, bStopped, exposed, joined, aw, got, tries, own>>
      /\ VarsOK
  BY VarsKnown DEF Fire
<1>7. FrameOK(g)
  BY <1>1, <1>2, TopFrame
<1>8. ASSUME UNCHANGED delivered
      PROVE  /\ After(hooks, pool, st0) /\ Leaves(p, b, st0) /\ Nowhere(Token(h), hooks, pool, st0)
             /\ \A x \in Tokens : Nowhere(x, hooks, pool, st0) => Nowhere(x, hooks, pool, stack) \/ x = Token(h)
             /\ HookLive(h) /\ settled[HookOn(h)] /\ res = result[HookOn(h)] /\ res \in Results
             /\ HookLive(h)' /\ VarsOK'
  <2>1. PICK X : X = {}
    OBVIOUS
  <2>2. Grows /\ Still(X) /\ X \subseteq {Token(h)} /\ Token(h) \notin X
    BY <1>6, <1>8, <2>1 DEF Grows, Still
  <2>3. /\ After(hooks, pool, st0) /\ Leaves(p, b, st0) /\ Nowhere(Token(h), hooks, pool, st0)
        /\ \A x \in Tokens : Nowhere(x, hooks, pool, st0) => Nowhere(x, hooks, pool, stack) \/ x = Token(h)
        /\ HookLive(h) /\ settled[HookOn(h)] /\ res = result[HookOn(h)] /\ res \in Results
    BY <1>1, <1>2, <1>3, <1>4, <2>2, FireBase
  <2>4. HookLive(h)'
    BY <2>2, <2>3, HookStays
  <2>5. VarsOK'
    BY <1>6, <1>8 DEF VarsOK
  <2> QED BY <2>3, <2>4, <2>5
<1>9. ASSUME UNCHANGED delivered, After(hooks', pool', stack'), ~Nowhere(Token(h), hooks', pool', stack'),
             \A x : Nowhere(x, hooks', pool', stack') => Nowhere(x, hooks, pool, st0)
      PROVE  ChainIInv'
  BY <1>6, <1>8, <1>9, NothingTouched
<1>10. ASSUME UNCHANGED <<delivered, pool>>, h.t \in {"layer", "adopt"}, SetStack(p, <<SettleFrame(h.id, res)>> \o b),
              h.t = "layer" => Skipped(h.id, res)
       PROVE  ChainIInv'
  <2>1. /\ After(hooks, pool, st0) /\ Leaves(p, b, st0) /\ Nowhere(Token(h), hooks, pool, st0)
        /\ HookLive(h) /\ settled[HookOn(h)] /\ res = result[HookOn(h)] /\ res \in Results /\ HookLive(h)'
    BY <1>8, <1>10
  <2>2. h \in Hooks
    BY <2>1 DEF HookLive
  <2>3. h.id \in Layers /\ Token(h) = LayerHook(h.id)
    BY <1>10, <2>2, HookFields
  <2>4. PICK l \in Layers : l = h.id
    BY <2>3
  <2>5. l \in Chained /\ l \in created' /\ ~settled'[l] /\ Mode[l] # "starter"
    BY <1>10, <2>1, <2>4, Shape DEF HookLive
  <2>6. Outcome(l, res)
    <3>1. CASE h.t = "layer"
      <4>1. HookOn(h) = Up[l] /\ tries[l] = 0
        BY <2>1, <2>4, <3>1 DEF HookOn, HookLive
      <4> QED BY <1>10, <2>1, <2>4, <3>1, <4>1 DEF Outcome
    <3>2. CASE h.t = "adopt"
      <4>1. /\ HookOn(h) = Child[l] /\ own[l] = "ok" /\ Mode[l] = "promise"
            /\ settled[Up[l]] /\ ~Skipped(l, result[Up[l]])
        BY <2>1, <2>4, <3>2 DEF HookOn, HookLive
      <4> QED BY <2>1, <4>1 DEF Outcome
    <3> QED BY <1>10, <3>1, <3>2
  <2>7. Outcome(l, res)'
    <3>1. Grows /\ tries'[l] = tries[l] /\ own'[l] = own[l]
      BY <1>6 DEF Grows
    <3> QED BY <2>5, <2>6, <3>1, OutcomeStays
  <2>8. FrameOK(SettleFrame(l, res))'
    BY <2>1, <2>5, <2>7, SettleOK
  <2>9. PICK f : f = SettleFrame(l, res)
    OBVIOUS
  <2>10. FrameOK(f)' /\ OnceIn(f) /\ \A x : Carries(f, x) <=> x = Token(h)
    BY <2>3, <2>4, <2>5, <2>8, <2>9, Carried
  <2>11. /\ After(hooks, pool, Push(st0, p, f))
         /\ \A x : Nowhere(x, hooks, pool, Push(st0, p, f)) <=> Nowhere(x, hooks, pool, st0) /\ ~Carries(f, x)
    BY <2>1, <2>10, PutPush
  <2>12. stack' = Push(st0, p, f) /\ hooks' = hooks /\ pool' = pool
    BY <1>6, <1>10, <2>1, <2>4, <2>9 DEF Leaves
  <2> QED BY <1>9, <1>10, <2>10, <2>11, <2>12
<1>11. ASSUME delivered' = delivered, h.t = "layer", ~Skipped(h.id, res), DispatchInlineOrPost(p, b, h.id, res)
       PROVE  ChainIInv'
  <2>1. /\ After(hooks, pool, st0) /\ Leaves(p, b, st0) /\ Nowhere(Token(h), hooks, pool, st0)
        /\ HookLive(h) /\ settled[HookOn(h)] /\ res = result[HookOn(h)] /\ res \in Results /\ HookLive(h)'
    BY <1>8, <1>11
  <2>2. h \in Hooks
    BY <2>1 DEF HookLive
  <2>3. h.id \in Layers /\ Token(h) = LayerHook(h.id)
    BY <1>11, <2>2, HookFields
  <2>4. PICK l \in Layers : l = h.id
    BY <2>3
  <2>5. /\ (l \in created /\ own[l] = "none" /\ tries[l] = 0 /\ (Mode[l] # "starter" => ~settled[l]))'
        /\ HookOn(h) = Up[l] /\ l \in Chained /\ Mode[l] # "starter"
    BY <1>11, <2>1, <2>4, Shape DEF HookLive, HookOn
  <2>6. (l \in Chained => settled[Up[l]] /\ res = result[Up[l]] /\ ~Skipped(l, res))'
    BY <1>6, <1>11, <2>1, <2>4, <2>5
  <2>7. DispatchInlineOrPost(p, b, l, res) /\ UNCHANGED <<hooks, bStopped>> /\ Nowhere(LayerHook(l), hooks, pool, st0)
    BY <1>6, <1>11, <2>1, <2>3, <2>4
  <2>8. /\ After(hooks', pool', stack')
        /\ \A x : Nowhere(x, hooks', pool', stack') => Nowhere(x, hooks, pool, st0)
        /\ ~Nowhere(LayerHook(l), hooks', pool', stack')
    BY <2>1, <2>5, <2>6, <2>7, DispatchPuts
  <2> QED BY <1>9, <1>11, <2>3, <2>4, <2>8
<1>12. ASSUME h.t = "notice", delivered' = [delivered EXCEPT ![h.id] = Append(@, res)],
              SetStack(p, b), pool' = pool
       PROVE  ChainIInv'
  <2>1. h \in Hooks
    <3>1. g \in FrameType /\ g.todo # <<>>
      BY <1>1, <1>2, TopFrame
    <3>2. g.todo \in Seq(Hooks)
      BY <3>1 DEF FrameType
    <3> QED BY <1>3, <3>1, <3>2, PoppedSeq
  <2>2. h.id \in Notices /\ Token(h) = NoticeHook(h.id)
    BY <1>12, <2>1, HookFields
  <2>3. PICK n \in Notices : n = h.id
    BY <2>2
  <2>4. CallsNotice(n, res)
    BY <1>6, <1>12, <2>3 DEF CallsNotice
  <2>5. PICK X : X = {NoticeHook(n)}
    OBVIOUS
  <2>6. Grows /\ Still(X) /\ X \subseteq {Token(h)}
    BY <2>2, <2>3, <2>4, <2>5, CallStill
  <2>7. /\ After(hooks, pool, st0) /\ Leaves(p, b, st0)
        /\ \A x \in Tokens : Nowhere(x, hooks, pool, st0) => Nowhere(x, hooks, pool, stack) \/ x = Token(h)
        /\ HookLive(h) /\ settled[HookOn(h)] /\ res = result[HookOn(h)] /\ res \in Results
    BY <1>1, <1>2, <1>3, <1>4, <2>6, FireBase
  <2>8. n \in joined /\ delivered[n] = <<>> /\ HookOn(h) = Target[n]
    BY <1>12, <2>3, <2>7 DEF HookLive, HookOn
  <2>9. stack' = st0 /\ hooks' = hooks
    BY <1>6, <1>12, <2>7 DEF Leaves
  <2>10. /\ After(hooks', pool', stack')
         /\ \A x \in Tokens : Nowhere(x, hooks', pool', stack')
                                => Nowhere(x, hooks, pool, stack) \/ x = NoticeHook(n)
    BY <1>12, <2>2, <2>3, <2>7, <2>9
  <2> QED BY <2>4, <2>7, <2>8, <2>10, CallKeeps
<1>13. ASSUME h.t = "notice", delivered' = delivered, SetStack(p, b),
              pool' = pool \cup {Frame("deliver", h.id, res, <<>>, FALSE)}
       PROVE  ChainIInv'
  <2>1. /\ After(hooks, pool, st0) /\ Leaves(p, b, st0) /\ Nowhere(Token(h), hooks, pool, st0)
        /\ HookLive(h) /\ settled[HookOn(h)] /\ res = result[HookOn(h)] /\ res \in Results /\ HookLive(h)'
    BY <1>8, <1>13
  <2>2. h \in Hooks
    BY <2>1 DEF HookLive
  <2>3. h.id \in Notices /\ Token(h) = NoticeHook(h.id)
    BY <1>13, <2>2, HookFields
  <2>4. PICK f : f = Frame("deliver", h.id, res, <<>>, FALSE)
    OBVIOUS
  <2>5. f \in FrameType /\ f.k = "deliver" /\ f.l = h.id /\ f.res = res /\ f.todo = <<>>
    BY <2>1, <2>3, <2>4 DEF FrameType, Frame
  <2>6. 1..Len(f.todo) = {}
    BY <2>5
  <2>7. HookOn(h) = Target[h.id] /\ h.id \in joined' /\ delivered'[h.id] = <<>>
    BY <1>13, <2>1 DEF HookOn, HookLive
  <2>8. FrameOK(f)'
    BY <1>6, <2>1, <2>5, <2>6, <2>7 DEF FrameOK
  <2>9. OnceIn(f) /\ \A x : Carries(f, x) <=> x = Token(h)
    BY <2>3, <2>4, Carried
  <2>10. /\ After(hooks, pool \cup {f}, st0)
         /\ \A x : Nowhere(x, hooks, pool \cup {f}, st0) <=> Nowhere(x, hooks, pool, st0) /\ ~Carries(f, x)
    BY <2>1, <2>8, <2>9, PutPost
  <2>11. stack' = st0 /\ hooks' = hooks /\ pool' = pool \cup {f}
    BY <1>6, <1>13, <2>1, <2>4 DEF Leaves
  <2> QED BY <1>9, <1>13, <2>9, <2>10, <2>11
<1> QED BY <1>5, <1>10, <1>11, <1>12, <1>13 DEF RunHook, Deliver

\* The invariant holds at the start.
LEMMA ChainInit == Init => ChainIInv
<1> SUFFICES ASSUME Init PROVE ChainIInv
  OBVIOUS
<1>0. Stopped \in Results /\ 1..Len(<<>>) = {}
  BY DEF Results
<1>1. TypeOK
  BY <1>0 DEF Init, TypeOK
<1>2. SettledOK /\ ObserversExact /\ NotLost
  BY Shape DEF Init, SettledOK, ObserversExact, NotLost
<1>3. NoPast
  BY DEF Init, NoPast
<1>4. \A p \in Threads : 1..Len(stack[p]) = {}
  BY <1>0 DEF Init
<1>5. \A u \in Layers : 1..Len(hooks[u]) = {}
  BY <1>0 DEF Init
<1>6. FramesOK
  <2>1. pool \subseteq FrameType /\ stack \in [Threads -> Seq(FrameType)]
    BY DEF Init
  <2>2. \A f : f \notin FramesIn(pool, stack)
    BY <1>4, InFrames DEF Init
  <2> QED BY <2>1, <2>2 DEF FramesOK
<1>7. HooksOK
  <2>1. hooks \in [Layers -> Seq(Hooks)]
    BY DEF Init
  <2> QED BY <1>5, <2>1 DEF HooksOK, HooksIn
<1>8. Unique(hooks, pool, stack)
  BY <1>4, <1>5 DEF Unique, Init
<1> QED BY <1>1, <1>2, <1>3, <1>6, <1>7, <1>8 DEF ChainIInv

\* Every step keeps it.
LEMMA ChainNext == ChainIInv /\ [Next]_vars => ChainIInv'
<1> SUFFICES ASSUME ChainIInv, [Next]_vars PROVE ChainIInv'
  OBVIOUS
<1>1. ASSUME NEW p \in Users, UserStep(p) PROVE ChainIInv'
  <2>0. p \in Threads
    BY DEF Threads
  <2>1. ASSUME NEW l \in Layers, ThenCatchFinally(p, l) \/ ThenPromise(p, l) PROVE ChainIInv'
    BY <2>0, <2>1, AppendLayerKeeps DEF ThenCatchFinally, ThenPromise
  <2>2. ASSUME NEW l \in Layers, NewPromise(p, l) PROVE ChainIInv'
    <3>1. PICK b : b = <<>>
      OBVIOUS
    <3>2. NewFromHandle(p, b, l) /\ Leaves(p, b, stack)
      BY <2>0, <2>2, <3>1, Bases DEF NewPromise
    <3> QED BY <2>0, <3>2, NewFromHandleKeeps
  <2>3. ASSUME NEW l \in Layers, StartChain(p, l) PROVE ChainIInv'
    BY <2>0, <2>3, StartChainKeeps
  <2>4. ASSUME NEW n \in Notices, OnSettled(p, n) PROVE ChainIInv'
    BY <2>0, <2>4, OnSettledKeeps
  <2>5. ASSUME NEW l \in Layers, NEW res \in Results, ExternalSettle(p, l, res) PROVE ChainIInv'
    BY <2>0, <2>5, ExternalSettleKeeps
  <2> QED BY <1>1, <2>1, <2>2, <2>3, <2>4, <2>5 DEF UserStep
<1>2. ASSUME NEW p \in Threads, ThreadStep(p) PROVE ChainIInv'
  <2>1. ASSUME BodyStep(p) PROVE ChainIInv'
    BY <2>1, RunBodyKeeps, RunBodySuspendsKeeps, RunStarterKeeps, FactoryStartsChildKeeps,
       FactoryThrowsKeeps, FactoryReturnsKeeps DEF BodyStep
  <2> QED BY <1>2, <2>1, SettleKeeps, SettleNotifyKeeps, FireKeeps, FireEndKeeps, DeliverPostedKeeps DEF ThreadStep
<1>3. ASSUME NEW w \in Workers, WorkerStep(w) PROVE ChainIInv'
  BY <1>3, WorkerTakeKeeps DEF WorkerStep
<1>4. ASSUME NEW a \in Awaiters, AwaitTest(a) \/ AwaitSpuriousWake(a) \/ AwaitTimeout(a) PROVE ChainIInv'
  BY <1>4, AwaitKeeps
<1>5. ASSUME StopExecutor PROVE ChainIInv'
  BY <1>5, StopExecutorKeeps
<1>6. ASSUME UNCHANGED vars PROVE ChainIInv'
  BY <1>6, StutterKeeps
<1> QED BY <1>1, <1>2, <1>3, <1>4, <1>5, <1>6 DEF Next, Finished

-------------------------------------------------------------------------------
(* What follows. *)

\* The inductive invariant implies the contract of a chain.
LEMMA ChainFollows == ChainIInv => ChainInv
<1> SUFFICES ASSUME ChainIInv PROVE ChainInv
  OBVIOUS
<1>1. ASSUME NEW l \in Chained, settled[l] PROVE Outcome(l, result[l])
  <2>1. l \in Layers /\ result[l] \in Results
    BY Shape DEF ChainIInv, TypeOK
  <2> QED BY <1>1, <2>1 DEF ChainIInv, SettledOK
<1>2. \A l \in Layers : tries[l] <= 2
  BY DEF ChainIInv, SettledOK
<1>3. ChainSemantics
  BY <1>1, <1>2 DEF ChainSemantics, Outcome
<1>4. TypeOK
  BY DEF ChainIInv
<1> QED BY <1>3, <1>4 DEF ChainInv

\* When all is quiet, tokens are in the hooks of layers that are not settled.
LEMMA QuietFollows == ChainIInv => NothingStranded
<1> SUFFICES ASSUME ChainIInv, Quiescent PROVE NothingStranded
  BY DEF NothingStranded
<1>1. pool = {} /\ \A p \in Threads : 1..Len(stack[p]) = {}
  BY DEF Quiescent, Idle
<1>2. \A x : ~Nowhere(x, hooks, pool, stack) =>
              \E u \in Layers : \E h \in HooksIn(hooks, u) : Token(h) = x
  BY <1>1 DEF Nowhere, HooksIn
<1>3. \A u \in Layers : \A h \in HooksIn(hooks, u) : HookLive(h) /\ HookOn(h) = u /\ ~settled[u]
  BY DEF ChainIInv, HooksOK, TypeOK, HooksIn
<1>4. VarsOK
  BY VarsKnown
<1>5. ASSUME NEW l \in created, Mode[l] # "starter", ~settled[l]
      PROVE  l \in Chained /\ (~settled[Up[l]] \/ (Mode[l] = "promise" /\ ~settled[Child[l]]))
  <2>0. PICK u \in Layers : \E h \in HooksIn(hooks, u) : Token(h) = LayerHook(l)
    BY <1>2, <1>5 DEF ChainIInv, NotLost
  <2>1. PICK h \in HooksIn(hooks, u) : Token(h) = LayerHook(l)
    BY <2>0
  <2>2. HookLive(h) /\ HookOn(h) = u /\ ~settled[u] /\ h \in Hooks
    BY <1>3 DEF HookLive
  <2>3. h.t \in {"layer", "adopt"} /\ h.id = l
    BY <2>1, <2>2, HookFields
  <2>4. CASE h.t = "layer"
    BY <2>2, <2>3, <2>4 DEF HookLive, HookOn
  <2>5. CASE h.t = "adopt"
    <3>1. Mode[l] = "promise" /\ HookOn(h) = Child[l] /\ l \in Layers
      BY <1>4, <2>2, <2>3, <2>5 DEF HookLive, HookOn, VarsOK
    <3> QED BY <2>2, <3>1, Shape
  <2> QED BY <2>3, <2>4, <2>5
<1>6. ASSUME NEW n \in joined, settled[Target[n]] PROVE delivered[n] = <<result[Target[n]]>>
  <2>1. n \in Notices
    BY <1>4 DEF VarsOK
  <2>2. CASE delivered[n] # <<>>
    BY <2>1, <2>2 DEF ChainIInv, ObserversExact
  <2>3. CASE delivered[n] = <<>>
    <3>0. PICK u \in Layers : \E h \in HooksIn(hooks, u) : Token(h) = NoticeHook(n)
      BY <1>2, <2>3 DEF ChainIInv, NotLost
    <3>1. PICK h \in HooksIn(hooks, u) : Token(h) = NoticeHook(n)
      BY <3>0
    <3>2. HookOn(h) = u /\ ~settled[u] /\ h \in Hooks
      BY <1>3 DEF HookLive
    <3>3. h.t = "notice" /\ h.id = n
      BY <3>1, <3>2, HookFields
    <3>4. HookOn(h) = Target[n]
      BY <3>3 DEF HookOn
    <3> QED BY <1>6, <3>2, <3>4
  <2> QED BY <2>2, <2>3
<1>7. \A l \in created : Mode[l] = "handler" => settled[l]
  <2>1. \A l \in created : Mode[l] = "handler" => l \notin Chained
    BY <1>4, Shape DEF VarsOK
  <2> QED BY <1>5, <2>1
<1>8. \A l \in created \cap Chained :
        settled[Up[l]] => settled[l] \/ (Mode[l] = "promise" /\ ~settled[Child[l]])
  BY <1>5, Shape
<1> QED BY <1>6, <1>7, <1>8 DEF NothingStranded

\* Only Settle changes what is settled, and only of a layer that is not.
LEMMA SettledStays ==
    ASSUME ChainIInv, [Next]_vars
    PROVE  \A l \in Layers : settled[l] => settled'[l] /\ result'[l] = result[l]
<1>1. CASE UNCHANGED <<settled, result>>
  BY <1>1
<1>2. ASSUME NEW p \in Threads, Settle(p)
      PROVE  \A l \in Layers : settled[l] => settled'[l] /\ result'[l] = result[l]
  <2>1. settled \in [Layers -> BOOLEAN] /\ result \in [Layers -> Results]
    BY DEF ChainIInv, TypeOK
  <2>2. CASE settled[Top(p).l]
    BY <1>2, <2>2 DEF Settle
  <2>3. CASE ~settled[Top(p).l]
    <3>1. PICK l : l = Top(p).l
      OBVIOUS
    <3>2. settled' = [settled EXCEPT ![l] = TRUE] /\ result' = [result EXCEPT ![l] = Top(p).res]
      BY <1>2, <2>3, <3>1 DEF Settle
    <3> QED BY <2>1, <2>3, <3>1, <3>2
  <2> QED BY <2>2, <2>3
<1>3. \/ UNCHANGED <<settled, result>>
      \/ \E p \in Threads : Settle(p)
  <2>1. ASSUME NEW p \in Users, UserStep(p) PROVE UNCHANGED <<settled, result>>
    BY <2>1 DEF UserStep, ThenCatchFinally, ThenPromise, AppendLayer, StartChain, NewPromise, NewFromHandle,
                OnSettled, ExternalSettle
  <2>2. ASSUME NEW p \in Threads, ThreadStep(p), ~Settle(p) PROVE UNCHANGED <<settled, result>>
    <3>1. CASE BodyStep(p)
      BY <3>1 DEF BodyStep, RunBody, RunBodySuspends, RunStarter, FactoryStartsChild, NewFromHandle,
                  FactoryThrows, FactoryReturns
    <3>2. CASE SettleNotify(p) \/ Fire(p) \/ FireEnd(p) \/ DeliverPosted(p)
      BY <3>2 DEF SettleNotify, Fire, FireEnd, DeliverPosted
    <3> QED BY <2>2, <3>1, <3>2 DEF ThreadStep
  <2>3. ASSUME NEW w \in Workers, WorkerStep(w) PROVE UNCHANGED <<settled, result>>
    BY <2>3 DEF WorkerStep, WorkerTake
  <2>4. ASSUME NEW a \in Awaiters, AwaitTest(a) \/ AwaitSpuriousWake(a) \/ AwaitTimeout(a)
        PROVE  UNCHANGED <<settled, result>>
    BY <2>4 DEF AwaitTest, AwaitSpuriousWake, AwaitTimeout, awaitUnchanged
  <2>5. ASSUME StopExecutor PROVE UNCHANGED <<settled, result>>
    BY <2>5 DEF StopExecutor
  <2>6. ASSUME UNCHANGED vars PROVE UNCHANGED <<settled, result>>
    BY <2>6 DEF vars
  <2> QED BY <2>1, <2>2, <2>3, <2>4, <2>5, <2>6 DEF Next, Finished
<1> QED BY <1>1, <1>2, <1>3

\* The inductive invariant holds in every reachable state.
THEOREM ChainInductive == Spec => []ChainIInv
  BY ChainInit, ChainNext, PTL DEF Spec

\* Chains of any shape keep the contract: every layer is settled after its
\* upstream, with what the upstream's result and its own code, run at most
\* twice, make of it, or as stopped without its code having finished.
THEOREM ChainInvHolds == Spec => []ChainInv
  BY ChainInductive, ChainFollows, PTL

\* Whenever no thread is inside the framework and the pool is empty, nothing was
\* forgotten: layers, promise layers and notices alike, stopped executor or not.
THEOREM NothingStrandedHolds == Spec => []NothingStranded
  BY ChainInductive, QuietFollows, PTL

\* The first settlement of a layer wins, for ever.
THEOREM SettledForGoodHolds == Spec => SettledForGood
<1>1. ChainIInv /\ [Next]_vars => [\A l \in Layers : settled[l] => settled'[l] /\ result'[l] = result[l]]_vars
  BY SettledStays
<1> QED BY <1>1, ChainInductive, PTL DEF Spec, SettledForGood

-------------------------------------------------------------------------------
(* In-place execution.  Whether a layer may run in place is decided from the *)
(* depth of the thread's stack; the rest of a step never nests deeper.       *)

\* The places of a stack with an in-place run, and with any in-place entry.
InlineRuns(s) == {i \in 1..Len(s) : s[i].inl /\ s[i].l # None}
InlineEntries(s) == {i \in 1..Len(s) : s[i].inl}

\* A stack that thread p may have.
StackSafe(p, s) ==
    /\ s \in Seq(FrameType)
    /\ p \in Users => \A i \in 1..Len(s) : s[i].k \notin {"run", "retry"}
    /\ Cardinality(InlineRuns(s)) <= MaxInlineDepth

InlineInv ==
    /\ \A f \in pool : ~f.inl
    /\ \A p \in Threads : StackSafe(p, stack[p])

\* A stack has finitely many in-place runs.
LEMMA RunsFinite ==
    ASSUME NEW s \in Seq(FrameType)
    PROVE  /\ IsFiniteSet(InlineRuns(s)) /\ IsFiniteSet(InlineEntries(s))
           /\ Cardinality(InlineRuns(s)) \in Nat /\ Cardinality(InlineEntries(s)) \in Nat
           /\ Cardinality(InlineRuns(s)) <= Cardinality(InlineEntries(s))
<1>1. 1 \in Int /\ Len(s) \in Int
  OBVIOUS
<1>2. IsFiniteSet(1..Len(s))
  BY <1>1, FS_Interval
<1>3. InlineRuns(s) \in SUBSET InlineEntries(s) /\ InlineEntries(s) \in SUBSET (1..Len(s))
  BY DEF InlineRuns, InlineEntries
<1>4. IsFiniteSet(InlineEntries(s))
  BY <1>2, <1>3, FS_Subset
<1>5. IsFiniteSet(InlineRuns(s)) /\ Cardinality(InlineRuns(s)) <= Cardinality(InlineEntries(s))
  BY <1>3, <1>4, FS_Subset
<1> QED BY <1>4, <1>5, FS_CardinalityType

\* A stack without its top frame.
LEMMA SafePop ==
    ASSUME NEW p, NEW s, StackSafe(p, s), s # <<>>
    PROVE  StackSafe(p, Tail(s))
<1>1. s \in Seq(FrameType)
  BY DEF StackSafe
<1>2. PICK t : t = Tail(s)
  OBVIOUS
<1>3. /\ t \in Seq(FrameType) /\ Len(t) \in Nat
      /\ \A i \in 1..Len(t) : i + 1 \in 1..Len(s) /\ t[i] = s[i + 1]
  BY <1>1, <1>2, PoppedSeq
<1>4. Cardinality(InlineRuns(t)) <= Cardinality(InlineRuns(s))
  <2>1. PICK g : g = [i \in InlineRuns(t) |-> i + 1]
    OBVIOUS
  <2>2. \A i \in InlineRuns(t) : i \in Int /\ g[i] = i + 1 /\ g[i] \in InlineRuns(s)
    BY <1>3, <2>1 DEF InlineRuns
  <2>3. g \in [InlineRuns(t) -> InlineRuns(s)]
    BY <2>1, <2>2
  <2>4. \A i, j \in InlineRuns(t) : g[i] = g[j] => i = j
    BY <2>2
  <2>5. g \in Injection(InlineRuns(t), InlineRuns(s))
    BY <2>3, <2>4 DEF Injection, IsInjective
  <2>6. IsFiniteSet(InlineRuns(s))
    BY <1>1, RunsFinite
  <2> QED BY <2>5, <2>6, FS_Injection
<1>5. p \in Users => \A i \in 1..Len(t) : t[i].k \notin {"run", "retry"}
  BY <1>3 DEF StackSafe
<1>6. Cardinality(InlineRuns(t)) <= MaxInlineDepth
  BY <1>1, <1>3, <1>4, RunsFinite, ChainAssumption DEF StackSafe
<1> QED BY <1>2, <1>3, <1>5, <1>6 DEF StackSafe

\* A frame is put on top: an in-place run only where there is room for it.
LEMMA SafePush ==
    ASSUME NEW p, NEW s, StackSafe(p, s), NEW f \in FrameType,
           p \in Users => f.k \notin {"run", "retry"},
           (f.inl /\ f.l # None) => Cardinality(InlineRuns(s)) < MaxInlineDepth
    PROVE  StackSafe(p, <<f>> \o s)
<1>1. s \in Seq(FrameType)
  BY DEF StackSafe
<1>2. PICK t : t = <<f>> \o s
  OBVIOUS
<1>3. /\ t \in Seq(FrameType) /\ Len(t) = Len(s) + 1 /\ Len(s) \in Nat /\ t[1] = f
      /\ \A j \in 1..Len(t) : j = 1 \/ (j - 1 \in 1..Len(s) /\ t[j] = s[j - 1])
  BY <1>1, <1>2, PushedSeq
<1>4. Cardinality(InlineRuns(t) \ {1}) <= Cardinality(InlineRuns(s))
  <2>1. PICK g : g = [i \in InlineRuns(t) \ {1} |-> i - 1]
    OBVIOUS
  <2>2. \A i \in InlineRuns(t) \ {1} : i \in Int /\ g[i] = i - 1 /\ g[i] \in InlineRuns(s)
    BY <1>3, <2>1 DEF InlineRuns
  <2>3. g \in [InlineRuns(t) \ {1} -> InlineRuns(s)]
    BY <2>1, <2>2
  <2>4. \A i, j \in InlineRuns(t) \ {1} : g[i] = g[j] => i = j
    BY <2>2
  <2>5. g \in Injection(InlineRuns(t) \ {1}, InlineRuns(s))
    BY <2>3, <2>4 DEF Injection, IsInjective
  <2>6. IsFiniteSet(InlineRuns(s))
    BY <1>1, RunsFinite
  <2> QED BY <2>5, <2>6, FS_Injection
<1>5. /\ IsFiniteSet(InlineRuns(t)) /\ Cardinality(InlineRuns(t)) \in Nat
      /\ Cardinality(InlineRuns(s)) \in Nat /\ MaxInlineDepth \in Nat
      /\ Cardinality(InlineRuns(s)) <= MaxInlineDepth
  BY <1>1, <1>3, RunsFinite, ChainAssumption DEF StackSafe
<1>6. Cardinality(InlineRuns(t) \ {1})
        = IF 1 \in InlineRuns(t) THEN Cardinality(InlineRuns(t)) - 1 ELSE Cardinality(InlineRuns(t))
  BY <1>5, FS_RemoveElement
<1>7. 1 \in InlineRuns(t) => f.inl /\ f.l # None
  BY <1>3 DEF InlineRuns
<1>8. Cardinality(InlineRuns(t)) <= MaxInlineDepth
  <2>1. CASE 1 \in InlineRuns(t)
    <3>1. Cardinality(InlineRuns(t)) - 1 <= Cardinality(InlineRuns(s))
      BY <1>4, <1>6, <2>1
    <3>2. Cardinality(InlineRuns(s)) < MaxInlineDepth
      BY <1>7, <2>1
    <3> QED BY <1>5, <3>1, <3>2
  <2>2. CASE 1 \notin InlineRuns(t)
    <3>1. Cardinality(InlineRuns(t)) <= Cardinality(InlineRuns(s))
      BY <1>4, <1>6, <2>2
    <3> QED BY <1>5, <3>1
  <2> QED BY <2>1, <2>2
<1>9. p \in Users => \A i \in 1..Len(t) : t[i].k \notin {"run", "retry"}
  BY <1>3 DEF StackSafe
<1> QED BY <1>2, <1>3, <1>8, <1>9 DEF StackSafe

\* The top frame goes on as another one of the same layer.
LEMMA SafeReplace ==
    ASSUME NEW p, NEW s, StackSafe(p, s), s # <<>>, NEW f \in FrameType, f.inl = Head(s).inl, f.l = Head(s).l,
           f.k \notin {"run", "retry"}
    PROVE  /\ StackSafe(p, <<f>> \o Tail(s))
           /\ Cardinality(InlineRuns(<<f>> \o Tail(s))) <= Cardinality(InlineEntries(s))
<1>1. s \in Seq(FrameType)
  BY DEF StackSafe
<1>2. PICK t, u : t = Tail(s) /\ u = <<f>> \o t
  OBVIOUS
<1>3. /\ t \in Seq(FrameType) /\ 1 \in 1..Len(s) /\ Head(s) = s[1] /\ Len(t) \in Nat
      /\ \A i \in 1..Len(t) : i + 1 \in 1..Len(s) /\ t[i] = s[i + 1]
  BY <1>1, <1>2, PoppedSeq
<1>4. /\ u \in Seq(FrameType) /\ Len(u) = Len(t) + 1 /\ u[1] = f
      /\ \A j \in 1..Len(u) : j = 1 \/ (j - 1 \in 1..Len(t) /\ u[j] = t[j - 1])
  BY <1>2, <1>3, PushedSeq
<1>5. \A j \in 1..Len(u) : j = 1 \/ (j \in 1..Len(s) /\ u[j] = s[j])
  <2>1. ASSUME NEW j \in 1..Len(u), j # 1 PROVE j \in 1..Len(s) /\ u[j] = s[j]
    <3>1. j - 1 \in 1..Len(t) /\ u[j] = t[j - 1] /\ (j - 1) + 1 = j
      BY <1>4, <2>1
    <3> QED BY <1>3, <3>1
  <2> QED BY <2>1
<1>6. InlineRuns(u) \in SUBSET InlineRuns(s)
  BY <1>3, <1>4, <1>5 DEF InlineRuns
<1>7. /\ IsFiniteSet(InlineRuns(s)) /\ Cardinality(InlineRuns(s)) \in Nat /\ Cardinality(InlineEntries(s)) \in Nat
      /\ Cardinality(InlineRuns(s)) <= Cardinality(InlineEntries(s)) /\ Cardinality(InlineRuns(u)) \in Nat
      /\ Cardinality(InlineRuns(s)) <= MaxInlineDepth /\ MaxInlineDepth \in Nat
  BY <1>1, <1>4, RunsFinite, ChainAssumption DEF StackSafe
<1>8. Cardinality(InlineRuns(u)) <= Cardinality(InlineRuns(s))
  BY <1>6, <1>7, FS_Subset
<1>9. p \in Users => \A i \in 1..Len(u) : u[i].k \notin {"run", "retry"}
  BY <1>4, <1>5 DEF StackSafe
<1>10. Cardinality(InlineRuns(u)) <= MaxInlineDepth /\ Cardinality(InlineRuns(u)) <= Cardinality(InlineEntries(s))
  BY <1>7, <1>8
<1> QED BY <1>2, <1>4, <1>9, <1>10 DEF StackSafe

\* The kinds of frames that are put down.
LEMMA FrameKinds ==
    /\ \A l \in Layers, r \in Results : \A b \in BOOLEAN :
         RunFrame(l, r, b) \in FrameType /\ RunFrame(l, r, b).inl = b
    /\ \A l \in Layers, r \in Results :
         /\ SettleFrame(l, r) \in FrameType /\ SettleFrame(l, r).k = "settle" /\ SettleFrame(l, r).inl = FALSE
    /\ \A h \in Hooks, r \in Results : \A b \in BOOLEAN :
         /\ FireFrame(h, r, b) \in FrameType /\ FireFrame(h, r, b).k = "fire"
         /\ FireFrame(h, r, b).l = None /\ FireFrame(h, r, b).inl = b
<1>1. <<>> \in Seq(Hooks) /\ \A h \in Hooks : <<h>> \in Seq(Hooks)
  OBVIOUS
<1>2. ASSUME NEW l \in Layers, NEW r \in Results, NEW b \in BOOLEAN
      PROVE  RunFrame(l, r, b) \in FrameType /\ RunFrame(l, r, b).inl = b
  BY <1>1 DEF FrameType, RunFrame, Frame
<1>3. ASSUME NEW l \in Layers, NEW r \in Results
      PROVE  SettleFrame(l, r) \in FrameType /\ SettleFrame(l, r).k = "settle" /\ SettleFrame(l, r).inl = FALSE
  BY <1>1 DEF FrameType, SettleFrame, Frame
<1>4. ASSUME NEW h \in Hooks, NEW r \in Results, NEW b \in BOOLEAN
      PROVE  /\ FireFrame(h, r, b) \in FrameType /\ FireFrame(h, r, b).k = "fire"
             /\ FireFrame(h, r, b).l = None /\ FireFrame(h, r, b).inl = b
  BY <1>1 DEF FrameType, FireFrame, Frame
<1> QED BY <1>2, <1>3, <1>4

\* One stack changes.
LEMMA SafeSet ==
    ASSUME ChainIInv, InlineInv, NEW p \in Threads, NEW s, StackSafe(p, s), SetStack(p, s), \A f \in pool' : ~f.inl
    PROVE  InlineInv'
<1>1. stack \in [Threads -> Seq(FrameType)]
  BY DEF ChainIInv, FramesOK
<1>2. stack'[p] = s /\ \A q \in Threads : q # p => stack'[q] = stack[q]
  BY <1>1 DEF SetStack
<1>3. \A q \in Threads : StackSafe(q, stack'[q])
  BY <1>2 DEF InlineInv
<1> QED BY <1>3 DEF InlineInv

\* A refused notice adds a level that is not a run; nothing else does.
LEMMA RegisterSafe ==
    ASSUME ChainIInv, InlineInv, NEW p \in Threads, NEW base, StackSafe(p, base), NEW u \in Layers,
           NEW h \in Hooks, Register(p, base, u, h)
    PROVE  InlineInv'
<1>1. result[u] \in Results /\ Stopped \in Results /\ TRUE \in BOOLEAN /\ FALSE \in BOOLEAN
  BY DEF ChainIInv, TypeOK, Results
<1>2. CASE SetStack(p, base) /\ pool' = pool
  BY <1>2, SafeSet DEF InlineInv
<1>3. CASE SetStack(p, base) /\ pool' = pool \cup {FireFrame(h, result[u], FALSE)}
  <2>1. PICK f : f = FireFrame(h, result[u], FALSE)
    OBVIOUS
  <2>2. ~f.inl
    BY <1>1, <2>1, FrameKinds
  <2>3. \A g \in pool' : ~g.inl
    BY <1>3, <2>1, <2>2 DEF InlineInv
  <2> QED BY <1>3, <2>3, SafeSet
<1>4. CASE h.t = "layer" /\ SetStack(p, <<SettleFrame(h.id, Stopped)>> \o base) /\ pool' = pool
  <2>1. PICK f, s : f = SettleFrame(h.id, Stopped) /\ s = <<f>> \o base
    OBVIOUS
  <2>2. f \in FrameType /\ f.k = "settle" /\ ~f.inl
    BY <1>1, <1>4, <2>1, HookFields, FrameKinds
  <2>3. StackSafe(p, s)
    BY <2>1, <2>2, SafePush
  <2> QED BY <1>4, <2>1, <2>3, SafeSet DEF InlineInv
<1>5. CASE SetStack(p, <<FireFrame(h, result[u], TRUE)>> \o base) /\ pool' = pool
  <2>1. PICK f, s : f = FireFrame(h, result[u], TRUE) /\ s = <<f>> \o base
    OBVIOUS
  <2>2. f \in FrameType /\ f.k = "fire" /\ f.l = None
    BY <1>1, <2>1, FrameKinds
  <2>3. StackSafe(p, s)
    BY <2>1, <2>2, SafePush
  <2> QED BY <1>5, <2>1, <2>3, SafeSet DEF InlineInv
<1> QED BY <1>2, <1>3, <1>4, <1>5 DEF Register

\* The limit is tested against every in-place entry of the thread.
LEMMA DispatchSafe ==
    ASSUME ChainIInv, InlineInv, NEW p \in Threads, NEW base, StackSafe(p, base),
           Cardinality(InlineRuns(base)) <= Cardinality(InlineEntries(stack[p])),
           NEW l \in Layers, NEW r \in Results, DispatchInlineOrPost(p, base, l, r)
    PROVE  InlineInv'
<1>1. Stopped \in Results /\ TRUE \in BOOLEAN /\ FALSE \in BOOLEAN
  BY DEF Results
<1>2. CASE /\ p \in Workers /\ InlineDepth(p) < MaxInlineDepth
           /\ SetStack(p, <<RunFrame(l, r, TRUE)>> \o base) /\ pool' = pool
  <2>1. PICK f, s : f = RunFrame(l, r, TRUE) /\ s = <<f>> \o base
    OBVIOUS
  <2>2. f \in FrameType /\ p \notin Users
    BY <1>1, <1>2, <2>1, FrameKinds, ChainAssumption
  <2>3. Cardinality(InlineRuns(base)) < MaxInlineDepth
    <3>1. Cardinality(InlineEntries(stack[p])) < MaxInlineDepth
      BY <1>2 DEF InlineDepth, InlineEntries
    <3>2. /\ Cardinality(InlineRuns(base)) \in Nat /\ Cardinality(InlineEntries(stack[p])) \in Nat
          /\ MaxInlineDepth \in Nat
      BY RunsFinite, ChainAssumption DEF StackSafe, InlineInv
    <3> QED BY <3>1, <3>2
  <2>4. StackSafe(p, s)
    BY <2>1, <2>2, <2>3, SafePush
  <2> QED BY <1>2, <2>1, <2>4, SafeSet DEF InlineInv
<1>3. CASE SetStack(p, base) /\ pool' = pool \cup {RunFrame(l, r, FALSE)}
  <2>1. PICK f : f = RunFrame(l, r, FALSE)
    OBVIOUS
  <2>2. ~f.inl
    BY <1>1, <2>1, FrameKinds
  <2>3. \A g \in pool' : ~g.inl
    BY <1>3, <2>1, <2>2 DEF InlineInv
  <2> QED BY <1>3, <2>3, SafeSet
<1>4. CASE SetStack(p, <<SettleFrame(l, Stopped)>> \o base) /\ pool' = pool
  <2>1. PICK f, s : f = SettleFrame(l, Stopped) /\ s = <<f>> \o base
    OBVIOUS
  <2>2. f \in FrameType /\ f.k = "settle" /\ ~f.inl
    BY <1>1, <2>1, FrameKinds
  <2>3. StackSafe(p, s)
    BY <2>1, <2>2, SafePush
  <2> QED BY <1>4, <2>1, <2>3, SafeSet DEF InlineInv
<1> QED BY <1>2, <1>3, <1>4 DEF DispatchInlineOrPost

\* The stacks a thread's step starts from.
LEMMA SafeNow ==
    ASSUME ChainIInv, InlineInv, NEW p \in Threads
    PROVE  /\ StackSafe(p, stack[p]) /\ \A f \in pool : ~f.inl
           /\ Cardinality(InlineRuns(stack[p])) <= Cardinality(InlineEntries(stack[p]))
           /\ ~Idle(p) => stack[p] # <<>> /\ StackSafe(p, Rest(p)) /\ Top(p) \in FrameType
           /\ Idle(p) => StackSafe(p, <<>>) /\ \A f : <<f>> = <<f>> \o stack[p]
<1>1. StackSafe(p, stack[p]) /\ stack[p] \in Seq(FrameType) /\ \A f \in pool : ~f.inl
  BY DEF InlineInv, StackSafe
<1>2. Cardinality(InlineRuns(stack[p])) <= Cardinality(InlineEntries(stack[p]))
  BY <1>1, RunsFinite
<1>3. ~Idle(p) => stack[p] # <<>> /\ StackSafe(p, Rest(p)) /\ Top(p) \in FrameType
  BY <1>1, SafePop, TopFrame DEF Idle, Rest
<1>4. Idle(p) => StackSafe(p, <<>>) /\ \A f : <<f>> = <<f>> \o stack[p]
  BY <1>1, IdleStack DEF Idle
<1> QED BY <1>1, <1>2, <1>3, <1>4

\* A frame that goes on as another one of its layer.
LEMMA TurnSafe ==
    ASSUME ChainIInv, InlineInv, NEW p \in Threads, ~Idle(p), NEW f \in FrameType, f.inl = Top(p).inl,
           f.l = Top(p).l, f.k \notin {"run", "retry"}, SetStack(p, <<f>> \o Rest(p)), pool' = pool
    PROVE  InlineInv'
<1>1. PICK s : s = <<f>> \o Rest(p)
  OBVIOUS
<1>2. StackSafe(p, s)
  BY <1>1, SafeNow, SafeReplace DEF Top, Rest
<1> QED BY <1>1, <1>2, SafeNow, SafeSet

\* An activation that ends leaves the stacks safe.
LEMMA EndRunSafe ==
    ASSUME ChainIInv, InlineInv, NEW p \in Threads, ~Idle(p), NEW r \in Results, EndRun(p, r), pool' = pool
    PROVE  InlineInv'
<1>1. PICK f : f = [Top(p) EXCEPT !.k = "settle", !.res = r]
  OBVIOUS
<1>2. Top(p) \in FrameType
  BY SafeNow
<1>3. f \in FrameType /\ f.k = "settle" /\ f.l = Top(p).l /\ f.inl = Top(p).inl
  BY <1>1, <1>2 DEF FrameType
<1>4. SetStack(p, <<f>> \o Rest(p))
  BY <1>1 DEF EndRun
<1> QED BY <1>3, <1>4, TurnSafe

\* Taking the newest activation off a stack leaves the stacks safe.
LEMMA PopSafe ==
    ASSUME ChainIInv, InlineInv, NEW p \in Threads, ~Idle(p), SetStack(p, Rest(p)), \A f \in pool' : ~f.inl
    PROVE  InlineInv'
<1>1. PICK s : s = Rest(p)
  OBVIOUS
<1>2. StackSafe(p, s) /\ SetStack(p, s)
  BY <1>1, SafeNow
<1> QED BY <1>2, SafeSet

\* A caller's step.
LEMMA UserSafe ==
    ASSUME ChainIInv, InlineInv, NEW p \in Users, UserStep(p)
    PROVE  InlineInv'
<1>0. p \in Threads
  BY DEF Threads
<1>1. ASSUME NEW l \in Layers, AppendLayer(p, l) PROVE InlineInv'
  <2>1. PICK b, h, u : b = <<>> /\ h = LayerHook(l) /\ u = Up[l]
    OBVIOUS
  <2>2. h \in Hooks /\ u \in Layers /\ StackSafe(p, b) /\ Register(p, b, u, h)
    BY <1>0, <1>1, <2>1, Shape, SafeNow DEF AppendLayer, Hooks
  <2> QED BY <1>0, <2>2, RegisterSafe
<1>2. ASSUME NEW l \in Layers, StartChain(p, l) PROVE InlineInv'
  <2>1. Resolved \in Results /\ Stopped \in Results /\ FALSE \in BOOLEAN
    BY DEF Results
  <2>2. CASE stack' = stack /\ pool' = pool \cup {RunFrame(l, Resolved, FALSE)}
    <3>1. PICK f : f = RunFrame(l, Resolved, FALSE)
      OBVIOUS
    <3>2. ~f.inl
      BY <2>1, <3>1, FrameKinds
    <3> QED BY <2>2, <3>1, <3>2 DEF InlineInv
  <2>3. CASE SetStack(p, <<SettleFrame(l, Stopped)>>) /\ pool' = pool
    <3>1. PICK f, s : f = SettleFrame(l, Stopped) /\ s = <<f>> \o stack[p]
      OBVIOUS
    <3>2. f \in FrameType /\ f.k = "settle" /\ ~f.inl
      BY <2>1, <3>1, FrameKinds
    <3>3. StackSafe(p, s) /\ SetStack(p, s)
      BY <1>0, <1>2, <2>3, <3>1, <3>2, SafePush, SafeNow DEF StartChain
    <3> QED BY <1>0, <2>3, <3>3, SafeSet, SafeNow
  <2> QED BY <1>2, <2>2, <2>3 DEF StartChain
<1>3. ASSUME NEW l \in Layers, NewPromise(p, l) PROVE InlineInv'
  <2>1. PICK b, r : b = <<>> /\ r = Resolved
    OBVIOUS
  <2>2. r \in Results /\ StackSafe(p, b) /\ b = stack[p] /\ DispatchInlineOrPost(p, b, l, r)
    BY <1>0, <1>3, <2>1, SafeNow DEF NewPromise, NewFromHandle, Idle, Results
  <2>3. Cardinality(InlineRuns(b)) <= Cardinality(InlineEntries(stack[p]))
    BY <1>0, <2>2, SafeNow
  <2> QED BY <1>0, <2>2, <2>3, DispatchSafe
<1>4. ASSUME NEW n \in Notices, OnSettled(p, n) PROVE InlineInv'
  <2>1. PICK b, h, u : b = <<>> /\ h = NoticeHook(n) /\ u = Target[n]
    OBVIOUS
  <2>2. h \in Hooks /\ u \in Layers /\ StackSafe(p, b) /\ Register(p, b, u, h)
    BY <1>0, <1>4, <2>1, Shape, SafeNow DEF OnSettled, Hooks
  <2> QED BY <1>0, <2>2, RegisterSafe
<1>5. ASSUME NEW l \in Layers, NEW r \in Results, ExternalSettle(p, l, r) PROVE InlineInv'
  <2>1. PICK f, s : f = SettleFrame(l, r) /\ s = <<f>> \o stack[p]
    OBVIOUS
  <2>2. f \in FrameType /\ f.k = "settle" /\ ~f.inl
    BY <2>1, FrameKinds
  <2>3. StackSafe(p, s) /\ SetStack(p, s) /\ pool' = pool
    BY <1>0, <1>5, <2>1, <2>2, SafePush, SafeNow DEF ExternalSettle
  <2> QED BY <1>0, <2>3, SafeSet, SafeNow
<1> QED BY <1>1, <1>2, <1>3, <1>4, <1>5 DEF UserStep, ThenCatchFinally, ThenPromise

\* A step of a body.
LEMMA BodySafe ==
    ASSUME ChainIInv, InlineInv, NEW p \in Threads, BodyStep(p)
    PROVE  InlineInv'
<1>1. PICK l : l = Top(p).l
  OBVIOUS
<1>2. Running(p)
  BY DEF BodyStep, RunBody, RunBodySuspends, RunStarter, FactoryStartsChild, FactoryThrows, FactoryReturns
<1>3. ~Idle(p) /\ l \in Layers /\ Top(p).res \in Results /\ Top(p) \in FrameType
  BY <1>1, <1>2, RunningFrame
<1>4. Rejected(l) \in Results /\ Resolved \in Results /\ Stopped \in Results
  BY <1>3 DEF Results
<1>5. ASSUME NEW end \in {"ok", "err", "throw"}, RunBody(p, end) PROVE InlineInv'
  <2>1. PICK r : r = BodyResult(Top(p).l, Top(p).res, end)
    OBVIOUS
  <2>2. r \in Results /\ EndRun(p, r) /\ pool' = pool
    BY <1>1, <1>3, <1>4, <1>5, <2>1 DEF BodyResult, RunBody
  <2> QED BY <1>3, <2>2, EndRunSafe
<1>6. ASSUME RunBodySuspends(p) PROVE InlineInv'
  <2>1. CASE EndRun(p, Rejected(Top(p).l)) /\ pool' = pool
    BY <1>1, <1>3, <1>4, <2>1, EndRunSafe
  <2>2. CASE SetStack(p, Rest(p)) /\ pool' = pool \cup {[Top(p) EXCEPT !.k = "retry", !.inl = FALSE]}
    <3>1. PICK f : f = [Top(p) EXCEPT !.k = "retry", !.inl = FALSE]
      OBVIOUS
    <3>2. ~f.inl
      BY <1>3, <3>1 DEF FrameType
    <3>3. \A g \in pool' : ~g.inl
      BY <2>2, <3>1, <3>2, SafeNow
    <3> QED BY <1>3, <2>2, <3>3, PopSafe
  <2>3. CASE EndRun(p, Stopped) /\ pool' = pool
    BY <1>3, <1>4, <2>3, EndRunSafe
  <2> QED BY <1>6, <2>1, <2>2, <2>3 DEF RunBodySuspends
<1>7. ASSUME NEW end \in {"return", "ok", "throw"}, RunStarter(p, end) PROVE InlineInv'
  <2>1. pool' = pool
    BY <1>7 DEF RunStarter
  <2>2. /\ end = "return" => SetStack(p, Rest(p))
        /\ end = "ok" => EndRun(p, Resolved)
        /\ end = "throw" => EndRun(p, Rejected(Top(p).l))
    BY <1>7 DEF RunStarter
  <2>3. CASE end = "return"
    BY <1>3, <2>1, <2>2, <2>3, PopSafe, SafeNow
  <2>4. CASE end = "ok"
    BY <1>3, <1>4, <2>1, <2>2, <2>4, EndRunSafe
  <2>5. CASE end = "throw"
    BY <1>1, <1>3, <1>4, <2>1, <2>2, <2>5, EndRunSafe
  <2> QED BY <2>3, <2>4, <2>5
<1>8. ASSUME FactoryStartsChild(p) PROVE InlineInv'
  <2>1. PICK b, c, r : b = stack[p] /\ c = Child[Top(p).l] /\ r = Resolved
    OBVIOUS
  <2>2. DispatchInlineOrPost(p, b, c, r) /\ r \in Results /\ c \in Layers
    BY <1>1, <1>3, <1>4, <1>8, <2>1, Shape DEF FactoryStartsChild, NewFromHandle
  <2>3. StackSafe(p, b) /\ Cardinality(InlineRuns(b)) <= Cardinality(InlineEntries(stack[p]))
    BY <2>1, SafeNow
  <2> QED BY <2>2, <2>3, DispatchSafe
<1>9. ASSUME FactoryThrows(p) PROVE InlineInv'
  BY <1>1, <1>3, <1>4, <1>9, EndRunSafe DEF FactoryThrows
<1>10. ASSUME FactoryReturns(p) PROVE InlineInv'
  <2>1. PICK b, h, u : b = Rest(p) /\ h = AdoptHook(l) /\ u = Child[l]
    OBVIOUS
  <2>2. h \in Hooks /\ u \in Layers /\ StackSafe(p, b) /\ Register(p, b, u, h)
    BY <1>1, <1>3, <1>10, <2>1, Shape, SafeNow DEF FactoryReturns, Hooks
  <2> QED BY <2>2, RegisterSafe
<1> QED BY <1>5, <1>6, <1>7, <1>8, <1>9, <1>10 DEF BodyStep

\* A step of a settlement.
LEMMA CascadeSafe ==
    ASSUME ChainIInv, InlineInv, NEW p \in Threads,
           Settle(p) \/ SettleNotify(p) \/ Fire(p) \/ FireEnd(p) \/ DeliverPosted(p)
    PROVE  InlineInv'
<1>1. /\ ~Idle(p) /\ Top(p) \in FrameType /\ FrameOK(Top(p)) /\ (\A f \in pool : ~f.inl)
      /\ Top(p).todo \in Seq(Hooks) /\ Top(p).res \in Results /\ hooks \in [Layers -> Seq(Hooks)]
  <2>1. ~Idle(p)
    BY DEF Settle, SettleNotify, Fire, FireEnd, DeliverPosted
  <2> QED BY <2>1, TopFrame, SafeNow DEF ChainIInv, HooksOK, FrameType
<1>2. ASSUME Settle(p) PROVE InlineInv'
  <2>0. pool' = pool
    BY <1>2 DEF Settle
  <2>1. CASE SetStack(p, Rest(p))
    BY <1>1, <2>0, <2>1, PopSafe
  <2>2. CASE SetStack(p, <<[Top(p) EXCEPT !.k = "notify", !.todo = hooks[Top(p).l]]>> \o Rest(p))
    <3>1. PICK f : f = [Top(p) EXCEPT !.k = "notify", !.todo = hooks[Top(p).l]]
      OBVIOUS
    <3>2. hooks[Top(p).l] \in Seq(Hooks)
      <4>1. Top(p).l \in Layers
        BY <1>1, <1>2 DEF Settle, FrameOK, ChainIInv, TypeOK
      <4> QED BY <1>1, <4>1
    <3>3. f \in FrameType /\ f.k = "notify" /\ f.l = Top(p).l /\ f.inl = Top(p).inl
      BY <1>1, <3>1, <3>2 DEF FrameType
    <3> QED BY <1>1, <2>0, <2>2, <3>1, <3>3, TurnSafe
  <2> QED BY <1>2, <2>1, <2>2 DEF Settle
<1>3. ASSUME SettleNotify(p) PROVE InlineInv'
  <2>1. PICK f : f = [Top(p) EXCEPT !.k = "fire"]
    OBVIOUS
  <2>2. f \in FrameType /\ f.k = "fire" /\ f.l = Top(p).l /\ f.inl = Top(p).inl
    BY <1>1, <2>1 DEF FrameType
  <2>3. SetStack(p, <<f>> \o Rest(p)) /\ pool' = pool
    BY <1>3, <2>1 DEF SettleNotify
  <2> QED BY <1>1, <2>2, <2>3, TurnSafe
<1>4. ASSUME FireEnd(p) \/ DeliverPosted(p) PROVE InlineInv'
  <2>1. SetStack(p, Rest(p)) /\ pool' = pool
    BY <1>4 DEF FireEnd, DeliverPosted
  <2> QED BY <1>1, <2>1, PopSafe
<1>5. ASSUME Fire(p) PROVE InlineInv'
  <2>1. PICK g, b, h, r : /\ g = [Top(p) EXCEPT !.todo = Tail(Top(p).todo)] /\ b = <<g>> \o Rest(p)
                          /\ h = Head(Top(p).todo) /\ r = Top(p).res
    OBVIOUS
  <2>2. Tail(Top(p).todo) \in Seq(Hooks) /\ h \in Hooks
    BY <1>1, <1>5, <2>1, PoppedSeq DEF Fire
  <2>3. g \in FrameType /\ g.k = "fire" /\ g.l = Top(p).l /\ g.inl = Top(p).inl
    BY <1>1, <1>5, <2>1, <2>2 DEF FrameType, Fire
  <2>4. StackSafe(p, b) /\ Cardinality(InlineRuns(b)) <= Cardinality(InlineEntries(stack[p]))
    BY <1>1, <2>1, <2>3, SafeNow, SafeReplace DEF Top, Rest
  <2>5. RunHook(p, h, r, b) /\ r \in Results
    BY <1>1, <1>5, <2>1 DEF Fire
  <2>6. CASE h.t \in {"layer", "adopt"} /\ SetStack(p, <<SettleFrame(h.id, r)>> \o b) /\ pool' = pool
    <3>1. PICK f, s : f = SettleFrame(h.id, r) /\ s = <<f>> \o b
      OBVIOUS
    <3>2. f \in FrameType /\ f.k = "settle" /\ ~f.inl
      BY <2>2, <2>5, <2>6, <3>1, HookFields, FrameKinds
    <3>3. StackSafe(p, s)
      BY <2>4, <3>1, <3>2, SafePush
    <3> QED BY <1>1, <2>6, <3>1, <3>3, SafeSet
  <2>7. CASE h.t = "layer" /\ DispatchInlineOrPost(p, b, h.id, r)
    <3>1. PICK l : l = h.id
      OBVIOUS
    <3>2. l \in Layers /\ DispatchInlineOrPost(p, b, l, r)
      BY <2>2, <2>7, <3>1, HookFields
    <3> QED BY <2>4, <2>5, <3>2, DispatchSafe
  <2>8. CASE SetStack(p, b) /\ pool' = pool
    BY <1>1, <2>4, <2>8, SafeSet
  <2>9. CASE SetStack(p, b) /\ pool' = pool \cup {Frame("deliver", h.id, r, <<>>, FALSE)}
    <3>1. PICK f : f = Frame("deliver", h.id, r, <<>>, FALSE)
      OBVIOUS
    <3>2. ~f.inl
      BY <3>1 DEF Frame
    <3>3. \A e \in pool' : ~e.inl
      BY <1>1, <2>9, <3>1, <3>2
    <3> QED BY <2>4, <2>9, <3>3, SafeSet
  <2> QED BY <2>5, <2>6, <2>7, <2>8, <2>9 DEF RunHook, Deliver
<1> QED BY <1>2, <1>3, <1>4, <1>5

\* Every step keeps in-place execution safe.
LEMMA InlineNext == ChainIInv /\ InlineInv /\ [Next]_vars => InlineInv'
<1> SUFFICES ASSUME ChainIInv, InlineInv, [Next]_vars PROVE InlineInv'
  OBVIOUS
<1>1. ASSUME NEW p \in Threads, ThreadStep(p) PROVE InlineInv'
  BY <1>1, BodySafe, CascadeSafe DEF ThreadStep
<1>2. ASSUME NEW w \in Workers, NEW f \in pool, WorkerTake(w, f) PROVE InlineInv'
  <2>1. w \in Threads /\ w \notin Users /\ Idle(w)
    BY <1>2, ChainAssumption DEF Threads, WorkerTake
  <2>2. f \in FrameType /\ ~f.inl
    BY DEF ChainIInv, FramesOK, InlineInv
  <2>3. PICK s : s = <<f>> \o stack[w]
    OBVIOUS
  <2>4. StackSafe(w, s) /\ SetStack(w, s)
    BY <1>2, <2>1, <2>2, <2>3, SafeNow, SafePush DEF WorkerTake
  <2>5. \A g \in pool' : ~g.inl
    BY <1>2 DEF InlineInv, WorkerTake
  <2> QED BY <2>1, <2>4, <2>5, SafeSet
<1>3. ASSUME UNCHANGED <<pool, stack>> PROVE InlineInv'
  BY <1>3 DEF InlineInv
<1>4. ASSUME NEW a \in Awaiters, AwaitTest(a) \/ AwaitSpuriousWake(a) \/ AwaitTimeout(a) PROVE InlineInv'
  BY <1>3, <1>4 DEF AwaitTest, AwaitSpuriousWake, AwaitTimeout, awaitUnchanged
<1>5. ASSUME StopExecutor \/ UNCHANGED vars PROVE InlineInv'
  BY <1>3, <1>5 DEF StopExecutor, vars
<1> QED BY <1>1, <1>2, <1>4, <1>5, UserSafe DEF Next, WorkerStep, Finished

\* No thread has an activation at first, so every stack is safe.
LEMMA InlineInit == Init => InlineInv
<1> SUFFICES ASSUME Init, NEW p \in Threads PROVE StackSafe(p, stack[p])
  BY DEF Init, InlineInv
<1>1. stack[p] = <<>> /\ stack[p] \in Seq(FrameType) /\ 1..Len(stack[p]) = {}
  BY DEF Init
<1>2. InlineRuns(stack[p]) = {}
  BY <1>1 DEF InlineRuns
<1>3. Cardinality(InlineRuns(stack[p])) = 0
  BY <1>2, FS_EmptySet
<1>4. MaxInlineDepth \in Nat /\ 0 <= MaxInlineDepth
  BY ChainAssumption
<1> QED BY <1>1, <1>3, <1>4 DEF StackSafe

\* Safe stacks are what thread affinity and the depth bound ask for.
LEMMA InlineFollows == InlineInv => InlineSafe
<1> SUFFICES ASSUME InlineInv PROVE InlineSafe
  OBVIOUS
<1>1. ASSUME NEW p \in Users, Running(p) PROVE FALSE
  <2>1. StackSafe(p, stack[p])
    BY DEF InlineInv, Threads
  <2>2. stack[p] \in Seq(FrameType) /\ stack[p] # <<>>
    BY <1>1, <2>1 DEF StackSafe, Running, Idle
  <2>3. 1 \in 1..Len(stack[p]) /\ Top(p) = stack[p][1]
    BY <2>2, PoppedSeq DEF Top
  <2> QED BY <1>1, <2>1, <2>3 DEF StackSafe, Running
<1>2. InlineDepthBounded
  BY DEF InlineInv, StackSafe, InlineRuns, InlineDepthBounded
<1> QED BY <1>1, <1>2 DEF InlineSafe, ThreadAffinity

\* Whoever settles a layer, the code of the next one runs on threads of its own
\* executor only, and in-place runs nest no deeper than kMaxInlineDepth.
THEOREM InlineSafeHolds == Spec => []InlineSafe
  BY ChainInductive, InlineInit, InlineNext, InlineFollows, PTL DEF Spec

-------------------------------------------------------------------------------
(* The order of the notices.  Two notices that were registered while their   *)
(* layer was pending stay in that order wherever they are kept, first among  *)
(* the handlers of the layer and then among those a settlement has to run.   *)

InOrder(s, n, m) == \E a, b \in 1..Len(s) : a < b /\ s[a] = NoticeHook(n) /\ s[b] = NoticeHook(m)
Before(n, m) == \/ \E u \in Layers : InOrder(hooks[u], n, m)
                \/ \E g \in FramesIn(pool, stack) : InOrder(g.todo, n, m)

OrderInv ==
    /\ early \in [Layers -> Seq(Notices)]
    /\ \A l \in Layers : ~settled[l] =>
         \A i \in 1..Len(early[l]) : \E a \in 1..Len(hooks[l]) : hooks[l][a] = NoticeHook(early[l][i])
    /\ \A l \in Layers : \A i, j \in 1..Len(early[l]) :
         i < j /\ {early[l][i], early[l][j]} \cap OnNotices = {} =>
           delivered[early[l][i]] # <<>> \/ Before(early[l][i], early[l][j])

\* Every handler that is still to be run is to be run after the step.
Covers(s, p) ==
    \A i \in 1..Len(stack[p]) : stack[p][i].todo # <<>> => \E j \in 1..Len(s) : s[j].todo = stack[p][i].todo
FramesKept ==
    \A g \in FramesIn(pool, stack) : g.todo # <<>> => \E f \in FramesIn(pool', stack') : f.todo = g.todo
HooksGrow ==
    \A u \in Layers : \A a \in 1..Len(hooks[u]) : a \in 1..Len(hooks'[u]) /\ hooks'[u][a] = hooks[u][a]
CallsStand == \A n \in Notices : delivered[n] # <<>> => delivered'[n] # <<>>

\* The stacks that keep the handlers of a thread's stack.
LEMMA CoverFacts ==
    ASSUME ChainIInv, NEW p \in Threads
    PROVE  /\ stack[p] \in Seq(FrameType) /\ Covers(stack[p], p)
           /\ Idle(p) => Covers(<<>>, p) /\ <<>> \in Seq(FrameType)
           /\ ~Idle(p) => Rest(p) \in Seq(FrameType)
           /\ ~Idle(p) /\ Top(p).todo = <<>> => Covers(Rest(p), p)
           /\ \A s \in Seq(FrameType), f \in FrameType :
                /\ <<f>> \o s \in Seq(FrameType)
                /\ Covers(s, p) => Covers(<<f>> \o s, p)
                /\ ~Idle(p) /\ s = Rest(p) /\ f.todo = Top(p).todo => Covers(<<f>> \o s, p)
<1>1. stack[p] \in Seq(FrameType)
  BY DEF ChainIInv, FramesOK
<1>2. Covers(stack[p], p)
  BY DEF Covers
<1>3. Idle(p) => Covers(<<>>, p) /\ <<>> \in Seq(FrameType)
  BY <1>1 DEF Idle, Covers
<1>4. ASSUME ~Idle(p) PROVE /\ Rest(p) \in Seq(FrameType) /\ Top(p) = stack[p][1]
                            /\ \A j \in 1..Len(stack[p]) : j = 1 \/ (j - 1 \in 1..Len(Rest(p)) /\ Rest(p)[j - 1] = stack[p][j])
  BY <1>1, <1>4, PoppedSeq DEF Idle, Rest, Top
<1>5. ~Idle(p) /\ Top(p).todo = <<>> => Covers(Rest(p), p)
  <2> SUFFICES ASSUME ~Idle(p), Top(p).todo = <<>>, NEW i \in 1..Len(stack[p]), stack[p][i].todo # <<>>
               PROVE  \E j \in 1..Len(Rest(p)) : Rest(p)[j].todo = stack[p][i].todo
    BY DEF Covers
  <2>1. i - 1 \in 1..Len(Rest(p)) /\ Rest(p)[i - 1] = stack[p][i]
    BY <1>4
  <2> QED BY <2>1
<1>6. ASSUME NEW s \in Seq(FrameType), NEW f \in FrameType
      PROVE  /\ <<f>> \o s \in Seq(FrameType)
             /\ Covers(s, p) => Covers(<<f>> \o s, p)
             /\ ~Idle(p) /\ s = Rest(p) /\ f.todo = Top(p).todo => Covers(<<f>> \o s, p)
  <2>0. PICK t : t = <<f>> \o s
    OBVIOUS
  <2>1. /\ t \in Seq(FrameType) /\ t[1] = f /\ 1 \in 1..Len(t)
        /\ \A i \in 1..Len(s) : i + 1 \in 1..Len(t) /\ t[i + 1] = s[i]
    <3>1. t \in Seq(FrameType) /\ t[1] = f /\ Len(t) = Len(s) + 1 /\ Len(s) \in Nat
          /\ \A i \in 1..Len(s) : i + 1 \in 1..Len(t) /\ t[i + 1] = s[i]
      BY <2>0, PushedSeq
    <3> QED BY <3>1
  <2>2. ASSUME Covers(s, p) PROVE Covers(t, p)
    <3> SUFFICES ASSUME NEW i \in 1..Len(stack[p]), stack[p][i].todo # <<>>
                 PROVE  \E j \in 1..Len(t) : t[j].todo = stack[p][i].todo
      BY DEF Covers
    <3>1. PICK j \in 1..Len(s) : s[j].todo = stack[p][i].todo
      BY <2>2 DEF Covers
    <3>2. j + 1 \in 1..Len(t) /\ t[j + 1].todo = stack[p][i].todo
      BY <2>1, <3>1
    <3> QED BY <3>2
  <2>3. ASSUME ~Idle(p), s = Rest(p), f.todo = Top(p).todo PROVE Covers(t, p)
    <3> SUFFICES ASSUME NEW i \in 1..Len(stack[p]), stack[p][i].todo # <<>>
                 PROVE  \E j \in 1..Len(t) : t[j].todo = stack[p][i].todo
      BY DEF Covers
    <3>1. CASE i = 1
      BY <1>4, <2>1, <2>3, <3>1
    <3>2. CASE i # 1
      <4>1. i - 1 \in 1..Len(s) /\ s[i - 1] = stack[p][i]
        BY <1>4, <2>3, <3>2
      <4>2. (i - 1) + 1 \in 1..Len(t) /\ t[(i - 1) + 1] = stack[p][i]
        BY <2>1, <4>1
      <4> QED BY <4>2
    <3> QED BY <3>1, <3>2
  <2> QED BY <2>0, <2>1, <2>2, <2>3
<1> QED BY <1>1, <1>2, <1>3, <1>4, <1>5, <1>6

\* A step that changes one stack to one that keeps its handlers keeps them all.
LEMMA KeptBySet ==
    ASSUME ChainIInv, NEW p \in Threads, NEW s, Covers(s, p), SetStack(p, s), pool \subseteq pool'
    PROVE  FramesKept
<1>1. stack \in [Threads -> Seq(FrameType)]
  BY DEF ChainIInv, FramesOK
<1>2. stack'[p] = s /\ \A q \in Threads : q # p => stack'[q] = stack[q]
  BY <1>1 DEF SetStack
<1> SUFFICES ASSUME NEW g \in FramesIn(pool, stack), g.todo # <<>>
             PROVE  \E f \in FramesIn(pool', stack') : f.todo = g.todo
  BY DEF FramesKept
<1>3. CASE g \in pool
  BY <1>3, InFrames
<1>4. CASE \E q \in Threads : \E i \in 1..Len(stack[q]) : g = stack[q][i]
  <2>1. PICK q \in Threads : \E i \in 1..Len(stack[q]) : g = stack[q][i]
    BY <1>4
  <2>2. PICK i \in 1..Len(stack[q]) : g = stack[q][i]
    BY <2>1
  <2>3. CASE q = p
    <3>1. PICK j \in 1..Len(s) : s[j].todo = g.todo
      BY <2>2, <2>3 DEF Covers
    <3> QED BY <1>2, <3>1, InFrames
  <2>4. CASE q # p
    BY <1>2, <2>2, <2>4, InFrames
  <2> QED BY <2>3, <2>4
<1> QED BY <1>3, <1>4, InFrames

\* Hooks and handlers that are kept are kept in order.
LEMMA BeforeStays ==
    ASSUME HooksGrow, FramesKept, NEW n, NEW m, Before(n, m)
    PROVE  Before(n, m)'
<1>1. CASE \E u \in Layers : InOrder(hooks[u], n, m)
  <2>1. PICK u \in Layers : InOrder(hooks[u], n, m)
    BY <1>1
  <2>2. InOrder(hooks'[u], n, m)
    BY <2>1 DEF InOrder, HooksGrow
  <2> QED BY <2>2 DEF Before
<1>2. CASE \E g \in FramesIn(pool, stack) : InOrder(g.todo, n, m)
  <2>1. PICK g \in FramesIn(pool, stack) : InOrder(g.todo, n, m)
    BY <1>2
  <2>2. g.todo # <<>>
    BY <2>1 DEF InOrder
  <2>3. PICK f \in FramesIn(pool', stack') : f.todo = g.todo
    BY <2>2 DEF FramesKept
  <2> QED BY <2>1, <2>3 DEF Before
<1> QED BY <1>1, <1>2 DEF Before

\* What keeps the order.
LEMMA OrderStays ==
    ASSUME OrderInv, early' = early, CallsStand,
           \A l \in Layers : ~settled'[l] => ~settled[l] /\ \A a \in 1..Len(hooks[l]) :
               a \in 1..Len(hooks'[l]) /\ hooks'[l][a] = hooks[l][a],
           \A n, m \in Notices : n \notin OnNotices /\ Before(n, m) => Before(n, m)' \/ delivered'[n] # <<>>
    PROVE  OrderInv'
<1>1. early' \in [Layers -> Seq(Notices)]
  BY DEF OrderInv
<1>2. ASSUME NEW l \in Layers, ~settled'[l], NEW i \in 1..Len(early'[l])
      PROVE  \E a \in 1..Len(hooks'[l]) : hooks'[l][a] = NoticeHook(early'[l][i])
  <2>1. PICK a \in 1..Len(hooks[l]) : hooks[l][a] = NoticeHook(early[l][i])
    BY <1>2 DEF OrderInv
  <2> QED BY <1>2, <2>1
<1>3. ASSUME NEW l \in Layers, NEW i \in 1..Len(early'[l]), NEW j \in 1..Len(early'[l]),
             i < j, {early'[l][i], early'[l][j]} \cap OnNotices = {}
      PROVE  delivered'[early'[l][i]] # <<>> \/ Before(early[l][i], early[l][j])'
  <2>1. PICK n, m : n = early[l][i] /\ m = early[l][j]
    OBVIOUS
  <2>2. n \in Notices /\ m \in Notices /\ n \notin OnNotices
    BY <1>3, <2>1 DEF OrderInv
  <2>3. delivered[n] # <<>> \/ Before(n, m)
    BY <1>3, <2>1 DEF OrderInv
  <2>4. delivered'[n] # <<>> \/ Before(n, m)'
    BY <2>2, <2>3 DEF CallsStand
  <2> QED BY <2>1, <2>4
<1> QED BY <1>1, <1>2, <1>3 DEF OrderInv

\* A step that neither settles nor calls anything keeps the order.
LEMMA OrderQuiet ==
    ASSUME OrderInv, UNCHANGED <<early, settled>>, CallsStand, HooksGrow, FramesKept
    PROVE  OrderInv'
BY OrderStays, BeforeStays DEF HooksGrow

\* Hooks that are not touched, or get one more.
LEMMA HooksGrown ==
    ASSUME ChainIInv
    PROVE  /\ hooks' = hooks => HooksGrow
           /\ \A u \in Layers, h \in Hooks : hooks' = [hooks EXCEPT ![u] = Append(@, h)] =>
                /\ HooksGrow
                /\ Len(hooks[u]) + 1 \in 1..Len(hooks'[u]) /\ hooks'[u][Len(hooks[u]) + 1] = h /\ Len(hooks[u]) \in Nat
<1>1. hooks \in [Layers -> Seq(Hooks)]
  BY DEF ChainIInv, HooksOK
<1>2. hooks' = hooks => HooksGrow
  BY DEF HooksGrow
<1>3. ASSUME NEW u \in Layers, NEW h \in Hooks, hooks' = [hooks EXCEPT ![u] = Append(@, h)]
      PROVE  /\ HooksGrow
             /\ Len(hooks[u]) + 1 \in 1..Len(hooks'[u]) /\ hooks'[u][Len(hooks[u]) + 1] = h /\ Len(hooks[u]) \in Nat
  <2>1. PICK s \in Seq(Hooks) : s = hooks[u]
    BY <1>1
  <2>2. /\ Len(Append(s, h)) = Len(s) + 1 /\ Append(s, h)[Len(s) + 1] = h /\ Len(s) \in Nat
        /\ \A a \in 1..Len(s) : Append(s, h)[a] = s[a]
    OBVIOUS
  <2>3. hooks'[u] = Append(s, h) /\ \A v \in Layers : v # u => hooks'[v] = hooks[v]
    BY <1>1, <1>3, <2>1
  <2>4. \A a \in 1..Len(s) : a \in 1..Len(hooks'[u]) /\ hooks'[u][a] = s[a]
    BY <2>2, <2>3
  <2>5. HooksGrow
    BY <2>1, <2>3, <2>4 DEF HooksGrow
  <2>6. Len(s) + 1 \in 1..Len(hooks'[u]) /\ hooks'[u][Len(s) + 1] = h
    BY <2>2, <2>3
  <2> QED BY <2>1, <2>2, <2>5, <2>6
<1> QED BY <1>2, <1>3

\* What a registration does to the thread's stack.
LEMMA RegisterStack ==
    ASSUME ChainIInv, NEW p \in Threads, NEW base, NEW u \in Layers, NEW h \in Hooks, Register(p, base, u, h)
    PROVE  /\ pool \subseteq pool'
           /\ SetStack(p, base) \/ \E f \in FrameType : SetStack(p, <<f>> \o base)
<1>1. result[u] \in Results /\ Stopped \in Results /\ TRUE \in BOOLEAN
  BY DEF ChainIInv, TypeOK, Results
<1>2. FireFrame(h, result[u], TRUE) \in FrameType
  BY <1>1, FrameKinds
<1>3. h.t = "layer" => SettleFrame(h.id, Stopped) \in FrameType
  BY <1>1, HookFields, FrameKinds
<1> QED BY <1>2, <1>3 DEF Register

\* Pushing at most one activation keeps the handlers that are still to be run.
LEMMA FramesPushed ==
    ASSUME ChainIInv, NEW p \in Threads, NEW base \in Seq(FrameType), Covers(base, p), pool \subseteq pool',
           SetStack(p, base) \/ \E f \in FrameType : SetStack(p, <<f>> \o base)
    PROVE  FramesKept
<1>1. CASE SetStack(p, base)
  BY <1>1, KeptBySet
<1>2. CASE \E f \in FrameType : SetStack(p, <<f>> \o base)
  <2>1. PICK f \in FrameType : SetStack(p, <<f>> \o base)
    BY <1>2
  <2>2. PICK s : s = <<f>> \o base
    OBVIOUS
  <2>3. Covers(s, p) /\ SetStack(p, s)
    BY <2>1, <2>2, CoverFacts
  <2> QED BY <2>3, KeptBySet
<1> QED BY <1>1, <1>2

\* A registration keeps what was registered.
LEMMA RegisterOrdered ==
    ASSUME ChainIInv, NEW p \in Threads, NEW base \in Seq(FrameType), Covers(base, p), NEW u \in Layers,
           NEW h \in Hooks, Register(p, base, u, h)
    PROVE  HooksGrow /\ FramesKept
<1>1. HooksGrow
  BY HooksGrown DEF Register
<1>2. FramesKept
  BY RegisterStack, FramesPushed
<1> QED BY <1>1, <1>2

\* What a dispatch does to the thread's stack.
LEMMA DispatchStack ==
    ASSUME ChainIInv, NEW p \in Threads, NEW base, NEW l \in Layers, NEW r \in Results,
           DispatchInlineOrPost(p, base, l, r)
    PROVE  /\ pool \subseteq pool'
           /\ SetStack(p, base) \/ \E f \in FrameType : SetStack(p, <<f>> \o base)
<1>1. Stopped \in Results /\ TRUE \in BOOLEAN
  BY DEF Results
<1>2. RunFrame(l, r, TRUE) \in FrameType /\ SettleFrame(l, Stopped) \in FrameType
  BY <1>1, FrameKinds
<1> QED BY <1>2 DEF DispatchInlineOrPost

\* A dispatch keeps the handlers that are still to be run.
LEMMA DispatchOrdered ==
    ASSUME ChainIInv, NEW p \in Threads, NEW base \in Seq(FrameType), Covers(base, p), NEW l \in Layers,
           NEW r \in Results, DispatchInlineOrPost(p, base, l, r)
    PROVE  FramesKept
BY DispatchStack, FramesPushed

\* A call of a notice is not taken back.
LEMMA CallsGrow ==
    ASSUME ChainIInv
    PROVE  /\ delivered' = delivered => CallsStand
           /\ \A n \in Notices, r \in Results : delivered' = [delivered EXCEPT ![n] = Append(@, r)] =>
                CallsStand /\ delivered'[n] # <<>>
<1>1. delivered \in [Notices -> Seq(Results)]
  BY DEF ChainIInv, NoPast
<1>2. delivered' = delivered => CallsStand
  BY DEF CallsStand
<1>3. ASSUME NEW n \in Notices, NEW r \in Results, delivered' = [delivered EXCEPT ![n] = Append(@, r)]
      PROVE  CallsStand /\ delivered'[n] # <<>>
  <2>1. PICK s \in Seq(Results) : s = delivered[n]
    BY <1>1
  <2>2. Len(Append(s, r)) = Len(s) + 1 /\ Len(s) \in Nat
    OBVIOUS
  <2>2a. Append(s, r) # <<>>
    BY <2>2
  <2>3. delivered'[n] # <<>> /\ \A m \in Notices : m # n => delivered'[m] = delivered[m]
    BY <1>1, <1>3, <2>1, <2>2a
  <2> QED BY <2>3 DEF CallsStand
<1> QED BY <1>2, <1>3

\* The stacks that a step of a thread leaves keep what is still to be run.
LEMMA StacksOrdered ==
    ASSUME ChainIInv, NEW p \in Threads, pool \subseteq pool'
    PROVE  /\ stack' = stack => FramesKept
           /\ ~Idle(p) /\ Top(p).todo = <<>> /\ SetStack(p, Rest(p)) => FramesKept
           /\ \A f \in FrameType : ~Idle(p) /\ f.todo = Top(p).todo /\ SetStack(p, <<f>> \o Rest(p)) => FramesKept
           /\ \A f \in FrameType : Idle(p) /\ SetStack(p, <<f>>) => FramesKept
<1>0. stack \in [Threads -> Seq(FrameType)]
  BY DEF ChainIInv, FramesOK
<1>1. ASSUME stack' = stack PROVE FramesKept
  <2>1. PICK s : s = stack[p]
    OBVIOUS
  <2>2. Covers(s, p) /\ SetStack(p, s)
    BY <1>0, <1>1, <2>1, CoverFacts DEF SetStack
  <2> QED BY <2>2, KeptBySet
<1>2. ASSUME ~Idle(p), Top(p).todo = <<>>, SetStack(p, Rest(p)) PROVE FramesKept
  <2>1. PICK s : s = Rest(p)
    OBVIOUS
  <2>2. Covers(s, p) /\ SetStack(p, s)
    BY <1>2, <2>1, CoverFacts
  <2> QED BY <2>2, KeptBySet
<1>3. ASSUME NEW f \in FrameType, ~Idle(p), f.todo = Top(p).todo, SetStack(p, <<f>> \o Rest(p)) PROVE FramesKept
  <2>1. PICK b, s : b = Rest(p) /\ s = <<f>> \o b
    OBVIOUS
  <2>2. b \in Seq(FrameType)
    BY <1>3, <2>1, CoverFacts
  <2>3. Covers(s, p) /\ SetStack(p, s)
    BY <1>3, <2>1, <2>2, CoverFacts
  <2> QED BY <2>3, KeptBySet
<1>4. ASSUME NEW f \in FrameType, Idle(p), SetStack(p, <<f>>) PROVE FramesKept
  <2>1. PICK b : b = stack[p]
    OBVIOUS
  <2>2. b \in Seq(FrameType) /\ Covers(b, p) /\ SetStack(p, <<f>> \o b)
    BY <1>4, <2>1, CoverFacts, IdleStack
  <2> QED BY <2>2, FramesPushed
<1> QED BY <1>1, <1>2, <1>3, <1>4

\* A notice that is registered while its layer is pending comes after the others.
LEMMA JoinOrdered ==
    ASSUME ChainIInv, OrderInv, NEW p \in Users, NEW n \in Notices, OnSettled(p, n)
    PROVE  OrderInv'
<1>0. p \in Threads
  BY DEF Threads
<1>1. PICK b, h, u : b = <<>> /\ h = NoticeHook(n) /\ u = Target[n]
  OBVIOUS
<1>2. h \in Hooks /\ u \in Layers /\ b \in Seq(FrameType) /\ Covers(b, p) /\ Register(p, b, u, h)
  BY <1>0, <1>1, Shape, CoverFacts DEF OnSettled, Hooks
<1>3. HooksGrow /\ FramesKept
  BY <1>0, <1>2, RegisterOrdered
<1>4. UNCHANGED <<settled, delivered>> /\ early \in [Layers -> Seq(Notices)]
  BY DEF OnSettled, OrderInv
<1>5. CASE settled[u]
  <2>1. early' = early
    BY <1>1, <1>4, <1>5 DEF OnSettled
  <2> QED BY <1>3, <1>4, <2>1, CallsGrow, OrderQuiet
<1>6. CASE ~settled[u]
  <2>1. PICK e \in Seq(Notices) : e = early[u]
    BY <1>2, <1>4
  <2>2. /\ Append(e, n) \in Seq(Notices) /\ Len(Append(e, n)) = Len(e) + 1 /\ Len(e) \in Nat
        /\ Append(e, n)[Len(e) + 1] = n /\ \A i \in 1..Len(e) : Append(e, n)[i] = e[i]
    OBVIOUS
  <2>3. early'[u] = Append(e, n) /\ (\A l \in Layers : l # u => early'[l] = early[l])
        /\ early' \in [Layers -> Seq(Notices)]
    BY <1>1, <1>2, <1>4, <1>6, <2>1, <2>2 DEF OnSettled
  <2>4. hooks' = [hooks EXCEPT ![u] = Append(@, h)]
    BY <1>2, <1>6 DEF Register
  <2>5. PICK z \in Nat : z = Len(hooks[u])
    BY <1>2, <2>4, HooksGrown
  <2>6. z + 1 \in 1..Len(hooks'[u]) /\ hooks'[u][z + 1] = NoticeHook(n)
    BY <1>1, <1>2, <2>4, <2>5, HooksGrown
  <2>7. ASSUME NEW l \in Layers, ~settled'[l], NEW i \in 1..Len(early'[l])
        PROVE  \E a \in 1..Len(hooks'[l]) : hooks'[l][a] = NoticeHook(early'[l][i])
    <3>1. CASE l = u /\ i = Len(e) + 1
      BY <2>2, <2>3, <2>6, <3>1
    <3>2. CASE l # u \/ i \in 1..Len(e)
      <4>1. i \in 1..Len(early[l]) /\ early'[l][i] = early[l][i]
        BY <2>1, <2>2, <2>3, <2>7, <3>2
      <4>2. PICK a \in 1..Len(hooks[l]) : hooks[l][a] = NoticeHook(early[l][i])
        BY <1>4, <2>7, <4>1 DEF OrderInv
      <4> QED BY <1>3, <4>1, <4>2 DEF HooksGrow
    <3> QED BY <2>2, <2>3, <2>7, <3>1, <3>2
  <2>8. ASSUME NEW l \in Layers, NEW i \in 1..Len(early'[l]), NEW j \in 1..Len(early'[l]),
               i < j, {early'[l][i], early'[l][j]} \cap OnNotices = {}
        PROVE  delivered'[early'[l][i]] # <<>> \/ Before(early[l][i], early[l][j])'
    <3>1. CASE l = u /\ j = Len(e) + 1
      <4>1. i \in 1..Len(early[u]) /\ early'[u][i] = early[u][i] /\ early'[u][j] = n
        BY <2>1, <2>2, <2>3, <2>8, <3>1
      <4>2. PICK a \in 1..Len(hooks[u]) : hooks[u][a] = NoticeHook(early[u][i])
        BY <1>2, <1>6, <4>1 DEF OrderInv
      <4>3. a \in 1..Len(hooks'[u]) /\ hooks'[u][a] = NoticeHook(early[u][i]) /\ a < z + 1
        BY <1>2, <1>3, <2>5, <4>2 DEF HooksGrow
      <4>4. PICK m : m = early'[u][i]
        OBVIOUS
      <4>5. InOrder(hooks'[u], m, n)
        BY <2>6, <4>1, <4>3, <4>4 DEF InOrder
      <4>6. Before(m, n)'
        BY <1>2, <4>5 DEF Before
      <4>7. PICK o : o = early'[u][j]
        OBVIOUS
      <4>8. o = n
        BY <4>1, <4>7
      <4>9. Before(m, o)'
        BY <4>6, <4>8
      <4> QED BY <3>1, <4>4, <4>7, <4>9
    <3>2. CASE l # u \/ j \in 1..Len(e)
      <4>1. /\ i \in 1..Len(early[l]) /\ early'[l][i] = early[l][i]
            /\ j \in 1..Len(early[l]) /\ early'[l][j] = early[l][j]
        <5>1. CASE l # u
          BY <2>3, <2>8, <5>1
        <5>2. CASE l = u /\ j \in 1..Len(e)
          <6>1. i \in 1..Len(e)
            BY <2>2, <2>3, <2>8, <5>2
          <6> QED BY <2>1, <2>2, <2>3, <5>2, <6>1
        <5> QED BY <3>2, <5>1, <5>2
      <4>2. PICK m, o : m = early[l][i] /\ o = early[l][j]
        OBVIOUS
      <4>3. delivered[m] # <<>> \/ Before(m, o)
        BY <2>8, <4>1, <4>2 DEF OrderInv
      <4>4. delivered'[m] # <<>> \/ Before(m, o)'
        <5>1. CASE Before(m, o)
          BY <1>3, <5>1, BeforeStays
        <5> QED BY <1>4, <4>3, <5>1
      <4> QED BY <4>1, <4>2, <4>4
    <3> QED BY <2>2, <2>3, <2>8, <3>1, <3>2
  <2> QED BY <2>3, <2>7, <2>8 DEF OrderInv
<1> QED BY <1>5, <1>6

\* A caller's step.
LEMMA UserOrdered ==
    ASSUME ChainIInv, OrderInv, NEW p \in Users, UserStep(p)
    PROVE  OrderInv'
<1>0. p \in Threads
  BY DEF Threads
<1>1. ASSUME NEW l \in Layers, AppendLayer(p, l) PROVE OrderInv'
  <2>1. PICK b, h, u : b = <<>> /\ h = LayerHook(l) /\ u = Up[l]
    OBVIOUS
  <2>2. h \in Hooks /\ u \in Layers /\ b \in Seq(FrameType) /\ Covers(b, p) /\ Register(p, b, u, h)
    BY <1>0, <1>1, <2>1, Shape, CoverFacts DEF AppendLayer, Hooks
  <2>3. HooksGrow /\ FramesKept
    BY <1>0, <2>2, RegisterOrdered
  <2>4. UNCHANGED <<early, settled, delivered>>
    BY <1>1 DEF AppendLayer
  <2> QED BY <2>3, <2>4, CallsGrow, OrderQuiet
<1>2. ASSUME NEW l \in Layers, StartChain(p, l) PROVE OrderInv'
  <2>1. Stopped \in Results
    BY DEF Results
  <2>2. pool \subseteq pool' /\ UNCHANGED <<early, settled, delivered, hooks>> /\ Idle(p)
    BY <1>2 DEF StartChain
  <2>3. FramesKept
    <3>1. CASE stack' = stack
      BY <1>0, <2>2, <3>1, StacksOrdered
    <3>2. CASE SetStack(p, <<SettleFrame(l, Stopped)>>)
      BY <1>0, <2>1, <2>2, <3>2, FrameKinds, StacksOrdered
    <3> QED BY <1>2, <3>1, <3>2 DEF StartChain
  <2> QED BY <2>2, <2>3, CallsGrow, HooksGrown, OrderQuiet
<1>3. ASSUME NEW l \in Layers, NewPromise(p, l) PROVE OrderInv'
  <2>1. PICK b, r : b = <<>> /\ r = Resolved
    OBVIOUS
  <2>2. r \in Results /\ b \in Seq(FrameType) /\ Covers(b, p) /\ DispatchInlineOrPost(p, b, l, r)
    BY <1>0, <1>3, <2>1, CoverFacts DEF NewPromise, NewFromHandle, Results
  <2>3. UNCHANGED <<early, settled, delivered, hooks>>
    BY <1>3 DEF NewPromise, NewFromHandle
  <2>4. FramesKept
    BY <1>0, <2>2, DispatchOrdered
  <2> QED BY <2>3, <2>4, CallsGrow, HooksGrown, OrderQuiet
<1>4. ASSUME NEW l \in Layers, NEW r \in Results, ExternalSettle(p, l, r) PROVE OrderInv'
  <2>1. UNCHANGED <<early, settled, delivered, hooks, pool>> /\ Idle(p) /\ SetStack(p, <<SettleFrame(l, r)>>)
    BY <1>4 DEF ExternalSettle
  <2>2. FramesKept
    BY <1>0, <2>1, FrameKinds, StacksOrdered
  <2> QED BY <2>1, <2>2, CallsGrow, HooksGrown, OrderQuiet
<1> QED BY <1>1, <1>2, <1>3, <1>4, JoinOrdered DEF UserStep, ThenCatchFinally, ThenPromise

\* The end of a body changes the frame of its layer only.
LEMMA EndRunOrdered ==
    ASSUME ChainIInv, NEW p \in Threads, ~Idle(p), NEW r \in Results, EndRun(p, r), pool' = pool
    PROVE  FramesKept
<1>1. PICK f : f = [Top(p) EXCEPT !.k = "settle", !.res = r]
  OBVIOUS
<1>2. Top(p) \in FrameType
  BY TopFrame
<1>3. f \in FrameType /\ f.todo = Top(p).todo
  BY <1>1, <1>2 DEF FrameType
<1>4. SetStack(p, <<f>> \o Rest(p))
  BY <1>1 DEF EndRun
<1> QED BY <1>3, <1>4, StacksOrdered

\* A step of a body.
LEMMA BodyOrdered ==
    ASSUME ChainIInv, OrderInv, NEW p \in Threads, BodyStep(p)
    PROVE  OrderInv'
<1>1. PICK l : l = Top(p).l
  OBVIOUS
<1>2. Running(p) /\ UNCHANGED <<early, settled, delivered>>
  BY DEF BodyStep, RunBody, RunBodySuspends, RunStarter, FactoryStartsChild, FactoryThrows, FactoryReturns,
         NewFromHandle
<1>3. ~Idle(p) /\ l \in Layers /\ Top(p).res \in Results /\ Top(p).todo = <<>>
  BY <1>1, <1>2, RunningFrame
<1>4. Rejected(l) \in Results /\ Resolved \in Results /\ Stopped \in Results
  BY <1>3 DEF Results
<1>5. ASSUME hooks' = hooks, FramesKept PROVE OrderInv'
  BY <1>2, <1>5, CallsGrow, HooksGrown, OrderQuiet
<1>6. ASSUME NEW end \in {"ok", "err", "throw"}, RunBody(p, end) PROVE OrderInv'
  <2>1. PICK r : r = BodyResult(Top(p).l, Top(p).res, end)
    OBVIOUS
  <2>2. r \in Results /\ EndRun(p, r) /\ pool' = pool /\ hooks' = hooks
    BY <1>1, <1>3, <1>4, <1>6, <2>1 DEF BodyResult, RunBody
  <2> QED BY <1>3, <1>5, <2>2, EndRunOrdered
<1>7. ASSUME RunBodySuspends(p) PROVE OrderInv'
  <2>1. CASE EndRun(p, Rejected(Top(p).l)) /\ pool' = pool
    BY <1>1, <1>3, <1>4, <1>5, <1>7, <2>1, EndRunOrdered DEF RunBodySuspends
  <2>2. CASE SetStack(p, Rest(p)) /\ pool \subseteq pool'
    BY <1>3, <1>5, <1>7, <2>2, StacksOrdered DEF RunBodySuspends
  <2>3. CASE EndRun(p, Stopped) /\ pool' = pool
    BY <1>3, <1>4, <1>5, <1>7, <2>3, EndRunOrdered DEF RunBodySuspends
  <2> QED BY <1>7, <2>1, <2>2, <2>3 DEF RunBodySuspends
<1>8. ASSUME NEW end \in {"return", "ok", "throw"}, RunStarter(p, end) PROVE OrderInv'
  <2>1. pool' = pool /\ hooks' = hooks
    BY <1>8 DEF RunStarter
  <2>2. /\ end = "return" => SetStack(p, Rest(p))
        /\ end = "ok" => EndRun(p, Resolved)
        /\ end = "throw" => EndRun(p, Rejected(Top(p).l))
    BY <1>8 DEF RunStarter
  <2>3. CASE end = "return"
    BY <1>3, <1>5, <2>1, <2>2, <2>3, StacksOrdered
  <2>4. CASE end = "ok"
    BY <1>3, <1>4, <1>5, <2>1, <2>2, <2>4, EndRunOrdered
  <2>5. CASE end = "throw"
    BY <1>1, <1>3, <1>4, <1>5, <2>1, <2>2, <2>5, EndRunOrdered
  <2> QED BY <2>3, <2>4, <2>5
<1>9. ASSUME FactoryStartsChild(p) PROVE OrderInv'
  <2>1. PICK b, c, r : b = stack[p] /\ c = Child[Top(p).l] /\ r = Resolved
    OBVIOUS
  <2>2. DispatchInlineOrPost(p, b, c, r) /\ r \in Results /\ c \in Layers /\ hooks' = hooks
    BY <1>1, <1>3, <1>4, <1>9, <2>1, Shape DEF FactoryStartsChild, NewFromHandle
  <2>3. b \in Seq(FrameType) /\ Covers(b, p)
    BY <2>1, CoverFacts
  <2> QED BY <1>5, <2>2, <2>3, DispatchOrdered
<1>10. ASSUME FactoryThrows(p) PROVE OrderInv'
  BY <1>1, <1>3, <1>4, <1>5, <1>10, EndRunOrdered DEF FactoryThrows
<1>11. ASSUME FactoryReturns(p) PROVE OrderInv'
  <2>1. PICK b, h, u : b = Rest(p) /\ h = AdoptHook(l) /\ u = Child[l]
    OBVIOUS
  <2>2. h \in Hooks /\ u \in Layers /\ Register(p, b, u, h)
    BY <1>1, <1>3, <1>11, <2>1, Shape DEF FactoryReturns, Hooks
  <2>3. b \in Seq(FrameType) /\ Covers(b, p)
    BY <1>3, <2>1, CoverFacts
  <2>4. HooksGrow /\ FramesKept
    BY <2>2, <2>3, RegisterOrdered
  <2> QED BY <1>2, <2>4, CallsGrow, OrderQuiet
<1> QED BY <1>6, <1>7, <1>8, <1>9, <1>10, <1>11 DEF BodyStep

InSeq(e, s) == \E i \in 1..Len(s) : s[i] = e

\* Where the activations of a thread are once its stack is another one.
LEMMA FramesAfter ==
    ASSUME ChainIInv, NEW p \in Threads, NEW s, SetStack(p, s), pool \subseteq pool'
    PROVE  /\ \A e : InSeq(e, s) => e \in FramesIn(pool', stack')
           /\ \A e \in FramesIn(pool, stack) : e \in FramesIn(pool', stack') \/ (~Idle(p) /\ (e = Top(p) \/ InSeq(e, Rest(p))))
<1>1. stack'[p] = s /\ (\A q \in Threads : q # p => stack'[q] = stack[q]) /\ stack[p] \in Seq(FrameType)
  BY DEF ChainIInv, FramesOK, SetStack
<1>2. ASSUME NEW e, InSeq(e, s) PROVE e \in FramesIn(pool', stack')
  BY <1>1, <1>2, InFrames DEF InSeq
<1>3. ASSUME NEW e \in FramesIn(pool, stack)
      PROVE  e \in FramesIn(pool', stack') \/ (~Idle(p) /\ (e = Top(p) \/ InSeq(e, Rest(p))))
  <2>1. CASE e \in pool
    BY <2>1, InFrames
  <2>2. CASE \E q \in Threads : \E i \in 1..Len(stack[q]) : e = stack[q][i]
    <3>1. PICK q \in Threads : \E i \in 1..Len(stack[q]) : e = stack[q][i]
      BY <2>2
    <3>2. PICK i \in 1..Len(stack[q]) : e = stack[q][i]
      BY <3>1
    <3>3. CASE q # p
      BY <1>1, <3>2, <3>3, InFrames
    <3>4. CASE q = p
      <4>1. ~Idle(p)
        BY <1>1, <3>2, <3>4 DEF Idle
      <4>2. Top(p) = stack[p][1] /\ (i = 1 \/ (i - 1 \in 1..Len(Rest(p)) /\ Rest(p)[i - 1] = stack[p][i]))
        BY <1>1, <3>2, <3>4, <4>1, PoppedSeq DEF Idle, Top, Rest
      <4>3. CASE i = 1
        BY <3>2, <3>4, <4>1, <4>2, <4>3
      <4>4. CASE i # 1
        BY <3>2, <3>4, <4>1, <4>2, <4>4 DEF InSeq
      <4> QED BY <4>3, <4>4
    <3> QED BY <3>3, <3>4
  <2> QED BY <2>1, <2>2, InFrames
<1> QED BY <1>2, <1>3

\* What is on a stack when an activation is put on top of it.
LEMMA PushedIn ==
    ASSUME NEW S, NEW s \in Seq(S), NEW f \in S
    PROVE  InSeq(f, <<f>> \o s) /\ \A e : InSeq(e, s) => InSeq(e, <<f>> \o s)
<1>1. PICK t : t = <<f>> \o s
  OBVIOUS
<1>2. Len(t) = Len(s) + 1 /\ Len(s) \in Nat /\ t[1] = f /\ \A i \in 1..Len(s) : i + 1 \in 1..Len(t) /\ t[i + 1] = s[i]
  BY <1>1, PushedSeq
<1>3. InSeq(f, t)
  <2>1. 1 \in 1..Len(t)
    BY <1>2
  <2> QED BY <1>2, <2>1 DEF InSeq
<1>4. ASSUME NEW e, InSeq(e, s) PROVE InSeq(e, t)
  <2>1. PICK i \in 1..Len(s) : s[i] = e
    BY <1>4 DEF InSeq
  <2>2. i + 1 \in 1..Len(t) /\ t[i + 1] = e
    BY <1>2, <2>1
  <2> QED BY <2>2 DEF InSeq
<1> QED BY <1>1, <1>3, <1>4

\* The first settlement takes the handlers of the layer along in their order.
LEMMA SettleOrdered ==
    ASSUME ChainIInv, OrderInv, NEW p \in Threads, Settle(p)
    PROVE  OrderInv'
<1>1. ~Idle(p) /\ Top(p).k = "settle" /\ UNCHANGED <<pool, early, delivered>> /\ Top(p) \in FrameType
  BY TopFrame DEF Settle
<1>2. Top(p).todo = <<>> /\ Top(p).l \in Layers
  BY <1>1, TopFrame DEF FrameOK, ChainIInv, TypeOK
<1>3. CASE settled[Top(p).l]
  <2>1. SetStack(p, Rest(p)) /\ UNCHANGED <<settled, hooks>>
    BY <1>3 DEF Settle
  <2>2. FramesKept
    BY <1>1, <1>2, <2>1, StacksOrdered
  <2> QED BY <1>1, <2>1, <2>2, CallsGrow, HooksGrown, OrderQuiet
<1>4. CASE ~settled[Top(p).l]
  <2>1. PICK l, f, b, s : /\ l = Top(p).l /\ f = [Top(p) EXCEPT !.k = "notify", !.todo = hooks[Top(p).l]]
                          /\ b = Rest(p) /\ s = <<f>> \o b
    OBVIOUS
  <2>2. /\ hooks \in [Layers -> Seq(Hooks)] /\ settled \in [Layers -> BOOLEAN]
        /\ settled' = [settled EXCEPT ![l] = TRUE] /\ hooks' = [hooks EXCEPT ![l] = <<>>] /\ SetStack(p, s)
    BY <1>4, <2>1 DEF Settle, ChainIInv, TypeOK, HooksOK
  <2>3. f \in FrameType /\ f.todo = hooks[l]
    <3>1. hooks[Top(p).l] \in Seq(Hooks)
      BY <1>2, <2>2
    <3> QED BY <1>1, <2>1, <3>1 DEF FrameType
  <2>4. b \in Seq(FrameType) /\ Covers(b, p)
    BY <1>1, <1>2, <2>1, CoverFacts
  <2>5. FramesKept
    BY <1>1, <2>1, <2>2, <2>3, <2>4, FramesPushed
  <2>6. InSeq(f, s)
    BY <2>1, <2>3, <2>4, PushedIn
  <2>7. f \in FramesIn(pool', stack')
    BY <1>1, <2>2, <2>6, FramesAfter
  <2>8. ASSUME NEW u \in Layers, ~settled'[u] PROVE ~settled[u] /\ hooks'[u] = hooks[u]
    BY <1>2, <2>1, <2>2, <2>8
  <2>9. ASSUME NEW n \in Notices, NEW m \in Notices, Before(n, m) PROVE Before(n, m)'
    <3>1. CASE \E g \in FramesIn(pool, stack) : InOrder(g.todo, n, m)
      <4>1. PICK g \in FramesIn(pool, stack) : InOrder(g.todo, n, m)
        BY <3>1
      <4>2. g.todo # <<>>
        BY <4>1 DEF InOrder
      <4>3. PICK h \in FramesIn(pool', stack') : h.todo = g.todo
        BY <2>5, <4>2 DEF FramesKept
      <4> QED BY <4>1, <4>3 DEF Before
    <3>2. CASE \E u \in Layers : InOrder(hooks[u], n, m)
      <4>1. PICK u \in Layers : InOrder(hooks[u], n, m)
        BY <3>2
      <4>2. CASE u = l
        BY <2>3, <2>7, <4>1, <4>2 DEF Before
      <4>3. CASE u # l
        <5>1. InOrder(hooks'[u], n, m)
          BY <2>2, <4>1, <4>3
        <5> QED BY <5>1 DEF Before
      <4> QED BY <4>2, <4>3
    <3> QED BY <2>9, <3>1, <3>2 DEF Before
  <2> QED BY <1>1, <2>8, <2>9, CallsGrow, OrderStays
<1> QED BY <1>3, <1>4

\* The next handler is run, the others stay in their order.
LEMMA FireOrdered ==
    ASSUME ChainIInv, OrderInv, NEW p \in Threads, Fire(p)
    PROVE  OrderInv'
<1>1. /\ ~Idle(p) /\ Top(p).k = "fire" /\ Top(p).todo # <<>> /\ UNCHANGED <<hooks, settled, early>>
      /\ Top(p) \in FrameType /\ Top(p).todo \in Seq(Hooks) /\ Top(p).res \in Results
  <2>1. ~Idle(p) /\ Top(p).k = "fire" /\ Top(p).todo # <<>> /\ UNCHANGED <<hooks, settled, early>>
    BY DEF Fire
  <2> QED BY <2>1, TopFrame DEF FrameType
<1>2. PICK t, c, g, b, h, r : /\ t = Top(p).todo /\ c = Rest(p) /\ g = [Top(p) EXCEPT !.todo = Tail(t)]
                              /\ b = <<g>> \o c /\ h = Head(t) /\ r = Top(p).res
  OBVIOUS
<1>3. /\ t \in Seq(Hooks) /\ Tail(t) \in Seq(Hooks) /\ h = t[1] /\ h \in Hooks
      /\ \A j \in 1..Len(t) : j = 1 \/ (j - 1 \in 1..Len(Tail(t)) /\ Tail(t)[j - 1] = t[j])
  BY <1>1, <1>2, PoppedSeq
<1>4. g \in FrameType /\ g.todo = Tail(t) /\ c \in Seq(FrameType)
  BY <1>1, <1>2, <1>3, CoverFacts DEF FrameType
<1>5. b \in Seq(FrameType) /\ InSeq(g, b) /\ \A e : InSeq(e, c) => InSeq(e, b)
  BY <1>2, <1>4, PushedIn, PushedSeq
<1>6. RunHook(p, h, r, b) /\ r \in Results
  BY <1>1, <1>2 DEF Fire
<1>7. /\ pool \subseteq pool'
      /\ SetStack(p, b) \/ \E f \in FrameType : SetStack(p, <<f>> \o b)
      /\ CallsStand
      /\ h.t = "notice" /\ h.id \notin OnNotices => delivered'[h.id] # <<>>
  <2>1. CASE h.t \in {"layer", "adopt"} /\ SetStack(p, <<SettleFrame(h.id, r)>> \o b) /\ UNCHANGED <<pool, delivered>>
    BY <1>3, <1>6, <2>1, HookFields, FrameKinds, CallsGrow
  <2>2. CASE h.t = "layer" /\ DispatchInlineOrPost(p, b, h.id, r) /\ delivered' = delivered
    <3>1. PICK l : l = h.id
      OBVIOUS
    <3>2. l \in Layers /\ DispatchInlineOrPost(p, b, l, r)
      BY <1>3, <2>2, <3>1, HookFields
    <3> QED BY <1>6, <2>2, <3>2, DispatchStack, CallsGrow
  <2>3. CASE h.t = "notice" /\ Deliver(p, h.id, r, b)
    <3>1. h.id \in Notices
      BY <1>3, <2>3, HookFields
    <3>2. CASE delivered' = [delivered EXCEPT ![h.id] = Append(@, r)] /\ SetStack(p, b) /\ pool' = pool
      BY <1>6, <3>1, <3>2, CallsGrow
    <3>3. CASE h.id \in OnNotices /\ pool \subseteq pool' /\ SetStack(p, b) /\ delivered' = delivered
      BY <3>3, CallsGrow
    <3> QED BY <2>3, <3>2, <3>3 DEF Deliver
  <2> QED BY <1>6, <2>1, <2>2, <2>3 DEF RunHook
<1>8. PICK s : SetStack(p, s) /\ \A e : InSeq(e, b) => InSeq(e, s)
  <2>1. CASE SetStack(p, b)
    BY <2>1
  <2>2. CASE \E f \in FrameType : SetStack(p, <<f>> \o b)
    <3>1. PICK f \in FrameType : SetStack(p, <<f>> \o b)
      BY <2>2
    <3>2. \A e : InSeq(e, b) => InSeq(e, <<f>> \o b)
      BY <1>5, PushedIn
    <3> QED BY <3>1, <3>2
  <2> QED BY <1>7, <2>1, <2>2
<1>9. /\ g \in FramesIn(pool', stack')
      /\ \A e \in FramesIn(pool, stack) : e = Top(p) \/ e \in FramesIn(pool', stack')
  BY <1>2, <1>5, <1>7, <1>8, FramesAfter
<1>10. ASSUME NEW n \in Notices, NEW m \in Notices, n \notin OnNotices, Before(n, m)
       PROVE  Before(n, m)' \/ delivered'[n] # <<>>
  <2>1. CASE \E u \in Layers : InOrder(hooks[u], n, m)
    BY <1>1, <2>1 DEF Before
  <2>2. CASE \E e \in FramesIn(pool, stack) : InOrder(e.todo, n, m)
    <3>1. PICK e \in FramesIn(pool, stack) : InOrder(e.todo, n, m)
      BY <2>2
    <3>2. CASE e # Top(p)
      BY <1>9, <3>1, <3>2 DEF Before
    <3>3. CASE e = Top(p)
      <4>1. PICK i, j \in 1..Len(t) : i < j /\ t[i] = NoticeHook(n) /\ t[j] = NoticeHook(m)
        BY <1>2, <3>1, <3>3 DEF InOrder
      <4>2. CASE i = 1
        BY <1>3, <1>7, <1>10, <4>1, <4>2, HookFields
      <4>3. CASE i # 1
        <5>1. j # 1
          BY <4>1, <4>3
        <5>2. /\ i - 1 \in 1..Len(Tail(t)) /\ Tail(t)[i - 1] = NoticeHook(n)
              /\ j - 1 \in 1..Len(Tail(t)) /\ Tail(t)[j - 1] = NoticeHook(m)
          BY <1>3, <4>1, <4>3, <5>1
        <5>3. i - 1 < j - 1
          BY <4>1
        <5>4. InOrder(Tail(t), n, m)
          BY <5>2, <5>3 DEF InOrder
        <5> QED BY <1>4, <1>9, <5>4 DEF Before
      <4> QED BY <4>2, <4>3
    <3> QED BY <3>2, <3>3
  <2> QED BY <1>10, <2>1, <2>2 DEF Before
<1> QED BY <1>1, <1>7, <1>10, OrderStays

\* A step of a settlement.
LEMMA CascadeOrdered ==
    ASSUME ChainIInv, OrderInv, NEW p \in Threads,
           Settle(p) \/ SettleNotify(p) \/ Fire(p) \/ FireEnd(p) \/ DeliverPosted(p)
    PROVE  OrderInv'
<1>1. ASSUME SettleNotify(p) PROVE OrderInv'
  <2>1. PICK f : f = [Top(p) EXCEPT !.k = "fire"]
    OBVIOUS
  <2>2. ~Idle(p) /\ SetStack(p, <<f>> \o Rest(p)) /\ UNCHANGED <<pool, hooks, settled, early, delivered>>
    BY <1>1, <2>1 DEF SettleNotify
  <2>3. f \in FrameType /\ f.todo = Top(p).todo
    BY <2>1, <2>2, TopFrame DEF FrameType
  <2>4. FramesKept
    BY <2>2, <2>3, StacksOrdered
  <2> QED BY <2>2, <2>4, CallsGrow, HooksGrown, OrderQuiet
<1>2. ASSUME FireEnd(p) PROVE OrderInv'
  <2>1. ~Idle(p) /\ Top(p).todo = <<>> /\ SetStack(p, Rest(p)) /\ UNCHANGED <<pool, hooks, settled, early, delivered>>
    BY <1>2 DEF FireEnd
  <2>2. FramesKept
    BY <2>1, StacksOrdered
  <2> QED BY <2>1, <2>2, CallsGrow, HooksGrown, OrderQuiet
<1>3. ASSUME DeliverPosted(p) PROVE OrderInv'
  <2>1. PICK n, r : n = Top(p).l /\ r = Top(p).res
    OBVIOUS
  <2>2. /\ ~Idle(p) /\ Top(p).k = "deliver" /\ SetStack(p, Rest(p)) /\ UNCHANGED <<pool, hooks, settled, early>>
        /\ delivered' = [delivered EXCEPT ![n] = Append(@, r)]
    BY <1>3, <2>1 DEF DeliverPosted
  <2>3. Top(p).todo = <<>> /\ n \in Notices /\ r \in Results
    BY <2>1, <2>2, TopFrame DEF FrameOK, FrameType, ChainIInv, TypeOK
  <2>4. FramesKept
    BY <2>2, <2>3, StacksOrdered
  <2>5. CallsStand
    BY <2>2, <2>3, CallsGrow
  <2> QED BY <2>2, <2>4, <2>5, HooksGrown, OrderQuiet
<1> QED BY <1>1, <1>2, <1>3, SettleOrdered, FireOrdered

\* Every step keeps the notices in order.
LEMMA OrderNext == ChainIInv /\ OrderInv /\ [Next]_vars => OrderInv'
<1> SUFFICES ASSUME ChainIInv, OrderInv, [Next]_vars PROVE OrderInv'
  OBVIOUS
<1>1. ASSUME NEW p \in Threads, ThreadStep(p) PROVE OrderInv'
  BY <1>1, BodyOrdered, CascadeOrdered DEF ThreadStep
<1>2. ASSUME NEW w \in Workers, NEW f \in pool, WorkerTake(w, f) PROVE OrderInv'
  <2>1. w \in Threads /\ Idle(w) /\ pool' = pool \ {f} /\ SetStack(w, <<f>>) /\ UNCHANGED <<hooks, settled, early, delivered>>
    BY <1>2 DEF Threads, WorkerTake
  <2>2. stack' = Push(stack, w, f) /\ f \in FrameType /\ stack \in [Threads -> Seq(FrameType)]
    BY <2>1, IdleStack DEF ChainIInv, FramesOK
  <2>3. \A g : g \in FramesIn(pool', stack') <=> g \in FramesIn(pool', stack) \/ g = f
    BY <2>1, <2>2, PushFrames
  <2>4. ASSUME NEW g \in FramesIn(pool, stack) PROVE g \in FramesIn(pool', stack')
    <3>1. PICK pl : pl = pool'
      OBVIOUS
    <3>2. g = f \/ g \in FramesIn(pl, stack)
      BY <2>1, <3>1, InFrames
    <3> QED BY <2>3, <3>1, <3>2
  <2>5. FramesKept
    BY <2>4 DEF FramesKept
  <2> QED BY <2>1, <2>5, CallsGrow, HooksGrown, OrderQuiet
<1>3. ASSUME UNCHANGED <<pool, stack, hooks, settled, early, delivered>> PROVE OrderInv'
  <2>1. FramesKept /\ HooksGrow /\ CallsStand
    BY <1>3 DEF FramesKept, HooksGrow, CallsStand
  <2> QED BY <1>3, <2>1, OrderQuiet
<1>4. ASSUME NEW a \in Awaiters, AwaitTest(a) \/ AwaitSpuriousWake(a) \/ AwaitTimeout(a) PROVE OrderInv'
  BY <1>3, <1>4 DEF AwaitTest, AwaitSpuriousWake, AwaitTimeout, awaitUnchanged
<1>5. ASSUME StopExecutor \/ UNCHANGED vars PROVE OrderInv'
  BY <1>3, <1>5 DEF StopExecutor, vars
<1> QED BY <1>1, <1>2, <1>4, <1>5, UserOrdered DEF Next, WorkerStep, Finished

\* No notice is registered at first.
LEMMA OrderInit == Init => OrderInv
<1> SUFFICES ASSUME Init PROVE OrderInv
  OBVIOUS
<1>1. <<>> \in Seq(Notices) /\ Len(<<>>) = 0
  OBVIOUS
<1>2. early \in [Layers -> Seq(Notices)] /\ \A l \in Layers : 1..Len(early[l]) = {}
  BY <1>1 DEF Init
<1> QED BY <1>2 DEF OrderInv

\* A notice that comes after another one somewhere was not called.
LEMMA LaterWaits ==
    ASSUME ChainIInv, NEW n, NEW m, Before(n, m)
    PROVE  delivered[m] = <<>>
<1>1. PICK h : h = NoticeHook(m)
  OBVIOUS
<1>2. h.t = "notice" /\ h.id = m
  BY <1>1, HookFields
<1>3. HookLive(h)
  <2>1. CASE \E u \in Layers : InOrder(hooks[u], n, m)
    <3>1. PICK u \in Layers : InOrder(hooks[u], n, m)
      BY <2>1
    <3>2. h \in HooksIn(hooks, u)
      BY <1>1, <3>1 DEF InOrder, HooksIn
    <3> QED BY <3>2 DEF ChainIInv, HooksOK
  <2>2. CASE \E g \in FramesIn(pool, stack) : InOrder(g.todo, n, m)
    <3>1. PICK g \in FramesIn(pool, stack) : InOrder(g.todo, n, m)
      BY <2>2
    <3>2. FrameOK(g)
      BY DEF ChainIInv, FramesOK
    <3>3. PICK b \in 1..Len(g.todo) : g.todo[b] = h
      BY <1>1, <3>1 DEF InOrder
    <3> QED BY <3>2, <3>3 DEF FrameOK
  <2> QED BY <2>1, <2>2 DEF Before
<1> QED BY <1>2, <1>3 DEF HookLive

\* Notices that wait in order are called in order.
LEMMA OrderFollows == ChainIInv /\ OrderInv => ObserversInv
<1> SUFFICES ASSUME ChainIInv, OrderInv PROVE NoticesInOrder
  BY DEF ObserversInv, ChainIInv
<1> SUFFICES ASSUME NEW l \in Layers, NEW i \in 1..Len(early[l]), NEW j \in 1..Len(early[l]), i < j,
                    {early[l][i], early[l][j]} \cap OnNotices = {}, delivered[early[l][j]] # <<>>
             PROVE  delivered[early[l][i]] # <<>>
  BY DEF NoticesInOrder
<1>1. delivered[early[l][i]] # <<>> \/ Before(early[l][i], early[l][j])
  BY DEF OrderInv
<1>2. ASSUME Before(early[l][i], early[l][j]) PROVE FALSE
  <2>1. PICK n, m : n = early[l][i] /\ m = early[l][j]
    OBVIOUS
  <2>2. Before(n, m)
    BY <1>2, <2>1
  <2>3. delivered[m] = <<>>
    BY <2>2, LaterWaits
  <2> QED BY <2>1, <2>3
<1> QED BY <1>1, <1>2

\* Whoever observes a layer learns its final result, once, and notices that were
\* registered with OnSettled while it was pending are called in the order of
\* their registration, whichever threads settle it and run its handlers.
THEOREM ObserversInvHolds == Spec => []ObserversInv
  BY ChainInductive, OrderInit, OrderNext, OrderFollows, PTL DEF Spec
===============================================================================

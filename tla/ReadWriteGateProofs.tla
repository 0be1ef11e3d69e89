-------------------------- MODULE ReadWriteGateProofs --------------------------
(***************************************************************************)
(* Proofs about ReadWriteGate for every set of tasks, clients, workers and *)
(* drainers and every reader limit.                                        *)
(***************************************************************************)
EXTENDS ReadWriteGate, FiniteSetTheorems, TLAPS

\* The slot accounting of a task history ph against counters r and w.
Accounts(ph, r, w) ==
    LET H == {t \in Tasks : ph[t] \in SlotPhases}
    IN  /\ r = Cardinality(H \cap ReadTasks)
        /\ w <=> H \cap WriteTasks # {}
        /\ w => H \cap ReadTasks = {}
        /\ \A s, t \in H \cap WriteTasks : s = t

\* The form of the accounting used by the lemmas below is SlotAccounting itself.
LEMMA AccountsIsSlotAccounting ==
    SlotAccounting <=> Accounts(phase, nActiveReaders, bWriterActive)
BY DEF SlotAccounting, Accounts, SlotHolders

\* Every set of tasks is finite.
LEMMA TaskSetsFinite == \A S : S \subseteq Tasks => IsFiniteSet(S)
BY GateAssumption, FS_Union, FS_Subset DEF Tasks

\* Steps that do not change who holds a slot leave the accounting alone.
LEMMA AccountsSame ==
    ASSUME NEW ph, NEW r, NEW w, NEW ph2, Accounts(ph, r, w),
           \A t \in Tasks : ph2[t] \in SlotPhases <=> ph[t] \in SlotPhases
    PROVE  Accounts(ph2, r, w)
BY DEF Accounts

\* ReturnSlot: the counters follow when one slot holder loses its slot.
LEMMA AccountsReturn ==
    ASSUME NEW ph, NEW ph2, NEW h \in Tasks,
           Accounts(ph, nActiveReaders, bWriterActive),
           ph[h] \in SlotPhases, ph2[h] \notin SlotPhases,
           \A t \in Tasks \ {h} : ph2[t] \in SlotPhases <=> ph[t] \in SlotPhases
    PROVE  /\ Accounts(ph2, ReadersAfterReturn(h), WriterAfterReturn(h))
           /\ ReadersAfterReturn(h) \in Nat
           /\ bWriterActive \in BOOLEAN => WriterAfterReturn(h) \in BOOLEAN
<1> DEFINE H == {t \in Tasks : ph[t] \in SlotPhases}
           H2 == {t \in Tasks : ph2[t] \in SlotPhases}
<1>1. H2 = H \ {h} /\ h \in H
  OBVIOUS
<1>2. IsFiniteSet(H \cap ReadTasks) /\ IsFiniteSet(H2 \cap ReadTasks)
  BY TaskSetsFinite
<1>3. CASE h \in ReadTasks
  <2>1. H2 \cap ReadTasks = (H \cap ReadTasks) \ {h}
    BY <1>1
  <2>2. Cardinality(H2 \cap ReadTasks) = Cardinality(H \cap ReadTasks) - 1
    BY <1>1, <1>2, <1>3, <2>1, FS_RemoveElement
  <2>3. h \notin WriteTasks
    BY <1>3, GateAssumption
  <2>4. H2 \cap WriteTasks = H \cap WriteTasks
    BY <1>1, <2>3
  <2>5. Cardinality(H2 \cap ReadTasks) \in Nat
    BY <1>2, FS_CardinalityType
  <2> QED BY <1>1, <1>3, <2>1, <2>2, <2>4, <2>5 DEF Accounts, ReadersAfterReturn, WriterAfterReturn
<1>4. CASE h \notin ReadTasks
  <2>1. h \in WriteTasks
    BY <1>4 DEF Tasks
  <2>2. H2 \cap ReadTasks = H \cap ReadTasks
    BY <1>1, <1>4
  <2>3. H2 \cap WriteTasks = {}
    BY <1>1, <2>1 DEF Accounts
  <2>4. Cardinality(H \cap ReadTasks) \in Nat
    BY <1>2, FS_CardinalityType
  <2> QED BY <1>1, <1>4, <2>2, <2>3, <2>4 DEF Accounts, ReadersAfterReturn, WriterAfterReturn
<1> QED BY <1>3, <1>4

-------------------------------------------------------------------------------
\* Initially every counter is zero and every container empty.
LEMMA InitGateInv == Init => GateInv
<1> SUFFICES ASSUME Init PROVE GateInv
  OBVIOUS
<1>0. <<>> \in Seq(Tasks)
  OBVIOUS
<1>1. TypeOK
  BY <1>0, GateAssumption DEF Init, TypeOK, Phases
<1>2. SlotHolders = {}
  BY DEF Init, SlotHolders, SlotPhases
<1>3. SlotAccounting
  BY <1>2, FS_EmptySet DEF Init, SlotAccounting
<1>4. ArgInv /\ QueueInv /\ DispatchInv /\ PoolInv /\ RunInv /\ InlineInv
  BY DEF Init, ArgInv, QueueInv, DispatchInv, PoolInv, RunInv, InlineInv, Injective, Threads
<1>5. DrainInv
  <2>1. {d \in Drainers : dpc[d] \in {"waiting", "woken"}} = {}
    BY DEF Init
  <2> QED BY <2>1, FS_EmptySet DEF Init, DrainInv
<1> QED BY <1>1, <1>3, <1>4, <1>5 DEF GateInv

-------------------------------------------------------------------------------
(* One lemma per action: it preserves the inductive invariant. *)

\* Submit that finds the gate closed or the pool stopped only marks its task refused.
LEMMA SubmitRefusedStep ==
    ASSUME GateInv, NEW p \in Threads, NEW t \in Tasks, SubmitRefused(p, t)
    PROVE  GateInv'
<1> USE DEF SubmitRefused, gateVars, poolVars
<1>1. TypeOK'
  BY DEF GateInv, TypeOK, Phases
<1>2. Accounts(phase', nActiveReaders', bWriterActive')
  BY AccountsIsSlotAccounting, AccountsSame DEF GateInv, TypeOK, SlotPhases
<1>3. SlotAccounting'
  BY <1>2 DEF SlotAccounting, Accounts, SlotHolders
<1>4. ArgInv' /\ QueueInv' /\ DispatchInv' /\ PoolInv' /\ RunInv' /\ InlineInv'
  BY DEF GateInv, TypeOK, ArgInv, QueueInv, DispatchInv, PoolInv, RunInv, InlineInv
<1>9. DrainInv'
  BY DEF GateInv, DrainInv
<1> QED BY <1>1, <1>3, <1>4, <1>9 DEF GateInv

\* Submit past its check: the task is under way, in no container of the gate.
LEMMA SubmitCheckedStep ==
    ASSUME GateInv, NEW p \in Threads, NEW t \in Tasks, SubmitChecked(p, t)
    PROVE  GateInv'
<1> USE DEF SubmitChecked, gateVars, poolVars
<1>1. TypeOK'
  BY DEF GateInv, TypeOK, Phases
<1>2. Accounts(phase', nActiveReaders', bWriterActive')
  BY AccountsIsSlotAccounting, AccountsSame DEF GateInv, TypeOK, SlotPhases
<1>3. SlotAccounting'
  BY <1>2 DEF SlotAccounting, Accounts, SlotHolders
<1>4. ArgInv'
  BY DEF GateInv, TypeOK, ArgInv, MaySubmit
<1>5. QueueInv' /\ PoolInv'
  BY DEF GateInv, TypeOK, QueueInv, PoolInv
<1>6. DispatchInv'
  BY DEF GateInv, TypeOK, DispatchInv, MaySubmit
<1>7. RunInv' /\ InlineInv'
  BY DEF GateInv, TypeOK, RunInv, InlineInv, MaySubmit, Threads
<1>9. DrainInv'
  BY DEF GateInv, DrainInv
<1> QED BY <1>1, <1>3, <1>4, <1>5, <1>6, <1>7, <1>9 DEF GateInv

\* Taking the head off a sequence without repetitions.
LEMMA HeadTail ==
    ASSUME NEW S, NEW s \in Seq(S), Len(s) > 0, Injective(s)
    PROVE  /\ Head(s) = s[1] /\ Head(s) \in S
           /\ Tail(s) \in Seq(S) /\ Len(Tail(s)) = Len(s) - 1
           /\ \A i \in 1..Len(Tail(s)) :
                Tail(s)[i] = s[i + 1] /\ i + 1 \in 1..Len(s) /\ Tail(s)[i] # Head(s)
           /\ Injective(Tail(s))
<1>1. /\ Head(s) = s[1] /\ Head(s) \in S
      /\ Tail(s) \in Seq(S) /\ Len(Tail(s)) = Len(s) - 1
  OBVIOUS
<1>2. \A i \in 1..Len(Tail(s)) : Tail(s)[i] = s[i + 1] /\ i + 1 \in 1..Len(s)
  BY <1>1
<1>3. \A i \in 1..Len(Tail(s)) : s[i + 1] # s[1]
  BY <1>1, <1>2 DEF Injective
<1>4. Injective(Tail(s))
  BY <1>1, <1>2 DEF Injective
<1> QED BY <1>1, <1>2, <1>3, <1>4

\* The tail of a sequence with more than one element is not empty.
LEMMA TailNonEmpty ==
    ASSUME NEW S, NEW s \in Seq(S), Len(s) > 0, Len(s) # 1
    PROVE  Len(Tail(s)) > 0
<1>1. Len(s) \in Nat /\ Len(s) > 1
  OBVIOUS
<1>2. Len(Tail(s)) = Len(s) - 1
  BY <1>1
<1> QED BY <1>1, <1>2

\* A broadcast moves waiters but does not change how many there are.
LEMMA NotifyKeepsDrainInv ==
    ASSUME TypeOK, DrainInv, NotifyDrainWaitersLocked, nDrainWaiters' = nDrainWaiters
    PROVE  DrainInv'
<1>1. \A d \in Drainers : dpc'[d] \in {"waiting", "woken"} <=> dpc[d] \in {"waiting", "woken"}
  BY DEF TypeOK, NotifyDrainWaitersLocked
<1>2. {d \in Drainers : dpc'[d] \in {"waiting", "woken"}}
        = {d \in Drainers : dpc[d] \in {"waiting", "woken"}}
  BY <1>1
<1> QED BY <1>2 DEF DrainInv

\* What a thread that is handing over knows of its dispatch buffer.
LEMMA HandOverHead ==
    ASSUME GateInv, NEW p \in Threads, pc[p] \in {"dispatch", "return"}
    PROVE  LET v == vecDispatch[p] IN
           /\ Head(v) = v[1] /\ Head(v) \in Tasks /\ phase[Head(v)] = "granted"
           /\ Tail(v) \in Seq(Tasks) /\ Len(Tail(v)) = Len(v) - 1 /\ Len(v) \in Nat /\ Len(v) > 0
           /\ \A i \in 1..Len(Tail(v)) :
                Tail(v)[i] = v[i + 1] /\ i + 1 \in 1..Len(v) /\ Tail(v)[i] # Head(v)
           /\ Injective(Tail(v))
<1>1. vecDispatch[p] \in Seq(Tasks) /\ Len(vecDispatch[p]) > 0 /\ Injective(vecDispatch[p])
  BY DEF GateInv, TypeOK, DispatchInv
<1>2. phase[vecDispatch[p][1]] = "granted"
  BY <1>1 DEF GateInv, DispatchInv
<1> QED BY <1>1, <1>2, HeadTail

\* Handing over the head of the buffer, whatever becomes of that task.
LEMMA HandOverKeepsDispatchInv ==
    ASSUME GateInv, NEW p \in Threads, pc[p] \in {"dispatch", "return"}, AfterHandOver(p),
           NEW x, phase' = [phase EXCEPT ![Head(vecDispatch[p])] = x]
    PROVE  DispatchInv'
<1> DEFINE v == vecDispatch[p]
<1>1. /\ vecDispatch \in [Threads -> Seq(Tasks)] /\ phase \in [Tasks -> Phases]
      /\ pc \in [Threads -> {"ready", "push", "dispatch", "return", "exit"}]
  BY DEF GateInv, TypeOK
<1>2. /\ Head(v) = v[1] /\ 1 \in 1..Len(v)
      /\ \A i \in 1..Len(Tail(v)) :
           Tail(v)[i] = v[i + 1] /\ i + 1 \in 1..Len(v) /\ Tail(v)[i] # Head(v)
      /\ Injective(Tail(v)) /\ Len(Tail(v)) = Len(v) - 1 /\ Len(v) \in Nat /\ Len(v) > 0
  BY HandOverHead
<1>3. vecDispatch' = [vecDispatch EXCEPT ![p] = Tail(v)]
  BY DEF AfterHandOver
<1> SUFFICES ASSUME NEW q \in Threads
             PROVE  /\ Injective(vecDispatch'[q])
                    /\ pc'[q] \in {"dispatch", "return"} => Len(vecDispatch'[q]) > 0
                    /\ \A i \in 1..Len(vecDispatch'[q]) :
                         /\ phase'[vecDispatch'[q][i]] = "granted"
                         /\ \A u \in Threads : \A j \in 1..Len(vecDispatch'[u]) :
                              vecDispatch'[q][i] = vecDispatch'[u][j] => q = u
  BY DEF DispatchInv, Injective
<1>4. Injective(vecDispatch'[q])
  BY <1>1, <1>2, <1>3 DEF GateInv, DispatchInv
<1>5. pc'[q] \in {"dispatch", "return"} => Len(vecDispatch'[q]) > 0
  <2>1. CASE q = p
    <3>1. vecDispatch'[q] = Tail(v) /\ pc'[q] = IF Len(v) = 1 THEN "ready" ELSE "dispatch"
      BY <1>1, <1>3, <2>1 DEF AfterHandOver
    <3>2. Len(v) # 1 => Len(Tail(v)) > 0
      BY <1>1, <1>2, TailNonEmpty
    <3>3. Len(v) # 1 => Len(vecDispatch'[q]) > 0
      BY <3>1, <3>2
    <3> QED BY <3>1, <3>3
  <2>2. CASE q # p
    <3>1. vecDispatch'[q] = vecDispatch[q] /\ pc'[q] = pc[q]
      BY <1>1, <1>3, <2>2 DEF AfterHandOver
    <3> QED BY <3>1 DEF GateInv, DispatchInv
  <2> QED BY <2>1, <2>2
<1>6. ASSUME NEW i \in 1..Len(vecDispatch'[q])
      PROVE  \E k \in 1..Len(vecDispatch[q]) :
               vecDispatch'[q][i] = vecDispatch[q][k] /\ vecDispatch'[q][i] # Head(v)
  <2>1. CASE q = p
    BY <1>1, <1>2, <1>3, <2>1
  <2>2. CASE q # p
    <3>1. vecDispatch'[q] = vecDispatch[q]
      BY <1>1, <1>3, <2>2
    <3>2. vecDispatch[q][i] # v[1]
      BY <1>1, <1>2, <2>2, <3>1 DEF GateInv, DispatchInv
    <3> QED BY <1>2, <3>1, <3>2
  <2> QED BY <2>1, <2>2
<1>7. ASSUME NEW i \in 1..Len(vecDispatch'[q])
      PROVE  phase'[vecDispatch'[q][i]] = "granted"
  <2>1. PICK k \in 1..Len(vecDispatch[q]) :
          vecDispatch'[q][i] = vecDispatch[q][k] /\ vecDispatch'[q][i] # Head(v)
    BY <1>6
  <2>2. vecDispatch[q][k] \in Tasks
    BY <1>1
  <2> QED BY <1>1, <2>1, <2>2 DEF GateInv, DispatchInv
<1>8. ASSUME NEW i \in 1..Len(vecDispatch'[q]), NEW u \in Threads,
             NEW j \in 1..Len(vecDispatch'[u]), vecDispatch'[q][i] = vecDispatch'[u][j]
      PROVE  q = u
  <2>1. PICK l \in 1..Len(vecDispatch[u]) : vecDispatch'[u][j] = vecDispatch[u][l]
    BY <1>1, <1>2, <1>3
  <2>2. PICK k \in 1..Len(vecDispatch[q]) : vecDispatch'[q][i] = vecDispatch[q][k]
    BY <1>6
  <2>3. vecDispatch[q][k] = vecDispatch[u][l]
    BY <1>8, <2>1, <2>2
  <2> QED BY <2>3 DEF GateInv, DispatchInv
<1> QED BY <1>4, <1>5, <1>7, <1>8

\* DispatchToPool hands a task to a running pool: from the buffer to the pool queue.
LEMMA DispatchAcceptedStep ==
    ASSUME GateInv, NEW p \in Threads, DispatchAccepted(p)
    PROVE  GateInv'
<1> DEFINE h == Head(vecDispatch[p])
           v == vecDispatch[p]
<1>0. /\ h \in Tasks /\ phase[h] = "granted" /\ Tail(v) \in Seq(Tasks)
      /\ Len(v) \in Nat /\ Len(v) > 0
  BY HandOverHead DEF DispatchAccepted
<1> USE DEF DispatchAccepted, AfterHandOver, gateVars, poolVars
<1>1. TypeOK'
  BY <1>0 DEF GateInv, TypeOK, Phases
<1>2. Accounts(phase', nActiveReaders', bWriterActive')
  BY <1>0, AccountsIsSlotAccounting, AccountsSame DEF GateInv, TypeOK, SlotPhases
<1>3. SlotAccounting'
  BY <1>2 DEF SlotAccounting, Accounts, SlotHolders
<1>4. ArgInv' /\ QueueInv'
  BY <1>0 DEF GateInv, TypeOK, ArgInv, QueueInv
<1>5. PoolInv'
  BY <1>0 DEF GateInv, TypeOK, PoolInv, Injective
<1>6. DispatchInv'
  BY HandOverKeepsDispatchInv
<1>7. RunInv' /\ InlineInv'
  BY <1>0 DEF GateInv, TypeOK, RunInv, InlineInv, Threads
<1>9. DrainInv'
  BY DEF GateInv, DrainInv
<1> QED BY <1>1, <1>3, <1>4, <1>5, <1>6, <1>7, <1>9 DEF GateInv

\* The pool refuses: the task stays at the head of the buffer, about to be dropped.
LEMMA DispatchRefusedStep ==
    ASSUME GateInv, NEW p \in Threads, DispatchRefused(p)
    PROVE  GateInv'
<1> USE DEF DispatchRefused, gateVars, poolVars
<1>1. TypeOK'
  BY DEF GateInv, TypeOK
<1>2. SlotAccounting' /\ QueueInv' /\ PoolInv'
  BY DEF GateInv, SlotAccounting, SlotHolders, QueueInv, PoolInv
<1>3. ArgInv' /\ DispatchInv'
  BY DEF GateInv, TypeOK, ArgInv, DispatchInv
<1>4. RunInv' /\ InlineInv'
  BY DEF GateInv, TypeOK, RunInv, InlineInv, Threads
<1>9. DrainInv'
  BY DEF GateInv, DrainInv
<1> QED BY <1>1, <1>2, <1>3, <1>4, <1>9 DEF GateInv

\* A refused task is dropped, its slot returned and the drainers are woken.
LEMMA DispatchDropStep ==
    ASSUME GateInv, NEW p \in Threads, DispatchDrop(p)
    PROVE  GateInv'
<1> DEFINE h == Head(vecDispatch[p])
           v == vecDispatch[p]
<1>0. /\ h \in Tasks /\ phase[h] = "granted" /\ Tail(v) \in Seq(Tasks)
      /\ Len(v) \in Nat /\ Len(v) > 0
  BY HandOverHead DEF DispatchDrop
<1>1. /\ Accounts(phase', ReadersAfterReturn(h), WriterAfterReturn(h))
      /\ ReadersAfterReturn(h) \in Nat /\ WriterAfterReturn(h) \in BOOLEAN
  <2>1. Accounts(phase, nActiveReaders, bWriterActive) /\ bWriterActive \in BOOLEAN
    BY AccountsIsSlotAccounting DEF GateInv, TypeOK
  <2>2. /\ phase[h] \in SlotPhases /\ phase'[h] \notin SlotPhases
        /\ \A t \in Tasks \ {h} : phase'[t] \in SlotPhases <=> phase[t] \in SlotPhases
    BY <1>0 DEF GateInv, TypeOK, DispatchDrop, SlotPhases
  <2> QED BY <1>0, <2>1, <2>2, AccountsReturn
<1> USE DEF DispatchDrop, AfterHandOver, gateVars, poolVars
<1>2. TypeOK'
  <2>1. dpc' \in [Drainers -> {"none", "waiting", "woken", "returned"}]
    BY DEF GateInv, TypeOK, NotifyDrainWaitersLocked
  <2> QED BY <1>0, <1>1, <2>1 DEF GateInv, TypeOK, Phases
<1>3. SlotAccounting'
  BY <1>1 DEF SlotAccounting, Accounts, SlotHolders
<1>4. ArgInv' /\ QueueInv'
  BY <1>0 DEF GateInv, TypeOK, ArgInv, QueueInv
<1>5. PoolInv'
  BY <1>0 DEF GateInv, TypeOK, PoolInv, Injective
<1>6. DispatchInv'
  BY HandOverKeepsDispatchInv
<1>7. RunInv' /\ InlineInv'
  BY <1>0 DEF GateInv, TypeOK, RunInv, InlineInv, Threads
<1>9. DrainInv'
  BY NotifyKeepsDrainInv DEF GateInv
<1> QED BY <1>2, <1>3, <1>4, <1>5, <1>6, <1>7, <1>9 DEF GateInv

\* A worker takes the oldest task of the pool and starts its body.
LEMMA WorkerTakeStep ==
    ASSUME GateInv, NEW w \in Workers, WorkerTake(w)
    PROVE  GateInv'
<1> DEFINE h == Head(poolQueue)
<1>0. /\ h = poolQueue[1] /\ h \in Tasks /\ phase[h] = "pooled"
      /\ Tail(poolQueue) \in Seq(Tasks) /\ Injective(Tail(poolQueue))
      /\ \A i \in 1..Len(Tail(poolQueue)) :
           /\ Tail(poolQueue)[i] = poolQueue[i + 1] /\ i + 1 \in 1..Len(poolQueue)
           /\ Tail(poolQueue)[i] # h
  <2>1. poolQueue \in Seq(Tasks) /\ Len(poolQueue) > 0 /\ Injective(poolQueue)
    BY DEF GateInv, TypeOK, PoolInv, WorkerTake
  <2>2. phase[poolQueue[1]] = "pooled"
    BY <2>1 DEF GateInv, PoolInv
  <2> QED BY <2>1, <2>2, HeadTail
<1> USE DEF WorkerTake, gateVars, poolVars
<1>1. TypeOK'
  BY <1>0 DEF GateInv, TypeOK, Phases
<1>2. Accounts(phase', nActiveReaders', bWriterActive')
  BY <1>0, AccountsIsSlotAccounting, AccountsSame DEF GateInv, TypeOK, SlotPhases
<1>3. SlotAccounting'
  BY <1>2 DEF SlotAccounting, Accounts, SlotHolders
<1>4. ArgInv' /\ QueueInv'
  BY <1>0 DEF GateInv, TypeOK, ArgInv, QueueInv
<1>5. PoolInv'
  BY <1>0 DEF GateInv, TypeOK, PoolInv
<1>6. DispatchInv'
  BY <1>0 DEF GateInv, TypeOK, DispatchInv
<1>7. RunInv'
  BY <1>0, GateAssumption DEF GateInv, TypeOK, RunInv, Threads
<1>8. InlineInv'
  BY <1>0, GateAssumption DEF GateInv, TypeOK, InlineInv, Threads
<1>9. DrainInv'
  BY DEF GateInv, DrainInv
<1> QED BY <1>1, <1>3, <1>4, <1>5, <1>6, <1>7, <1>8, <1>9 DEF GateInv

\* RunInline: a submission that may run in place starts on the calling worker.
LEMMA RunInlineStep ==
    ASSUME GateInv, NEW w \in Workers, NEW t \in Tasks, RunInline(w, t)
    PROVE  GateInv'
<1> USE DEF RunInline, gateVars, poolVars
<1>1. TypeOK'
  BY DEF GateInv, TypeOK, Phases
<1>2. Accounts(phase', nActiveReaders', bWriterActive')
  BY AccountsIsSlotAccounting, AccountsSame DEF GateInv, TypeOK, SlotPhases
<1>3. SlotAccounting'
  BY <1>2 DEF SlotAccounting, Accounts, SlotHolders
<1>4. ArgInv' /\ QueueInv' /\ PoolInv' /\ DispatchInv'
  BY DEF GateInv, TypeOK, ArgInv, QueueInv, PoolInv, DispatchInv
<1>5. RunInv'
  BY DEF GateInv, TypeOK, RunInv, Threads
<1>6. InlineInv'
  BY GateAssumption DEF GateInv, TypeOK, InlineInv, Threads
<1>9. DrainInv'
  BY DEF GateInv, DrainInv
<1> QED BY <1>1, <1>3, <1>4, <1>5, <1>6, <1>9 DEF GateInv

\* A body that ran in place ends and gives its worker back to the outer body.
LEMMA InlineEndStep ==
    ASSUME GateInv, NEW w \in Workers, InlineEnd(w)
    PROVE  GateInv'
<1>0. inl[w] \in Tasks /\ phase[inl[w]] = "inline"
  BY DEF GateInv, TypeOK, InlineInv, InlineEnd
<1> USE DEF InlineEnd, gateVars, poolVars
<1>1. TypeOK'
  BY <1>0 DEF GateInv, TypeOK, Phases
<1>2. Accounts(phase', nActiveReaders', bWriterActive')
  BY <1>0, AccountsIsSlotAccounting, AccountsSame DEF GateInv, TypeOK, SlotPhases
<1>3. SlotAccounting'
  BY <1>2 DEF SlotAccounting, Accounts, SlotHolders
<1>4. ArgInv' /\ QueueInv' /\ PoolInv' /\ DispatchInv'
  BY <1>0 DEF GateInv, TypeOK, ArgInv, QueueInv, PoolInv, DispatchInv
<1>5. RunInv'
  BY <1>0 DEF GateInv, TypeOK, RunInv, Threads
<1>6. InlineInv'
  BY <1>0 DEF GateInv, TypeOK, InlineInv, Threads
<1>9. DrainInv'
  BY DEF GateInv, DrainInv
<1> QED BY <1>1, <1>3, <1>4, <1>5, <1>6, <1>9 DEF GateInv

\* A posted body ends; its slot is still held until OnTaskExit takes the mutex.
LEMMA TaskBodyEndStep ==
    ASSUME GateInv, NEW w \in Workers, TaskBodyEnd(w)
    PROVE  GateInv'
<1>0. cur[w] \in Tasks /\ phase[cur[w]] = "running" /\ w \in Threads
  BY DEF GateInv, TypeOK, RunInv, TaskBodyEnd, Threads
<1> USE DEF TaskBodyEnd, gateVars, poolVars
<1>1. TypeOK'
  BY <1>0 DEF GateInv, TypeOK, Phases
<1>2. Accounts(phase', nActiveReaders', bWriterActive')
  BY <1>0, AccountsIsSlotAccounting, AccountsSame DEF GateInv, TypeOK, SlotPhases
<1>3. SlotAccounting'
  BY <1>2 DEF SlotAccounting, Accounts, SlotHolders
<1>4. ArgInv' /\ QueueInv' /\ PoolInv' /\ DispatchInv'
  BY <1>0 DEF GateInv, TypeOK, ArgInv, QueueInv, PoolInv, DispatchInv
<1>5. RunInv'
  BY <1>0 DEF GateInv, TypeOK, RunInv, Threads
<1>6. InlineInv'
  BY <1>0 DEF GateInv, TypeOK, InlineInv, Threads
<1>9. DrainInv'
  BY DEF GateInv, DrainInv
<1> QED BY <1>1, <1>3, <1>4, <1>5, <1>6, <1>9 DEF GateInv

\* Close, Drain and the stop of the pool touch no task and no slot.
LEMMA OwnerAndDrainSteps ==
    ASSUME GateInv,
           \/ Close \/ PoolStopBegin \/ PoolStopEnd
           \/ \E d \in Drainers : DrainEnter(d) \/ DrainSpuriousWake(d) \/ DrainRecheck(d)
           \/ UNCHANGED vars
    PROVE  GateInv'
<1>0. DrainInv' /\ nDrainWaiters' \in Nat
  <2> DEFINE D == {d \in Drainers : dpc[d] \in {"waiting", "woken"}}
             D2 == {d \in Drainers : dpc'[d] \in {"waiting", "woken"}}
  <2>1. IsFiniteSet(D) /\ nDrainWaiters = Cardinality(D) /\ Cardinality(D) \in Nat
    <3>1. IsFiniteSet(D)
      BY GateAssumption, FS_Subset
    <3> QED BY <3>1, FS_CardinalityType DEF GateInv, DrainInv
  <2>2. CASE UNCHANGED <<dpc, nDrainWaiters>>
    BY <2>1, <2>2 DEF DrainInv
  <2>3. ASSUME NEW d \in Drainers, DrainEnter(d)
        PROVE  DrainInv' /\ nDrainWaiters' \in Nat
    <3>1. CASE dpc' = [dpc EXCEPT ![d] = "returned"] /\ nDrainWaiters' = nDrainWaiters
      <4>1. D2 = D
        BY <2>3, <3>1 DEF DrainEnter, GateInv, TypeOK
      <4> QED BY <2>1, <3>1, <4>1 DEF DrainInv
    <3>2. CASE dpc' = [dpc EXCEPT ![d] = "waiting"] /\ nDrainWaiters' = nDrainWaiters + 1
      <4>1. D2 = D \cup {d} /\ d \notin D
        BY <2>3, <3>2 DEF DrainEnter, GateInv, TypeOK
      <4>2. Cardinality(D2) = Cardinality(D) + 1
        BY <2>1, <4>1, FS_AddElement
      <4> QED BY <2>1, <3>2, <4>2 DEF DrainInv
    <3> QED BY <2>3, <3>1, <3>2 DEF DrainEnter
  <2>4. ASSUME NEW d \in Drainers, DrainSpuriousWake(d)
        PROVE  DrainInv' /\ nDrainWaiters' \in Nat
    <3>1. D2 = D
      BY <2>4 DEF DrainSpuriousWake, GateInv, TypeOK
    <3> QED BY <2>1, <2>4, <3>1 DEF DrainInv, DrainSpuriousWake
  <2>5. ASSUME NEW d \in Drainers, DrainRecheck(d)
        PROVE  DrainInv' /\ nDrainWaiters' \in Nat
    <3>1. CASE dpc' = [dpc EXCEPT ![d] = "waiting"] /\ nDrainWaiters' = nDrainWaiters
      <4>1. D2 = D
        BY <2>5, <3>1 DEF DrainRecheck, GateInv, TypeOK
      <4> QED BY <2>1, <3>1, <4>1 DEF DrainInv
    <3>2. CASE dpc' = [dpc EXCEPT ![d] = "returned"] /\ nDrainWaiters' = nDrainWaiters - 1
      <4>1. D2 = D \ {d} /\ d \in D
        BY <2>5, <3>2 DEF DrainRecheck, GateInv, TypeOK
      <4>2. Cardinality(D2) = Cardinality(D) - 1 /\ Cardinality(D2) \in Nat
        BY <2>1, <4>1, FS_RemoveElement, FS_CardinalityType
      <4> QED BY <2>1, <3>2, <4>2 DEF DrainInv
    <3> QED BY <2>5, <3>1, <3>2 DEF DrainRecheck
  <2> QED BY <2>2, <2>3, <2>4, <2>5 DEF Close, PoolStopBegin, PoolStopEnd, vars, gateVars
<1>1. /\ UNCHANGED <<queue, nActiveReaders, bWriterActive, poolQueue, pc, arg, vecDispatch,
                     cur, inl, phase, admitted>>
      /\ bClosed' \in BOOLEAN /\ bPoolRunning' \in BOOLEAN /\ bPoolStopping' \in BOOLEAN
      /\ dpc' \in [Drainers -> {"none", "waiting", "woken", "returned"}]
  BY DEF GateInv, TypeOK, Close, PoolStopBegin, PoolStopEnd, DrainEnter, DrainSpuriousWake,
         DrainRecheck, DrainUnchanged, vars, gateVars, poolVars
<1>2. TypeOK'
  BY <1>0, <1>1 DEF GateInv, TypeOK
<1>3. SlotAccounting' /\ ArgInv' /\ QueueInv' /\ PoolInv' /\ DispatchInv' /\ RunInv' /\ InlineInv'
  BY <1>1 DEF GateInv, SlotAccounting, SlotHolders, ArgInv, QueueInv, PoolInv, DispatchInv,
              RunInv, InlineInv
<1> QED BY <1>0, <1>2, <1>3 DEF GateInv

-------------------------------------------------------------------------------
(* The two critical sections that pump the queue. *)

\* Letting in n fresh tasks of a sequence without repetitions adds n members.
LEMMA CountPrefix ==
    ASSUME NEW q \in Seq(Tasks), Injective(q), NEW n \in 0..Len(q), NEW H, H \subseteq Tasks,
           \A k \in 1..n : q[k] \notin H
    PROVE  Cardinality(H \cup {q[k] : k \in 1..n}) = Cardinality(H) + n
<1> DEFINE P == {q[k] : k \in 1..n}
           f == [k \in 1..n |-> q[k]]
<1>1. f \in Bijection(1..n, P)
  BY DEF Bijection, Injection, Surjection, IsInjective, Injective
<1>2. n \in Nat
  OBVIOUS
<1>3. IsFiniteSet(P) /\ Cardinality(P) = n
  <2>1. IsFiniteSet(1..n) /\ Cardinality(1..n) = n
    BY <1>2, FS_Interval
  <2> QED BY <1>1, <2>1, FS_Bijection DEF ExistsBijection
<1>4. IsFiniteSet(H) /\ H \cap P = {}
  BY TaskSetsFinite
<1>5. Cardinality(H \cap P) = 0
  BY <1>4, FS_EmptySet
<1>6. IsFiniteSet(H \cup P) /\ Cardinality(H \cup P) = Cardinality(H) + n - 0
  BY <1>3, <1>4, <1>5, FS_Union
<1>7. Cardinality(H) \in Nat
  BY <1>4, FS_CardinalityType
<1> HIDE DEF P
<1>8. IsFiniteSet(H \cup P) /\ Cardinality(H \cup P) = Cardinality(H) + n
  BY <1>2, <1>6, <1>7
<1> QED BY <1>8 DEF P

\* Cutting a sequence in two.
LEMMA CutSeq ==
    ASSUME NEW S, NEW q \in Seq(S), NEW n \in 0..Len(q)
    PROVE  /\ SubSeq(q, 1, n) \in Seq(S) /\ Len(SubSeq(q, 1, n)) = n
           /\ \A k \in 1..n : SubSeq(q, 1, n)[k] = q[k]
           /\ SubSeq(q, n + 1, Len(q)) \in Seq(S)
           /\ Len(SubSeq(q, n + 1, Len(q))) = Len(q) - n
           /\ \A k \in 1..(Len(q) - n) : SubSeq(q, n + 1, Len(q))[k] = q[n + k]
<1>1. Len(q) \in Nat /\ n \in Nat /\ n <= Len(q)
  OBVIOUS
<1>2. /\ SubSeq(q, 1, n) \in Seq(S) /\ Len(SubSeq(q, 1, n)) = n
      /\ \A k \in 1..n : SubSeq(q, 1, n)[k] = q[k]
  BY <1>1
<1>3. /\ SubSeq(q, n + 1, Len(q)) \in Seq(S)
      /\ Len(SubSeq(q, n + 1, Len(q))) = Len(q) - n
      /\ \A k \in 1..(Len(q) - n) : SubSeq(q, n + 1, Len(q))[k] = q[n + k]
  BY <1>1
<1> QED BY <1>2, <1>3

\* The loop lets in either one write, alone, or a run of reads.
LEMMA AdmittedShape ==
    ASSUME NEW q \in Seq(Tasks), NEW n \in 0..Len(q), NEW r \in Nat, NEW w \in BOOLEAN,
           \A k \in 1..n : CanAdmit(q, k, r, w)
    PROVE  \/ n = 0
           \/ n = 1 /\ q[1] \in WriteTasks /\ r = 0 /\ ~w
           \/ n > 0 /\ ~w /\ \A k \in 1..n : q[k] \in ReadTasks
<1>1. CASE \E k \in 1..n : q[k] \in WriteTasks
  <2>1. PICK k \in 1..n : q[k] \in WriteTasks
    BY <1>1
  <2>2. q[k] \notin ReadTasks
    BY <2>1, GateAssumption
  <2>3. k = 1 /\ r = 0 /\ ~w
    BY <2>2 DEF CanAdmit
  <2>4. n = 1
    <3>1. SUFFICES ASSUME n # 1 PROVE FALSE
      OBVIOUS
    <3>2. CanAdmit(q, n, r, w) /\ 1 \in 1..(n - 1)
      BY <2>3, <3>1
    <3> QED BY <2>2, <2>3, <3>2 DEF CanAdmit
  <2> QED BY <2>1, <2>3, <2>4
<1>2. CASE n > 0 /\ ~\E k \in 1..n : q[k] \in WriteTasks
  BY <1>2 DEF CanAdmit
<1> QED BY <1>1, <1>2

\* Letting tasks in keeps the counters equal to the number of slot holders.
LEMMA PumpAccounts ==
    ASSUME NEW q \in Seq(Tasks), NEW n \in 0..Len(q), NEW r \in Nat, NEW w \in BOOLEAN,
           NEW ph, NEW ph2, Injective(q), Accounts(ph, r, w),
           \A k \in 1..Len(q) : ph[q[k]] = "queued",
           \A k \in 1..n : CanAdmit(q, k, r, w),
           \A t \in Tasks : ph2[t] = IF \E k \in 1..n : q[k] = t THEN "granted" ELSE ph[t]
    PROVE  Accounts(ph2, IF \E k \in 1..n : q[k] \in WriteTasks THEN r ELSE r + n,
                    w \/ \E k \in 1..n : q[k] \in WriteTasks)
<1> DEFINE H == {t \in Tasks : ph[t] \in SlotPhases}
           H2 == {t \in Tasks : ph2[t] \in SlotPhases}
           P == {q[k] : k \in 1..n}
<1>1. H2 = H \cup P /\ H \subseteq Tasks /\ \A k \in 1..n : q[k] \notin H
  BY DEF SlotPhases
<1>2. IsFiniteSet(H \cap ReadTasks) /\ Cardinality(H \cap ReadTasks) = r
  BY TaskSetsFinite DEF Accounts
<1>3. CASE n = 0
  <2>1. H2 = H /\ ~\E k \in 1..n : q[k] \in WriteTasks
    BY <1>1, <1>3
  <2>2. /\ (IF \E k \in 1..n : q[k] \in WriteTasks THEN r ELSE r + n) = r
        /\ (w \/ \E k \in 1..n : q[k] \in WriteTasks) = w
    BY <1>3, <2>1
  <2>3. Accounts(ph2, r, w)
    BY <2>1 DEF Accounts
  <2> QED BY <2>2, <2>3
<1>4. CASE n = 1 /\ q[1] \in WriteTasks /\ r = 0 /\ ~w
  <2>1. H \cap ReadTasks = {} /\ H \cap WriteTasks = {}
    BY <1>2, <1>4, FS_EmptySet DEF Accounts
  <2>2. P = {q[1]} /\ q[1] \notin ReadTasks
    BY <1>4, GateAssumption
  <2>3. H2 \cap ReadTasks = {} /\ H2 \cap WriteTasks = {q[1]}
    BY <1>1, <1>4, <2>1, <2>2
  <2>4. \E k \in 1..n : q[k] \in WriteTasks
    BY <1>4
  <2> HIDE DEF P
  <2> QED BY <1>4, <2>3, <2>4, FS_EmptySet DEF Accounts
<1>5. CASE n > 0 /\ ~w /\ \A k \in 1..n : q[k] \in ReadTasks
  <2>1. \A k \in 1..n : q[k] \notin WriteTasks
    BY <1>5, GateAssumption
  <2>2. H2 \cap ReadTasks = (H \cap ReadTasks) \cup P /\ H2 \cap WriteTasks = H \cap WriteTasks
    BY <1>1, <1>5, <2>1
  <2>3. Cardinality((H \cap ReadTasks) \cup P) = Cardinality(H \cap ReadTasks) + n
    <3> DEFINE R == H \cap ReadTasks
    <3>1. R \subseteq Tasks /\ \A k \in 1..n : q[k] \notin R
      BY <1>1
    <3> HIDE DEF R
    <3>2. Cardinality(R \cup {q[k] : k \in 1..n}) = Cardinality(R) + n
      BY <3>1, CountPrefix
    <3> QED BY <3>2 DEF R
  <2>4. H \cap WriteTasks = {}
    BY <1>5 DEF Accounts
  <2>5. ~\E k \in 1..n : q[k] \in WriteTasks
    BY <2>1
  <2> HIDE DEF P
  <2> QED BY <1>2, <1>5, <2>2, <2>3, <2>4, <2>5 DEF Accounts
<1> QED BY <1>3, <1>4, <1>5, AdmittedShape

\* A critical section that pumps: p's buffer receives fresh tasks, the queue
\* keeps the rest, and the counters follow.
LEMMA PumpStep ==
    ASSUME GateInv, NEW p \in Threads, NEW q \in Seq(Tasks), NEW r \in Nat, NEW w \in BOOLEAN,
           NEW ph \in [Tasks -> Phases], Injective(q), Accounts(ph, r, w),
           \A t \in Tasks : ph[t] = "queued" <=> \E i \in 1..Len(q) : q[i] = t,
           \A t \in Tasks : phase[t] = "granted" => ph[t] = "granted",
           PumpLocked(p, q, r, w, ph)
    PROVE  /\ queue' \in Seq(Tasks) /\ admitted' \in Seq(Tasks)
           /\ nActiveReaders' \in Nat /\ bWriterActive' \in BOOLEAN
           /\ vecDispatch' \in [Threads -> Seq(Tasks)] /\ phase' \in [Tasks -> Phases]
           /\ \E x \in {"ready", "dispatch"} : pc' = [pc EXCEPT ![p] = x]
           /\ \A t \in Tasks : phase'[t] = ph[t] \/ (ph[t] = "queued" /\ phase'[t] = "granted")
           /\ SlotAccounting' /\ QueueInv' /\ DispatchInv'
<1>1. PICK n \in 0..Len(q) :
        /\ \A k \in 1..n : CanAdmit(q, k, r, w)
        /\ queue' = SubSeq(q, n + 1, Len(q))
        /\ nActiveReaders' = IF \E k \in 1..n : q[k] \in WriteTasks THEN r ELSE r + n
        /\ bWriterActive' = (w \/ \E k \in 1..n : q[k] \in WriteTasks)
        /\ vecDispatch' = [vecDispatch EXCEPT ![p] = SubSeq(q, 1, n)]
        /\ pc' = [pc EXCEPT ![p] = IF n = 0 THEN "ready" ELSE "dispatch"]
        /\ phase' = [t \in Tasks |-> IF \E k \in 1..n : q[k] = t THEN "granted" ELSE ph[t]]
        /\ admitted' = admitted \o SubSeq(q, 1, n)
  BY DEF PumpLocked
<1> DEFINE s1 == SubSeq(q, 1, n)
           s2 == SubSeq(q, n + 1, Len(q))
<1>2. /\ s1 \in Seq(Tasks) /\ Len(s1) = n /\ \A k \in 1..n : s1[k] = q[k]
      /\ s2 \in Seq(Tasks) /\ Len(s2) = Len(q) - n /\ \A k \in 1..(Len(q) - n) : s2[k] = q[n + k]
  BY CutSeq
<1>3. \A k \in 1..Len(q) : q[k] \in Tasks /\ ph[q[k]] = "queued"
  OBVIOUS
<1> HIDE DEF s1, s2
<1>4. queue' = s2 /\ vecDispatch' = [vecDispatch EXCEPT ![p] = s1] /\ admitted' = admitted \o s1
  BY <1>1 DEF s1, s2
<1>5. /\ queue' \in Seq(Tasks) /\ admitted' \in Seq(Tasks)
      /\ vecDispatch' \in [Threads -> Seq(Tasks)] /\ phase' \in [Tasks -> Phases]
  BY <1>1, <1>2, <1>4 DEF GateInv, TypeOK, Phases
<1>6. nActiveReaders' \in Nat /\ bWriterActive' \in BOOLEAN
  BY <1>1
<1>7. \E x \in {"ready", "dispatch"} : pc' = [pc EXCEPT ![p] = x]
  BY <1>1
<1>8. \A t \in Tasks : phase'[t] = ph[t] \/ (ph[t] = "queued" /\ phase'[t] = "granted")
  BY <1>1, <1>3
<1>9. SlotAccounting'
  <2>1. Accounts(phase', nActiveReaders', bWriterActive')
    BY <1>1, <1>3, PumpAccounts, ZenonT(30)
  <2> QED BY <2>1 DEF SlotAccounting, Accounts, SlotHolders
<1>10. QueueInv'
  <2>1. Injective(s2)
    <3>1. ASSUME NEW i \in 1..Len(s2), NEW j \in 1..Len(s2), s2[i] = s2[j] PROVE i = j
      <4>1. n + i \in 1..Len(q) /\ n + j \in 1..Len(q) /\ q[n + i] = q[n + j]
        BY <1>2, <3>1
      <4>2. n + i = n + j
        BY <4>1 DEF Injective
      <4> QED BY <1>2, <4>2
    <3> QED BY <3>1 DEF Injective
  <2>2. ASSUME NEW t \in Tasks, phase'[t] = "queued"
        PROVE  \E i \in 1..Len(s2) : s2[i] = t
    <3>1. ph[t] = "queued" /\ \A k \in 1..n : q[k] # t
      BY <1>1, <2>2
    <3>2. PICK i \in 1..Len(q) : q[i] = t
      BY <3>1
    <3>3. i - n \in 1..Len(s2) /\ n + (i - n) = i
      BY <1>2, <3>1, <3>2
    <3>4. s2[i - n] = t
      BY <1>2, <3>2, <3>3
    <3> QED BY <3>3, <3>4
  <2>3. ASSUME NEW i \in 1..Len(s2)
        PROVE  phase'[s2[i]] = "queued"
    <3>1. s2[i] = q[n + i] /\ n + i \in 1..Len(q) /\ \A k \in 1..n : k # n + i
      BY <1>2
    <3>2. \A k \in 1..n : q[k] # q[n + i]
      BY <3>1 DEF Injective
    <3> QED BY <1>1, <1>3, <3>1, <3>2
  <2> QED BY <1>4, <2>1, <2>2, <2>3, SMTT(30) DEF QueueInv, Injective
<1>11. DispatchInv'
  <2>1. Injective(s1)
    BY <1>2 DEF Injective
  <2>2. \A k \in 1..Len(s1) : phase'[s1[k]] = "granted" /\ phase[s1[k]] # "granted" /\ s1[k] \in Tasks
    <3> SUFFICES ASSUME NEW k \in 1..Len(s1)
                 PROVE  phase'[s1[k]] = "granted" /\ phase[s1[k]] # "granted" /\ s1[k] \in Tasks
      OBVIOUS
    <3>1. k \in 1..n /\ k \in 1..Len(q) /\ s1[k] = q[k]
      BY <1>2
    <3>2. q[k] \in Tasks /\ ph[q[k]] = "queued"
      BY <1>3, <3>1
    <3>3. phase'[q[k]] = "granted" /\ phase[q[k]] # "granted"
      BY <1>1, <3>1, <3>2
    <3> QED BY <3>1, <3>2, <3>3
  <2>3. \A t \in Tasks : phase[t] = "granted" => phase'[t] = "granted"
    BY <1>8
  <2>4. /\ vecDispatch \in [Threads -> Seq(Tasks)]
        /\ pc \in [Threads -> {"ready", "push", "dispatch", "return", "exit"}]
    BY DEF GateInv, TypeOK
  <2>5. ASSUME NEW u \in Threads
        PROVE  /\ Injective(vecDispatch'[u])
               /\ pc'[u] \in {"dispatch", "return"} => Len(vecDispatch'[u]) > 0
    <3>1. CASE u = p
      <4>1. vecDispatch'[u] = s1 /\ pc'[u] = IF n = 0 THEN "ready" ELSE "dispatch"
        BY <1>1, <1>4, <2>4, <3>1
      <4>2. n # 0 => Len(s1) > 0
        BY <1>2
      <4> QED BY <2>1, <4>1, <4>2
    <3>2. CASE u # p
      <4>1. vecDispatch'[u] = vecDispatch[u] /\ pc'[u] = pc[u]
        BY <1>1, <1>4, <2>4, <3>2
      <4> QED BY <4>1 DEF GateInv, DispatchInv
    <3> QED BY <3>1, <3>2
  <2>6. ASSUME NEW u \in Threads, NEW i \in 1..Len(vecDispatch'[u])
        PROVE  /\ phase'[vecDispatch'[u][i]] = "granted"
               /\ u # p => /\ vecDispatch'[u] = vecDispatch[u]
                           /\ phase[vecDispatch[u][i]] = "granted"
               /\ u = p => phase[vecDispatch'[u][i]] # "granted"
    <3>1. CASE u = p
      BY <1>4, <2>2, <2>4, <3>1
    <3>2. CASE u # p
      <4>1. vecDispatch'[u] = vecDispatch[u]
        BY <1>4, <2>4, <3>2
      <4>2. phase[vecDispatch[u][i]] = "granted" /\ vecDispatch[u][i] \in Tasks
        BY <2>4, <4>1 DEF GateInv, DispatchInv
      <4> QED BY <2>3, <3>2, <4>1, <4>2
    <3> QED BY <3>1, <3>2
  <2>7. ASSUME NEW u \in Threads, NEW i \in 1..Len(vecDispatch'[u]),
               NEW v \in Threads, NEW j \in 1..Len(vecDispatch'[v]),
               vecDispatch'[u][i] = vecDispatch'[v][j]
        PROVE  u = v
    BY <2>6, <2>7, SMTT(30) DEF GateInv, DispatchInv
  <2> SUFFICES ASSUME NEW u \in Threads
               PROVE  /\ Injective(vecDispatch'[u])
                      /\ pc'[u] \in {"dispatch", "return"} => Len(vecDispatch'[u]) > 0
                      /\ \A i \in 1..Len(vecDispatch'[u]) :
                           /\ phase'[vecDispatch'[u][i]] = "granted"
                           /\ \A v \in Threads : \A j \in 1..Len(vecDispatch'[v]) :
                                vecDispatch'[u][i] = vecDispatch'[v][j] => u = v
    BY DEF DispatchInv, Injective
  <2> QED BY <2>5, <2>6, <2>7
<1> QED BY <1>5, <1>6, <1>7, <1>8, <1>9, <1>10, <1>11

\* What Submit's critical section passes to the pump.
LEMMA PushPrepares ==
    ASSUME GateInv, NEW p \in Threads, pc[p] = "push"
    PROVE  LET q == Append(queue, arg[p])
               ph == [phase EXCEPT ![arg[p]] = "queued"]
           IN  /\ arg[p] \in Tasks /\ phase[arg[p]] = "submitting"
               /\ q \in Seq(Tasks) /\ Injective(q) /\ ph \in [Tasks -> Phases]
               /\ Accounts(ph, nActiveReaders, bWriterActive)
               /\ \A t \in Tasks : ph[t] = "queued" <=> \E i \in 1..Len(q) : q[i] = t
               /\ \A t \in Tasks : phase[t] = "granted" => ph[t] = "granted"
<1> DEFINE a == arg[p]
           q == Append(queue, a)
           ph == [phase EXCEPT ![a] = "queued"]
<1>1. a \in Tasks /\ phase[a] = "submitting" /\ queue \in Seq(Tasks) /\ phase \in [Tasks -> Phases]
  BY DEF GateInv, ArgInv, TypeOK
<1>2. \A i \in 1..Len(queue) : queue[i] \in Tasks /\ phase[queue[i]] = "queued" /\ queue[i] # a
  BY <1>1 DEF GateInv, QueueInv
<1>3. /\ q \in Seq(Tasks) /\ Len(q) = Len(queue) + 1 /\ Len(queue) \in Nat
      /\ q[Len(queue) + 1] = a /\ \A i \in 1..Len(queue) : q[i] = queue[i]
  BY <1>1
<1> HIDE DEF a, q
<1>4. Injective(q)
  BY <1>2, <1>3 DEF GateInv, QueueInv, Injective
<1>5. ph \in [Tasks -> Phases]
  BY <1>1 DEF Phases
<1>6. Accounts(ph, nActiveReaders, bWriterActive)
  BY <1>1, AccountsIsSlotAccounting, AccountsSame DEF GateInv, SlotPhases
<1>7. ASSUME NEW t \in Tasks
      PROVE  ph[t] = "queued" <=> \E i \in 1..Len(q) : q[i] = t
  <2>1. CASE t = a
    BY <1>1, <1>3, <2>1
  <2>2. CASE t # a
    <3>1. ph[t] = phase[t]
      BY <1>1, <2>2
    <3>2. (\E i \in 1..Len(q) : q[i] = t) <=> (\E i \in 1..Len(queue) : queue[i] = t)
      BY <1>3, <2>2
    <3> QED BY <3>1, <3>2 DEF GateInv, QueueInv
  <2> QED BY <2>1, <2>2
<1>8. \A t \in Tasks : phase[t] = "granted" => ph[t] = "granted"
  BY <1>1
<1> QED BY <1>1, <1>3, <1>4, <1>5, <1>6, <1>7, <1>8 DEF a, q

\* Submit's critical section: queue the task, then pump.
LEMMA SubmitPushStep ==
    ASSUME GateInv, NEW p \in Threads, SubmitPush(p)
    PROVE  GateInv'
<1> DEFINE a == arg[p]
           ph == [phase EXCEPT ![a] = "queued"]
           q == Append(queue, a)
<1>1. /\ a \in Tasks /\ phase[a] = "submitting"
      /\ q \in Seq(Tasks) /\ Injective(q) /\ ph \in [Tasks -> Phases]
      /\ Accounts(ph, nActiveReaders, bWriterActive)
      /\ \A t \in Tasks : ph[t] = "queued" <=> \E i \in 1..Len(q) : q[i] = t
      /\ \A t \in Tasks : phase[t] = "granted" => ph[t] = "granted"
  BY PushPrepares DEF SubmitPush
<1>2. /\ nActiveReaders \in Nat /\ bWriterActive \in BOOLEAN
      /\ phase \in [Tasks -> Phases]
      /\ \A t \in Tasks : ph[t] = IF t = a THEN "queued" ELSE phase[t]
  BY DEF GateInv, TypeOK
<1>3. PumpLocked(p, q, nActiveReaders, bWriterActive, ph) /\ pc[p] = "push"
  BY DEF SubmitPush
<1> HIDE DEF a, ph, q
<1>4. /\ queue' \in Seq(Tasks) /\ admitted' \in Seq(Tasks)
      /\ nActiveReaders' \in Nat /\ bWriterActive' \in BOOLEAN
      /\ vecDispatch' \in [Threads -> Seq(Tasks)] /\ phase' \in [Tasks -> Phases]
      /\ \E x \in {"ready", "dispatch"} : pc' = [pc EXCEPT ![p] = x]
      /\ \A t \in Tasks : phase'[t] = ph[t] \/ (ph[t] = "queued" /\ phase'[t] = "granted")
      /\ SlotAccounting' /\ QueueInv' /\ DispatchInv'
  BY <1>1, <1>2, <1>3, PumpStep
<1>5. \A t \in Tasks : phase[t] \in {"pooled", "running", "finished", "inline"}
                       \/ (phase[t] = "submitting" /\ t # a) => phase'[t] = phase[t]
  BY <1>1, <1>2, <1>4
<1>6. PICK x \in {"ready", "dispatch"} : pc' = [pc EXCEPT ![p] = x]
  BY <1>4
<1>7. /\ UNCHANGED <<bClosed, nDrainWaiters, bPoolRunning, bPoolStopping, poolQueue, cur, inl, dpc>>
      /\ arg' = [arg EXCEPT ![p] = NoTask]
  BY DEF SubmitPush, poolVars
<1>8. TypeOK'
  BY <1>4, <1>6, <1>7 DEF GateInv, TypeOK
<1>9. DrainInv'
  BY <1>7 DEF GateInv, DrainInv
<1>10. ArgInv'
  BY <1>3, <1>5, <1>6, <1>7 DEF GateInv, TypeOK, ArgInv, a
<1>11. PoolInv'
  BY <1>5, <1>7 DEF GateInv, TypeOK, PoolInv
<1>12. RunInv' /\ InlineInv'
  BY <1>3, <1>5, <1>6, <1>7 DEF GateInv, TypeOK, RunInv, InlineInv, Threads
<1> QED BY <1>4, <1>8, <1>9, <1>10, <1>11, <1>12 DEF GateInv

\* What OnTaskExit's critical section passes to the pump.
LEMMA ExitPrepares ==
    ASSUME GateInv, NEW w \in Workers, pc[w] = "exit"
    PROVE  LET ph == [phase EXCEPT ![cur[w]] = "done"]
           IN  /\ cur[w] \in Tasks /\ phase[cur[w]] = "finished"
               /\ ph \in [Tasks -> Phases]
               /\ ReadersAfterReturn(cur[w]) \in Nat /\ WriterAfterReturn(cur[w]) \in BOOLEAN
               /\ Accounts(ph, ReadersAfterReturn(cur[w]), WriterAfterReturn(cur[w]))
               /\ \A t \in Tasks : ph[t] = "queued" <=> \E i \in 1..Len(queue) : queue[i] = t
               /\ \A t \in Tasks : phase[t] = "granted" => ph[t] = "granted"
<1> DEFINE h == cur[w]
           ph == [phase EXCEPT ![h] = "done"]
<1>1. h \in Tasks /\ phase[h] = "finished" /\ phase \in [Tasks -> Phases]
  BY DEF GateInv, RunInv, TypeOK, Threads
<1>2. ph \in [Tasks -> Phases] /\ \A t \in Tasks : ph[t] = IF t = h THEN "done" ELSE phase[t]
  BY <1>1 DEF Phases
<1> HIDE DEF h, ph
<1>3. /\ Accounts(ph, ReadersAfterReturn(h), WriterAfterReturn(h))
      /\ ReadersAfterReturn(h) \in Nat /\ WriterAfterReturn(h) \in BOOLEAN
  <2>1. Accounts(phase, nActiveReaders, bWriterActive) /\ bWriterActive \in BOOLEAN
    BY AccountsIsSlotAccounting DEF GateInv, TypeOK
  <2>2. /\ phase[h] \in SlotPhases /\ ph[h] \notin SlotPhases
        /\ \A t \in Tasks \ {h} : ph[t] \in SlotPhases <=> phase[t] \in SlotPhases
    BY <1>1, <1>2 DEF SlotPhases
  <2> QED BY <1>1, <2>1, <2>2, AccountsReturn
<1>4. \A t \in Tasks : ph[t] = "queued" <=> phase[t] = "queued"
  BY <1>1, <1>2
<1>5. \A t \in Tasks : ph[t] = "queued" <=> \E i \in 1..Len(queue) : queue[i] = t
  BY <1>4 DEF GateInv, QueueInv
<1>6. \A t \in Tasks : phase[t] = "granted" => ph[t] = "granted"
  BY <1>1, <1>2
<1> QED BY <1>1, <1>2, <1>3, <1>5, <1>6 DEF h, ph

\* OnTaskExit's critical section: return the slot, pump, wake the drainers.
LEMMA OnTaskExitStep ==
    ASSUME GateInv, NEW w \in Workers, OnTaskExit(w)
    PROVE  GateInv'
<1> DEFINE h == cur[w]
           ph == [phase EXCEPT ![h] = "done"]
           r == ReadersAfterReturn(h)
           b == WriterAfterReturn(h)
<1>1. /\ h \in Tasks /\ phase[h] = "finished" /\ ph \in [Tasks -> Phases]
      /\ r \in Nat /\ b \in BOOLEAN /\ Accounts(ph, r, b)
      /\ \A t \in Tasks : ph[t] = "queued" <=> \E i \in 1..Len(queue) : queue[i] = t
      /\ \A t \in Tasks : phase[t] = "granted" => ph[t] = "granted"
  BY ExitPrepares DEF OnTaskExit
<1>2. /\ queue \in Seq(Tasks) /\ Injective(queue) /\ w \in Threads
      /\ phase \in [Tasks -> Phases]
      /\ \A t \in Tasks : ph[t] = IF t = h THEN "done" ELSE phase[t]
  BY DEF GateInv, TypeOK, QueueInv, Threads
<1>3. PumpLocked(w, queue, r, b, ph) /\ pc[w] = "exit"
  BY DEF OnTaskExit
<1> HIDE DEF h, ph, r, b
<1>4. /\ queue' \in Seq(Tasks) /\ admitted' \in Seq(Tasks)
      /\ nActiveReaders' \in Nat /\ bWriterActive' \in BOOLEAN
      /\ vecDispatch' \in [Threads -> Seq(Tasks)] /\ phase' \in [Tasks -> Phases]
      /\ \E x \in {"ready", "dispatch"} : pc' = [pc EXCEPT ![w] = x]
      /\ \A t \in Tasks : phase'[t] = ph[t] \/ (ph[t] = "queued" /\ phase'[t] = "granted")
      /\ SlotAccounting' /\ QueueInv' /\ DispatchInv'
  BY <1>1, <1>2, <1>3, PumpStep
<1>5. \A t \in Tasks \ {h} : phase[t] \in {"pooled", "running", "finished", "inline", "submitting"}
                             => phase'[t] = phase[t]
  BY <1>1, <1>2, <1>4
<1>6. PICK x \in {"ready", "dispatch"} : pc' = [pc EXCEPT ![w] = x]
  BY <1>4
<1>7. /\ UNCHANGED <<bClosed, nDrainWaiters, bPoolRunning, bPoolStopping, poolQueue, arg, inl>>
      /\ cur' = [cur EXCEPT ![w] = NoTask]
      /\ NotifyDrainWaitersLocked
  BY DEF OnTaskExit, poolVars
<1>8. TypeOK'
  <2>1. dpc' \in [Drainers -> {"none", "waiting", "woken", "returned"}]
    BY <1>7 DEF GateInv, TypeOK, NotifyDrainWaitersLocked
  <2> QED BY <1>4, <1>6, <1>7, <2>1 DEF GateInv, TypeOK
<1>9. DrainInv'
  BY <1>7, NotifyKeepsDrainInv DEF GateInv
<1>10. ArgInv'
  BY <1>1, <1>2, <1>3, <1>5, <1>6, <1>7 DEF GateInv, TypeOK, ArgInv
<1>11. PoolInv'
  BY <1>1, <1>5, <1>7 DEF GateInv, TypeOK, PoolInv
<1>12. RunInv'
  BY <1>1, <1>2, <1>3, <1>5, <1>6, <1>7 DEF GateInv, TypeOK, RunInv, Threads, h
<1>13. InlineInv'
  <2>1. inl[w] = NoTask
    BY <1>3 DEF GateInv, InlineInv
  <2> QED BY <1>1, <1>2, <1>5, <1>6, <1>7, <2>1 DEF GateInv, TypeOK, InlineInv, Threads
<1> QED BY <1>4, <1>8, <1>9, <1>10, <1>11, <1>12, <1>13 DEF GateInv

-------------------------------------------------------------------------------
\* Every step of the gate preserves the inductive invariant.
LEMMA NextGateInv == GateInv /\ [Next]_vars => GateInv'
<1> SUFFICES ASSUME GateInv, [Next]_vars PROVE GateInv'
  OBVIOUS
<1>1. ASSUME NEW p \in Threads, NEW t \in Tasks, SubmitRefused(p, t) \/ SubmitChecked(p, t)
      PROVE  GateInv'
  BY <1>1, SubmitRefusedStep, SubmitCheckedStep
<1>2. ASSUME NEW p \in Threads, GateStep(p) PROVE GateInv'
  BY <1>2, SubmitPushStep, DispatchAcceptedStep, DispatchRefusedStep, DispatchDropStep DEF GateStep
<1>3. ASSUME NEW w \in Workers, NEW t \in Tasks, RunInline(w, t) PROVE GateInv'
  BY <1>3, RunInlineStep
<1>4. ASSUME NEW w \in Workers, WorkerStep(w) PROVE GateInv'
  BY <1>4, WorkerTakeStep, InlineEndStep, TaskBodyEndStep, OnTaskExitStep DEF WorkerStep
<1>5. ASSUME NEW d \in Drainers, DrainEnter(d) \/ DrainSpuriousWake(d) \/ DrainRecheck(d)
      PROVE  GateInv'
  BY <1>5, OwnerAndDrainSteps
<1>6. CASE OwnerStep \/ Finished \/ UNCHANGED vars
  BY <1>6, OwnerAndDrainSteps, GateAssumption DEF OwnerStep, Finished
<1> QED BY <1>1, <1>2, <1>3, <1>4, <1>5, <1>6 DEF Next

\* In every reachable state of the gate the inductive invariant holds.
THEOREM GateInvHolds == Spec => []GateInv
<1>1. Init => GateInv
  BY InitGateInv
<1>2. GateInv /\ [Next]_vars => GateInv'
  BY NextGateInv
<1> QED BY <1>1, <1>2, PTL DEF Spec

\* Types are respected in every reachable state.
THEOREM GateTypeCorrect == Spec => []TypeOK
<1>1. GateInv => TypeOK
  BY DEF GateInv
<1> QED BY <1>1, GateInvHolds, PTL

\* m_nActiveReaders and m_bWriterActive always count exactly the slot holders.
THEOREM SlotsAccounted == Spec => []SlotAccounting
<1>1. GateInv => SlotAccounting
  BY DEF GateInv
<1> QED BY <1>1, GateInvHolds, PTL

\* Mutual exclusion: a write body never overlaps another worker's body.
THEOREM GateExclusion == Spec => []Exclusion
<1>1. GateInv => Exclusion
  <2> SUFFICES ASSUME GateInv, NEW v \in Workers, NEW w \in Workers, v # w,
                      NEW s \in Bodies(v), NEW t \in Bodies(w)
               PROVE  s \in ReadTasks /\ t \in ReadTasks
    BY DEF Exclusion
  <2>1. ASSUME NEW u \in Workers, NEW x \in Bodies(u)
        PROVE  cur[u] \in SlotHolders /\ (cur[u] \in ReadTasks <=> x \in ReadTasks) /\ x \in Tasks
    <3>1. x \in Tasks /\ (x = cur[u] \/ x = inl[u])
      BY DEF Bodies
    <3>2. CASE x = cur[u] /\ phase[x] = "running"
      BY <3>1, <3>2 DEF SlotHolders, SlotPhases
    <3>3. CASE x = inl[u]
      <4>1. cur[u] # NoTask /\ (cur[u] \in ReadTasks <=> inl[u] \in ReadTasks) /\ pc[u] # "exit"
        BY <3>1, <3>3, GateAssumption DEF GateInv, InlineInv
      <4>2. phase[cur[u]] = "running" /\ cur[u] \in Tasks
        BY <4>1 DEF GateInv, RunInv, TypeOK
      <4> QED BY <3>1, <3>3, <4>1, <4>2 DEF SlotHolders, SlotPhases
    <3>4. CASE x = cur[u] /\ phase[x] = "inline"
      BY <3>1, <3>4, GateAssumption DEF GateInv, RunInv, TypeOK
    <3> QED BY <3>1, <3>2, <3>3, <3>4 DEF Bodies
  <2>2. cur[v] # cur[w]
    <3>1. cur[v] # NoTask /\ cur[w] # NoTask
      BY <2>1, GateAssumption DEF SlotHolders
    <3> QED BY <3>1 DEF GateInv, RunInv
  <2>3. cur[v] \in SlotHolders /\ cur[w] \in SlotHolders
    BY <2>1
  <2>4. cur[v] \in ReadTasks /\ cur[w] \in ReadTasks
    <3>1. SlotHolders \subseteq ReadTasks \cup WriteTasks
      BY DEF SlotHolders, Tasks
    <3>2. CASE bWriterActive
      BY <2>2, <2>3, <3>1, <3>2 DEF GateInv, SlotAccounting
    <3>3. CASE ~bWriterActive
      BY <2>3, <3>1, <3>3 DEF GateInv, SlotAccounting
    <3> QED BY <3>2, <3>3
  <2> QED BY <2>1, <2>4
<1> QED BY <1>1, GateInvHolds, PTL

\* Drain() returns only when every accepted task has ended or was dropped.
THEOREM DrainExact == Spec => DrainIsExact
<1>1. GateInv /\ [Next]_vars =>
        [\A d \in Drainers : dpc[d] # "returned" /\ dpc'[d] = "returned" =>
           \A t \in Tasks : phase[t] \notin SlotPhases \cup {"queued"}]_vars
  <2> SUFFICES ASSUME GateInv, Next, NEW d \in Drainers, dpc[d] # "returned", dpc'[d] = "returned",
                      NEW t \in Tasks
               PROVE  phase[t] \notin SlotPhases \cup {"queued"}
    OBVIOUS
  <2>1. IsIdleLocked
    BY DEF Next, SubmitRefused, SubmitChecked, GateStep, SubmitPush, DispatchAccepted,
           DispatchRefused, DispatchDrop, WorkerStep, WorkerTake, InlineEnd, TaskBodyEnd,
           OnTaskExit, RunInline, OwnerStep, Close, PoolStopBegin, PoolStopEnd, Finished,
           DrainEnter, DrainSpuriousWake, DrainRecheck, NotifyDrainWaitersLocked, vars, gateVars,
           GateInv, TypeOK
  <2>2. SlotHolders = {}
    <3>1. IsFiniteSet(SlotHolders \cap ReadTasks) /\ SlotHolders \subseteq ReadTasks \cup WriteTasks
      BY TaskSetsFinite DEF SlotHolders, Tasks
    <3>2. SlotHolders \cap ReadTasks = {} /\ SlotHolders \cap WriteTasks = {}
      BY <2>1, <3>1, FS_EmptySet DEF IsIdleLocked, GateInv, SlotAccounting
    <3> QED BY <3>1, <3>2
  <2>3. phase[t] # "queued"
    BY <2>1 DEF IsIdleLocked, GateInv, QueueInv
  <2> QED BY <2>2, <2>3 DEF SlotHolders
<1> QED BY <1>1, GateInvHolds, PTL DEF Spec, DrainIsExact

-------------------------------------------------------------------------------
(* The gate implements FairRWLock. *)

\* What the refinement needs beyond GateInv: the reader limit is respected, and
\* a task that was let in never comes back to the line.
LineInv ==
    /\ MaxReaders # 0 => nActiveReaders <= MaxReaders
    /\ \A i \in 1..Len(admitted) : phase[admitted[i]] \notin {"new", "submitting", "queued"}

RefineInv == GateInv /\ LineInv

\* Two sequences with the same elements are the same.
LEMMA SameSeq ==
    ASSUME NEW S, NEW s \in Seq(S), NEW t \in Seq(S), Len(s) = Len(t),
           \A i \in 1..Len(s) : s[i] = t[i]
    PROVE  s = t
OBVIOUS

\* Where the elements of a concatenation are.
LEMMA Concatenation ==
    ASSUME NEW S, NEW s \in Seq(S), NEW t \in Seq(S)
    PROVE  /\ s \o t \in Seq(S) /\ Len(s \o t) = Len(s) + Len(t)
           /\ Len(s) \in Nat /\ Len(t) \in Nat
           /\ \A i \in 1..Len(s) : (s \o t)[i] = s[i]
           /\ \A k \in 1..Len(t) : (s \o t)[Len(s) + k] = t[k]
OBVIOUS

\* Where the elements of an extended sequence are.
LEMMA AppendFacts ==
    ASSUME NEW S, NEW s \in Seq(S), NEW e \in S
    PROVE  /\ Append(s, e) \in Seq(S) /\ Len(Append(s, e)) = Len(s) + 1
           /\ Append(s, e)[Len(s) + 1] = e /\ \A i \in 1..Len(s) : Append(s, e)[i] = s[i]
OBVIOUS

\* Cutting a sequence and putting the first part behind another one.
LEMMA Recombine ==
    ASSUME NEW a \in Seq(Tasks), NEW q \in Seq(Tasks), NEW n \in 0..Len(q)
    PROVE  /\ (a \o SubSeq(q, 1, n)) \o SubSeq(q, n + 1, Len(q)) = a \o q
           /\ Len(a \o SubSeq(q, 1, n)) = Len(a) + n
           /\ a \o q \in Seq(Tasks) /\ Len(a \o q) = Len(a) + Len(q)
           /\ \A i \in 1..Len(a) : (a \o q)[i] = a[i]
           /\ \A k \in 1..Len(q) : (a \o q)[Len(a) + k] = q[k]
           /\ \A i \in 1..Len(a) : (a \o SubSeq(q, 1, n))[i] = a[i]
           /\ \A k \in 1..n : (a \o SubSeq(q, 1, n))[Len(a) + k] = q[k]
<1> DEFINE s1 == SubSeq(q, 1, n)
           s2 == SubSeq(q, n + 1, Len(q))
<1>1. /\ s1 \in Seq(Tasks) /\ Len(s1) = n /\ \A k \in 1..n : s1[k] = q[k]
      /\ s2 \in Seq(Tasks) /\ Len(s2) = Len(q) - n /\ \A k \in 1..(Len(q) - n) : s2[k] = q[n + k]
      /\ Len(a) \in Nat /\ Len(q) \in Nat /\ n \in Nat /\ n <= Len(q)
  BY CutSeq
<1> HIDE DEF s1, s2
<1>2. /\ a \o q \in Seq(Tasks) /\ Len(a \o q) = Len(a) + Len(q)
      /\ \A i \in 1..Len(a) : (a \o q)[i] = a[i]
      /\ \A k \in 1..Len(q) : (a \o q)[Len(a) + k] = q[k]
  BY Concatenation
<1>3. /\ a \o s1 \in Seq(Tasks) /\ Len(a \o s1) = Len(a) + n
      /\ \A i \in 1..Len(a) : (a \o s1)[i] = a[i]
      /\ \A k \in 1..n : (a \o s1)[Len(a) + k] = q[k]
  <2>1. /\ a \o s1 \in Seq(Tasks) /\ Len(a \o s1) = Len(a) + Len(s1)
        /\ \A i \in 1..Len(a) : (a \o s1)[i] = a[i]
        /\ \A k \in 1..Len(s1) : (a \o s1)[Len(a) + k] = s1[k]
    BY <1>1, Concatenation
  <2> QED BY <1>1, <2>1
<1> DEFINE b == a \o s1
<1> HIDE DEF b
<1>4. /\ b \o s2 \in Seq(Tasks) /\ Len(b \o s2) = Len(a) + Len(q)
      /\ \A i \in 1..Len(b) : (b \o s2)[i] = b[i]
      /\ \A k \in 1..Len(s2) : (b \o s2)[Len(b) + k] = s2[k]
  <2>1. b \in Seq(Tasks) /\ Len(b) = Len(a) + n
    BY <1>3 DEF b
  <2>2. Len(b \o s2) = Len(b) + Len(s2)
    BY <2>1, <1>1, Concatenation
  <2> QED BY <2>1, <2>2, <1>1, Concatenation, SMTT(30)
<1>5. ASSUME NEW i \in 1..(Len(a) + Len(q)) PROVE (b \o s2)[i] = (a \o q)[i]
  <2>1. CASE i <= Len(a)
    BY <2>1, <1>1, <1>2, <1>3, <1>4 DEF b
  <2>2. CASE i > Len(a) /\ i <= Len(a) + n
    <3>1. i - Len(a) \in 1..n /\ i = Len(a) + (i - Len(a))
      BY <2>2, <1>1
    <3> QED BY <3>1, <1>1, <1>2, <1>3, <1>4 DEF b
  <2>3. CASE i > Len(a) + n
    <3> DEFINE k == i - (Len(a) + n)
    <3>1. k \in 1..(Len(q) - n) /\ i = Len(b) + k /\ n + k \in 1..Len(q) /\ i = Len(a) + (n + k)
      BY <2>3, <1>1, <1>3 DEF b
    <3> HIDE DEF k
    <3>2. (b \o s2)[i] = s2[k] /\ s2[k] = q[n + k]
      BY <3>1, <1>1, <1>4
    <3> QED BY <3>1, <3>2, <1>2
  <2>4. i <= Len(a) \/ (i > Len(a) /\ i <= Len(a) + n) \/ i > Len(a) + n
    BY <1>1
  <2> QED BY <2>1, <2>2, <2>3, <2>4
<1>6. b \o s2 = a \o q
  BY <1>2, <1>4, <1>5, SameSeq
<1> QED BY <1>2, <1>3, <1>6 DEF b, s1, s2

\* The cardinality of the abstract lock's module is the one used here.
LEMMA LockCardinality == \A S : Lock!Cardinality(S) = Cardinality(S)
BY DEF Cardinality, Lock!Cardinality

\* The slot holders are compatible, by the accounting and the reader limit.
LEMMA HoldersCompatible ==
    ASSUME NEW H \in SUBSET Tasks, NEW r, NEW w, r = Cardinality(H \cap ReadTasks),
           w <=> H \cap WriteTasks # {}, w => H \cap ReadTasks = {},
           \A s, t \in H \cap WriteTasks : s = t,
           MaxReaders # 0 => r <= MaxReaders
    PROVE  Lock!Compatible(H)
<1>1. IsFiniteSet(H) /\ H = (H \cap ReadTasks) \cup (H \cap WriteTasks)
  BY TaskSetsFinite DEF Tasks
<1>2. CASE H \cap WriteTasks = {}
  <2>1. H \cap ReadTasks = H
    BY <1>1, <1>2
  <2> QED BY <1>2, <2>1, LockCardinality DEF Lock!Compatible
<1>3. CASE H \cap WriteTasks # {}
  <2>1. PICK x : H = {x}
    BY <1>1, <1>3
  <2>2. Cardinality(H) = 1
    BY <2>1, FS_Singleton
  <2> QED BY <1>3, <2>2, LockCardinality DEF Lock!Compatible
<1> QED BY <1>2, <1>3

\* Once the pump has stopped, the task at the head of the line is incompatible
\* with those inside.
LEMMA NextIncompatible ==
    ASSUME NEW H \in SUBSET Tasks, NEW x \in Tasks, x \notin H,
           \/ H \cap WriteTasks # {}
           \/ x \in WriteTasks /\ H \cap ReadTasks # {}
           \/ x \in ReadTasks /\ MaxReaders # 0 /\ Cardinality(H \cap ReadTasks) >= MaxReaders
    PROVE  ~Lock!Compatible(H \cup {x})
<1>1. IsFiniteSet(H) /\ IsFiniteSet(H \cap ReadTasks) /\ Cardinality(H) \in Nat
      /\ Cardinality(H \cap ReadTasks) \in Nat /\ Cardinality(H \cap ReadTasks) <= Cardinality(H)
  <2>1. IsFiniteSet(H) /\ IsFiniteSet(H \cap ReadTasks)
    BY TaskSetsFinite
  <2>2. H \cap ReadTasks \in SUBSET H
    OBVIOUS
  <2> QED BY <2>1, <2>2, FS_Subset, FS_CardinalityType
<1>2. Cardinality(H \cup {x}) = Cardinality(H) + 1
  BY <1>1, FS_AddElement
<1>3. H # {} => Cardinality(H) >= 1
  BY <1>1, FS_EmptySet
<1>4. x \in ReadTasks \/ x \in WriteTasks
  BY DEF Tasks
<1>5. CASE H \cap WriteTasks # {}
  <2>1. Cardinality(H \cup {x}) > 1
    BY <1>1, <1>2, <1>3, <1>5
  <2>2. (H \cup {x}) \cap WriteTasks # {}
    BY <1>5
  <2> QED BY <1>1, <1>2, <2>1, <2>2, LockCardinality DEF Lock!Compatible
<1>6. CASE x \in WriteTasks /\ H \cap ReadTasks # {}
  BY <1>6 DEF Lock!Compatible
<1>7. CASE x \in ReadTasks /\ MaxReaders # 0 /\ Cardinality(H \cap ReadTasks) >= MaxReaders
  <2>1. Cardinality(H \cup {x}) > MaxReaders
    BY <1>1, <1>2, <1>7, GateAssumption
  <2>2. (H \cup {x}) \cap ReadTasks # {}
    BY <1>7
  <2> QED BY <1>1, <1>2, <1>7, <2>1, <2>2, GateAssumption, LockCardinality DEF Lock!Compatible
<1> QED BY <1>5, <1>6, <1>7

\* The first n tasks of q are let in, beside those that hold a slot in ph, and
\* nobody else could have been.
LetsIn(q, ph, n) ==
    /\ admitted' = admitted \o SubSeq(q, 1, n)
    /\ queue' = SubSeq(q, n + 1, Len(q))
    /\ SlotHolders' = {t \in Tasks : ph[t] \in SlotPhases} \cup {q[k] : k \in 1..n}
    /\ \A k \in 1..n : phase'[q[k]] = "granted"
    /\ Lock!Compatible(SlotHolders')
    /\ n < Len(q) => ~Lock!Compatible(SlotHolders' \cup {q[n + 1]})
    /\ MaxReaders # 0 => nActiveReaders' <= MaxReaders

\* A critical section that pumps lets in the longest compatible run of the line.
LEMMA PumpAdmits ==
    ASSUME GateInv, NEW p \in Threads, NEW q \in Seq(Tasks), NEW r \in Nat, NEW w \in BOOLEAN,
           NEW ph \in [Tasks -> Phases], Injective(q), Accounts(ph, r, w),
           \A t \in Tasks : ph[t] = "queued" <=> \E i \in 1..Len(q) : q[i] = t,
           MaxReaders # 0 => r <= MaxReaders,
           PumpLocked(p, q, r, w, ph)
    PROVE  \E n \in 0..Len(q) : LetsIn(q, ph, n)
<1> DEFINE A == {t \in Tasks : ph[t] \in SlotPhases}
<1>1. PICK n \in 0..Len(q) :
        /\ \A k \in 1..n : CanAdmit(q, k, r, w)
        /\ n < Len(q) => ~CanAdmit(q, n + 1, r, w)
        /\ queue' = SubSeq(q, n + 1, Len(q))
        /\ nActiveReaders' = IF \E k \in 1..n : q[k] \in WriteTasks THEN r ELSE r + n
        /\ bWriterActive' = (w \/ \E k \in 1..n : q[k] \in WriteTasks)
        /\ phase' = [t \in Tasks |-> IF \E k \in 1..n : q[k] = t THEN "granted" ELSE ph[t]]
        /\ admitted' = admitted \o SubSeq(q, 1, n)
  BY DEF PumpLocked
<1> DEFINE r2 == IF \E k \in 1..n : q[k] \in WriteTasks THEN r ELSE r + n
           w2 == w \/ \E k \in 1..n : q[k] \in WriteTasks
<1>2. /\ \A k \in 1..Len(q) : q[k] \in Tasks /\ ph[q[k]] = "queued"
      /\ Len(q) \in Nat /\ n \in Nat /\ n <= Len(q)
  OBVIOUS
<1>3. \A t \in Tasks : phase'[t] = IF \E k \in 1..n : q[k] = t THEN "granted" ELSE ph[t]
  BY <1>1
<1>4. Accounts(phase', r2, w2)
  BY <1>1, <1>2, <1>3, PumpAccounts, ZenonT(30)
<1>5. r2 \in Nat /\ (MaxReaders # 0 => r2 <= MaxReaders)
  <2>1. CASE n = 0
    BY <2>1
  <2>2. CASE n = 1 /\ q[1] \in WriteTasks /\ r = 0 /\ ~w
    BY <2>2
  <2>3. CASE n > 0 /\ ~w /\ \A k \in 1..n : q[k] \in ReadTasks
    <3>1. q[n] \in ReadTasks /\ q[n] \notin WriteTasks /\ CanAdmit(q, n, r, w) /\ n \in Nat
      BY <2>3, <1>1, <1>2, GateAssumption
    <3>2. \A k \in 1..n : q[k] \notin WriteTasks
      BY <2>3, GateAssumption
    <3>3. r2 = r + n
      BY <3>2
    <3>4. MaxReaders # 0 => r + (n - 1) < MaxReaders
      BY <3>1 DEF CanAdmit
    <3> HIDE DEF r2
    <3> QED BY <3>1, <3>3, <3>4, GateAssumption
  <2> QED BY <2>1, <2>2, <2>3, <1>1, AdmittedShape
<1>6. SlotHolders' = A \cup {q[k] : k \in 1..n}
  <2>1. \A t \in Tasks : phase'[t] \in SlotPhases <=> (t \in A \/ \E k \in 1..n : q[k] = t)
    BY <1>3 DEF SlotPhases
  <2> QED BY <2>1, <1>2 DEF SlotHolders
<1> DEFINE H == SlotHolders'
<1>7. /\ H \in SUBSET Tasks /\ H = {t \in Tasks : phase'[t] \in SlotPhases}
      /\ r2 = Cardinality(H \cap ReadTasks)
      /\ w2 <=> H \cap WriteTasks # {}
      /\ w2 => H \cap ReadTasks = {}
      /\ \A s, t \in H \cap WriteTasks : s = t
  <2>1. H \in SUBSET Tasks /\ H = {t \in Tasks : phase'[t] \in SlotPhases}
    BY DEF SlotHolders
  <2> HIDE DEF r2, w2
  <2> QED BY <2>1, <1>4 DEF Accounts
<1>8. Lock!Compatible(H)
  <2> HIDE DEF r2, w2, H
  <2> QED BY <1>5, <1>7, HoldersCompatible
<1>9. ASSUME n < Len(q) PROVE ~Lock!Compatible(H \cup {q[n + 1]})
  <2> DEFINE x == q[n + 1]
  <2>1. x \in Tasks /\ n + 1 \in 1..Len(q) /\ ph[x] = "queued" /\ x \notin H
    <3>1. n + 1 \in 1..Len(q)
      BY <1>9, <1>2
    <3>2. x \in Tasks /\ ph[x] = "queued"
      BY <3>1, <1>2
    <3>3. \A k \in 1..n : q[k] # x
      BY <3>1, <1>2 DEF Injective
    <3>4. phase'[x] = "queued"
      BY <3>2, <3>3, <1>3
    <3> QED BY <3>1, <3>2, <3>4, <1>7 DEF SlotPhases
  <2>2. ~CanAdmit(q, n + 1, r, w) /\ (n + 1) - 1 = n
    BY <1>1, <1>9, <1>2
  <2>3. x \in ReadTasks \/ x \in WriteTasks
    BY <2>1 DEF Tasks
  <2>4. CASE w2
    <3>1. H \cap WriteTasks # {}
      BY <2>4, <1>7
    <3> HIDE DEF r2, w2, H, x
    <3> QED BY <2>1, <3>1, <1>7, NextIncompatible DEF x
  <2>5. CASE ~w2
    <3>1. r2 = r + n /\ ~w /\ \A j \in 1..n : q[j] \in ReadTasks
      BY <2>5, <1>2 DEF Tasks
    <3>2. \/ x \in ReadTasks /\ MaxReaders # 0 /\ r + n >= MaxReaders
          \/ x \in WriteTasks /\ r + n # 0
      BY <3>1, <2>2, <2>3, <1>2, GateAssumption DEF CanAdmit
    <3>3. CASE x \in ReadTasks /\ MaxReaders # 0 /\ r + n >= MaxReaders
      <4>1. Cardinality(H \cap ReadTasks) >= MaxReaders
        BY <3>1, <3>3, <1>7
      <4> HIDE DEF r2, w2, H, x
      <4> QED BY <4>1, <3>3, <2>1, <1>7, NextIncompatible DEF x
    <3>4. CASE x \in WriteTasks /\ r + n # 0
      <4>1. Cardinality(H \cap ReadTasks) # 0
        BY <3>1, <3>4, <1>7
      <4>2. H \cap ReadTasks # {}
        BY <4>1, FS_EmptySet
      <4> HIDE DEF r2, w2, H, x
      <4> QED BY <4>2, <3>4, <2>1, <1>7, NextIncompatible DEF x
    <3> QED BY <3>2, <3>3, <3>4
  <2> QED BY <2>4, <2>5
<1>10. \A k \in 1..n : phase'[q[k]] = "granted"
  BY <1>2, <1>3
<1>11. MaxReaders # 0 => nActiveReaders' <= MaxReaders
  BY <1>1, <1>5
<1> QED BY <1>1, <1>6, <1>8, <1>9, <1>10, <1>11 DEF LetsIn

\* What the pump does is the abstract lock's Admit, on the line admitted \o q.
LEMMA PumpIsAdmit ==
    ASSUME admitted \in Seq(Tasks), NEW q \in Seq(Tasks), NEW A,
           NEW n \in 0..Len(q),
           admitted' = admitted \o SubSeq(q, 1, n),
           queue' = SubSeq(q, n + 1, Len(q)),
           SlotHolders' = A \cup {q[k] : k \in 1..n},
           Lock!Compatible(SlotHolders'),
           n < Len(q) => ~Lock!Compatible(SlotHolders' \cup {q[n + 1]})
    PROVE  Lock!Admit(A) /\ (admitted \o queue)' = admitted \o q
<1> DEFINE l == admitted \o q
           m == Len(admitted) + n
<1>1. /\ (admitted \o queue)' = l /\ Len(admitted') = m
      /\ Len(l) = Len(admitted) + Len(q)
      /\ \A k \in 1..Len(q) : l[Len(admitted) + k] = q[k]
  BY Recombine
<1>2. Len(admitted) \in Nat /\ Len(q) \in Nat /\ n \in Nat /\ n <= Len(q)
  OBVIOUS
<1>3. m \in Len(admitted)..Len(l) /\ m \in Nat /\ Len(l) \in Nat
  BY <1>1, <1>2
<1>4. {l[i] : i \in (Len(admitted) + 1)..m} = {q[k] : k \in 1..n}
  <2>1. ASSUME NEW i \in (Len(admitted) + 1)..m PROVE \E k \in 1..n : l[i] = q[k]
    <3> DEFINE k == i - Len(admitted)
    <3>1. k \in 1..n /\ k \in 1..Len(q) /\ i = Len(admitted) + k
      BY <1>2
    <3> HIDE DEF k, l
    <3>2. l[i] = q[k]
      BY <3>1, <1>1
    <3> QED BY <3>1, <3>2
  <2>2. ASSUME NEW k \in 1..n PROVE \E i \in (Len(admitted) + 1)..m : q[k] = l[i]
    <3>1. Len(admitted) + k \in (Len(admitted) + 1)..m /\ k \in 1..Len(q)
      BY <1>2
    <3> QED BY <3>1, <1>1
  <2> HIDE DEF l, m
  <2>3. ASSUME NEW v
        PROVE  v \in {l[i] : i \in (Len(admitted) + 1)..m} <=> v \in {q[k] : k \in 1..n}
    <3>1. ASSUME v \in {l[i] : i \in (Len(admitted) + 1)..m} PROVE v \in {q[k] : k \in 1..n}
      <4>1. PICK i \in (Len(admitted) + 1)..m : v = l[i]
        BY <3>1
      <4>2. PICK k \in 1..n : l[i] = q[k]
        BY <2>1
      <4> QED BY <4>1, <4>2
    <3>2. ASSUME v \in {q[k] : k \in 1..n} PROVE v \in {l[i] : i \in (Len(admitted) + 1)..m}
      <4>1. PICK k \in 1..n : v = q[k]
        BY <3>2
      <4>2. PICK i \in (Len(admitted) + 1)..m : q[k] = l[i]
        BY <2>2
      <4> QED BY <4>1, <4>2
    <3> QED BY <3>1, <3>2
  <2> QED BY <2>3
<1>5. m < Len(l) => n < Len(q) /\ l[m + 1] = q[n + 1]
  <2> SUFFICES ASSUME m < Len(l) PROVE n < Len(q) /\ l[m + 1] = q[n + 1]
    OBVIOUS
  <2>1. n < Len(q) /\ n + 1 \in 1..Len(q) /\ m + 1 = Len(admitted) + (n + 1)
    BY <1>1, <1>2
  <2> QED BY <2>1, <1>1
<1> HIDE DEF l, m
<1>6. /\ Len(admitted') = m
      /\ SlotHolders' = A \cup {l[i] : i \in (Len(admitted) + 1)..m}
      /\ Lock!Compatible(SlotHolders')
      /\ m < Len(l) => ~Lock!Compatible(SlotHolders' \cup {l[m + 1]})
  BY <1>1, <1>4, <1>5
<1>7. Lock!Admit(A)
  <2> DEFINE l2 == (admitted \o queue)'
             h2 == SlotHolders'
  <2>1. /\ m \in Len(admitted)..Len(l2) /\ Len(admitted)' = m
        /\ h2 = A \cup {l2[i] : i \in (Len(admitted) + 1)..m}
        /\ Lock!Compatible(h2)
        /\ m < Len(l2) => ~Lock!Compatible(h2 \cup {l2[m + 1]})
    BY <1>1, <1>3, <1>6, ZenonT(30)
  <2> SUFFICES \E j \in Len(admitted)..Len(l2) :
                 /\ Len(admitted)' = j
                 /\ h2 = A \cup {l2[i] : i \in (Len(admitted) + 1)..j}
                 /\ Lock!Compatible(h2)
                 /\ j < Len(l2) => ~Lock!Compatible(h2 \cup {l2[j + 1]})
    BY Zenon DEF Lock!Admit
  <2> HIDE DEF l2, h2
  <2> QED BY <2>1
<1> QED BY <1>1, <1>7 DEF l

\* Submit's critical section is an arrival.
LEMMA PushIsArrive ==
    ASSUME RefineInv, NEW p \in Threads, SubmitPush(p)
    PROVE  Lock!LockNext /\ LineInv'
<1> DEFINE a == arg[p]
           ph == [phase EXCEPT ![a] = "queued"]
           q == Append(queue, a)
<1>1. /\ a \in Tasks /\ phase[a] = "submitting"
      /\ q \in Seq(Tasks) /\ Injective(q) /\ ph \in [Tasks -> Phases]
      /\ Accounts(ph, nActiveReaders, bWriterActive)
      /\ \A t \in Tasks : ph[t] = "queued" <=> \E i \in 1..Len(q) : q[i] = t
  BY PushPrepares DEF SubmitPush, RefineInv
<1>2. /\ GateInv /\ nActiveReaders \in Nat /\ bWriterActive \in BOOLEAN
      /\ phase \in [Tasks -> Phases] /\ admitted \in Seq(Tasks) /\ queue \in Seq(Tasks)
      /\ \A t \in Tasks : ph[t] = IF t = a THEN "queued" ELSE phase[t]
      /\ (MaxReaders # 0 => nActiveReaders <= MaxReaders)
      /\ \A i \in 1..Len(admitted) : phase[admitted[i]] \notin {"new", "submitting", "queued"}
      /\ \A i \in 1..Len(queue) : phase[queue[i]] = "queued"
  BY DEF GateInv, TypeOK, RefineInv, LineInv, QueueInv
<1>3. PumpLocked(p, q, nActiveReaders, bWriterActive, ph)
  BY DEF SubmitPush
<1>q. q = Append(queue, a)
  OBVIOUS
<1> HIDE DEF a, ph, q
<1> DEFINE A == {t \in Tasks : ph[t] \in SlotPhases}
<1>4. PICK n \in 0..Len(q) : LetsIn(q, ph, n)
  <2>1. MaxReaders # 0 => nActiveReaders <= MaxReaders
    BY <1>2
  <2>2. /\ GateInv /\ nActiveReaders \in Nat /\ bWriterActive \in BOOLEAN
        /\ ph \in [Tasks -> Phases] /\ q \in Seq(Tasks) /\ Injective(q)
        /\ Accounts(ph, nActiveReaders, bWriterActive)
    BY <1>1, <1>2
  <2>3. \A t \in Tasks : ph[t] = "queued" <=> \E i \in 1..Len(q) : q[i] = t
    BY <1>1
  <2> QED BY <1>3, <2>1, <2>2, <2>3, PumpAdmits
<1>5. A = SlotHolders
  BY <1>1, <1>2 DEF SlotHolders, SlotPhases
<1> HIDE DEF A
<1>6. Lock!Admit(SlotHolders) /\ (admitted \o queue)' = admitted \o q
  <2>1. Lock!Admit(A) /\ (admitted \o queue)' = admitted \o q
    BY <1>1, <1>2, <1>4, PumpIsAdmit DEF LetsIn, A
  <2> QED BY <2>1, <1>5
<1>7. admitted \o q = Append(admitted \o queue, a)
  <2>1. /\ Len(q) = Len(queue) + 1 /\ Len(queue) \in Nat
        /\ q[Len(queue) + 1] = a /\ \A i \in 1..Len(queue) : q[i] = queue[i]
    BY <1>1, <1>2, <1>q
  <2> DEFINE l == admitted \o queue
             l1 == admitted \o q
  <2>2. /\ l \in Seq(Tasks) /\ Len(l) = Len(admitted) + Len(queue) /\ Len(admitted) \in Nat
        /\ \A i \in 1..Len(admitted) : l[i] = admitted[i]
        /\ \A k \in 1..Len(queue) : l[Len(admitted) + k] = queue[k]
    BY <1>2, Concatenation
  <2>3. /\ l1 \in Seq(Tasks) /\ Len(l1) = Len(admitted) + Len(q)
        /\ \A i \in 1..Len(admitted) : l1[i] = admitted[i]
        /\ \A k \in 1..Len(q) : l1[Len(admitted) + k] = q[k]
    BY <1>1, <1>2, Concatenation
  <2> HIDE DEF l, l1
  <2>4. /\ Append(l, a) \in Seq(Tasks) /\ Len(Append(l, a)) = Len(l) + 1
        /\ Append(l, a)[Len(l) + 1] = a /\ \A i \in 1..Len(l) : Append(l, a)[i] = l[i]
    <3>1. l \in Seq(Tasks) /\ a \in Tasks
      BY <1>1, <2>2
    <3> QED BY <3>1, AppendFacts
  <2>5. ASSUME NEW i \in 1..Len(l1) PROVE l1[i] = Append(l, a)[i]
    <3>1. CASE i <= Len(admitted)
      BY <3>1, <2>1, <2>2, <2>3, <2>4
    <3>2. CASE i > Len(admitted) /\ i <= Len(admitted) + Len(queue)
      <4> DEFINE k == i - Len(admitted)
      <4>1. k \in 1..Len(queue) /\ k \in 1..Len(q) /\ i = Len(admitted) + k /\ i \in 1..Len(l)
        BY <3>2, <2>1, <2>2, <2>3
      <4> HIDE DEF k
      <4> QED BY <4>1, <2>1, <2>2, <2>3, <2>4
    <3>3. CASE i = Len(admitted) + (Len(queue) + 1)
      <4>1. Len(queue) + 1 \in 1..Len(q) /\ i = Len(l) + 1
        BY <3>3, <2>1, <2>2, <2>3
      <4> QED BY <4>1, <3>3, <2>1, <2>3, <2>4
    <3>4. i <= Len(admitted) \/ (i > Len(admitted) /\ i <= Len(admitted) + Len(queue))
          \/ i = Len(admitted) + (Len(queue) + 1)
      BY <2>1, <2>2, <2>3
    <3> QED BY <3>1, <3>2, <3>3, <3>4
  <2>6. Len(l1) = Len(Append(l, a))
    BY <2>1, <2>2, <2>3, <2>4
  <2>7. l1 = Append(l, a)
    BY <2>3, <2>4, <2>5, <2>6, SameSeq
  <2> QED BY <2>7 DEF l, l1
<1>8. \A i \in 1..Len(admitted \o queue) : (admitted \o queue)[i] # a
  <2> SUFFICES ASSUME NEW i \in 1..Len(admitted \o queue) PROVE (admitted \o queue)[i] # a
    OBVIOUS
  <2>1. /\ Len(admitted \o queue) = Len(admitted) + Len(queue) /\ Len(admitted) \in Nat
        /\ Len(queue) \in Nat
        /\ \A j \in 1..Len(admitted) : (admitted \o queue)[j] = admitted[j]
        /\ \A k \in 1..Len(queue) : (admitted \o queue)[Len(admitted) + k] = queue[k]
    BY <1>2, Concatenation
  <2>2. CASE i <= Len(admitted)
    BY <2>1, <2>2, <1>1, <1>2
  <2>3. CASE i > Len(admitted)
    <3>1. i - Len(admitted) \in 1..Len(queue) /\ i = Len(admitted) + (i - Len(admitted))
      BY <2>1, <2>3
    <3> QED BY <3>1, <2>1, <1>1, <1>2
  <2> QED BY <2>1, <2>2, <2>3
<1>9. Lock!Arrive(a)
  BY <1>6, <1>7, <1>8 DEF Lock!Arrive
<1>10. LineInv'
  <2>1. \A t \in Tasks : phase[t] \notin {"new", "submitting", "queued"}
                         => phase'[t] \notin {"new", "submitting", "queued"}
    <3>1. \A t \in Tasks : phase'[t] = "granted" \/ phase'[t] = ph[t]
      BY <1>3 DEF PumpLocked
    <3> QED BY <3>1, <1>1, <1>2
  <2>2. /\ Len(admitted') = Len(admitted) + n /\ Len(admitted) \in Nat /\ n \in Nat
        /\ \A i \in 1..Len(admitted) : admitted'[i] = admitted[i] /\ admitted[i] \in Tasks
        /\ \A k \in 1..n : admitted'[Len(admitted) + k] = q[k]
    BY <1>1, <1>2, <1>4, Recombine DEF LetsIn
  <2>3. ASSUME NEW i \in 1..Len(admitted')
        PROVE  phase'[admitted'[i]] \notin {"new", "submitting", "queued"}
    <3>1. CASE i <= Len(admitted)
      BY <3>1, <2>1, <2>2, <1>2
    <3>2. CASE i > Len(admitted)
      <4>1. i - Len(admitted) \in 1..n /\ i = Len(admitted) + (i - Len(admitted))
        BY <3>2, <2>2
      <4> QED BY <4>1, <2>2, <1>4 DEF LetsIn
    <3> QED BY <2>2, <3>1, <3>2
  <2> QED BY <2>3, <1>4 DEF LineInv, LetsIn
<1> QED BY <1>1, <1>9, <1>10 DEF Lock!LockNext, Tasks

\* OnTaskExit's critical section is a departure.
LEMMA ExitIsLeave ==
    ASSUME RefineInv, NEW w \in Workers, OnTaskExit(w)
    PROVE  Lock!LockNext /\ LineInv'
<1> DEFINE h == cur[w]
           ph == [phase EXCEPT ![h] = "done"]
           r == ReadersAfterReturn(h)
           b == WriterAfterReturn(h)
<1>1. /\ h \in Tasks /\ phase[h] = "finished" /\ ph \in [Tasks -> Phases]
      /\ r \in Nat /\ b \in BOOLEAN /\ Accounts(ph, r, b)
      /\ \A t \in Tasks : ph[t] = "queued" <=> \E i \in 1..Len(queue) : queue[i] = t
  BY ExitPrepares DEF OnTaskExit, RefineInv
<1>2. /\ GateInv /\ w \in Threads /\ Injective(queue) /\ nActiveReaders \in Nat
      /\ phase \in [Tasks -> Phases] /\ admitted \in Seq(Tasks) /\ queue \in Seq(Tasks)
      /\ \A t \in Tasks : ph[t] = IF t = h THEN "done" ELSE phase[t]
      /\ (MaxReaders # 0 => nActiveReaders <= MaxReaders)
      /\ \A i \in 1..Len(admitted) : phase[admitted[i]] \notin {"new", "submitting", "queued"}
  BY DEF GateInv, TypeOK, RefineInv, LineInv, QueueInv, Threads
<1>3. PumpLocked(w, queue, r, b, ph)
  BY DEF OnTaskExit
<1>l. MaxReaders # 0 => r <= MaxReaders
  BY <1>1, <1>2, GateAssumption DEF ReadersAfterReturn
<1> HIDE DEF h, ph, r, b
<1> DEFINE A == {t \in Tasks : ph[t] \in SlotPhases}
<1>4. PICK n \in 0..Len(queue) : LetsIn(queue, ph, n)
  BY <1>1, <1>2, <1>3, <1>l, PumpAdmits
<1>5. A = SlotHolders \ {h} /\ h \in SlotHolders
  BY <1>1, <1>2 DEF SlotHolders, SlotPhases
<1> HIDE DEF A
<1>6. Lock!Admit(SlotHolders \ {h}) /\ (admitted \o queue)' = admitted \o queue
  <2>1. Lock!Admit(A) /\ (admitted \o queue)' = admitted \o queue
    BY <1>2, <1>4, PumpIsAdmit DEF LetsIn, A
  <2> QED BY <2>1, <1>5
<1>7. Lock!Leave(h)
  BY <1>5, <1>6 DEF Lock!Leave
<1>8. LineInv'
  <2>1. \A t \in Tasks : phase[t] \notin {"new", "submitting", "queued"}
                         => phase'[t] \notin {"new", "submitting", "queued"}
    <3>1. \A t \in Tasks : phase'[t] = "granted" \/ phase'[t] = ph[t]
      BY <1>3 DEF PumpLocked
    <3> QED BY <3>1, <1>1, <1>2
  <2>2. /\ Len(admitted') = Len(admitted) + n /\ Len(admitted) \in Nat /\ n \in Nat
        /\ \A i \in 1..Len(admitted) : admitted'[i] = admitted[i] /\ admitted[i] \in Tasks
        /\ \A k \in 1..n : admitted'[Len(admitted) + k] = queue[k]
    BY <1>2, <1>4, Recombine DEF LetsIn
  <2>3. ASSUME NEW i \in 1..Len(admitted')
        PROVE  phase'[admitted'[i]] \notin {"new", "submitting", "queued"}
    <3>1. CASE i <= Len(admitted)
      BY <3>1, <2>1, <2>2, <1>2
    <3>2. CASE i > Len(admitted)
      <4>1. i - Len(admitted) \in 1..n /\ i = Len(admitted) + (i - Len(admitted))
        BY <3>2, <2>2
      <4> QED BY <4>1, <2>2, <1>4 DEF LetsIn
    <3> QED BY <2>2, <3>1, <3>2
  <2> QED BY <2>3, <1>4 DEF LineInv, LetsIn
<1> QED BY <1>1, <1>7, <1>8 DEF Lock!LockNext, Tasks

\* A slot returned for a task that the pool refused is a place given up.
LEMMA DropIsGiveUp ==
    ASSUME RefineInv, NEW p \in Threads, DispatchDrop(p)
    PROVE  Lock!LockNext /\ LineInv'
<1> DEFINE h == Head(vecDispatch[p])
<1>1. h \in Tasks /\ phase[h] = "granted" /\ phase \in [Tasks -> Phases]
      /\ admitted \in Seq(Tasks) /\ nActiveReaders \in Nat
  BY HandOverHead DEF DispatchDrop, RefineInv, GateInv, TypeOK
<1>2. /\ phase' = [phase EXCEPT ![h] = "dropped"]
      /\ nActiveReaders' = ReadersAfterReturn(h)
      /\ UNCHANGED <<queue, admitted>>
  BY DEF DispatchDrop
<1> HIDE DEF h
<1>3. SlotHolders' = SlotHolders \ {h} /\ h \in SlotHolders
  BY <1>1, <1>2 DEF SlotHolders, SlotPhases
<1>4. Lock!GiveUp(h)
  BY <1>2, <1>3 DEF Lock!GiveUp
<1>5. LineInv'
  <2>1. \A i \in 1..Len(admitted') : phase'[admitted'[i]] \notin {"new", "submitting", "queued"}
    BY <1>1, <1>2 DEF RefineInv, LineInv
  <2>3. MaxReaders # 0 => nActiveReaders' <= MaxReaders
    BY <1>1, <1>2, GateAssumption DEF RefineInv, LineInv, ReadersAfterReturn
  <2> QED BY <2>1, <2>3 DEF LineInv
<1> QED BY <1>1, <1>4, <1>5 DEF Lock!LockNext, Tasks

\* A step that changes neither the line nor who holds a slot is a stutter.
LEMMA SilentStep ==
    ASSUME RefineInv, UNCHANGED <<queue, nActiveReaders, admitted>>,
           \A t \in Tasks : phase'[t] \in SlotPhases <=> phase[t] \in SlotPhases,
           \A t \in Tasks : phase[t] \notin {"new", "submitting", "queued"}
                            => phase'[t] \notin {"new", "submitting", "queued"}
    PROVE  UNCHANGED Lock!lockVars /\ LineInv'
<1>1. SlotHolders' = SlotHolders
  BY DEF SlotHolders
<1>2. admitted \in Seq(Tasks)
  BY DEF RefineInv, GateInv, TypeOK
<1>3. LineInv'
  BY <1>2 DEF RefineInv, LineInv
<1> QED BY <1>1, <1>3 DEF Lock!lockVars

\* Every step of the gate is a step of the fair lock, or a stutter.
LEMMA StepRefines ==
    ASSUME RefineInv, [Next]_vars
    PROVE  [Lock!LockNext]_(Lock!lockVars) /\ LineInv'
<1>0. /\ GateInv /\ phase \in [Tasks -> Phases]
  BY DEF RefineInv, GateInv, TypeOK
<1>1. ASSUME NEW p \in Threads, NEW t \in Tasks, SubmitRefused(p, t) \/ SubmitChecked(p, t)
      PROVE  UNCHANGED Lock!lockVars /\ LineInv'
  BY <1>0, <1>1, SilentStep DEF SubmitRefused, SubmitChecked, gateVars, SlotPhases
<1>2. ASSUME NEW p \in Threads, GateStep(p)
      PROVE  (Lock!LockNext \/ UNCHANGED Lock!lockVars) /\ LineInv'
  <2>1. CASE SubmitPush(p) \/ DispatchDrop(p)
    BY <2>1, PushIsArrive, DropIsGiveUp
  <2>2. CASE DispatchAccepted(p)
    <3> DEFINE h == Head(vecDispatch[p])
    <3>1. h \in Tasks /\ phase[h] = "granted"
      BY <1>0, <2>2, HandOverHead DEF DispatchAccepted
    <3>2. phase' = [phase EXCEPT ![h] = "pooled"] /\ UNCHANGED <<queue, nActiveReaders, admitted>>
      BY <2>2 DEF DispatchAccepted, gateVars
    <3> HIDE DEF h
    <3> QED BY <1>0, <3>1, <3>2, SilentStep DEF SlotPhases
  <2>3. CASE DispatchRefused(p)
    BY <2>3, SilentStep DEF DispatchRefused, gateVars
  <2> QED BY <1>2, <2>1, <2>2, <2>3 DEF GateStep
<1>3. ASSUME NEW w \in Workers, NEW t \in Tasks, RunInline(w, t)
      PROVE  UNCHANGED Lock!lockVars /\ LineInv'
  BY <1>0, <1>3, SilentStep DEF RunInline, gateVars, SlotPhases
<1>4. ASSUME NEW w \in Workers, WorkerStep(w)
      PROVE  (Lock!LockNext \/ UNCHANGED Lock!lockVars) /\ LineInv'
  <2>1. CASE OnTaskExit(w)
    BY <2>1, ExitIsLeave
  <2>2. CASE WorkerTake(w)
    <3>1. Head(poolQueue) \in Tasks /\ phase[Head(poolQueue)] = "pooled"
      <4>1. poolQueue \in Seq(Tasks) /\ poolQueue # <<>>
        BY <2>2, <1>0 DEF WorkerTake, GateInv, TypeOK
      <4>2. Head(poolQueue) = poolQueue[1] /\ 1 \in 1..Len(poolQueue)
        BY <4>1
      <4> QED BY <4>1, <4>2, <1>0 DEF GateInv, PoolInv
    <3>2. phase' = [phase EXCEPT ![Head(poolQueue)] = "running"]
          /\ UNCHANGED <<queue, nActiveReaders, admitted>>
      BY <2>2 DEF WorkerTake, gateVars
    <3> QED BY <1>0, <3>1, <3>2, SilentStep DEF SlotPhases
  <2>3. CASE InlineEnd(w)
    <3>1. inl[w] \in Tasks /\ phase[inl[w]] = "inline"
      BY <2>3, <1>0 DEF InlineEnd, GateInv, TypeOK, InlineInv
    <3>2. phase' = [phase EXCEPT ![inl[w]] = "done"]
          /\ UNCHANGED <<queue, nActiveReaders, admitted>>
      BY <2>3 DEF InlineEnd, gateVars
    <3> QED BY <1>0, <3>1, <3>2, SilentStep DEF SlotPhases
  <2>4. CASE TaskBodyEnd(w)
    <3>1. cur[w] \in Tasks /\ phase[cur[w]] = "running"
      BY <2>4, <1>0 DEF TaskBodyEnd, GateInv, TypeOK, RunInv
    <3>2. phase' = [phase EXCEPT ![cur[w]] = "finished"]
          /\ UNCHANGED <<queue, nActiveReaders, admitted>>
      BY <2>4 DEF TaskBodyEnd, gateVars
    <3> QED BY <1>0, <3>1, <3>2, SilentStep DEF SlotPhases
  <2> QED BY <1>4, <2>1, <2>2, <2>3, <2>4 DEF WorkerStep
<1>5. CASE \/ \E d \in Drainers : DrainEnter(d) \/ DrainSpuriousWake(d) \/ DrainRecheck(d)
           \/ OwnerStep \/ Finished \/ UNCHANGED vars
  <2>1. UNCHANGED <<queue, nActiveReaders, admitted, phase>>
    BY <1>5 DEF DrainEnter, DrainSpuriousWake, DrainRecheck, DrainUnchanged, OwnerStep, Close,
                PoolStopBegin, PoolStopEnd, Finished, vars, gateVars
  <2> QED BY <2>1, SilentStep
<1> QED BY <1>1, <1>2, <1>3, <1>4, <1>5 DEF Next

\* CReadWriteGate implements the fair read/write lock: for every number of
\* tasks, threads and readers, what its callers see of Submit, the thread pool
\* and the ends of tasks is a behaviour of FairRWLock.
THEOREM GateImplementsFairLock == Spec => ImplementsFairLock
<1>1. Init => RefineInv /\ Lock!LockInit
  <2> SUFFICES ASSUME Init PROVE RefineInv /\ Lock!LockInit
    OBVIOUS
  <2>1. GateInv
    BY InitGateInv
  <2>2. LineInv
    BY GateAssumption DEF Init, LineInv
  <2>3. SlotHolders = {} /\ admitted \o queue = <<>> /\ Len(admitted) = 0
    BY DEF Init, SlotHolders, SlotPhases
  <2> QED BY <2>1, <2>2, <2>3 DEF RefineInv, Lock!LockInit
<1>2. RefineInv /\ [Next]_vars => RefineInv' /\ [Lock!LockNext]_(Lock!lockVars)
  BY StepRefines, NextGateInv DEF RefineInv
<1> QED BY <1>1, <1>2, PTL DEF Spec, ImplementsFairLock, Lock!LockSpec

===============================================================================

-------------------------- MODULE SchedulingProofs ---------------------------
(***************************************************************************)
(* Proofs about what runs the callbacks.  ThreadPool: for every set of     *)
(* tasks, every set of clients (finite or not), every finite set of        *)
(* workers and every number of restarts.  TimerManager: for every set of   *)
(* users and of names and every bound on timers, callbacks and restarts.   *)
(***************************************************************************)
EXTENDS ThreadPool, TimerManager, FiniteSetTheorems, TLAPS

(***************************************************************************)
(* The thread pool.                                                        *)
(***************************************************************************)
\* m_bStopping is up exactly from the beginning of Stop() until its last write,
\* and the controlling thread knows where the workers are.
StopInv ==
    /\ bStopping <=> ctl \in {"wake", "join", "clear"}
    /\ ctl = "stopped" => \A w \in Workers : work[w] = "none"
    /\ ctl = "clear" => \A w \in Workers : work[w] = "exited"
    /\ \A w \in Workers : work[w] = "exited" => bStopping /\ queue = <<>>

\* A task that is queued is in the queue and one that runs has a worker; what
\* a worker runs and a thread submits are tasks.
TaskInv ==
    /\ \A t \in Tasks : phase[t] = "queued" => \E i \in 1..Len(queue) : queue[i] = t
    /\ \A t \in Tasks : phase[t] = "running" => \E w \in Workers : work[w] = "run" /\ cur[w] = t
    /\ \A w \in Workers : work[w] = "run" => cur[w] \in Tasks
    /\ \A p \in Threads : sub[p] = "locked" => arg[p] \in Tasks

\* The notify_one calls that are owed: none outside the notifying loop of
\* Submit, at least one inside it, and never more than there are workers and
\* one; so only finitely many, whatever the number of clients.
NotifyInv ==
    /\ \A p \in Threads : IF sub[p] = "notify" THEN nNotify[p] \in 1..Cardinality(Workers) + 1
                          ELSE nNotify[p] = 0
    /\ IsFiniteSet(PendingNotifies)

\* The inductive invariant.
PoolIInv == TypeOK /\ IdleCountExact /\ NoIdleBacklog /\ StopInv /\ TaskInv /\ NotifyInv

-------------------------------------------------------------------------------
(* Counting workers. *)

\* Every set of workers is finite, and there is at least one worker.
LEMMA WorkerSetsFinite ==
    /\ \A S : S \subseteq Workers => IsFiniteSet(S) /\ Cardinality(S) \in Nat
                                     /\ Cardinality(S) <= Cardinality(Workers)
    /\ Cardinality(Workers) \in Nat
<1>1. \A S : S \subseteq Workers => IsFiniteSet(S) /\ Cardinality(S) <= Cardinality(Workers)
  BY PoolAssumption, FS_Subset
<1> QED BY <1>1, PoolAssumption, FS_CardinalityType

\* The counts of idle and of alert workers.
LEMMA CountTypes ==
    /\ IsFiniteSet(IdleOnes) /\ Cardinality(IdleOnes) \in Nat
    /\ Cardinality(IdleOnes) <= Cardinality(Workers) /\ Cardinality(Workers) \in Nat
    /\ IsFiniteSet(Alert) /\ Cardinality(Alert) \in Nat
BY WorkerSetsFinite DEF IdleOnes, Alert

\* What one worker going to place s does to the counts that the wake-up policy
\* of Submit rests on.
LEMMA WorkerMoves ==
    ASSUME TypeOK, NEW w \in Workers, NEW s, work' = [work EXCEPT ![w] = s]
    PROVE  /\ work[w] \in {"spin", "asleep", "woken"} /\ s \in {"spin", "asleep", "woken"}
                => Cardinality(IdleOnes') = Cardinality(IdleOnes)
           /\ work[w] \in {"spin", "asleep", "woken"} /\ s \notin {"spin", "asleep", "woken"}
                => Cardinality(IdleOnes') = Cardinality(IdleOnes) - 1
           /\ work[w] \notin {"spin", "asleep", "woken"} /\ s \in {"spin", "asleep", "woken"}
                => Cardinality(IdleOnes') = Cardinality(IdleOnes) + 1
           /\ work[w] \notin {"spin", "asleep", "woken"} /\ s \notin {"spin", "asleep", "woken"}
                => Cardinality(IdleOnes') = Cardinality(IdleOnes)
           /\ work[w] \in {"top", "spin", "woken"} /\ s \notin {"top", "spin", "woken"}
                => Cardinality(Alert') = Cardinality(Alert) - 1
           /\ work[w] \notin {"top", "spin", "woken"} /\ s \in {"top", "spin", "woken"}
                => Cardinality(Alert') = Cardinality(Alert) + 1
           /\ s # "asleep" => Asleep' = Asleep \ {w}
<1>0. /\ work'[w] = s
      /\ \A v \in Workers : v # w => work'[v] = work[v]
  BY DEF TypeOK
<1>1. s \in {"spin", "asleep", "woken"} => IdleOnes' = IdleOnes \cup {w}
  BY <1>0 DEF IdleOnes
<1>2. s \notin {"spin", "asleep", "woken"} => IdleOnes' = IdleOnes \ {w}
  BY <1>0 DEF IdleOnes
<1>3. work[w] \in {"spin", "asleep", "woken"} <=> w \in IdleOnes
  BY DEF IdleOnes
<1>4. s \in {"top", "spin", "woken"} => Alert' = Alert \cup {w}
  BY <1>0 DEF Alert
<1>5. s \notin {"top", "spin", "woken"} => Alert' = Alert \ {w}
  BY <1>0 DEF Alert
<1>6. work[w] \in {"top", "spin", "woken"} <=> w \in Alert
  BY DEF Alert
<1>7. s # "asleep" => Asleep' = Asleep \ {w}
  BY <1>0 DEF Asleep
<1>8. /\ Cardinality(IdleOnes \cup {w}) = IF w \in IdleOnes THEN Cardinality(IdleOnes)
                                          ELSE Cardinality(IdleOnes) + 1
      /\ Cardinality(IdleOnes \ {w}) = IF w \in IdleOnes THEN Cardinality(IdleOnes) - 1
                                       ELSE Cardinality(IdleOnes)
  BY CountTypes, FS_AddElement, FS_RemoveElement
<1>9. /\ Cardinality(Alert \cup {w}) = IF w \in Alert THEN Cardinality(Alert)
                                       ELSE Cardinality(Alert) + 1
      /\ Cardinality(Alert \ {w}) = IF w \in Alert THEN Cardinality(Alert) - 1
                                    ELSE Cardinality(Alert)
  BY CountTypes, FS_AddElement, FS_RemoveElement
<1>10. s \in {"spin", "asleep", "woken"}
         => Cardinality(IdleOnes') = IF w \in IdleOnes THEN Cardinality(IdleOnes)
                                     ELSE Cardinality(IdleOnes) + 1
  BY <1>1, <1>8
<1>11. s \notin {"spin", "asleep", "woken"}
         => Cardinality(IdleOnes') = IF w \in IdleOnes THEN Cardinality(IdleOnes) - 1
                                     ELSE Cardinality(IdleOnes)
  BY <1>2, <1>8
<1>12. s \in {"top", "spin", "woken"} /\ w \notin Alert => Cardinality(Alert') = Cardinality(Alert) + 1
  BY <1>4, <1>9
<1>13. s \notin {"top", "spin", "woken"} /\ w \in Alert => Cardinality(Alert') = Cardinality(Alert) - 1
  BY <1>5, <1>9
<1> QED BY <1>3, <1>6, <1>7, <1>10, <1>11, <1>12, <1>13

\* The notifications that are owed are a finite set.
LEMMA PendingType ==
    ASSUME PoolIInv
    PROVE  IsFiniteSet(PendingNotifies) /\ Cardinality(PendingNotifies) \in Nat
BY FS_CardinalityType DEF PoolIInv, NotifyInv

\* How many wake-ups a push makes: at most one per worker and one; at least one
\* while somebody sleeps.
LEMMA NotifyCountBounds ==
    ASSUME PoolIInv
    PROVE  /\ NotifyCount(queue) \in Nat
           /\ NotifyCount(queue) <= Cardinality(Workers) + 1
           /\ Asleep # {} => NotifyCount(queue) >= 1
<1>1. nIdleWorkers \in Nat /\ nIdleWorkers <= Cardinality(Workers) /\ Cardinality(Workers) \in Nat
  BY CountTypes DEF PoolIInv, TypeOK, IdleCountExact
<1>2. Len(queue) \in Nat /\ (queue # <<>> => Len(queue) >= 1)
  BY DEF PoolIInv, TypeOK
<1>3. Asleep # {} => nIdleWorkers >= 1
  <2>1. Asleep \subseteq IdleOnes
    BY DEF Asleep, IdleOnes
  <2>2. Asleep # {} => Cardinality(IdleOnes) # 0
    BY <2>1, CountTypes, FS_EmptySet
  <2> QED BY <2>2, <1>1 DEF PoolIInv, IdleCountExact
<1> QED BY <1>1, <1>2, <1>3 DEF NotifyCount, MinOf

-------------------------------------------------------------------------------
(* One lemma per action: it preserves the inductive invariant. *)

\* A pool that was just created.
LEMMA InitPoolIInv == Init => PoolIInv
<1> SUFFICES ASSUME Init PROVE PoolIInv
  OBVIOUS
<1>0. <<>> \in Seq(Tasks) /\ Len(<<>>) = 0
  OBVIOUS
<1>1. TypeOK
  <2>1. /\ bRunning \in BOOLEAN /\ bStopping \in BOOLEAN
        /\ mutex \in Threads \cup {None}
        /\ ctl \in {"stopped", "running", "wake", "join", "clear"}
    BY DEF Init
  <2>5. nIdleWorkers \in Nat /\ nStarts \in 0..MaxStarts
    BY PoolAssumption DEF Init
  <2>6. queue \in Seq(Tasks)
    BY <1>0 DEF Init
  <2>2. /\ work \in [Workers -> {"none", "top", "spin", "asleep", "woken", "run", "exited"}]
        /\ cur \in [Workers -> Tasks \cup {None}]
    BY DEF Init
  <2>3. /\ sub \in [Threads -> {"ready", "locked", "notify"}]
        /\ arg \in [Threads -> Tasks \cup {None}]
        /\ nNotify \in [Threads -> Nat]
    BY DEF Init
  <2>4. phase \in [Tasks -> {"new", "submitting", "refused", "queued", "running", "done"}]
    BY DEF Init
  <2> QED BY <2>1, <2>2, <2>3, <2>4, <2>5, <2>6 DEF TypeOK
<1>2. IdleOnes = {} /\ Asleep = {}
  BY DEF Init, IdleOnes, Asleep
<1>3. IdleCountExact /\ NoIdleBacklog
  BY <1>2, FS_EmptySet DEF Init, IdleCountExact, NoIdleBacklog
<1>4. StopInv /\ TaskInv
  BY DEF Init, StopInv, TaskInv
<1>5. PendingNotifies = {}
  <2> SUFFICES ASSUME NEW o \in PendingNotifies PROVE FALSE
    OBVIOUS
  <2>1. o[1] \in Threads /\ o[2] \in Nat /\ o[2] >= 1
    BY WorkerSetsFinite DEF PendingNotifies
  <2> QED BY <2>1 DEF PendingNotifies, Init
<1>6. NotifyInv
  BY <1>5, FS_EmptySet DEF NotifyInv, Init
<1> QED BY <1>1, <1>3, <1>4, <1>6 DEF PoolIInv

\* Steps that leave the notifying threads alone leave NotifyInv alone.
LEMMA NotifyInvSame ==
    ASSUME NotifyInv, UNCHANGED <<sub, nNotify>>
    PROVE  NotifyInv' /\ PendingNotifies' = PendingNotifies
BY DEF NotifyInv, PendingNotifies

\* Start: every worker is at the top of its loop and none is idle.
LEMMA StartStep ==
    ASSUME PoolIInv, Start PROVE PoolIInv'
<1> USE DEF Start
<1>1. TypeOK'
  <2>1. nStarts' \in 0..MaxStarts /\ nIdleWorkers' \in Nat
    BY PoolAssumption DEF PoolIInv, TypeOK
  <2>2. work' \in [Workers -> {"none", "top", "spin", "asleep", "woken", "run", "exited"}]
    OBVIOUS
  <2> QED BY <2>1, <2>2 DEF PoolIInv, TypeOK
<1>2. IdleOnes' = {} /\ Asleep' = {}
  BY DEF IdleOnes, Asleep
<1>3. IdleCountExact' /\ NoIdleBacklog'
  BY <1>2, FS_EmptySet DEF IdleCountExact, NoIdleBacklog
<1>4. StopInv'
  BY DEF PoolIInv, StopInv
<1>5. TaskInv'
  BY DEF PoolIInv, StopInv, TaskInv
<1>6. NotifyInv'
  BY NotifyInvSame DEF PoolIInv
<1> QED BY <1>1, <1>3, <1>4, <1>5, <1>6 DEF PoolIInv

\* The first critical section of Stop only raises m_bStopping.
LEMMA StopBeginStep ==
    ASSUME PoolIInv, StopBegin PROVE PoolIInv'
<1> USE DEF StopBegin
<1>1. TypeOK' /\ StopInv' /\ TaskInv'
  BY DEF PoolIInv, TypeOK, StopInv, TaskInv
<1>2. IdleCountExact' /\ NoIdleBacklog'
  BY DEF PoolIInv, IdleCountExact, NoIdleBacklog, IdleOnes, Asleep, Alert, PendingNotifies
<1>3. NotifyInv'
  BY NotifyInvSame DEF PoolIInv
<1> QED BY <1>1, <1>2, <1>3 DEF PoolIInv

\* notify_all leaves nobody asleep, and the woken stay idle.
LEMMA StopWakeAllStep ==
    ASSUME PoolIInv, StopWakeAll PROVE PoolIInv'
<1> USE DEF StopWakeAll
<1>1. TypeOK'
  BY DEF PoolIInv, TypeOK
<1>2. \A w \in Workers : work'[w] = IF work[w] = "asleep" THEN "woken" ELSE work[w]
  OBVIOUS
<1>3. IdleOnes' = IdleOnes /\ Asleep' = {}
  BY <1>2 DEF IdleOnes, Asleep
<1>4. IdleCountExact' /\ NoIdleBacklog'
  BY <1>3 DEF PoolIInv, IdleCountExact, NoIdleBacklog
<1>5. StopInv' /\ TaskInv'
  BY <1>2 DEF PoolIInv, TypeOK, StopInv, TaskInv
<1>6. NotifyInv'
  BY NotifyInvSame DEF PoolIInv
<1> QED BY <1>1, <1>4, <1>5, <1>6 DEF PoolIInv

\* The join of all workers, and the write of m_bRunning.
LEMMA StopJoinedStep ==
    ASSUME PoolIInv, StopJoined PROVE PoolIInv'
<1> USE DEF StopJoined
<1>1. TypeOK' /\ StopInv' /\ TaskInv'
  BY DEF PoolIInv, TypeOK, StopInv, TaskInv
<1>2. IdleCountExact' /\ NoIdleBacklog'
  BY DEF PoolIInv, IdleCountExact, NoIdleBacklog, IdleOnes, Asleep, Alert, PendingNotifies
<1>3. NotifyInv'
  BY NotifyInvSame DEF PoolIInv
<1> QED BY <1>1, <1>2, <1>3 DEF PoolIInv

\* The write of m_bStopping: the workers had exited, so nobody was idle.
LEMMA StopEndStep ==
    ASSUME PoolIInv, StopEnd PROVE PoolIInv'
<1> USE DEF StopEnd
<1>1. TypeOK'
  BY DEF PoolIInv, TypeOK
<1>2. IdleOnes = {} /\ IdleOnes' = {} /\ Asleep' = {}
  BY DEF IdleOnes, Asleep, PoolIInv, StopInv
<1>3. IdleCountExact' /\ NoIdleBacklog'
  BY <1>2 DEF PoolIInv, IdleCountExact, NoIdleBacklog
<1>4. StopInv' /\ TaskInv'
  BY DEF PoolIInv, TypeOK, StopInv, TaskInv
<1>5. NotifyInv'
  BY NotifyInvSame DEF PoolIInv
<1> QED BY <1>1, <1>3, <1>4, <1>5 DEF PoolIInv

-------------------------------------------------------------------------------
\* Submit takes the mutex, or is refused.
LEMMA SubmitLockStep ==
    ASSUME PoolIInv, NEW p \in Threads, NEW t \in Tasks, SubmitLock(p, t) PROVE PoolIInv'
<1> USE DEF SubmitLock
<1>1. TypeOK'
  BY DEF PoolIInv, TypeOK
<1>2. IdleCountExact' /\ NoIdleBacklog'
  BY DEF PoolIInv, IdleCountExact, NoIdleBacklog, IdleOnes, Asleep, Alert, PendingNotifies
<1>3. StopInv'
  BY DEF PoolIInv, StopInv
<1>4. TaskInv'
  <2>1. \A u \in Tasks : phase'[u] \in {"queued", "running"} => phase'[u] = phase[u]
    BY DEF PoolIInv, TypeOK
  <2>2. \A r \in Threads : sub'[r] = "locked" => arg'[r] \in Tasks
    BY DEF PoolIInv, TypeOK, TaskInv
  <2> QED BY <2>1, <2>2 DEF PoolIInv, TaskInv
<1>5. NotifyInv'
  <2>1. PendingNotifies' = PendingNotifies
    BY DEF PendingNotifies
  <2> QED BY <2>1 DEF PoolIInv, TypeOK, NotifyInv
<1> QED BY <1>1, <1>2, <1>3, <1>4, <1>5 DEF PoolIInv

\* Submit finds m_bStopping up.
LEMMA SubmitRejectedStep ==
    ASSUME PoolIInv, NEW p \in Threads, SubmitRejected(p) PROVE PoolIInv'
<1> USE DEF SubmitRejected
<1>0. arg[p] \in Tasks
  BY DEF PoolIInv, TaskInv
<1>1. TypeOK'
  BY <1>0 DEF PoolIInv, TypeOK
<1>2. IdleCountExact' /\ NoIdleBacklog'
  BY DEF PoolIInv, IdleCountExact, NoIdleBacklog, IdleOnes, Asleep, Alert, PendingNotifies
<1>3. StopInv'
  BY DEF PoolIInv, StopInv
<1>4. TaskInv'
  BY <1>0 DEF PoolIInv, TypeOK, TaskInv
<1>5. NotifyInv'
  <2>1. PendingNotifies' = PendingNotifies
    BY DEF PendingNotifies
  <2> QED BY <2>1 DEF PoolIInv, TypeOK, NotifyInv
<1> QED BY <1>1, <1>2, <1>3, <1>4, <1>5 DEF PoolIInv

\* Submit pushes: the task comes with a notification whenever somebody sleeps.
LEMMA SubmitPushStep ==
    ASSUME PoolIInv, NEW p \in Threads, SubmitPush(p) PROVE PoolIInv'
<1> USE DEF SubmitPush
<1>0. arg[p] \in Tasks /\ nNotify[p] = 0 /\ ~bStopping
  BY DEF PoolIInv, TaskInv, NotifyInv
<1> DEFINE n == NotifyCount(queue)
<1>n. n \in Nat /\ n <= Cardinality(Workers) + 1 /\ (Asleep # {} => n >= 1)
      /\ Cardinality(Workers) \in Nat
  BY NotifyCountBounds, CountTypes
<1>m. /\ nNotify' = [nNotify EXCEPT ![p] = n]
      /\ sub' = [sub EXCEPT ![p] = IF n = 0 THEN "ready" ELSE "notify"]
  OBVIOUS
<1> HIDE DEF n
<1>q. /\ queue' \in Seq(Tasks) /\ Len(queue') = Len(queue) + 1 /\ Len(queue) \in Nat
      /\ queue'[Len(queue) + 1] = arg[p]
      /\ \A i \in 1..Len(queue) : queue'[i] = queue[i]
  BY <1>0 DEF PoolIInv, TypeOK
<1>1. TypeOK'
  BY <1>0, <1>n, <1>m, <1>q DEF PoolIInv, TypeOK
<1>2. IdleOnes' = IdleOnes /\ Asleep' = Asleep /\ Alert' = Alert
  BY DEF IdleOnes, Asleep, Alert
<1>3. IdleCountExact'
  BY <1>2 DEF PoolIInv, IdleCountExact
<1>4. \A r \in Threads : nNotify'[r] = IF r = p THEN n ELSE nNotify[r]
  BY <1>m DEF PoolIInv, TypeOK
<1>5. IsFiniteSet(PendingNotifies')
  <2>1. PendingNotifies' \subseteq PendingNotifies \cup ({p} \X (1..Cardinality(Workers) + 1))
    BY <1>4 DEF PendingNotifies
  <2>2. IsFiniteSet(1..Cardinality(Workers) + 1)
    <3>1. 1 \in Int /\ Cardinality(Workers) + 1 \in Int
      BY <1>n
    <3> QED BY <3>1, FS_Interval
  <2>5. IsFiniteSet({p})
    BY FS_Singleton
  <2>3. IsFiniteSet({p} \X (1..Cardinality(Workers) + 1))
    BY <2>2, <2>5, FS_Product
  <2>4. IsFiniteSet(PendingNotifies \cup ({p} \X (1..Cardinality(Workers) + 1)))
    BY <2>3, PendingType, FS_Union
  <2> QED BY <2>1, <2>4, FS_Subset
<1>6. NoIdleBacklog'
  <2> SUFFICES ASSUME Asleep # {}
               PROVE  Len(queue') <= Cardinality(Alert) + Cardinality(PendingNotifies')
    BY <1>2 DEF NoIdleBacklog
  <2>1. <<p, 1>> \notin PendingNotifies
    BY <1>0 DEF PendingNotifies
  <2>2. PendingNotifies \cup {<<p, 1>>} \subseteq PendingNotifies'
    <3>1. <<p, 1>> \in PendingNotifies'
      BY <1>n, <1>4 DEF PendingNotifies
    <3>2. ASSUME NEW o \in PendingNotifies PROVE o \in PendingNotifies'
      <4>1. o[1] \in Threads /\ o[2] \in 1..Cardinality(Workers) + 1 /\ o[2] <= nNotify[o[1]]
        BY DEF PendingNotifies
      <4>2. o[1] # p
        BY <4>1, <1>0, <1>n
      <4> QED BY <4>1, <4>2, <1>4 DEF PendingNotifies
    <3> QED BY <3>1, <3>2
  <2>3. Cardinality(PendingNotifies \cup {<<p, 1>>}) = Cardinality(PendingNotifies) + 1
    BY <2>1, PendingType, FS_AddElement
  <2>4. Cardinality(PendingNotifies \cup {<<p, 1>>}) <= Cardinality(PendingNotifies')
    BY <2>2, <1>5, FS_Subset
  <2>5. Len(queue) <= Cardinality(Alert) + Cardinality(PendingNotifies)
    BY DEF PoolIInv, NoIdleBacklog
  <2>6. Cardinality(PendingNotifies') \in Nat
    BY <1>5, FS_CardinalityType
  <2> QED BY <2>3, <2>4, <2>5, <2>6, <1>q, PendingType, CountTypes
<1>7. StopInv'
  BY <1>0 DEF PoolIInv, StopInv
<1>8. TaskInv'
  <2>1. \A t \in Tasks : phase'[t] = "queued" => \E i \in 1..Len(queue') : queue'[i] = t
    <3> SUFFICES ASSUME NEW t \in Tasks, phase'[t] = "queued"
                 PROVE  \E i \in 1..Len(queue') : queue'[i] = t
      OBVIOUS
    <3>1. CASE t = arg[p]
      BY <3>1, <1>q
    <3>2. CASE t # arg[p]
      <4>1. phase[t] = "queued"
        BY <3>2 DEF PoolIInv, TypeOK
      <4>2. PICK i \in 1..Len(queue) : queue[i] = t
        BY <4>1 DEF PoolIInv, TaskInv
      <4> QED BY <4>2, <1>q
    <3> QED BY <3>1, <3>2
  <2>2. \A t \in Tasks : phase'[t] = "running" => phase[t] = "running"
    BY <1>0 DEF PoolIInv, TypeOK
  <2>3. \A r \in Threads : sub'[r] = "locked" => sub[r] = "locked" /\ arg'[r] = arg[r]
    BY <1>m DEF PoolIInv, TypeOK
  <2> QED BY <2>1, <2>2, <2>3 DEF PoolIInv, TaskInv
<1>9. NotifyInv'
  <2>1. \A r \in Threads : sub'[r] = IF r = p THEN (IF n = 0 THEN "ready" ELSE "notify") ELSE sub[r]
    BY <1>m DEF PoolIInv, TypeOK
  <2>2. \A r \in Threads : IF sub'[r] = "notify" THEN nNotify'[r] \in 1..Cardinality(Workers) + 1
                           ELSE nNotify'[r] = 0
    <3> SUFFICES ASSUME NEW r \in Threads
                 PROVE  IF sub'[r] = "notify" THEN nNotify'[r] \in 1..Cardinality(Workers) + 1
                        ELSE nNotify'[r] = 0
      OBVIOUS
    <3>1. CASE r = p
      BY <3>1, <2>1, <1>4, <1>n
    <3>2. CASE r # p
      BY <3>2, <2>1, <1>4 DEF PoolIInv, NotifyInv
    <3> QED BY <3>1, <3>2
  <2> QED BY <1>5, <2>2 DEF NotifyInv
<1> QED BY <1>1, <1>3, <1>6, <1>7, <1>8, <1>9 DEF PoolIInv

\* One notify_one: a sleeper becomes alert for the notification that is used up,
\* or nobody sleeps.
LEMMA SubmitNotifyStep ==
    ASSUME PoolIInv, NEW p \in Threads, SubmitNotify(p) PROVE PoolIInv'
<1> USE DEF SubmitNotify
<1> DEFINE n == nNotify[p]
<1>n. n \in 1..Cardinality(Workers) + 1 /\ Cardinality(Workers) \in Nat /\ n - 1 \in Nat
  BY WorkerSetsFinite DEF PoolIInv, NotifyInv
<1>m. /\ nNotify' = [nNotify EXCEPT ![p] = n - 1]
      /\ sub' = [sub EXCEPT ![p] = IF n = 1 THEN "ready" ELSE "notify"]
  BY DEF PoolIInv, TypeOK
<1>4. \A r \in Threads : nNotify'[r] = IF r = p THEN n - 1 ELSE nNotify[r]
  BY <1>m DEF PoolIInv, TypeOK
<1>1. TypeOK'
  <2>1. nNotify' \in [Threads -> Nat] /\ sub' \in [Threads -> {"ready", "locked", "notify"}]
    BY <1>n, <1>m DEF PoolIInv, TypeOK
  <2>2. work' \in [Workers -> {"none", "top", "spin", "asleep", "woken", "run", "exited"}]
    BY DEF PoolIInv, TypeOK
  <2> QED BY <2>1, <2>2 DEF PoolIInv, TypeOK
<1>5. PendingNotifies' = PendingNotifies \ {<<p, n>>} /\ <<p, n>> \in PendingNotifies
  <2>1. n = nNotify[p] /\ n \in Nat
    BY <1>n
  <2> HIDE DEF n
  <2>2. <<p, n>> \in PendingNotifies
    BY <1>n, <2>1 DEF PendingNotifies
  <2>3. ASSUME NEW o \in Threads \X (1..Cardinality(Workers) + 1)
        PROVE  o[2] <= nNotify'[o[1]] <=> (o[2] <= nNotify[o[1]] /\ o # <<p, n>>)
    <3>1. o = <<o[1], o[2]>> /\ o[1] \in Threads /\ o[2] \in Nat
      BY <1>n
    <3>2. CASE o[1] = p
      BY <3>1, <3>2, <2>1, <1>4
    <3>3. CASE o[1] # p
      BY <3>1, <3>3, <1>4
    <3> QED BY <3>2, <3>3
  <2> QED BY <2>2, <2>3 DEF PendingNotifies
<1>6. IsFiniteSet(PendingNotifies') /\ Cardinality(PendingNotifies') = Cardinality(PendingNotifies) - 1
  BY <1>5, PendingType, FS_RemoveElement
<1>7. NotifyInv'
  <2>1. \A r \in Threads : sub'[r] = IF r = p THEN (IF n = 1 THEN "ready" ELSE "notify") ELSE sub[r]
    BY <1>m DEF PoolIInv, TypeOK
  <2> SUFFICES ASSUME NEW r \in Threads
               PROVE  IF sub'[r] = "notify" THEN nNotify'[r] \in 1..Cardinality(Workers) + 1
                      ELSE nNotify'[r] = 0
    BY <1>6 DEF NotifyInv
  <2>2. CASE r = p
    BY <2>2, <2>1, <1>4, <1>n
  <2>3. CASE r # p
    BY <2>3, <2>1, <1>4 DEF PoolIInv, NotifyInv
  <2> QED BY <2>2, <2>3
<1>a. \A r \in Threads : sub'[r] = "locked" => sub[r] = "locked"
  BY <1>m DEF PoolIInv, TypeOK
<1>8. CASE Asleep = {}
  <2>0. work' = work
    BY <1>8
  <2>1. IdleOnes' = IdleOnes /\ Asleep' = {}
    BY <1>8, <2>0 DEF IdleOnes, Asleep
  <2>2. IdleCountExact' /\ NoIdleBacklog'
    BY <2>1 DEF PoolIInv, IdleCountExact, NoIdleBacklog
  <2>3. StopInv' /\ TaskInv'
    BY <2>0, <1>a DEF PoolIInv, StopInv, TaskInv
  <2> QED BY <1>1, <1>7, <2>2, <2>3 DEF PoolIInv
<1>9. CASE Asleep # {}
  <2>0. PICK w \in Asleep : work' = [work EXCEPT ![w] = "woken"]
    BY <1>9
  <2>1. w \in Workers /\ work[w] = "asleep"
    BY DEF Asleep
  <2>2. /\ Cardinality(IdleOnes') = Cardinality(IdleOnes)
        /\ Cardinality(Alert') = Cardinality(Alert) + 1
    BY <2>0, <2>1, WorkerMoves DEF PoolIInv
  <2>3. IdleCountExact'
    BY <2>2 DEF PoolIInv, IdleCountExact
  <2>4. NoIdleBacklog'
    <3>1. Len(queue) <= Cardinality(Alert) + Cardinality(PendingNotifies)
      BY <1>9 DEF PoolIInv, NoIdleBacklog
    <3>2. Len(queue) <= (Cardinality(Alert) + 1) + (Cardinality(PendingNotifies) - 1)
      BY <3>1, PendingType, CountTypes
    <3> QED BY <3>2, <2>2, <1>6 DEF NoIdleBacklog
  <2>5. StopInv' /\ TaskInv'
    BY <2>0, <2>1, <1>a DEF PoolIInv, TypeOK, StopInv, TaskInv
  <2> QED BY <1>1, <1>7, <2>3, <2>4, <2>5 DEF PoolIInv
<1> QED BY <1>8, <1>9

-------------------------------------------------------------------------------
\* A worker leaves its loop, as idle one or not, with an empty queue.
LEMMA LeaveStep ==
    ASSUME PoolIInv, NEW w \in Workers, NEW idle, Leave(w, idle), workUnchanged,
           queue = <<>>, bStopping,
           \/ work[w] = "top" /\ idle = nIdleWorkers
           \/ work[w] \in {"spin", "woken"} /\ idle = nIdleWorkers - 1
    PROVE  PoolIInv'
<1> USE DEF Leave, workUnchanged
<1>1. Cardinality(IdleOnes') = idle
  <2>1. TypeOK /\ work' = [work EXCEPT ![w] = "exited"] /\ nIdleWorkers = Cardinality(IdleOnes)
    BY DEF PoolIInv, IdleCountExact
  <2>2. CASE work[w] = "top" /\ idle = nIdleWorkers
    BY <2>1, <2>2, WorkerMoves
  <2>3. CASE work[w] \in {"spin", "woken"} /\ idle = nIdleWorkers - 1
    BY <2>1, <2>3, WorkerMoves
  <2> QED BY <2>2, <2>3
<1>2. IdleCountExact'
  BY <1>1 DEF IdleCountExact
<1>3. idle \in Nat
  <2>1. IsFiniteSet(IdleOnes')
    BY WorkerSetsFinite DEF IdleOnes
  <2> QED BY <1>1, <2>1, FS_CardinalityType
<1>4. TypeOK'
  BY <1>3 DEF PoolIInv, TypeOK
<1>5. NotifyInv' /\ PendingNotifies' = PendingNotifies
  BY NotifyInvSame DEF PoolIInv
<1>6. NoIdleBacklog'
  <2>1. Len(queue') = 0 /\ Cardinality(Alert') \in Nat /\ Cardinality(PendingNotifies') \in Nat
    BY <1>5, PendingType, WorkerSetsFinite DEF Alert
  <2> QED BY <2>1 DEF NoIdleBacklog
<1>7. StopInv' /\ TaskInv'
  BY DEF PoolIInv, TypeOK, StopInv, TaskInv
<1> QED BY <1>2, <1>4, <1>5, <1>6, <1>7 DEF PoolIInv

\* A worker takes the head of the queue: one queued task and one alert worker less.
LEMMA TakeStep ==
    ASSUME PoolIInv, NEW w \in Workers, NEW idle, Take(w, idle), workUnchanged,
           queue # <<>>,
           \/ work[w] = "top" /\ idle = nIdleWorkers
           \/ work[w] \in {"spin", "woken"} /\ idle = nIdleWorkers - 1
    PROVE  PoolIInv'
<1> USE DEF Take, workUnchanged
<1>1. Cardinality(IdleOnes') = idle /\ Cardinality(Alert') = Cardinality(Alert) - 1
      /\ Asleep' = Asleep
  <2>1. w \notin Asleep
    BY DEF Asleep
  <2>2. TypeOK /\ work' = [work EXCEPT ![w] = "run"] /\ nIdleWorkers = Cardinality(IdleOnes)
    BY DEF PoolIInv, IdleCountExact
  <2>5. Asleep' = Asleep \ {w}
    BY <2>2, WorkerMoves
  <2> SUFFICES Cardinality(IdleOnes') = idle /\ Cardinality(Alert') = Cardinality(Alert) - 1
    BY <2>1, <2>5
  <2>3. CASE work[w] = "top" /\ idle = nIdleWorkers
    BY <2>2, <2>3, WorkerMoves
  <2>4. CASE work[w] \in {"spin", "woken"} /\ idle = nIdleWorkers - 1
    BY <2>2, <2>4, WorkerMoves, ZenonT(30)
  <2> QED BY <2>3, <2>4
<1>2. IdleCountExact'
  BY <1>1 DEF IdleCountExact
<1>3. idle \in Nat
  <2>1. IsFiniteSet(IdleOnes')
    BY WorkerSetsFinite DEF IdleOnes
  <2> QED BY <1>1, <2>1, FS_CardinalityType
<1>q. /\ Head(queue) = queue[1] /\ Head(queue) \in Tasks
      /\ queue' \in Seq(Tasks) /\ Len(queue') = Len(queue) - 1 /\ Len(queue) \in Nat
      /\ \A i \in 2..Len(queue) : queue'[i - 1] = queue[i]
  BY DEF PoolIInv, TypeOK
<1>4. TypeOK'
  BY <1>3, <1>q DEF PoolIInv, TypeOK
<1>5. NotifyInv' /\ PendingNotifies' = PendingNotifies
  BY NotifyInvSame DEF PoolIInv
<1>6. NoIdleBacklog'
  BY <1>1, <1>5, <1>q, PendingType, CountTypes DEF PoolIInv, NoIdleBacklog
<1>7. StopInv'
  <2>1. \A v \in Workers : v # w => work'[v] = work[v]
    BY DEF PoolIInv, TypeOK
  <2>2. work'[w] = "run" /\ work[w] # "none" /\ work[w] # "exited"
    BY DEF PoolIInv, TypeOK
  <2> QED BY <2>1, <2>2 DEF PoolIInv, StopInv
<1>8. TaskInv'
  <2>1. \A v \in Workers : v # w => work'[v] = work[v] /\ cur'[v] = cur[v]
    BY DEF PoolIInv, TypeOK
  <2>2. work'[w] = "run" /\ cur'[w] = Head(queue) /\ work[w] # "run"
    BY DEF PoolIInv, TypeOK
  <2>3. \A t \in Tasks : phase'[t] = IF t = Head(queue) THEN "running" ELSE phase[t]
    BY <1>q DEF PoolIInv, TypeOK
  <2>4. ASSUME NEW t \in Tasks, phase'[t] = "queued"
        PROVE  \E i \in 1..Len(queue') : queue'[i] = t
    <3>1. t # Head(queue) /\ phase[t] = "queued"
      BY <2>3, <2>4
    <3>2. PICK i \in 1..Len(queue) : queue[i] = t
      BY <3>1 DEF PoolIInv, TaskInv
    <3>3. i # 1
      BY <3>1, <3>2, <1>q
    <3>4. i - 1 \in 1..Len(queue') /\ queue'[i - 1] = t
      BY <3>2, <3>3, <1>q
    <3> QED BY <3>4
  <2>5. ASSUME NEW t \in Tasks, phase'[t] = "running"
        PROVE  \E v \in Workers : work'[v] = "run" /\ cur'[v] = t
    <3>1. CASE t = Head(queue)
      BY <3>1, <2>2
    <3>2. CASE t # Head(queue)
      <4>1. PICK v \in Workers : work[v] = "run" /\ cur[v] = t
        BY <3>2, <2>3, <2>5 DEF PoolIInv, TaskInv
      <4> QED BY <4>1, <2>1, <2>2
    <3> QED BY <3>1, <3>2
  <2>6. \A v \in Workers : work'[v] = "run" => cur'[v] \in Tasks
    BY <2>1, <2>2, <1>q DEF PoolIInv, TaskInv
  <2> QED BY <2>4, <2>5, <2>6 DEF PoolIInv, TaskInv
<1> QED BY <1>2, <1>4, <1>5, <1>6, <1>7, <1>8 DEF PoolIInv

\* The head of WorkerLoop.
LEMMA WorkerTopStep ==
    ASSUME PoolIInv, NEW w \in Workers, WorkerTop(w) PROVE PoolIInv'
<1>1. CASE /\ queue = <<>> /\ ~bStopping
           /\ nIdleWorkers' = nIdleWorkers + 1
           /\ work' = [work EXCEPT ![w] = "spin"]
           /\ UNCHANGED <<queue, cur, phase>>
  <2> USE <1>1 DEF WorkerTop, workUnchanged
  <2>1. work[w] = "top"
    OBVIOUS
  <2>2. Cardinality(IdleOnes') = Cardinality(IdleOnes) + 1
    BY <2>1, WorkerMoves DEF PoolIInv
  <2>3. IdleCountExact'
    BY <2>2 DEF PoolIInv, IdleCountExact
  <2>4. TypeOK'
    BY DEF PoolIInv, TypeOK
  <2>5. NotifyInv' /\ PendingNotifies' = PendingNotifies
    BY NotifyInvSame DEF PoolIInv
  <2>6. NoIdleBacklog'
    <3>1. Len(queue') = 0 /\ Cardinality(Alert') \in Nat /\ Cardinality(PendingNotifies') \in Nat
      BY <2>5, PendingType, WorkerSetsFinite DEF Alert
    <3> QED BY <3>1 DEF NoIdleBacklog
  <2>7. StopInv' /\ TaskInv'
    BY <2>1 DEF PoolIInv, TypeOK, StopInv, TaskInv
  <2> QED BY <2>3, <2>4, <2>5, <2>6, <2>7 DEF PoolIInv
<1>2. CASE queue = <<>> /\ bStopping /\ Leave(w, nIdleWorkers)
  BY <1>2, LeaveStep DEF WorkerTop
<1>3. CASE queue # <<>> /\ Take(w, nIdleWorkers)
  BY <1>3, TakeStep DEF WorkerTop
<1> QED BY <1>1, <1>2, <1>3 DEF WorkerTop

\* The end of the spin or of a wait.
LEMMA WorkerIdleStep ==
    ASSUME PoolIInv, NEW w \in Workers, WorkerIdle(w) PROVE PoolIInv'
<1>1. CASE /\ queue = <<>> /\ ~bStopping
           /\ work' = [work EXCEPT ![w] = "asleep"]
           /\ UNCHANGED <<queue, nIdleWorkers, cur, phase>>
  <2> USE <1>1 DEF WorkerIdle, workUnchanged
  <2>1. work[w] \in {"spin", "woken"}
    OBVIOUS
  <2>2. Cardinality(IdleOnes') = Cardinality(IdleOnes)
    BY <2>1, WorkerMoves DEF PoolIInv
  <2>3. IdleCountExact'
    BY <2>2 DEF PoolIInv, IdleCountExact
  <2>4. TypeOK'
    BY DEF PoolIInv, TypeOK
  <2>5. NotifyInv' /\ PendingNotifies' = PendingNotifies
    BY NotifyInvSame DEF PoolIInv
  <2>6. NoIdleBacklog'
    <3>1. Len(queue') = 0 /\ Cardinality(Alert') \in Nat /\ Cardinality(PendingNotifies') \in Nat
      BY <2>5, PendingType, WorkerSetsFinite DEF Alert
    <3> QED BY <3>1 DEF NoIdleBacklog
  <2>7. StopInv' /\ TaskInv'
    BY <2>1 DEF PoolIInv, TypeOK, StopInv, TaskInv
  <2> QED BY <2>3, <2>4, <2>5, <2>6, <2>7 DEF PoolIInv
<1>2. CASE queue = <<>> /\ bStopping /\ Leave(w, nIdleWorkers - 1)
  BY <1>2, LeaveStep DEF WorkerIdle
<1>3. CASE queue # <<>> /\ Take(w, nIdleWorkers - 1)
  BY <1>3, TakeStep DEF WorkerIdle
<1> QED BY <1>1, <1>2, <1>3 DEF WorkerIdle

\* A spurious wake-up adds an alert worker.
LEMMA WorkerSpuriousWakeStep ==
    ASSUME PoolIInv, NEW w \in Workers, WorkerSpuriousWake(w) PROVE PoolIInv'
<1> USE DEF WorkerSpuriousWake, workUnchanged
<1>1. /\ Cardinality(IdleOnes') = Cardinality(IdleOnes)
      /\ Cardinality(Alert') = Cardinality(Alert) + 1
      /\ Asleep' = Asleep \ {w}
  <2>1. TypeOK /\ work' = [work EXCEPT ![w] = "woken"] /\ work[w] = "asleep"
    BY DEF PoolIInv
  <2> QED BY <2>1, WorkerMoves
<1>2. IdleCountExact'
  BY <1>1 DEF PoolIInv, IdleCountExact
<1>3. TypeOK'
  BY DEF PoolIInv, TypeOK
<1>4. NotifyInv' /\ PendingNotifies' = PendingNotifies
  BY NotifyInvSame DEF PoolIInv
<1>5. NoIdleBacklog'
  <2>1. Len(queue) \in Nat
    BY DEF PoolIInv, TypeOK
  <2> QED BY <2>1, <1>1, <1>4, PendingType, CountTypes DEF PoolIInv, NoIdleBacklog
<1>6. StopInv' /\ TaskInv'
  BY DEF PoolIInv, TypeOK, StopInv, TaskInv
<1> QED BY <1>2, <1>3, <1>4, <1>5, <1>6 DEF PoolIInv

\* A task ends: its worker looks at the queue again.
LEMMA WorkerRunEndStep ==
    ASSUME PoolIInv, NEW w \in Workers, WorkerRunEnd(w) PROVE PoolIInv'
<1> USE DEF WorkerRunEnd, workUnchanged
<1>0. cur[w] \in Tasks
  BY DEF PoolIInv, TaskInv
<1>1. /\ Cardinality(IdleOnes') = Cardinality(IdleOnes)
      /\ Cardinality(Alert') = Cardinality(Alert) + 1
      /\ Asleep' = Asleep \ {w}
  <2>1. TypeOK /\ work' = [work EXCEPT ![w] = "top"] /\ work[w] = "run"
    BY DEF PoolIInv
  <2> QED BY <2>1, WorkerMoves
<1>2. IdleCountExact'
  BY <1>1 DEF PoolIInv, IdleCountExact
<1>3. TypeOK'
  BY <1>0 DEF PoolIInv, TypeOK
<1>4. NotifyInv' /\ PendingNotifies' = PendingNotifies
  BY NotifyInvSame DEF PoolIInv
<1>5. NoIdleBacklog'
  <2>1. Len(queue) \in Nat
    BY DEF PoolIInv, TypeOK
  <2> QED BY <2>1, <1>1, <1>4, PendingType, CountTypes DEF PoolIInv, NoIdleBacklog
<1>6. StopInv'
  BY DEF PoolIInv, TypeOK, StopInv
<1>7. TaskInv'
  <2>1. \A v \in Workers : v # w => work'[v] = work[v] /\ cur'[v] = cur[v]
    BY DEF PoolIInv, TypeOK
  <2>2. work'[w] = "top"
    BY DEF PoolIInv, TypeOK
  <2>3. \A t \in Tasks : phase'[t] = IF t = cur[w] THEN "done" ELSE phase[t]
    BY <1>0 DEF PoolIInv, TypeOK
  <2>4. ASSUME NEW t \in Tasks, phase'[t] = "running"
        PROVE  \E v \in Workers : work'[v] = "run" /\ cur'[v] = t
    <3>1. t # cur[w] /\ phase[t] = "running"
      BY <2>3, <2>4
    <3>2. PICK v \in Workers : work[v] = "run" /\ cur[v] = t
      BY <3>1 DEF PoolIInv, TaskInv
    <3> QED BY <3>1, <3>2, <2>1
  <2>5. \A t \in Tasks : phase'[t] = "queued" => phase[t] = "queued"
    BY <2>3
  <2> QED BY <2>1, <2>2, <2>4, <2>5 DEF PoolIInv, TaskInv
<1> QED BY <1>2, <1>3, <1>4, <1>5, <1>6, <1>7 DEF PoolIInv

-------------------------------------------------------------------------------
\* Steps that change nothing of the pool.
LEMMA PoolStutter ==
    ASSUME PoolIInv, UNCHANGED vars PROVE PoolIInv'
<1>1. UNCHANGED <<sub, nNotify>>
  BY DEF vars
<1>2. TypeOK' /\ StopInv' /\ TaskInv'
  BY DEF vars, PoolIInv, TypeOK, StopInv, TaskInv
<1>3. IdleCountExact' /\ NoIdleBacklog'
  BY DEF vars, PoolIInv, IdleCountExact, NoIdleBacklog, IdleOnes, Asleep, Alert, PendingNotifies
<1>4. NotifyInv'
  BY <1>1, NotifyInvSame DEF PoolIInv
<1> QED BY <1>2, <1>3, <1>4 DEF PoolIInv

\* Every step preserves the inductive invariant.
LEMMA NextPoolIInv == PoolIInv /\ [Next]_vars => PoolIInv'
<1> SUFFICES ASSUME PoolIInv, [Next]_vars PROVE PoolIInv'
  OBVIOUS
<1>1. CASE Start \/ StopBegin \/ StopStep
  BY <1>1, StartStep, StopBeginStep, StopWakeAllStep, StopJoinedStep, StopEndStep DEF StopStep
<1>2. CASE \E p \in Threads, t \in Tasks : SubmitLock(p, t)
  BY <1>2, SubmitLockStep
<1>3. CASE \E p \in Threads : SubmitStep(p)
  BY <1>3, SubmitRejectedStep, SubmitPushStep, SubmitNotifyStep DEF SubmitStep
<1>4. CASE \E w \in Workers : WorkerStep(w) \/ WorkerSpuriousWake(w)
  BY <1>4, WorkerTopStep, WorkerIdleStep, WorkerRunEndStep, WorkerSpuriousWakeStep DEF WorkerStep
<1>5. CASE Finished
  BY <1>5, PoolStutter DEF Finished
<1>6. CASE UNCHANGED vars
  BY <1>6, PoolStutter
<1> QED BY <1>1, <1>2, <1>3, <1>4, <1>5, <1>6 DEF Next

\* Once every worker has exited, the queue is empty and nothing runs.
LEMMA PoolIInvDrains == PoolIInv => JoinedMeansDrained
<1> SUFFICES ASSUME PoolIInv, ctl = "join", \A w \in Workers : work[w] = "exited"
             PROVE  queue = <<>> /\ \A t \in Tasks : phase[t] \notin {"queued", "running"}
  BY DEF JoinedMeansDrained
<1>1. queue = <<>>
  BY PoolAssumption DEF PoolIInv, StopInv
<1>2. Len(queue) = 0
  BY <1>1
<1> QED BY <1>1, <1>2 DEF PoolIInv, TaskInv

\* CThreadPool's safety: the idle count that sizes the wake-ups is exact, no
\* queued task waits while a worker sleeps and none is on its way to the queue,
\* and a joined pool has run all it accepted before the stop.
THEOREM PoolInvHolds == Spec => []PoolInv
<1>1. PoolIInv => PoolInv
  BY PoolIInvDrains DEF PoolIInv, PoolInv
<1> QED BY <1>1, InitPoolIInv, NextPoolIInv, PTL DEF Spec

\* The strengthening that makes it inductive holds as well: in particular no
\* worker leaves before the queue is empty and the stop has begun.
THEOREM PoolInductive == Spec => []PoolIInv
BY InitPoolIInv, NextPoolIInv, PTL DEF Spec

-------------------------------------------------------------------------------
(***************************************************************************)
(* The timer manager.                                                      *)
(***************************************************************************)
\* A completion handler that asio has queued.
HandlerType == [id : Ids, ok : BOOLEAN]

\* What is left of a two-step call.
CallNames == TimerNames \cup {""}
CallType == [do : {"none", "name", "cancel"}, name : CallNames, id : 0 .. MaxId]

\* The types TimerTypeOK leaves out: the queue of asio, the calls under way and
\* the histories.
TimerTypes ==
    /\ TimerTypeOK
    /\ handlers \in Seq(HandlerType)
    /\ pc \in [Callers -> CallType]
    /\ starts \in Nat /\ cancelled \subseteq Ids
    /\ fired \in [Ids -> Nat] /\ late \in [Ids -> Nat]

\* asio holds at most one thing for a timer: its wait, or one queued handler, or
\* the handler that runs; and the io thread is inside a handler exactly when
\* current names a timer.
OnePlace ==
    /\ \A id \in armed : ~Queued(id) /\ current # id
    /\ \A j, k \in 1 .. Len(handlers) : handlers[j].id = handlers[k].id => j = k
    /\ \A k \in 1 .. Len(handlers) : handlers[k].id # current
    /\ io \in {"callback", "after"} <=> current # 0

\* An id that was not given out yet has left no trace.
FreshIds ==
    \A id \in Ids : id >= nextId =>
      /\ id \notin timers /\ id \notin periodic /\ id \notin cancelled
      /\ ~Queued(id) /\ current # id
      /\ fired[id] = 0 /\ late[id] = 0

\* What the past of a timer excludes: a cancelled timer is managed no more; one
\* that ran after its cancellation, and a one-shot timer that ran, has nothing
\* queued; an expiry is queued only while another callback may come.
PastInv ==
    /\ cancelled \cap timers = {}
    /\ \A id \in Ids : late[id] >= 1 => id \in cancelled /\ ~Queued(id)
    /\ \A id \in Ids \ periodic : fired[id] >= 1 => id \notin armed /\ ~Queued(id)
    /\ \A k \in 1 .. Len(handlers) : handlers[k].ok => fired[handlers[k].id] < MaxFires

\* The inductive invariant.
TimerIInv ==
    TimerTypes /\ ManagedIsAlive /\ CancelIsFinal /\ StoppedIsQuiet /\ OnePlace /\ FreshIds /\ PastInv

-------------------------------------------------------------------------------
(* The queue of asio. *)

\* Where the elements of an extended sequence are.
LEMMA AppendFacts ==
    ASSUME NEW S, NEW s \in Seq(S), NEW e \in S
    PROVE  /\ Append(s, e) \in Seq(S) /\ Len(Append(s, e)) = Len(s) + 1 /\ Len(s) \in Nat
           /\ Append(s, e)[Len(s) + 1] = e /\ \A i \in 1 .. Len(s) : Append(s, e)[i] = s[i]
OBVIOUS

\* The first element of a sequence and where the others go without it.
LEMMA TailFacts ==
    ASSUME NEW S, NEW s \in Seq(S), s # <<>>
    PROVE  /\ Tail(s) \in Seq(S) /\ Len(Tail(s)) = Len(s) - 1
           /\ Len(s) \in Nat /\ Len(s) >= 1
           /\ Head(s) = s[1] /\ s[1] \in S
           /\ \A i \in 1 .. Len(s) - 1 : Tail(s)[i] = s[i + 1]
OBVIOUS

\* Where the elements of a concatenation are.
LEMMA Concatenation ==
    ASSUME NEW S, NEW s \in Seq(S), NEW t \in Seq(S)
    PROVE  /\ s \o t \in Seq(S) /\ Len(s \o t) = Len(s) + Len(t)
           /\ Len(s) \in Nat /\ Len(t) \in Nat
           /\ \A i \in 1 .. Len(s) : (s \o t)[i] = s[i]
           /\ \A k \in 1 .. Len(t) : (s \o t)[Len(s) + k] = t[k]
OBVIOUS

\* A handler queued at the end: nothing else is queued, and nothing is lost.
LEMMA AppendQueues ==
    ASSUME TimerTypes, NEW h \in HandlerType, handlers' = Append(handlers, h)
    PROVE  /\ handlers' \in Seq(HandlerType)
           /\ Len(handlers') = Len(handlers) + 1
           /\ \A k \in 1 .. Len(handlers) : handlers'[k] = handlers[k]
           /\ handlers'[Len(handlers')] = h
           /\ \A id : Queued(id)' <=> Queued(id) \/ id = h.id
<1>1. /\ handlers' \in Seq(HandlerType)
      /\ Len(handlers) \in Nat
      /\ Len(handlers') = Len(handlers) + 1
      /\ \A k \in 1 .. Len(handlers) : handlers'[k] = handlers[k]
      /\ handlers'[Len(handlers) + 1] = h
  <2>1. handlers \in Seq(HandlerType)
    BY DEF TimerTypes
  <2> QED BY <2>1, AppendFacts
<1>2. \A id : Queued(id)' <=> Queued(id) \/ id = h.id
  BY <1>1 DEF Queued
<1> QED BY <1>1, <1>2

\* The handler at the head is taken: the others keep their order.
LEMMA TailQueues ==
    ASSUME TimerTypes, handlers # <<>>, handlers' = Tail(handlers)
    PROVE  /\ handlers' \in Seq(HandlerType)
           /\ Head(handlers) \in HandlerType
           /\ 1 \in 1 .. Len(handlers) /\ Head(handlers) = handlers[1]
           /\ \A k \in 1 .. Len(handlers') : k + 1 \in 1 .. Len(handlers) /\ handlers'[k] = handlers[k + 1]
           /\ \A id : Queued(id) <=> Queued(id)' \/ id = Head(handlers).id
<1>1. /\ handlers' \in Seq(HandlerType)
      /\ Len(handlers) \in Nat /\ Len(handlers) >= 1
      /\ Head(handlers) \in HandlerType
      /\ Len(handlers') = Len(handlers) - 1
      /\ Head(handlers) = handlers[1]
      /\ \A k \in 1 .. Len(handlers) - 1 : handlers'[k] = handlers[k + 1]
  <2>1. handlers \in Seq(HandlerType)
    BY DEF TimerTypes
  <2> QED BY <2>1, TailFacts
<1>2. \A k \in 1 .. Len(handlers') : k + 1 \in 1 .. Len(handlers) /\ handlers'[k] = handlers[k + 1]
  BY <1>1
<1>3. ASSUME NEW id, Queued(id)
      PROVE  Queued(id)' \/ id = Head(handlers).id
  <2>1. PICK k \in 1 .. Len(handlers) : handlers[k].id = id
    BY <1>3 DEF Queued
  <2>2. k # 1 => k - 1 \in 1 .. Len(handlers') /\ handlers'[k - 1] = handlers[k]
    BY <1>1
  <2> QED BY <1>1, <2>1, <2>2 DEF Queued
<1>4. ASSUME NEW id, Queued(id)' \/ id = Head(handlers).id
      PROVE  Queued(id)
  BY <1>1, <1>2, <1>4 DEF Queued
<1> QED BY <1>1, <1>2, <1>3, <1>4

\* cancel() of the timers in S queues one failed handler for each pending wait.
LEMMA CancelQueues ==
    ASSUME TimerTypes, OnePlace, NEW S, CancelWaits(S)
    PROVE  /\ armed' = armed \ S
           /\ handlers' \in Seq(HandlerType)
           /\ \A id : Queued(id) => Queued(id)'
           /\ \A id : Queued(id)' => Queued(id) \/ id \in S \cap armed
           /\ \A j, k \in 1 .. Len(handlers') : handlers'[j].id = handlers'[k].id => j = k
           /\ \A k \in 1 .. Len(handlers') : handlers'[k].ok =>
                \E j \in 1 .. Len(handlers) : handlers[j] = handlers'[k]
<1> DEFINE hit == S \cap armed
           n == Cardinality(hit)
<1>1. PICK order \in [1 .. n -> hit] :
         /\ \A j, k \in DOMAIN order : j < k => order[j] < order[k]
         /\ handlers' = handlers \o [k \in DOMAIN order |-> [id |-> order[k], ok |-> FALSE]]
  BY DEF CancelWaits
<1>2. DOMAIN order = 1 .. n /\ \A k \in 1 .. n : order[k] \in hit
  BY <1>1
<1>3. n \in Nat
  <2>1. MaxId \in Int /\ 1 \in Int
    BY TimerAssumption
  <2>2. IsFiniteSet(Ids)
    BY <2>1, FS_Interval DEF Ids
  <2>3. hit \subseteq Ids
    BY DEF TimerTypes, TimerTypeOK
  <2> QED BY <2>2, <2>3, FS_Subset, FS_CardinalityType
<1>4. \A k \in 1 .. n : order[k] \in Ids /\ order[k] \in Nat
  <2>1. hit \subseteq Ids
    BY DEF TimerTypes, TimerTypeOK
  <2>2. Ids \subseteq Nat
    BY TimerAssumption DEF Ids
  <2> QED BY <1>2, <2>1, <2>2
<1> DEFINE extra == [k \in 1 .. n |-> [id |-> order[k], ok |-> FALSE]]
<1>5. handlers' = handlers \o extra
  BY <1>1, <1>2
<1> HIDE DEF n, hit
<1>6. extra \in Seq(HandlerType) /\ Len(extra) = n
  BY <1>3, <1>4 DEF HandlerType
<1>7. \A k \in 1 .. n : extra[k].id = order[k] /\ extra[k].ok = FALSE
  OBVIOUS
<1> HIDE DEF extra
<1>8. /\ handlers' \in Seq(HandlerType)
      /\ Len(handlers') = Len(handlers) + n
      /\ Len(handlers) \in Nat
      /\ \A k \in 1 .. Len(handlers) : handlers'[k] = handlers[k]
      /\ \A k \in 1 .. n : handlers'[Len(handlers) + k] = extra[k]
  <2>1. handlers \in Seq(HandlerType)
    BY DEF TimerTypes
  <2> QED BY <1>5, <1>6, <2>1, Concatenation
<1>9. \A k \in Len(handlers) + 1 .. Len(handlers') :
         k - Len(handlers) \in 1 .. n /\ handlers'[k] = extra[k - Len(handlers)]
  <2> TAKE k \in Len(handlers) + 1 .. Len(handlers')
  <2> DEFINE i == k - Len(handlers)
  <2>1. i \in 1 .. n /\ k = Len(handlers) + i
    BY <1>3, <1>8
  <2> HIDE DEF i
  <2>2. handlers'[k] = extra[i]
    BY <1>8, <2>1
  <2> QED BY <2>1, <2>2 DEF i
<1>10. \A k \in 1 .. Len(handlers') :
         k \in 1 .. Len(handlers) \/ k \in Len(handlers) + 1 .. Len(handlers')
  BY <1>3, <1>8
<1>11. \A k \in Len(handlers) + 1 .. Len(handlers') :
          handlers'[k].id \in hit /\ handlers'[k].ok = FALSE
  BY <1>2, <1>7, <1>9
<1>12. \A j, k \in 1 .. n : order[j] = order[k] => j = k
  BY <1>1, <1>2, <1>3, <1>4
<1>13. \A k \in 1 .. Len(handlers) : handlers[k].id \notin hit
  BY DEF OnePlace, Queued, hit
<1>14. ASSUME NEW j \in 1 .. Len(handlers'), NEW k \in 1 .. Len(handlers'),
              handlers'[j].id = handlers'[k].id
       PROVE  j = k
  <2>1. CASE j \in 1 .. Len(handlers) /\ k \in 1 .. Len(handlers)
    BY <1>8, <1>14, <2>1 DEF OnePlace
  <2>2. CASE j \in Len(handlers) + 1 .. Len(handlers') /\ k \in Len(handlers) + 1 .. Len(handlers')
    <3>1. /\ j - Len(handlers) \in 1 .. n /\ handlers'[j].id = order[j - Len(handlers)]
          /\ k - Len(handlers) \in 1 .. n /\ handlers'[k].id = order[k - Len(handlers)]
      BY <1>7, <1>9, <2>2
    <3>2. j - Len(handlers) = k - Len(handlers)
      BY <1>12, <1>14, <3>1
    <3> QED BY <1>8, <3>2
  <2>3. CASE j \in 1 .. Len(handlers) /\ k \in Len(handlers) + 1 .. Len(handlers')
    BY <1>8, <1>11, <1>13, <1>14, <2>3
  <2>4. CASE k \in 1 .. Len(handlers) /\ j \in Len(handlers) + 1 .. Len(handlers')
    BY <1>8, <1>11, <1>13, <1>14, <2>4
  <2> QED BY <1>10, <2>1, <2>2, <2>3, <2>4
<1>15. \A k \in 1 .. Len(handlers') : handlers'[k].ok =>
          \E j \in 1 .. Len(handlers) : handlers[j] = handlers'[k]
  BY <1>8, <1>10, <1>11
<1>16. \A id : Queued(id) => Queued(id)'
  BY <1>3, <1>8 DEF Queued
<1>17. \A id : Queued(id)' => Queued(id) \/ id \in hit
  BY <1>8, <1>10, <1>11 DEF Queued
<1>18. armed' = armed \ S
  BY DEF CancelWaits
<1> QED BY <1>8, <1>14, <1>15, <1>16, <1>17, <1>18 DEF hit

-------------------------------------------------------------------------------
(* One lemma per action: it preserves the inductive invariant. *)

\* An id is a number other than 0.
LEMMA IdFacts == Ids \subseteq Nat /\ 0 \notin Ids /\ MaxId \in Nat /\ MaxFires \in Nat
BY TimerAssumption DEF Ids

\* A caller between calls.
LEMMA ReadyType == Ready \in CallType /\ Ready.do = "none"
BY IdFacts DEF Ready, CallType, CallNames

\* The initial state.
LEMMA InitHolds == TimerInit => TimerIInv
<1> SUFFICES ASSUME TimerInit PROVE TimerIInv
  OBVIOUS
<1>0. Len(handlers) = 0 /\ handlers \in Seq(HandlerType) /\ \A id : ~Queued(id)
  BY DEF TimerInit, Queued
<1>1. pc \in [Callers -> CallType]
  BY ReadyType DEF TimerInit
<1>2. TimerTypeOK
  <2>1. named \in [TimerNames -> 0 .. MaxId] /\ \A id \in Ids : fired[id] <= MaxFires
    BY IdFacts DEF TimerInit
  <2>2. nextId \in 1 .. MaxId + 1 /\ current \in 0 .. MaxId
    BY IdFacts DEF TimerInit
  <2> QED BY <2>1, <2>2 DEF TimerInit, TimerTypeOK
<1>3. TimerTypes
  BY <1>0, <1>1, <1>2 DEF TimerTypes, TimerInit
<1>4. ManagedIsAlive /\ CancelIsFinal /\ StoppedIsQuiet
  BY IdFacts DEF TimerInit, ManagedIsAlive, CancelIsFinal, StoppedIsQuiet
<1>5. OnePlace /\ FreshIds /\ PastInv
  BY <1>0, IdFacts DEF TimerInit, OnePlace, FreshIds, PastInv
<1> QED BY <1>3, <1>4, <1>5 DEF TimerIInv

\* A wait that expires is replaced by its queued handler.
LEMMA ExpireKeeps == ASSUME TimerIInv, NEW id \in Ids, Expire(id) PROVE TimerIInv'
<1> DEFINE h == [id |-> id, ok |-> TRUE]
<1>0. /\ TimerTypes /\ h \in HandlerType /\ handlers' = Append(handlers, h)
      /\ h.id = id
  BY DEF TimerIInv, Expire, HandlerType
<1> HIDE DEF h
<1>1. /\ handlers' \in Seq(HandlerType)
      /\ Len(handlers') = Len(handlers) + 1 /\ Len(handlers) \in Nat
      /\ \A k \in 1 .. Len(handlers) : handlers'[k] = handlers[k]
      /\ handlers'[Len(handlers')] = h
      /\ \A i : Queued(i)' <=> Queued(i) \/ i = id
  <2>1. handlers \in Seq(HandlerType)
    BY DEF TimerIInv, TimerTypes
  <2>2. Len(handlers) \in Nat
    BY <2>1
  <2> QED BY <1>0, <2>2, AppendQueues
<1>2. \A k \in 1 .. Len(handlers') : k \in 1 .. Len(handlers) \/ k = Len(handlers')
  BY <1>1
<1>3. /\ id \in armed /\ armed' = armed \ {id} /\ fired[id] < MaxFires
      /\ UNCHANGED <<running, nextId, timers, named, periodic, ioStopped, io, current, pc, control,
                     starts, fired, cancelled, late>>
  BY DEF Expire
<1>4. TimerTypes'
  BY <1>1, <1>3 DEF TimerIInv, TimerTypes, TimerTypeOK
<1>5. ManagedIsAlive' /\ CancelIsFinal' /\ StoppedIsQuiet'
  BY <1>1, <1>3 DEF TimerIInv, ManagedIsAlive, CancelIsFinal, StoppedIsQuiet
<1>6. OnePlace'
  <2>1. ~Queued(id) /\ current # id
    BY <1>3 DEF TimerIInv, OnePlace
  <2>2. \A i \in armed' : ~Queued(i)' /\ current' # i
    BY <1>1, <1>3 DEF TimerIInv, OnePlace
  <2>3. ASSUME NEW j \in 1 .. Len(handlers'), NEW k \in 1 .. Len(handlers'),
               handlers'[j].id = handlers'[k].id
        PROVE  j = k
    BY <1>0, <1>1, <1>2, <2>1, <2>3 DEF TimerIInv, OnePlace, Queued
  <2>4. \A k \in 1 .. Len(handlers') : handlers'[k].id # current'
    BY <1>0, <1>1, <1>2, <1>3, <2>1 DEF TimerIInv, OnePlace
  <2> QED BY <1>3, <2>2, <2>3, <2>4 DEF TimerIInv, OnePlace
<1>7. FreshIds'
  BY <1>1, <1>3 DEF TimerIInv, FreshIds, ManagedIsAlive
<1>8. PastInv'
  <2>1. id \in timers
    BY <1>3 DEF TimerIInv, ManagedIsAlive
  <2>2. \A i \in Ids : late'[i] >= 1 => i \in cancelled' /\ ~Queued(i)'
    BY <1>1, <1>3, <2>1 DEF TimerIInv, PastInv
  <2>3. \A i \in Ids \ periodic' : fired'[i] >= 1 => i \notin armed' /\ ~Queued(i)'
    BY <1>1, <1>3 DEF TimerIInv, PastInv
  <2>4. \A k \in 1 .. Len(handlers') : handlers'[k].ok => fired'[handlers'[k].id] < MaxFires
    BY <1>0, <1>1, <1>2, <1>3 DEF TimerIInv, PastInv
  <2> QED BY <1>3, <2>2, <2>3, <2>4 DEF TimerIInv, PastInv
<1> QED BY <1>4, <1>5, <1>6, <1>7, <1>8 DEF TimerIInv

\* A step that changes neither the map, nor asio's side of it, nor a history keeps
\* what relates them.
LEMMA QuietStep ==
    ASSUME TimerIInv, TimerTypes', StoppedIsQuiet',
           UNCHANGED <<nextId, timers, periodic, armed, handlers, current, fired, cancelled, late>>,
           io' \in {"callback", "after"} <=> io \in {"callback", "after"}
    PROVE  TimerIInv'
<1>1. \A id : Queued(id)' <=> Queued(id)
  BY DEF Queued
<1>2. ManagedIsAlive' /\ CancelIsFinal'
  BY <1>1 DEF TimerIInv, ManagedIsAlive, CancelIsFinal
<1>3. OnePlace'
  BY <1>1 DEF TimerIInv, OnePlace
<1>4. FreshIds' /\ PastInv'
  BY <1>1 DEF TimerIInv, FreshIds, PastInv
<1> QED BY <1>2, <1>3, <1>4 DEF TimerIInv

\* A new timer is entered and its wait begins.
LEMMA AddKeeps ==
    ASSUME TimerIInv, NEW p \in Callers, NEW interval \in BOOLEAN, NEW name \in CallNames,
           AddTimerInternal(p, interval, name)
    PROVE  TimerIInv'
<1>1. /\ nextId \in Ids /\ nextId' = nextId + 1
      /\ timers' = timers \cup {nextId} /\ armed' = armed \cup {nextId}
      /\ periodic \subseteq periodic' /\ periodic' \subseteq periodic \cup {nextId}
      /\ UNCHANGED <<running, named, handlers, ioStopped, io, current, control, starts, fired,
                     cancelled, late>>
  <2>1. nextId \in 1 .. MaxId + 1 /\ nextId <= MaxId /\ MaxId \in Nat
    BY IdFacts DEF TimerIInv, TimerTypes, TimerTypeOK, AddTimerInternal
  <2>2. nextId \in Ids
    BY <2>1 DEF Ids
  <2> QED BY <2>2 DEF AddTimerInternal
<1>a. nextId \in Nat /\ 1 <= nextId /\ nextId <= MaxId /\ MaxId \in Nat
  BY <1>1, IdFacts DEF Ids
<1>2. /\ nextId \notin timers /\ nextId \notin cancelled /\ ~Queued(nextId) /\ current # nextId
      /\ fired[nextId] = 0 /\ late[nextId] = 0 /\ nextId \in Nat
  BY <1>1, <1>a DEF TimerIInv, FreshIds
<1>3. \A id : Queued(id)' <=> Queued(id)
  BY <1>1 DEF Queued
<1>4. TimerTypes'
  <2>1. pc' \in [Callers -> CallType]
    <3>1. nextId \in 0 .. MaxId
      BY <1>a
    <3>2. [do |-> "name", name |-> name, id |-> nextId] \in CallType
      BY <3>1 DEF CallType
    <3> QED BY <3>2, ReadyType DEF TimerIInv, TimerTypes, AddTimerInternal
  <2>2. nextId' \in 1 .. MaxId + 1
    BY <1>1, <1>a
  <2>3. TimerTypeOK'
    BY <1>1, <2>2 DEF TimerIInv, TimerTypes, TimerTypeOK
  <2> QED BY <1>1, <2>1, <2>3 DEF TimerIInv, TimerTypes
<1>5. ManagedIsAlive' /\ StoppedIsQuiet'
  BY <1>1, <1>3 DEF TimerIInv, ManagedIsAlive, StoppedIsQuiet
<1>6. CancelIsFinal'
  BY <1>1 DEF TimerIInv, CancelIsFinal
<1>7. OnePlace'
  BY <1>1, <1>2, <1>3 DEF TimerIInv, OnePlace
<1>8. FreshIds'
  <2>1. \A id \in Ids : id >= nextId' => id >= nextId /\ id # nextId
    BY <1>1, <1>a, IdFacts
  <2> QED BY <1>1, <1>3, <2>1 DEF TimerIInv, FreshIds
<1>9. PastInv'
  <2>1. cancelled' \cap timers' = {}
    BY <1>1, <1>2 DEF TimerIInv, PastInv
  <2>2. \A id \in Ids \ periodic' : fired'[id] >= 1 => id \notin armed' /\ ~Queued(id)'
    BY <1>1, <1>2, <1>3 DEF TimerIInv, PastInv
  <2> QED BY <1>1, <1>3, <2>1, <2>2 DEF TimerIInv, PastInv
<1> QED BY <1>4, <1>5, <1>6, <1>7, <1>8, <1>9 DEF TimerIInv

\* The map, the waits and the queue after a cancellation of the timers in S, which
\* are all that leave the map.
LEMMA CancelKeeps ==
    ASSUME TimerIInv, TimerTypes', StoppedIsQuiet', NEW S, S \subseteq timers, CancelWaits(S),
           timers' = timers \ S, cancelled' = cancelled \cup S,
           UNCHANGED <<nextId, periodic, io, current, fired, late>>
    PROVE  TimerIInv'
<1>0. TimerTypes /\ OnePlace /\ CancelWaits(S)
  BY DEF TimerIInv
<1>1. /\ armed' = armed \ S
      /\ \A id : Queued(id) => Queued(id)'
      /\ \A id : Queued(id)' => Queued(id) \/ id \in S \cap armed
      /\ \A j, k \in 1 .. Len(handlers') : handlers'[j].id = handlers'[k].id => j = k
      /\ \A k \in 1 .. Len(handlers') : handlers'[k].ok =>
           \E j \in 1 .. Len(handlers) : handlers[j] = handlers'[k]
  BY <1>0, CancelQueues
<1>2. ManagedIsAlive' /\ CancelIsFinal'
  BY <1>1 DEF TimerIInv, ManagedIsAlive, CancelIsFinal
<1>3. OnePlace'
  <2>1. \A id \in armed' : ~Queued(id)' /\ current' # id
    BY <1>1 DEF TimerIInv, OnePlace
  <2>2. ASSUME NEW k \in 1 .. Len(handlers')
        PROVE  handlers'[k].id # current'
    <3>1. ~Queued(current) /\ current \notin armed
      BY DEF TimerIInv, OnePlace, Queued
    <3> QED BY <1>1, <3>1 DEF Queued
  <2> QED BY <1>1, <2>1, <2>2 DEF TimerIInv, OnePlace
<1>4. FreshIds'
  BY <1>1 DEF TimerIInv, FreshIds, ManagedIsAlive
<1>5. PastInv'
  <2>1. cancelled' \cap timers' = {}
    BY DEF TimerIInv, PastInv
  <2>2. \A id \in Ids : late'[id] >= 1 => id \in cancelled' /\ ~Queued(id)'
    BY <1>1 DEF TimerIInv, PastInv
  <2>3. \A id \in Ids \ periodic' : fired'[id] >= 1 => id \notin armed' /\ ~Queued(id)'
    BY <1>1 DEF TimerIInv, PastInv
  <2>4. \A k \in 1 .. Len(handlers') : handlers'[k].ok => fired'[handlers'[k].id] < MaxFires
    BY <1>1 DEF TimerIInv, PastInv
  <2> QED BY <2>1, <2>2, <2>3, <2>4 DEF TimerIInv, PastInv
<1> QED BY <1>2, <1>3, <1>4, <1>5 DEF TimerIInv

\* The critical section of Cancel(), whatever its caller does besides.
LEMMA CancelOfKeeps ==
    ASSUME TimerIInv, NEW id, CancelOf(id), pc' \in [Callers -> CallType],
           UNCHANGED <<running, nextId, named, periodic, ioStopped, io, current, control, starts,
                       fired, late>>
    PROVE  TimerIInv'
<1>1. StoppedIsQuiet'
  BY DEF TimerIInv, StoppedIsQuiet
<1>2. CASE id \in timers
  <2>1. /\ CancelWaits({id}) /\ timers' = timers \ {id} /\ cancelled' = cancelled \cup {id}
        /\ {id} \subseteq timers
    BY <1>2 DEF CancelOf
  <2>2. armed' = armed \ {id} /\ handlers' \in Seq(HandlerType)
    BY <2>1, CancelQueues DEF TimerIInv
  <2>3. TimerTypes'
    BY <2>1, <2>2 DEF TimerIInv, TimerTypes, TimerTypeOK
  <2> QED BY <1>1, <2>1, <2>3, CancelKeeps
<1>3. CASE id \notin timers
  <2>1. UNCHANGED <<timers, armed, handlers, cancelled>>
    BY <1>3 DEF CancelOf
  <2>2. TimerTypes'
    BY <2>1 DEF TimerIInv, TimerTypes, TimerTypeOK
  <2> QED BY <1>1, <2>1, <2>2, QuietStep
<1> QED BY <1>2, <1>3

\* The calls of a user, or of a callback, that are not over in one critical section.
LEMMA CallKeeps ==
    ASSUME TimerIInv, NEW p \in Callers,
           \/ AddNamedTimerName(p) \/ CancelNamedTimerId(p)
           \/ \E n \in TimerNames : CancelNamedTimer(p, n)
           \/ \E id \in Ids : Cancel(p, id)
    PROVE  TimerIInv'
<1>0. pc \in [Callers -> CallType] /\ pc[p] \in CallType
  BY DEF TimerIInv, TimerTypes
<1>1. pc[p].id \in 0 .. MaxId
  BY <1>0 DEF CallType
<1>2. CASE AddNamedTimerName(p)
  <2>1. named' \in [TimerNames -> 0 .. MaxId]
    BY <1>1, <1>2 DEF AddNamedTimerName, TimerIInv, TimerTypes, TimerTypeOK
  <2>2. pc' \in [Callers -> CallType]
    BY <1>0, <1>2, ReadyType DEF AddNamedTimerName
  <2>3. TimerTypes' /\ StoppedIsQuiet'
    BY <1>2, <2>1, <2>2 DEF AddNamedTimerName, TimerIInv, TimerTypes, TimerTypeOK, StoppedIsQuiet
  <2> QED BY <1>2, <2>3, QuietStep DEF AddNamedTimerName
<1>3. CASE CancelNamedTimerId(p)
  <2>1. pc' \in [Callers -> CallType]
    BY <1>0, <1>3, ReadyType DEF CancelNamedTimerId
  <2> QED BY <1>3, <2>1, CancelOfKeeps DEF CancelNamedTimerId
<1>4. ASSUME NEW n \in TimerNames, CancelNamedTimer(p, n)
      PROVE  TimerIInv'
  <2>1. named \in [TimerNames -> 0 .. MaxId] /\ 0 \in 0 .. MaxId
    BY IdFacts DEF TimerIInv, TimerTypes, TimerTypeOK
  <2>2. named' \in [TimerNames -> 0 .. MaxId]
    BY <1>4, <2>1 DEF CancelNamedTimer
  <2>3. [do |-> "cancel", name |-> n, id |-> named[n]] \in CallType
    BY <2>1 DEF CallType, CallNames
  <2>4. pc' \in [Callers -> CallType]
    BY <1>0, <1>4, <2>3 DEF CancelNamedTimer
  <2>5. TimerTypes' /\ StoppedIsQuiet'
    BY <1>4, <2>2, <2>4 DEF CancelNamedTimer, TimerIInv, TimerTypes, TimerTypeOK, StoppedIsQuiet
  <2> QED BY <1>4, <2>5, QuietStep DEF CancelNamedTimer
<1>5. ASSUME NEW id \in Ids, Cancel(p, id)
      PROVE  TimerIInv'
  <2>1. pc' \in [Callers -> CallType]
    BY <1>0, <1>5 DEF Cancel
  <2> QED BY <1>5, <2>1, CancelOfKeeps DEF Cancel
<1> QED BY <1>2, <1>3, <1>4, <1>5

\* The handler of a cancelled wait takes the timer out of the map.
LEMMA FailedHandlerKeeps ==
    ASSUME TimerIInv, HandlerBegin, ~Head(handlers).ok, UNCHANGED <<io, current, fired, late>>,
           timers' = timers \ {Head(handlers).id}
    PROVE  TimerIInv'
<1> DEFINE h == Head(handlers)
<1>0. TimerTypes /\ handlers # <<>> /\ handlers' = Tail(handlers)
  BY DEF HandlerBegin, TimerIInv
<1>1. /\ handlers' \in Seq(HandlerType) /\ h \in HandlerType
      /\ 1 \in 1 .. Len(handlers) /\ h = handlers[1]
      /\ \A k \in 1 .. Len(handlers') : k + 1 \in 1 .. Len(handlers) /\ handlers'[k] = handlers[k + 1]
      /\ \A id : Queued(id) <=> Queued(id)' \/ id = h.id
  BY <1>0, TailQueues
<1>2. UNCHANGED <<running, nextId, named, periodic, armed, ioStopped, pc, control, starts, cancelled>>
  BY DEF HandlerBegin
<1>3. timers' = timers \ {h.id} /\ Queued(h.id)
  BY <1>1
<1> HIDE DEF h
<1>4. TimerTypes'
  BY <1>1, <1>2, <1>3 DEF TimerIInv, TimerTypes, TimerTypeOK
<1>5. ManagedIsAlive' /\ CancelIsFinal' /\ StoppedIsQuiet'
  BY <1>1, <1>2, <1>3 DEF TimerIInv, OnePlace, ManagedIsAlive, CancelIsFinal, StoppedIsQuiet
<1>6. OnePlace'
  <2>1. \A j, k \in 1 .. Len(handlers') : handlers'[j].id = handlers'[k].id => j = k
    BY <1>1 DEF TimerIInv, OnePlace
  <2> QED BY <1>1, <1>2, <2>1 DEF TimerIInv, OnePlace
<1>7. FreshIds'
  BY <1>1, <1>2, <1>3 DEF TimerIInv, FreshIds
<1>8. PastInv'
  BY <1>1, <1>2, <1>3 DEF TimerIInv, PastInv
<1> QED BY <1>4, <1>5, <1>6, <1>7, <1>8 DEF TimerIInv

\* The handler of an expired wait begins the callback.
LEMMA CallbackBeginKeeps ==
    ASSUME TimerIInv, HandlerBegin, Head(handlers).ok, io' = "callback", current' = Head(handlers).id,
           fired' = [fired EXCEPT ![Head(handlers).id] = @ + 1],
           late' = IF Head(handlers).id \in cancelled THEN [late EXCEPT ![Head(handlers).id] = @ + 1]
                   ELSE late,
           timers' = timers
    PROVE  TimerIInv'
<1> DEFINE h == Head(handlers)
<1>0. TimerTypes /\ handlers # <<>> /\ handlers' = Tail(handlers)
  BY DEF HandlerBegin, TimerIInv
<1>1. /\ handlers' \in Seq(HandlerType) /\ h \in HandlerType
      /\ 1 \in 1 .. Len(handlers) /\ h = handlers[1]
      /\ \A k \in 1 .. Len(handlers') : k + 1 \in 1 .. Len(handlers) /\ handlers'[k] = handlers[k + 1]
      /\ \A id : Queued(id) <=> Queued(id)' \/ id = h.id
  BY <1>0, TailQueues
<1>2. UNCHANGED <<running, nextId, named, periodic, armed, ioStopped, pc, control, starts, cancelled>>
  BY DEF HandlerBegin
<1>3. /\ h.id \in Ids /\ h.id # 0 /\ Queued(h.id) /\ current' = h.id
      /\ io = "run" /\ current = 0
  BY <1>1, IdFacts DEF HandlerBegin, HandlerType, TimerIInv, OnePlace
<1>4. \A k \in 1 .. Len(handlers') : handlers'[k].id # h.id
  <2>1. ASSUME NEW k \in 1 .. Len(handlers'), handlers'[k].id = h.id
        PROVE  FALSE
    <3>1. k + 1 = 1
      BY <1>1, <2>1 DEF TimerIInv, OnePlace
    <3> QED BY <1>1, <3>1
  <2> QED BY <2>1
<1>5. ~\E k \in 1 .. Len(handlers') : handlers'[k].id = h.id
  BY <1>4
<1>6. /\ fired \in [Ids -> Nat] /\ late \in [Ids -> Nat]
      /\ fired' \in [Ids -> Nat] /\ late' \in [Ids -> Nat]
      /\ fired'[h.id] = fired[h.id] + 1
      /\ late'[h.id] = IF h.id \in cancelled THEN late[h.id] + 1 ELSE late[h.id]
      /\ \A id \in Ids : id # h.id => fired'[id] = fired[id] /\ late'[id] = late[id]
  BY <1>3 DEF TimerIInv, TimerTypes
<1>7. /\ h.id \notin armed /\ fired[h.id] < MaxFires /\ late[h.id] = 0 /\ h.id < nextId
      /\ h.id \notin periodic => fired[h.id] = 0
  <2>1. h.id \notin armed /\ fired[h.id] < MaxFires /\ ~(late[h.id] >= 1) /\ ~(h.id >= nextId)
    BY <1>1, <1>3 DEF TimerIInv, OnePlace, PastInv, FreshIds
  <2>2. h.id \notin periodic => ~(fired[h.id] >= 1)
    BY <1>1, <1>3 DEF TimerIInv, PastInv
  <2>3. nextId \in Nat /\ h.id \in Nat /\ fired[h.id] \in Nat /\ late[h.id] \in Nat
    <3>1. nextId \in 1 .. MaxId + 1
      BY DEF TimerIInv, TimerTypes, TimerTypeOK
    <3>2. nextId \in Nat
      BY <3>1, IdFacts
    <3> QED BY <1>3, <1>6, <3>2, IdFacts
  <2> QED BY <2>1, <2>2, <2>3
<1> HIDE DEF h
<1>8. TimerTypes'
  <2>1. \A id \in Ids : fired'[id] <= MaxFires
    BY <1>3, <1>6, <1>7, IdFacts DEF TimerIInv, TimerTypes, TimerTypeOK
  <2>2. current' \in 0 .. MaxId
    BY <1>3 DEF Ids
  <2>3. TimerTypeOK'
    BY <1>2, <2>1, <2>2 DEF TimerIInv, TimerTypes, TimerTypeOK
  <2> QED BY <1>1, <1>2, <1>6, <2>3 DEF TimerIInv, TimerTypes
<1>9. ManagedIsAlive' /\ StoppedIsQuiet'
  <2>1. 0 \notin timers
    BY IdFacts DEF TimerIInv, TimerTypes, TimerTypeOK
  <2> QED BY <1>1, <1>2, <1>3, <2>1 DEF TimerIInv, ManagedIsAlive, StoppedIsQuiet
<1>10. CancelIsFinal'
  BY <1>2, <1>3, <1>6, <1>7 DEF TimerIInv, CancelIsFinal
<1>11. OnePlace'
  <2>1. \A j, k \in 1 .. Len(handlers') : handlers'[j].id = handlers'[k].id => j = k
    BY <1>1 DEF TimerIInv, OnePlace
  <2>2. \A id \in armed' : ~Queued(id)' /\ current' # id
    BY <1>1, <1>2, <1>3, <1>7 DEF TimerIInv, OnePlace
  <2> QED BY <1>3, <1>4, <2>1, <2>2 DEF OnePlace
<1>12. FreshIds'
  <2>1. \A id \in Ids : id >= nextId => id # h.id
    BY <1>7, <1>3, IdFacts DEF TimerIInv, TimerTypes, TimerTypeOK
  <2> QED BY <1>1, <1>2, <1>3, <1>6, <2>1 DEF TimerIInv, FreshIds
<1>13. PastInv'
  <2>0. \A id : Queued(id)' => Queued(id) /\ id # h.id
    BY <1>1, <1>5 DEF Queued
  <2>1. \A id \in Ids : late'[id] >= 1 => id \in cancelled' /\ ~Queued(id)'
    BY <1>2, <1>3, <1>6, <1>7, <2>0 DEF TimerIInv, PastInv
  <2>2. \A id \in Ids \ periodic' : fired'[id] >= 1 => id \notin armed' /\ ~Queued(id)'
    BY <1>2, <1>3, <1>6, <1>7, <2>0 DEF TimerIInv, PastInv
  <2>3. ASSUME NEW k \in 1 .. Len(handlers'), handlers'[k].ok
        PROVE  fired'[handlers'[k].id] < MaxFires
    <3>1. handlers'[k] \in HandlerType
      BY <1>1
    <3>2. handlers'[k].id \in Ids /\ handlers'[k].id # h.id
      BY <1>4, <3>1 DEF HandlerType
    <3>3. k + 1 \in 1 .. Len(handlers) /\ handlers[k + 1].ok /\ handlers[k + 1] = handlers'[k]
      BY <1>1, <2>3
    <3>4. fired[handlers'[k].id] < MaxFires
      BY <3>3 DEF TimerIInv, PastInv
    <3> QED BY <1>6, <3>2, <3>4
  <2> QED BY <1>2, <2>1, <2>2, <2>3 DEF TimerIInv, PastInv
<1> QED BY <1>8, <1>9, <1>10, <1>11, <1>12, <1>13 DEF TimerIInv

\* After a callback, a periodic timer that is still managed waits again.
LEMMA RescheduleKeeps == ASSUME TimerIInv, Reschedule PROVE TimerIInv'
<1>1. /\ io = "after" /\ current \in periodic /\ io' = "run" /\ current' = 0
      /\ armed' = IF current \in timers THEN armed \cup {current} ELSE armed
      /\ UNCHANGED <<running, nextId, timers, named, periodic, handlers, ioStopped, pc, control, starts,
                     fired, cancelled, late>>
  BY DEF Reschedule
<1>2. /\ current \in Ids /\ ~Queued(current) /\ 0 \notin armed' /\ armed' \subseteq Ids
  BY <1>1, IdFacts DEF TimerIInv, TimerTypes, TimerTypeOK, OnePlace, Queued
<1>3. \A id : Queued(id)' <=> Queued(id)
  BY <1>1 DEF Queued
<1>4. TimerTypes'
  <2>1. 0 \in 0 .. MaxId
    BY IdFacts
  <2> QED BY <1>1, <1>2, <2>1 DEF TimerIInv, TimerTypes, TimerTypeOK
<1>5. ManagedIsAlive' /\ CancelIsFinal' /\ StoppedIsQuiet'
  BY <1>1, <1>3 DEF TimerIInv, ManagedIsAlive, CancelIsFinal, StoppedIsQuiet
<1>6. OnePlace'
  <2>1. \A id \in armed' : ~Queued(id)' /\ current' # id
    BY <1>1, <1>2, <1>3 DEF TimerIInv, OnePlace
  <2>2. ASSUME NEW k \in 1 .. Len(handlers') PROVE handlers'[k].id # current'
    <3>1. handlers'[k] \in HandlerType
      BY <1>4 DEF TimerTypes
    <3> QED BY <1>1, <3>1, IdFacts DEF HandlerType
  <2> QED BY <1>1, <2>1, <2>2 DEF TimerIInv, OnePlace
<1>7. FreshIds'
  BY <1>1, <1>3, IdFacts DEF TimerIInv, FreshIds
<1>8. PastInv'
  BY <1>1, <1>3 DEF TimerIInv, PastInv
<1> QED BY <1>4, <1>5, <1>6, <1>7, <1>8 DEF TimerIInv

\* After its callback a one-shot timer leaves the map.
LEMMA OneShotDoneKeeps == ASSUME TimerIInv, OneShotDone PROVE TimerIInv'
<1>1. /\ io = "after" /\ io' = "run" /\ current' = 0
      /\ timers' = timers \ {current}
      /\ UNCHANGED <<running, nextId, named, periodic, armed, handlers, ioStopped, pc, control, starts,
                     fired, cancelled, late>>
  BY DEF OneShotDone
<1>2. current \notin armed /\ 0 \notin armed
  BY IdFacts DEF TimerIInv, TimerTypes, TimerTypeOK, OnePlace
<1>3. \A id : Queued(id)' <=> Queued(id)
  BY <1>1 DEF Queued
<1>4. TimerTypes'
  <2>1. 0 \in 0 .. MaxId
    BY IdFacts
  <2> QED BY <1>1, <2>1 DEF TimerIInv, TimerTypes, TimerTypeOK
<1>5. ManagedIsAlive' /\ CancelIsFinal' /\ StoppedIsQuiet'
  BY <1>1, <1>2, <1>3 DEF TimerIInv, ManagedIsAlive, CancelIsFinal, StoppedIsQuiet
<1>6. OnePlace'
  <2>1. \A id \in armed' : ~Queued(id)' /\ current' # id
    BY <1>1, <1>2, <1>3 DEF TimerIInv, OnePlace
  <2>2. ASSUME NEW k \in 1 .. Len(handlers') PROVE handlers'[k].id # current'
    <3>1. handlers'[k] \in HandlerType
      BY <1>4 DEF TimerTypes
    <3> QED BY <1>1, <3>1, IdFacts DEF HandlerType
  <2> QED BY <1>1, <2>1, <2>2 DEF TimerIInv, OnePlace
<1>7. FreshIds'
  BY <1>1, <1>3, IdFacts DEF TimerIInv, FreshIds
<1>8. PastInv'
  BY <1>1, <1>3 DEF TimerIInv, PastInv
<1> QED BY <1>4, <1>5, <1>6, <1>7, <1>8 DEF TimerIInv

\* Stop() cancels every timer of the map.
LEMMA StopKeeps == ASSUME TimerIInv, TimerStop PROVE TimerIInv'
<1>1. /\ CancelWaits(timers) /\ timers' = timers \ timers /\ cancelled' = cancelled \cup timers
      /\ UNCHANGED <<nextId, named, periodic, ioStopped, io, current, pc, starts, fired, late>>
      /\ control' = "stopping" /\ running' = FALSE
  BY DEF TimerStop
<1>2. armed' = armed \ timers /\ handlers' \in Seq(HandlerType)
  BY <1>1, CancelQueues DEF TimerIInv
<1>3. TimerTypes' /\ StoppedIsQuiet'
  BY <1>1, <1>2 DEF TimerIInv, TimerTypes, TimerTypeOK, StoppedIsQuiet
<1> QED BY <1>1, <1>3, CancelKeeps

\* The steps of the io thread and of the controlling thread that move nothing but
\* themselves.
LEMMA ControlKeeps ==
    ASSUME TimerIInv, CallbackEnd \/ IoExit \/ TimerStart \/ TimerStopIo \/ TimerStopJoin
    PROVE  TimerIInv'
<1>1. CASE CallbackEnd
  <2>1. TimerTypes' /\ StoppedIsQuiet'
    BY <1>1 DEF CallbackEnd, TimerIInv, TimerTypes, TimerTypeOK, StoppedIsQuiet
  <2> QED BY <1>1, <2>1, QuietStep DEF CallbackEnd
<1>2. CASE IoExit
  <2>1. TimerTypes' /\ StoppedIsQuiet'
    BY <1>2 DEF IoExit, TimerIInv, TimerTypes, TimerTypeOK, StoppedIsQuiet
  <2> QED BY <1>2, <2>1, QuietStep DEF IoExit
<1>3. CASE TimerStart
  <2>1. StoppedIsQuiet' /\ io = "none"
    BY <1>3 DEF TimerStart, TimerIInv, StoppedIsQuiet
  <2>2. starts' \in Nat
    BY <1>3 DEF TimerStart, TimerIInv, TimerTypes
  <2>3. TimerTypes'
    BY <1>3, <2>2 DEF TimerStart, TimerIInv, TimerTypes, TimerTypeOK
  <2> QED BY <1>3, <2>1, <2>3, QuietStep DEF TimerStart
<1>4. CASE TimerStopIo
  <2>1. TimerTypes' /\ StoppedIsQuiet'
    BY <1>4 DEF TimerStopIo, TimerIInv, TimerTypes, TimerTypeOK, StoppedIsQuiet
  <2> QED BY <1>4, <2>1, QuietStep DEF TimerStopIo
<1>5. CASE TimerStopJoin
  <2>1. TimerTypes' /\ StoppedIsQuiet'
    BY <1>5 DEF TimerStopJoin, TimerIInv, TimerTypes, TimerTypeOK, StoppedIsQuiet
  <2> QED BY <1>5, <2>1, QuietStep DEF TimerStopJoin
<1> QED BY <1>1, <1>2, <1>3, <1>4, <1>5

\* Every step preserves the inductive invariant.
LEMMA NextKeeps == TimerIInv /\ [TimerNext]_timerVars => TimerIInv'
<1> SUFFICES ASSUME TimerIInv, [TimerNext]_timerVars PROVE TimerIInv'
  OBVIOUS
<1>1. ASSUME NEW p \in Callers, UserStep(p) \/ SecondStep(p) PROVE TimerIInv'
  <2>1. "" \in CallNames /\ \A n \in TimerNames : n \in CallNames
    BY DEF CallNames
  <2>2. CASE AddTimer(p)
    BY <2>1, <2>2, AddKeeps DEF AddTimer
  <2>3. CASE AddPeriodicTimer(p)
    BY <2>1, <2>3, AddKeeps DEF AddPeriodicTimer
  <2>4. ASSUME NEW n \in TimerNames, AddNamedTimer(p, n) PROVE TimerIInv'
    BY <2>1, <2>4, AddKeeps DEF AddNamedTimer
  <2>5. \/ AddTimer(p) \/ AddPeriodicTimer(p) \/ \E n \in TimerNames : AddNamedTimer(p, n)
        \/ AddNamedTimerName(p) \/ CancelNamedTimerId(p)
        \/ (\E n \in TimerNames : CancelNamedTimer(p, n))
        \/ (\E id \in Ids : Cancel(p, id))
    BY <1>1 DEF UserStep, SecondStep
  <2> QED BY <2>2, <2>3, <2>4, <2>5, CallKeeps
<1>2. CASE HandlerBegin
  BY <1>2, FailedHandlerKeeps, CallbackBeginKeeps DEF HandlerBegin
<1>3. CASE UNCHANGED timerVars
  <2>1. TimerTypes' /\ StoppedIsQuiet'
    BY <1>3 DEF timerVars, TimerIInv, TimerTypes, TimerTypeOK, StoppedIsQuiet
  <2> QED BY <1>3, <2>1, QuietStep DEF timerVars
<1>4. \/ \E p \in Callers : UserStep(p) \/ SecondStep(p)
      \/ \E id \in Ids : Expire(id)
      \/ HandlerBegin \/ Reschedule \/ OneShotDone \/ TimerStop
      \/ (CallbackEnd \/ IoExit \/ TimerStart \/ TimerStopIo \/ TimerStopJoin)
      \/ UNCHANGED timerVars
  BY DEF TimerNext, IoStep
<1> QED BY <1>1, <1>2, <1>3, <1>4, ExpireKeeps, RescheduleKeeps, OneShotDoneKeeps, StopKeeps, ControlKeeps

\* The inductive invariant holds in every reachable state.
THEOREM TimerInductive == TimerSpec => []TimerIInv
BY InitHolds, NextKeeps, PTL DEF TimerSpec

\* CTimerManager keeps its bookkeeping and its word: the map and asio agree on
\* which timers live, Cancel() and Stop() leave at most one callback to come, a
\* one-shot timer fires at most once, and nothing runs while the manager is stopped.
THEOREM TimerInvHolds == TimerSpec => []TimerInv
<1>1. TimerIInv => TimerInv
  BY DEF TimerIInv, TimerTypes, TimerInv
<1> QED BY <1>1, TimerInductive, PTL
==============================================================================

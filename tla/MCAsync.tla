------------------------------- MODULE MCAsync -------------------------------
(* The parts of the asynchronous runtime that share no state, for TLC: each
   behaviour is one of CThreadPool, a gathering promise, CTimerManager and a
   coroutine, named by focus; the others stay as created. *)
EXTENDS ThreadPool, Gather, TimerManager, Coroutine

AwaitsTwo == <<{1}, {2, 3}>>
KindsThree == <<"read", "write", "read">>

VARIABLE focus

Focus(name, step, others) == focus = name /\ step /\ UNCHANGED <<focus, others>>

MCInit ==
    /\ focus \in {"pool", "gather", "timers", "coroutine"}
    /\ Init /\ GatherInit /\ TimerInit /\ CoInit
    /\ focus # "gather" => policy = "all" /\ nTotal = 0

\* Timers that nobody adds and a settled coroutine may rest; a pool or an
\* aggregate that comes to rest before its work is done is a deadlock.
MayRest == focus \in {"timers", "coroutine"}

MCNext ==
    \/ Focus("pool", Next, <<gatherVars, timerVars, coVars>>)
    \/ Focus("gather", GatherNext, <<vars, timerVars, coVars>>)
    \/ Focus("timers", TimerNext, <<vars, gatherVars, coVars>>)
    \/ Focus("coroutine", CoNext, <<vars, gatherVars, timerVars>>)
    \/ MayRest /\ UNCHANGED <<focus, vars, gatherVars, timerVars, coVars>>

MCSpec ==
    /\ MCInit /\ [][MCNext]_<<focus, vars, gatherVars, timerVars, coVars>>
    /\ Fairness /\ GatherFairness /\ TimerFairness /\ CoFairness

(***************************************************************************)
(* What is promised comes: an aggregate whose children are settled, a      *)
(* coroutine that was started, and a managed timer, which fires unless it  *)
(* is cancelled.                                                           *)
(***************************************************************************)
PromisesKept == AggregateSettles /\ CoroutineSettles /\ TimersFire
=============================================================================

------------------------------ MODULE FairRWLock ------------------------------
(***************************************************************************)
(* What CReadWriteGate promises its callers, without threads, pools or     *)
(* counters: tasks line up in one order, enter in exactly that order, reads*)
(* share the module and a write has it alone, and nobody who could enter   *)
(* is kept waiting once the gate has settled an arrival or a departure.    *)
(***************************************************************************)
EXTENDS Naturals, Sequences, FiniteSets

CONSTANTS ReadTasks, WriteTasks, MaxReaders

VARIABLES line,     \* every accepted task, in the order of acceptance
          entered,  \* how many of them have been let in
          active    \* the tasks inside the module

lockVars == <<line, entered, active>>

\* Who may be inside together: one write alone, or reads up to the limit
\* (MaxReaders = 0 means no limit).
Compatible(S) ==
    \/ /\ S \cap WriteTasks = {}
       /\ MaxReaders = 0 \/ Cardinality(S) <= MaxReaders
    \/ /\ S \cap ReadTasks = {}
       /\ Cardinality(S) <= 1

\* Let in the longest run of the line that is compatible with those inside.
Admit(inside) ==
    \E n \in entered..Len(line') :
        /\ entered' = n
        /\ active' = inside \cup {line'[i] : i \in (entered + 1)..n}
        /\ Compatible(active')
        /\ n < Len(line') => ~Compatible(active' \cup {line'[n + 1]})

Arrive(t) == /\ \A i \in 1..Len(line) : line[i] # t
             /\ line' = Append(line, t)
             /\ Admit(active)

Leave(t) == /\ t \in active
            /\ line' = line
            /\ Admit(active \ {t})

\* A task that was let in but could not be handed to the thread pool gives
\* its place back; nobody is let in instead.
GiveUp(t) == /\ t \in active
             /\ active' = active \ {t}
             /\ UNCHANGED <<line, entered>>

LockInit == line = <<>> /\ entered = 0 /\ active = {}

LockNext == \E t \in ReadTasks \cup WriteTasks : Arrive(t) \/ Leave(t) \/ GiveUp(t)

LockSpec == LockInit /\ [][LockNext]_lockVars
===============================================================================

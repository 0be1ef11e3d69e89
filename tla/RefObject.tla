------------------------------ MODULE RefObject ------------------------------
(***************************************************************************)
(* CRefObject, ScopedInterfacePtr and CWeakPtr (ServerCore/Module): one    *)
(* object, the strong pointers each thread holds to it and the upgrade of  *)
(* weak pointers.  The reference count is atomic and outside the mutex of  *)
(* CLifetime, which guards the alive flag only.                            *)
(*                                                                         *)
(* An object that is freed while a thread still holds a strong pointer is  *)
(* used after that: the model stops there.                                 *)
(***************************************************************************)
EXTENDS Integers, FiniteSets

CONSTANTS
    Holders,    \* threads
    Creator,    \* the thread that made the object
    MaxRefs     \* bound on the references that copies and upgrades start from

ASSUME RefAssumption == IsFiniteSet(Holders) /\ Creator \in Holders /\ MaxRefs \in Nat \ {0}

VARIABLES
    obj,      \* count (m_nRefCount), alive (CLifetime), mutex, freed
    strong,   \* ScopedInterfacePtr each thread owns
    doing,    \* what each thread is in: idle, adopting, releasing, dying, deleting, locking, upgrading
    revived   \* history: an upgrade took a count of zero

refVars == <<obj, strong, doing, revived>>

Free(t) == doing[t] = "idle"
Usable(t) == strong[t] > 0 /\ ~obj.freed
Goes(t, where) == doing' = [doing EXCEPT ![t] = where]

\* ScopedInterfacePtr copied, or made from a pointer that is held, or Self().
CopyPointer(t) ==
    /\ Free(t) /\ Usable(t) /\ obj.count < MaxRefs
    /\ obj' = [obj EXCEPT !.count = @ + 1]
    /\ strong' = [strong EXCEPT ![t] = @ + 1]
    /\ UNCHANGED <<doing, revived>>

\* Moved to another thread.
MovePointer(t, u) ==
    /\ t # u /\ Free(t) /\ strong[t] > 0
    /\ strong' = [strong EXCEPT ![t] = @ - 1, ![u] = @ + 1]
    /\ UNCHANGED <<obj, doing, revived>>

\* Mutant: the old pointer is released first.
ResetPointerReleasesFirst(t) ==
    /\ Free(t) /\ Usable(t)
    /\ obj' = [obj EXCEPT !.count = @ - 1]
    /\ Goes(t, IF obj.count = 1 THEN "dying" ELSE "adopting")
    /\ UNCHANGED <<strong, revived>>

\* Reset(ptr), where ptr is the object already held: AddRef, then Release.
ResetPointer(t) ==
    /\ Free(t) /\ Usable(t)
    /\ obj' = [obj EXCEPT !.count = @ + 1]
    /\ Goes(t, "adopting")
    /\ UNCHANGED <<strong, revived>>

\* The second half of Reset(): Release of what was held before.
ResetReleasesOld(t) ==
    /\ doing[t] = "adopting" /\ ~obj.freed
    /\ obj' = [obj EXCEPT !.count = @ - 1]
    /\ Goes(t, IF obj.count = 1 THEN "dying" ELSE "idle")
    /\ UNCHANGED <<strong, revived>>

(***************************************************************************)
(* Release: the count goes down before the mutex is taken.                 *)
(***************************************************************************)
Release(t) ==
    /\ Free(t) /\ Usable(t)
    /\ obj' = [obj EXCEPT !.count = @ - 1]
    /\ strong' = [strong EXCEPT ![t] = @ - 1]
    /\ Goes(t, IF obj.count = 1 THEN "dying" ELSE "idle")
    /\ UNCHANGED revived

\* MarkDead under the mutex, which is released before the object is deleted.
ReleaseMarksDead(t) ==
    /\ doing[t] = "dying" /\ ~obj.mutex
    /\ obj' = [obj EXCEPT !.alive = FALSE]
    /\ Goes(t, "deleting")
    /\ UNCHANGED <<strong, revived>>

\* delete this; the destructor marks dead once more, and the CLifetime expires.
ReleaseDeletes(t) ==
    /\ doing[t] = "deleting" /\ ~obj.mutex
    /\ obj' = [obj EXCEPT !.alive = FALSE, !.freed = TRUE]
    /\ Goes(t, "idle")
    /\ UNCHANGED <<strong, revived>>

(***************************************************************************)
(* CWeakPtr::Lock: the weak_ptr, the mutex and the alive flag, then AddRef. *)
(***************************************************************************)
WeakLock(t) ==
    /\ Free(t) /\ ~obj.freed /\ obj.count < MaxRefs
    /\ Goes(t, "locking")
    /\ UNCHANGED <<obj, strong, revived>>

WeakLockTests(t) ==
    /\ doing[t] = "locking" /\ ~obj.mutex
    /\ obj' = [obj EXCEPT !.mutex = obj.alive]
    /\ Goes(t, IF obj.alive THEN "upgrading" ELSE "idle")
    /\ UNCHANGED <<strong, revived>>

WeakLockAddRef(t) ==
    /\ doing[t] = "upgrading"
    /\ obj' = [obj EXCEPT !.count = @ + 1, !.mutex = FALSE]
    /\ strong' = [strong EXCEPT ![t] = @ + 1]
    /\ revived' = (revived \/ obj.count = 0)
    /\ Goes(t, "idle")

-------------------------------------------------------------------------------
RefInit ==
    /\ obj = [count |-> 1, alive |-> TRUE, mutex |-> FALSE, freed |-> FALSE]
    /\ strong = [t \in Holders |-> IF t = Creator THEN 1 ELSE 0]
    /\ doing = [t \in Holders |-> "idle"]
    /\ revived = FALSE

RefSteps(t) == ResetReleasesOld(t) \/ ReleaseMarksDead(t) \/ ReleaseDeletes(t) \/ WeakLockTests(t) \/ WeakLockAddRef(t)

RefNext ==
    \E t \in Holders :
      \/ CopyPointer(t) \/ ResetPointer(t) \/ Release(t) \/ WeakLock(t) \/ RefSteps(t)
      \/ \E u \in Holders : MovePointer(t, u)

RefSpec == RefInit /\ [][RefNext]_refVars

(***************************************************************************)
(* Properties.                                                             *)
(***************************************************************************)
Pointers == UNION {{t} \X (1..strong[t]) : t \in Holders}
In(where) == {t \in Holders : doing[t] = where}
Deleting == In("dying") \cup In("deleting")

\* The types of the object.
RefTypeOK ==
    /\ obj \in [count : Nat, alive : BOOLEAN, mutex : BOOLEAN, freed : BOOLEAN]
    /\ strong \in [Holders -> Nat] /\ revived \in BOOLEAN
    /\ doing \in [Holders -> {"idle", "adopting", "dying", "deleting", "locking", "upgrading"}]

\* The count counts the strong pointers, those of a Reset() in progress included;
\* the mutex is held by at most one upgrade.
CountExact ==
    /\ obj.count = Cardinality(Pointers) + Cardinality(In("adopting"))
    /\ Cardinality(In("upgrading")) = IF obj.mutex THEN 1 ELSE 0

\* Unless an upgrade revived the object, it is freed once, never under a strong
\* pointer, and never left behind when the last pointer is gone.
FreedExactly ==
    ~revived =>
      /\ obj.freed \/ ~obj.alive \/ Deleting # {} <=> obj.count = 0
      /\ Cardinality(Deleting) <= 1
      /\ obj.freed => Deleting = {}

\* The invariant of the reference count.
RefInv == RefTypeOK /\ CountExact /\ FreedExactly

\* WeakPtr.h:103: while the module is alive, "AddRef 后模块不会被销毁" (after the
\* AddRef the module is not destroyed): who holds a strong pointer, one that Lock()
\* returned included, holds an object.
LockNeverDangles == obj.freed => \A t \in Holders : strong[t] = 0
=============================================================================

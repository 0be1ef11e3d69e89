-------------------------------- MODULE Users --------------------------------
(***************************************************************************)
(* The user service of ServerExample: CExampleDbModule (the table, with    *)
(* optimistic versions), CExampleAsyncModule (the flows over it) and the   *)
(* CDemoDriver that calls the flows.  The write gate of an executor        *)
(* excludes tasks, not flows: the layers of a chain are separate tasks     *)
(* when they are attached late, and a bridge to the other module leaves    *)
(* the gate, so other flows come in between any two accesses to the table. *)
(*                                                                         *)
(* An action is one access to the table with the handlers that follow it   *)
(* and touch the operation's own context only.  A row is its version and   *)
(* the call that inserted it; the other columns are left out.              *)
(***************************************************************************)
EXTENDS Integers, FiniteSets, Sequences

CONSTANTS
    kSeedUserIds,        \* ids of the rows loaded by Start
    kFirstAutoId,        \* first id given out by the table
    MaxUserId,           \* bound: ids given out
    kMaxUpdateAttempts,  \* 3 in the code
    Rivals               \* the calls made by others, <<op, id>>, whether the demo runs
                         \* beside them, and the bound on restarts of the modules

\* The demo renames one user three times at once, so three attempts are enough for each.
ASSUME UsersAssumption ==
    /\ kFirstAutoId \in Nat \ {0} /\ MaxUserId \in Nat
    /\ kSeedUserIds \subseteq 1..(kFirstAutoId - 1) /\ kSeedUserIds \subseteq 1..MaxUserId
    /\ kMaxUpdateAttempts \in Nat /\ kMaxUpdateAttempts >= 3
    /\ \A r \in Rivals :
         /\ r.demo \in BOOLEAN /\ r.restarts \in Nat
         /\ r.calls \in Seq({"register", "query", "rename", "remove"} \X Nat)

VARIABLES
    rows,      \* m_mapRows: id -> [version, born], NoRow when absent
    nRows,     \* m_nRows
    nNextId,   \* m_nNextId
    calls,     \* the contexts of the calls made, in order
    demo,      \* CDemoDriver: scene, userId (m_nUserId), pending (m_nPending)
    halted,    \* the executor of the service is stopped
    restarts   \* restarts of the modules left

userVars == <<rows, nRows, nNextId, calls, demo, halted, restarts>>

UserIds == 1..MaxUserId
NoRow == [version |-> 0, born |-> 0]
Present(id) == id \in UserIds /\ rows[id] # NoRow

-------------------------------------------------------------------------------
(***************************************************************************)
(* Handlers: the context after the handler; err is "ok" while fulfilled.     *)
(***************************************************************************)
StepValidateUserId(c) == [c EXCEPT !.err = IF c.id = 0 THEN "InvalidParam" ELSE "ok"]
StepValidateRecord(c) == [c EXCEPT !.err = IF c.valid THEN "ok" ELSE "InvalidParam"]

\* The driver may throw; a miss is CDbError(kRowNotFound).
StepLoadRow(c) ==
    IF c.driverFails THEN [c EXCEPT !.err = "exception"]
    ELSE IF Present(c.key) THEN [c EXCEPT !.found = TRUE, !.result = rows[c.key]]
    ELSE [c EXCEPT !.found = FALSE, !.err = "RowNotFound"]

\* The catch layer of a write: a miss is no failure.
StepAcceptNotFound(c) == IF c.err = "RowNotFound" THEN [c EXCEPT !.err = "ok"] ELSE c
DbRejectIfExists(c) == IF c.err = "ok" /\ c.found THEN [c EXCEPT !.err = "DuplicateKey"] ELSE c

StepRejectIfAbsent(c) == IF c.err = "ok" /\ ~c.exists THEN [c EXCEPT !.err = "NotFound"] ELSE c
StepRejectIfExists(c) == IF c.err = "ok" /\ c.exists THEN [c EXCEPT !.err = "Duplicate"] ELSE c

\* The version an update expects is the one read.
StepPrepareRename(c) == IF c.err = "ok" THEN [c EXCEPT !.request = c.result] ELSE c

\* Mutant: the version is not compared.
SameVersionAlways(row, request) == TRUE
SameVersion(row, request) == row.version = request.version

\* The translations of the bridges: the table's failures become the service's.
BridgeQueryUser(c) ==
    CASE c.err = "ok"            -> [c EXCEPT !.exists = TRUE]
      [] c.err = "RowNotFound" -> [c EXCEPT !.exists = FALSE, !.err = "ok"]
      [] OTHER                 -> c

BridgeInsertUser(c) ==
    CASE c.err = "ok"             -> [c EXCEPT !.id = c.key]
      [] c.err = "DuplicateKey" -> [c EXCEPT !.err = "Duplicate"]
      [] OTHER                  -> c

BridgeUpdateUser(c) == IF c.err = "RowNotFound" THEN [c EXCEPT !.err = "DbUnavailable"] ELSE c
BridgeDeleteUser(c) == IF c.err = "RowNotFound" THEN [c EXCEPT !.err = "NotFound"] ELSE c

-------------------------------------------------------------------------------
(***************************************************************************)
(* A call: what was asked, by whom, the context, and its next step.  seen  *)
(* and unseen count the writes of others on the row since the call read it *)
(* first, and since its request was built; reborn: one of them removed it. *)
(***************************************************************************)
MakeContext(op, id, by) ==
    LET refused == halted /\ op # "dbquery" IN
      [op |-> op, id |-> id, key |-> id, valid |-> by # "invalid", driverFails |-> op = "dbquery", by |-> by,
       at |-> IF refused THEN "done" ELSE "begin", err |-> IF refused THEN "Stopped" ELSE "ok",
       found |-> FALSE, exists |-> FALSE, result |-> NoRow, request |-> NoRow, attempt |-> 1,
       wrote |-> FALSE, seen |-> 0, unseen |-> 0, reborn |-> FALSE, heard |-> FALSE]

\* The finally layer: the promise settles with what came before it.
StepAudit(c) == [c EXCEPT !.at = "done"]

\* On while the context is fulfilled, else to the end.
GoOn(c, next) == IF c.err = "ok" /\ next # "audit" THEN [c EXCEPT !.at = next] ELSE StepAudit(c)

\* The next layer is posted to the executor of the service, which refuses it once stopped.
ToService(c) == IF halted THEN [c EXCEPT !.at = "done", !.err = "Stopped"] ELSE c

\* A write of another call on the row a call works on.
Notice(c, id, erased) ==
    IF c.at \in {"write", "apply"} /\ c.key = id
      THEN [c EXCEPT !.seen = @ + 1, !.unseen = @ + 1, !.reborn = @ \/ erased] ELSE c

Put(k, c) == calls' = [calls EXCEPT ![k] = c]
PutAndNotice(k, c, erased) ==
    calls' = [i \in DOMAIN calls |-> IF i = k THEN c ELSE Notice(calls[i], c.key, erased)]

Validated(c) ==
    IF c.op = "register" THEN StepValidateRecord(c)
    ELSE IF c.op = "dbquery" THEN c ELSE StepValidateUserId(c)

\* The layers of a flow behind the row it asked for, up to its write.
AfterLoad(loaded) ==
    LET q == BridgeQueryUser(loaded) IN
      CASE loaded.op = "dbquery"  -> StepAudit(loaded)
        [] loaded.op = "query"    -> ToService(GoOn(StepRejectIfAbsent(q), "audit"))
        [] loaded.op = "register" -> ToService(GoOn(StepRejectIfExists(q), "write"))
        [] loaded.op = "rename"   -> ToService(GoOn(StepPrepareRename(StepRejectIfAbsent(q)), "write"))
        [] loaded.op = "remove"   -> ToService(GoOn(StepRejectIfAbsent(q), "write"))

\* The validation, CExampleDbModule::QueryUserAsync and the layers up to the next call.
QueryUser(k) ==
    LET c == Validated(calls[k]) IN
      /\ c.at = "begin"
      /\ Put(k, IF c.err # "ok" THEN ToService(StepAudit(c)) ELSE AfterLoad(StepLoadRow(c)))
      /\ UNCHANGED <<rows, nRows, nNextId, demo, halted, restarts>>

\* The bridge's translation of the outcome of a write, back in the service.
Bridged(c) ==
    ToService(StepAudit(
      CASE c.op = "register" -> BridgeInsertUser(c)
        [] c.op = "rename"   -> BridgeUpdateUser(c)
        [] c.op = "remove"   -> BridgeDeleteUser(c)))

\* LoadRowAsync and StepAcceptNotFound of a write chain, and the duplicate test of an insert.
WriteLoads(k) ==
    LET c == StepAcceptNotFound(StepLoadRow(calls[k]))
        d == IF c.op = "register" THEN DbRejectIfExists(c) ELSE c IN
      /\ calls[k].at = "write"
      /\ Put(k, IF d.err = "ok" THEN [d EXCEPT !.at = "apply"] ELSE Bridged(d))
      /\ UNCHANGED <<rows, nRows, nNextId, demo, halted, restarts>>

\* An id from the counter when none was asked for; a row that is there is a duplicate.
StepInsertRow(k) ==
    LET c == calls[k]
        id == IF c.key = 0 THEN nNextId ELSE c.key
        row == [version |-> 1, born |-> k] IN
      /\ c.at = "apply" /\ c.op = "register" /\ id \in UserIds
      /\ nNextId' = IF c.key = 0 THEN nNextId + 1 ELSE nNextId
      /\ IF Present(id)
           THEN Put(k, Bridged([c EXCEPT !.err = "DuplicateKey"])) /\ UNCHANGED <<rows, nRows>>
           ELSE /\ rows' = [rows EXCEPT ![id] = row] /\ nRows' = nRows + 1
                /\ PutAndNotice(k, Bridged([c EXCEPT !.key = id, !.result = row, !.wrote = TRUE]), FALSE)
      /\ UNCHANGED <<demo, halted, restarts>>

\* UpdateUserAttempt: a conflict is tried again, in the callback, with the row returned.
UpdateUserAttempt(c) ==
    IF c.err = "VersionConflict" /\ c.attempt < kMaxUpdateAttempts
      THEN [c EXCEPT !.err = "ok", !.at = "write", !.attempt = @ + 1, !.request = c.result,
                     !.unseen = 0, !.reborn = FALSE]
      ELSE Bridged(c)

\* The update when the row is there in the version expected.
StepApplyUpdate(k) ==
    LET c == calls[k]
        row == [rows[c.key] EXCEPT !.version = @ + 1] IN
      /\ c.at = "apply" /\ c.op = "rename"
      /\ IF ~Present(c.key)
           THEN Put(k, UpdateUserAttempt([c EXCEPT !.err = "RowNotFound"])) /\ UNCHANGED rows
         ELSE IF ~SameVersion(rows[c.key], c.request)
           THEN Put(k, UpdateUserAttempt([c EXCEPT !.err = "VersionConflict", !.result = rows[c.key]])) /\ UNCHANGED rows
           ELSE /\ rows' = [rows EXCEPT ![c.key] = row]
                /\ PutAndNotice(k, UpdateUserAttempt([c EXCEPT !.result = row, !.wrote = TRUE]), FALSE)
      /\ UNCHANGED <<nRows, nNextId, demo, halted, restarts>>

StepEraseRow(k) ==
    LET c == calls[k] IN
      /\ c.at = "apply" /\ c.op = "remove"
      /\ IF Present(c.key)
           THEN /\ rows' = [rows EXCEPT ![c.key] = NoRow] /\ nRows' = nRows - 1
                /\ PutAndNotice(k, Bridged([c EXCEPT !.wrote = TRUE]), TRUE)
           ELSE Put(k, Bridged([c EXCEPT !.err = "RowNotFound"])) /\ UNCHANGED <<rows, nRows>>
      /\ UNCHANGED <<nNextId, demo, halted, restarts>>

-------------------------------------------------------------------------------
(***************************************************************************)
(* CDemoDriver: each scene is started by the callback of the one before.   *)
(***************************************************************************)
Scenes == <<"register", "duplicate", "query", "reads", "renames", "remove", "again", "invalid", "dberror">>
InvalidScene == 8

SceneCalls(scene, id) ==
    CASE scene = "register"  -> <<MakeContext("register", 0, scene)>>
      [] scene = "duplicate" -> <<MakeContext("register", id, scene)>>
      [] scene = "query"     -> <<MakeContext("query", id, scene)>>
      [] scene = "reads"     -> [i \in 1..3 |-> MakeContext("query", id, scene)]
      [] scene = "renames"   -> [i \in 1..3 |-> MakeContext("rename", id, scene)]
      [] scene \in {"remove", "again"} -> <<MakeContext("remove", id, scene)>>
      [] scene = "invalid"   -> <<MakeContext("register", 0, scene)>>
      [] scene = "dberror"   -> <<MakeContext("dbquery", id, scene)>>

\* ScheduleExample: the timer posts the demo, unless the executor is stopped.
ScheduleExample ==
    /\ demo.scene = 0 /\ ~halted
    /\ demo' = [scene |-> 1, userId |-> 0, pending |-> 1]
    /\ calls' = calls \o SceneCalls("register", 0)
    /\ UNCHANGED <<rows, nRows, nNextId, halted, restarts>>

\* The result is taken; of the context only what the table remembers is kept.
Heard(c) ==
    [c EXCEPT !.heard = TRUE, !.seen = 0, !.unseen = 0, !.reborn = FALSE, !.found = FALSE, !.exists = FALSE,
              !.request = NoRow, !.attempt = 1, !.result.version = 0]

\* The callback of a call: the last of a scene starts the next.  Without a user
\* the scenes that need one are skipped.
DemoSettled(k) ==
    LET c == calls[k]
        id == IF c.by = "register" THEN c.id ELSE demo.userId
        next == IF c.by = "register" /\ c.id = 0 THEN InvalidScene ELSE demo.scene + 1
        started == IF next <= Len(Scenes) THEN SceneCalls(Scenes[next], id) ELSE <<>>
        heard == [calls EXCEPT ![k] = Heard(c)] IN
      /\ c.at = "done" /\ ~c.heard /\ c.by # "rival"
      /\ IF demo.pending > 1
           THEN demo' = [demo EXCEPT !.pending = @ - 1] /\ calls' = heard
           ELSE demo' = [scene |-> next, userId |-> id, pending |-> Len(started)] /\ calls' = heard \o started
      /\ UNCHANGED <<rows, nRows, nNextId, halted, restarts>>

\* Any other caller of IUserService, the application's OnStart among them.
RivalCalls(k) ==
    /\ calls[k].at = "idle" /\ ~halted
    /\ Put(k, [calls[k] EXCEPT !.at = "begin"])
    /\ UNCHANGED <<rows, nRows, nNextId, demo, halted, restarts>>

RivalSettled(k) ==
    /\ calls[k].at = "done" /\ calls[k].by = "rival" /\ ~calls[k].heard
    /\ Put(k, Heard(calls[k]))
    /\ UNCHANGED <<rows, nRows, nNextId, demo, halted, restarts>>

\* CExampleAsyncModule::Stop.
StopService ==
    /\ ~halted /\ halted' = TRUE
    /\ UNCHANGED <<rows, nRows, nNextId, calls, demo, restarts>>

SeedRows == [id \in UserIds |-> IF id \in kSeedUserIds THEN [version |-> 1, born |-> 0] ELSE NoRow]

\* Stop, Shutdown and Start of both modules: the table starts from its seeds, the
\* counter of ids goes on.
RestartModules ==
    /\ halted /\ restarts > 0 /\ demo.pending = 0
    /\ \A k \in DOMAIN calls : calls[k].at = "idle" \/ calls[k].heard
    /\ rows' = SeedRows /\ nRows' = Cardinality(kSeedUserIds)
    /\ halted' = FALSE /\ restarts' = restarts - 1
    /\ UNCHANGED <<nNextId, calls, demo>>

-------------------------------------------------------------------------------
UsersInit ==
    /\ halted = FALSE
    /\ rows = SeedRows /\ nRows = Cardinality(kSeedUserIds) /\ nNextId = kFirstAutoId
    /\ \E r \in Rivals :
         /\ calls = [k \in DOMAIN r.calls |-> [MakeContext(r.calls[k][1], r.calls[k][2], "rival") EXCEPT !.at = "idle"]]
         /\ demo = [scene |-> IF r.demo THEN 0 ELSE Len(Scenes) + 1, userId |-> 0, pending |-> 0]
         /\ restarts = r.restarts

CallSteps(k) ==
    \/ QueryUser(k) \/ WriteLoads(k)
    \/ StepInsertRow(k) \/ StepApplyUpdate(k) \/ StepEraseRow(k) \/ DemoSettled(k)
    \/ RivalCalls(k) \/ RivalSettled(k)

UsersNext ==
    \/ \E k \in DOMAIN calls : CallSteps(k)
    \/ ScheduleExample \/ StopService \/ RestartModules

UsersSpec == UsersInit /\ [][UsersNext]_userVars

(***************************************************************************)
(* Properties.                                                             *)
(***************************************************************************)
CallSettled(c) == c.at = "done"

\* The row count is the number of rows, and a row is as old as the renames that
\* reached it: none is lost, none is counted twice.
TableExact ==
    /\ nRows = Cardinality({id \in UserIds : Present(id)})
    /\ \A id \in UserIds : Present(id) /\ rows[id].born > 0 =>
         rows[id].version = 1 + Cardinality({k \in DOMAIN calls :
           calls[k].op = "rename" /\ calls[k].wrote /\ calls[k].result.born = rows[id].born})

\* A call that is fulfilled wrote its row and one that is refused did not, whatever
\* came between its layers; only a call cut off by Stop may have written unseen.
OutcomesTrue ==
    \A k \in DOMAIN calls : LET c == calls[k] IN
      CallSettled(c) /\ c.op \in {"register", "rename", "remove"} /\ c.err # "Stopped" => (c.wrote <=> c.err = "ok")

\* An update never goes over a write its caller has not seen, except when the row
\* was removed and made again in between; a rename that gives up met at least as
\* many writes of others as it made attempts.
OptimisticLock ==
    \A k \in DOMAIN calls : LET c == calls[k] IN
      c.op = "rename" =>
        /\ c.wrote => c.unseen = 0 \/ c.reborn
        /\ c.err = "VersionConflict" /\ ~c.heard => c.seen >= kMaxUpdateAttempts

\* While nobody else touches its user, the demo sees what its scenes announce.
DemoOutcome(by) ==
    CASE by = "duplicate" -> "Duplicate" [] by = "again" -> "NotFound" [] by = "invalid" -> "InvalidParam"
      [] by = "dberror" -> "exception" [] OTHER -> "ok"

DemoAsAnnounced ==
    (\A k \in DOMAIN calls :
       /\ calls[k].err # "Stopped"
       /\ calls[k].by = "rival" /\ calls[k].at # "idle" => calls[k].id # demo.userId)
      => \A k \in DOMAIN calls : LET c == calls[k] IN
           CallSettled(c) /\ c.by # "rival" /\ demo.userId > 0 => c.err = DemoOutcome(c.by)

\* The invariant of the user service.
UsersInv == TableExact /\ OutcomesTrue /\ OptimisticLock /\ DemoAsAnnounced
=============================================================================

----------------------------- MODULE UsersProofs ------------------------------
(***************************************************************************)
(* Proofs about Users for every set of seeds, every bound on the ids,       *)
(* every number of attempts from three on, and every sequence of calls of  *)
(* others beside the demo.                                                 *)
(***************************************************************************)
EXTENDS Users, FiniteSetTheorems, SequenceTheorems, TLAPS

Writes == {"register", "rename", "remove"}
Callers == {Scenes[i] : i \in 1 .. 9} \cup {"rival"}
Outcomes == {"ok", "Stopped", "InvalidParam", "exception", "RowNotFound", "DuplicateKey", "NotFound", "Duplicate",
             "VersionConflict", "DbUnavailable"}
Versions == [version : Nat, born : Nat]
Contexts ==
    [op : Writes \cup {"query", "dbquery"}, id : Nat, key : Nat, valid : BOOLEAN, driverFails : BOOLEAN, by : Callers,
     at : {"idle", "begin", "write", "apply", "done"}, err : Outcomes, found : BOOLEAN, exists : BOOLEAN,
     result : Versions, request : Versions, attempt : Nat, wrote : BOOLEAN, seen : Nat, unseen : Nat,
     reborn : BOOLEAN, heard : BOOLEAN]

\* A context before its call begins, between its steps, and settled; a call that
\* wrote is told so or was cut off.
CallAt(c) ==
    /\ c \in Contexts
    /\ c.at \in {"idle", "begin"} => c.attempt = 1 /\ c.seen = 0 /\ c.unseen = 0 /\ ~c.reborn
    /\ c.at = "idle" => c.by = "rival"
    /\ c.at \in {"write", "apply"} => c.op \in Writes
    /\ c.at # "done" => c.err = "ok" /\ ~c.wrote /\ ~c.heard /\ c.key = c.id
    /\ c.wrote => c.op \in Writes /\ c.err \in {"ok", "Stopped"}
    /\ c.at = "done" /\ c.op \in Writes /\ c.err = "ok" => c.wrote
    /\ c.driverFails <=> c.op = "dbquery"
    /\ c.op # "register" => c.key = c.id
    /\ c.op = "register" /\ c.id > 0 => c.key = c.id
    /\ c.op = "register" /\ c.wrote => c.id > 0

\* A rename between its read and its write: unless the row was removed meanwhile,
\* its version is the one read and the writes unseen; each conflict is a write seen.
RenameAt(c) ==
    c.op = "rename" =>
      /\ c.at \in {"write", "apply"} =>
           /\ c.reborn => c.unseen > 0
           /\ ~c.reborn => Present(c.key) /\ rows[c.key].version = c.request.version + c.unseen
           /\ c.seen + 1 >= c.attempt + c.unseen
      /\ c.wrote => c.unseen = 0 \/ c.reborn
      /\ c.err = "VersionConflict" /\ ~c.heard => c.seen >= kMaxUpdateAttempts

Renamed(b) == {k \in DOMAIN calls : calls[k].op = "rename" /\ calls[k].wrote /\ calls[k].result.born = b}

\* A row that was registered belongs to one call, and its version counts the renames.
RowAt(id) ==
    Present(id) =>
      /\ rows[id].version > 0
      /\ rows[id].born > 0 =>
           /\ rows[id].born \in DOMAIN calls
           /\ calls[rows[id].born].op = "register" /\ calls[rows[id].born].wrote /\ calls[rows[id].born].key = id
           /\ rows[id].version = 1 + Cardinality(Renamed(rows[id].born))

\* The table, and the renames that wrote a row that was registered.
There == {id \in UserIds : Present(id)}
TableIs ==
    /\ rows \in [UserIds -> Versions] /\ nRows = Cardinality(There)
    /\ nNextId \in Nat /\ nNextId >= kFirstAutoId
    /\ calls \in Seq(Contexts)
    /\ \A id \in UserIds : RowAt(id)
    /\ \A k \in DOMAIN calls : LET c == calls[k] IN
         c.op = "rename" /\ c.wrote /\ c.result.born > 0 =>
           /\ c.result.born \in DOMAIN calls
           /\ calls[c.result.born].op = "register" /\ calls[c.result.born].wrote /\ calls[c.result.born].key = c.key

UsersCoreInv == TableIs /\ \A k \in DOMAIN calls : CallAt(calls[k]) /\ RenameAt(calls[k])

-------------------------------------------------------------------------------
Demo(k) == calls[k].by # "rival"
Unheard == {k \in DOMAIN calls : Demo(k) /\ ~calls[k].heard}
Renames == {k \in DOMAIN calls : calls[k].by = "renames"}

\* What a scene asks for.
Asks(c) ==
    /\ c.by \in {"register", "duplicate", "invalid"} => c.op = "register"
    /\ c.by \in {"query", "reads"} => c.op = "query"
    /\ c.by = "renames" => c.op = "rename"
    /\ c.by \in {"remove", "again"} => c.op = "remove"
    /\ c.by = "dberror" => c.op = "dbquery"
    /\ c.by \in {"duplicate", "query", "reads", "renames", "remove", "again"} => c.id = demo.userId /\ c.id > 0
    /\ c.valid <=> c.by # "invalid"

\* The demo: its scenes come in order, those that are not heard are of the present one.
DemoAt ==
    /\ demo \in [scene : 0 .. 10, userId : Nat, pending : Nat]
    /\ IsFiniteSet(Unheard) /\ demo.pending = Cardinality(Unheard)
    /\ \A k \in DOMAIN calls : Demo(k) =>
         /\ Asks(calls[k])
         /\ \E i \in 1 .. 9 : calls[k].by = Scenes[i] /\ i <= demo.scene /\ (~calls[k].heard => i = demo.scene)
    /\ \A j, k \in DOMAIN calls : calls[j].by = calls[k].by /\ calls[j].by \in {"register", "remove"} => j = k
    /\ IsFiniteSet(Renames) /\ Cardinality(Renames) <= 3
    /\ \A k \in DOMAIN calls : calls[k].by = "register" => demo.userId = IF calls[k].heard THEN calls[k].id ELSE 0
    /\ \A k \in DOMAIN calls : calls[k].by = "register" /\ calls[k].id > 0 => calls[k].wrote /\ calls[k].key < nNextId
                                                                              /\ calls[k].key >= kFirstAutoId
    /\ demo.userId > 0 => \E k \in DOMAIN calls : calls[k].by = "register" /\ calls[k].heard

\* Nobody else has touched a user, and the service has not been stopped.
Alone(id) ==
    \A k \in DOMAIN calls :
        /\ calls[k].err # "Stopped"
        /\ calls[k].by = "rival" /\ calls[k].at # "idle" => calls[k].id # id

RemovedBy(k) == calls[k].by \in {"remove", "again"} /\ calls[k].wrote

\* While the demo goes on its user is there, as it registered it, until it is removed.
DemoRow ==
    \A k \in DOMAIN calls, id \in Nat :
        calls[k].by = "register" /\ calls[k].wrote /\ calls[k].key = id /\ Alone(id) /\ demo.pending > 0 =>
          IF \E j \in DOMAIN calls : RemovedBy(j) THEN ~Present(id) ELSE Present(id) /\ rows[id].born = k

\* What has become of a call of the demo.
Expected(c) ==
    CASE c.by = "register"          -> c.at = "done" /\ c.err = "ok"
      [] c.by = "duplicate"         -> c.at = "begin" \/ (c.at = "done" /\ c.err = "Duplicate")
      [] c.by \in {"query", "reads"} -> c.at = "begin" \/ (c.at = "done" /\ c.err = "ok")
      [] c.by = "renames" -> /\ c.at = "done" => c.err = "ok"
                             /\ c.at \in {"write", "apply"} => c.attempt <= c.request.version /\ ~c.reborn
      [] c.by = "remove"  -> c.at = "done" => c.err = "ok"
      [] c.by = "again"   -> c.at = "begin" \/ (c.at = "done" /\ c.err = "NotFound")
      [] c.by = "invalid" -> c.at = "begin" \/ (c.at = "done" /\ c.err = "InvalidParam")
      [] OTHER            -> c.at = "begin" \/ (c.at = "done" /\ c.err = "exception")

DemoCalls ==
    demo.userId > 0 /\ Alone(demo.userId) =>
      /\ \A k \in DOMAIN calls : Demo(k) => Expected(calls[k])
      /\ (\E k \in DOMAIN calls : calls[k].by = "again") => \E k \in DOMAIN calls : calls[k].by = "remove" /\ calls[k].wrote

\* The inductive invariant of the user service.
UsersIInv == UsersCoreInv /\ DemoAt /\ DemoRow /\ DemoCalls

-------------------------------------------------------------------------------
\* What the handlers of a context leave alone.
Alike(c, d) ==
    /\ c \in Contexts /\ d \in Contexts
    /\ d.op = c.op /\ d.id = c.id /\ d.key = c.key /\ d.by = c.by /\ d.attempt = c.attempt
    /\ d.seen = c.seen /\ d.unseen = c.unseen
    /\ (d.valid <=> c.valid) /\ (d.driverFails <=> c.driverFails) /\ (d.wrote <=> c.wrote)
    /\ (d.reborn <=> c.reborn) /\ (d.heard <=> c.heard)

\* Two handlers in a row.
LEMMA AlikeTwice ==
    ASSUME NEW c, NEW d, NEW e, Alike(c, d), Alike(d, e)
    PROVE  Alike(c, e)
BY DEF Alike

\* A context whose outcome, place, row found, row read or request is another.
LEMMA AlikeEdits ==
    ASSUME NEW c \in Contexts
    PROVE  /\ \A e \in Outcomes : LET d == [c EXCEPT !.err = e]
                IN Alike(c, d) /\ d.err = e /\ d.at = c.at /\ (d.found <=> c.found) /\ (d.exists <=> c.exists)
                   /\ d.result = c.result /\ d.request = c.request
           /\ \A a \in {"idle", "begin", "write", "apply", "done"} : LET d == [c EXCEPT !.at = a]
                IN Alike(c, d) /\ d.err = c.err /\ d.at = a /\ (d.found <=> c.found) /\ (d.exists <=> c.exists)
                   /\ d.result = c.result /\ d.request = c.request
           /\ \A r \in Versions : LET d == [c EXCEPT !.request = r]
                IN Alike(c, d) /\ d.err = c.err /\ d.at = c.at /\ (d.found <=> c.found) /\ (d.exists <=> c.exists)
                   /\ d.result = c.result /\ d.request = r
<1>1. ASSUME NEW e \in Outcomes
      PROVE  LET d == [c EXCEPT !.err = e]
             IN Alike(c, d) /\ d.err = e /\ d.at = c.at /\ (d.found <=> c.found) /\ (d.exists <=> c.exists)
                /\ d.result = c.result /\ d.request = c.request
  BY DEF Alike, Contexts
<1>2. ASSUME NEW a \in {"idle", "begin", "write", "apply", "done"}
      PROVE  LET d == [c EXCEPT !.at = a]
             IN Alike(c, d) /\ d.err = c.err /\ d.at = a /\ (d.found <=> c.found) /\ (d.exists <=> c.exists)
                /\ d.result = c.result /\ d.request = c.request
  BY DEF Alike, Contexts
<1>3. ASSUME NEW r \in Versions
      PROVE  LET d == [c EXCEPT !.request = r]
             IN Alike(c, d) /\ d.err = c.err /\ d.at = c.at /\ (d.found <=> c.found) /\ (d.exists <=> c.exists)
                /\ d.result = c.result /\ d.request = r
  BY DEF Alike, Contexts
<1> QED BY <1>1, <1>2, <1>3

\* StepAudit and ToService: the call is settled, unless it goes on in a service that runs.
LEMMA Audited ==
    ASSUME NEW c \in Contexts
    PROVE  /\ LET d == StepAudit(c) IN Alike(c, d) /\ d.at = "done" /\ d.err = c.err
           /\ LET d == ToService(c)
              IN /\ Alike(c, d) /\ d.request = c.request /\ d.result = c.result
                 /\ halted => d.at = "done" /\ d.err = "Stopped"
                 /\ ~halted => d.at = c.at /\ d.err = c.err
<1>1. LET d == StepAudit(c) IN Alike(c, d) /\ d.at = "done" /\ d.err = c.err
  BY DEF Alike, Contexts, StepAudit
<1>2. CASE halted
  <2>1. PICK d : d = [c EXCEPT !.at = "done", !.err = "Stopped"]
    OBVIOUS
  <2>2. d = ToService(c)
    BY <1>2, <2>1 DEF ToService
  <2>3. d \in Contexts /\ d.at = "done" /\ d.err = "Stopped" /\ d.request = c.request /\ d.result = c.result
    BY <2>1 DEF Contexts, Outcomes
  <2>4. Alike(c, d)
    BY <2>1, <2>3 DEF Alike, Contexts
  <2> QED BY <1>1, <1>2, <2>2, <2>3, <2>4
<1>3. CASE ~halted
  BY <1>1, <1>3 DEF Alike, ToService
<1> QED BY <1>1, <1>2, <1>3

\* StepLoadRow.
LEMMA Loaded ==
    ASSUME NEW c \in Contexts, rows \in [UserIds -> Versions]
    PROVE  LET d == StepLoadRow(c)
           IN /\ Alike(c, d) /\ d.at = c.at /\ d.request = c.request
              /\ c.driverFails => d.err = "exception"
              /\ ~c.driverFails /\ Present(c.key) => d.err = c.err /\ d.found /\ d.result = rows[c.key]
              /\ ~c.driverFails /\ ~Present(c.key) => d.err = "RowNotFound" /\ ~d.found
<1>1. CASE c.driverFails
  BY <1>1 DEF Alike, Contexts, StepLoadRow, Outcomes
<1>2. CASE ~c.driverFails /\ Present(c.key)
  <2>1. rows[c.key] \in Versions
    BY <1>2 DEF Present
  <2> QED BY <1>2, <2>1 DEF Alike, Contexts, StepLoadRow
<1>3. CASE ~c.driverFails /\ ~Present(c.key)
  BY <1>3 DEF Alike, Contexts, StepLoadRow, Outcomes
<1> QED BY <1>1, <1>2, <1>3

\* BridgeQueryUser: a row that is not there is an answer.
LEMMA Bridges ==
    ASSUME NEW c \in Contexts
    PROVE  LET d == BridgeQueryUser(c)
           IN /\ Alike(c, d) /\ d.at = c.at /\ d.request = c.request /\ d.result = c.result
              /\ c.err = "ok" => d.err = "ok" /\ d.exists
              /\ c.err = "RowNotFound" => d.err = "ok" /\ ~d.exists
              /\ c.err \notin {"ok", "RowNotFound"} => d.err = c.err
<1>1. CASE c.err = "ok"
  BY <1>1 DEF Alike, Contexts, BridgeQueryUser
<1>2. CASE c.err = "RowNotFound"
  BY <1>2 DEF Alike, Contexts, BridgeQueryUser, Outcomes
<1>3. CASE c.err \notin {"ok", "RowNotFound"}
  BY <1>3 DEF Alike, Contexts, BridgeQueryUser
<1> QED BY <1>1, <1>2, <1>3

\* Bridged: the outcome of a write in the words of the service, unless it is stopped.
LEMMA BridgedIs ==
    ASSUME NEW c \in Contexts, c.op \in {"rename", "remove"} \/ (c.op = "register" /\ c.err # "ok")
    PROVE  LET d == Bridged(c)
           IN /\ Alike(c, d) /\ d.at = "done" /\ d.result = c.result
              /\ halted => d.err = "Stopped"
              /\ ~halted =>
                   d.err = IF c.op = "register" /\ c.err = "DuplicateKey" THEN "Duplicate"
                           ELSE IF c.op = "rename" /\ c.err = "RowNotFound" THEN "DbUnavailable"
                           ELSE IF c.op = "remove" /\ c.err = "RowNotFound" THEN "NotFound" ELSE c.err
<1>1. PICK b : b = IF c.op = "register" THEN BridgeInsertUser(c)
                   ELSE IF c.op = "rename" THEN BridgeUpdateUser(c) ELSE BridgeDeleteUser(c)
  OBVIOUS
<1>2. /\ Alike(c, b) /\ b.result = c.result
      /\ b.err = IF c.op = "register" /\ c.err = "DuplicateKey" THEN "Duplicate"
                 ELSE IF c.op = "rename" /\ c.err = "RowNotFound" THEN "DbUnavailable"
                 ELSE IF c.op = "remove" /\ c.err = "RowNotFound" THEN "NotFound" ELSE c.err
  <2>1. CASE c.op = "register"
    BY <1>1, <2>1 DEF Alike, Contexts, BridgeInsertUser, Outcomes
  <2>2. CASE c.op = "rename"
    BY <1>1, <2>2 DEF Alike, Contexts, BridgeUpdateUser, Outcomes
  <2>3. CASE c.op = "remove"
    BY <1>1, <2>3 DEF Alike, Contexts, BridgeDeleteUser, Outcomes
  <2> QED BY <2>1, <2>2, <2>3
<1>3. Bridged(c) = ToService(StepAudit(b))
  BY <1>1 DEF Bridged
<1>4. PICK a : a = StepAudit(b)
  OBVIOUS
<1>5. Alike(b, a) /\ a.at = "done" /\ a.err = b.err /\ a.result = b.result
  BY <1>2, <1>4, Audited DEF Alike, Contexts, StepAudit
<1>6. PICK d : d = ToService(a)
  OBVIOUS
<1>7. /\ Alike(a, d) /\ d.result = a.result
      /\ halted => d.at = "done" /\ d.err = "Stopped"
      /\ ~halted => d.at = a.at /\ d.err = a.err
  BY <1>5, <1>6, Audited DEF Alike
<1>8. Alike(c, d)
  BY <1>2, <1>5, <1>7, AlikeTwice
<1>9. d = Bridged(c)
  BY <1>3, <1>4, <1>6
<1> QED BY <1>2, <1>5, <1>7, <1>8, <1>9

\* A sequence with one element replaced.
LEMMA OnePut ==
    ASSUME NEW S, NEW q \in Seq(S), NEW k \in DOMAIN q, NEW d \in S
    PROVE  LET r == [q EXCEPT ![k] = d]
           IN r \in Seq(S) /\ DOMAIN r = DOMAIN q /\ r[k] = d /\ \A i \in DOMAIN q : i # k => r[i] = q[i]
<1> DEFINE r == [q EXCEPT ![k] = d]
<1>1. Len(q) \in Nat /\ DOMAIN q = 1 .. Len(q)
  OBVIOUS
<1>2. r \in [1 .. Len(q) -> S]
  BY <1>1
<1>3. r \in Seq(S)
  BY <1>1, <1>2
<1> QED BY <1>1, <1>3

\* A function over the domain of a sequence.
LEMMA OneMapped ==
    ASSUME NEW S, NEW q, NEW r, NEW T, q \in Seq(T), DOMAIN r = DOMAIN q, r = [i \in DOMAIN r |-> r[i]],
           \A i \in DOMAIN q : r[i] \in S
    PROVE  r \in Seq(S)
<1>1. Len(q) \in Nat /\ DOMAIN q = 1 .. Len(q)
  OBVIOUS
<1>2. r \in [1 .. Len(q) -> S]
  BY <1>1
<1> QED BY <1>1, <1>2

\* The same call but for the writes of others it has met.
Beside(c, d) ==
    /\ c \in Contexts /\ d \in Contexts
    /\ d.op = c.op /\ d.id = c.id /\ d.key = c.key /\ d.by = c.by /\ d.at = c.at /\ d.err = c.err
    /\ d.attempt = c.attempt /\ d.result = c.result /\ d.request = c.request
    /\ (d.valid <=> c.valid) /\ (d.driverFails <=> c.driverFails) /\ (d.wrote <=> c.wrote) /\ (d.heard <=> c.heard)

\* Notice.
LEMMA NoticeIs ==
    ASSUME NEW c \in Contexts, NEW id, NEW erased \in BOOLEAN
    PROVE  LET d == Notice(c, id, erased)
           IN /\ Beside(c, d)
              /\ IF c.at \in {"write", "apply"} /\ c.key = id
                 THEN d.seen = c.seen + 1 /\ d.unseen = c.unseen + 1 /\ (d.reborn <=> c.reborn \/ erased)
                 ELSE d.seen = c.seen /\ d.unseen = c.unseen /\ (d.reborn <=> c.reborn)
<1>1. CASE c.at \in {"write", "apply"} /\ c.key = id
  <2>1. PICK n : n = c.seen + 1
    OBVIOUS
  <2>2. PICK m : m = c.unseen + 1
    OBVIOUS
  <2>3. c.seen \in Nat /\ c.unseen \in Nat /\ n \in Nat /\ m \in Nat
    BY <2>1, <2>2 DEF Contexts
  <2>4. PICK e : e = (c.reborn \/ erased)
    OBVIOUS
  <2>5. e \in BOOLEAN /\ (e <=> c.reborn \/ erased)
    BY <2>4
  <2>6. PICK d : d = [c EXCEPT !.seen = n, !.unseen = m, !.reborn = e]
    OBVIOUS
  <2>7. d = Notice(c, id, erased)
    BY <1>1, <2>1, <2>2, <2>4, <2>6 DEF Notice
  <2>8. d \in Contexts
    BY <2>3, <2>5, <2>6 DEF Contexts
  <2>9. Beside(c, d)
    BY <2>6, <2>8 DEF Beside, Contexts
  <2>10. d.seen = n /\ d.unseen = m /\ d.reborn = e
    BY <2>6 DEF Contexts
  <2> QED BY <1>1, <2>1, <2>2, <2>5, <2>7, <2>9, <2>10
<1>2. CASE ~(c.at \in {"write", "apply"} /\ c.key = id)
  BY <1>2 DEF Notice, Beside
<1> QED BY <1>1, <1>2

\* Heard.
LEMMA HeardIs ==
    ASSUME NEW c \in Contexts
    PROVE  LET d == Heard(c)
           IN /\ d \in Contexts /\ d.heard
              /\ d.op = c.op /\ d.id = c.id /\ d.key = c.key /\ d.by = c.by /\ d.at = c.at /\ d.err = c.err
              /\ (d.valid <=> c.valid) /\ (d.driverFails <=> c.driverFails) /\ (d.wrote <=> c.wrote)
              /\ d.result.born = c.result.born /\ d.unseen = 0 /\ d.seen = 0 /\ ~d.reborn /\ d.attempt = 1
<1>1. PICK r : r = [c.result EXCEPT !.version = 0]
  OBVIOUS
<1>2. r \in Versions /\ r.born = c.result.born
  BY <1>1 DEF Contexts, Versions
<1>3. PICK d : d = [c EXCEPT !.heard = TRUE, !.seen = 0, !.unseen = 0, !.reborn = FALSE, !.found = FALSE,
                             !.exists = FALSE, !.request = NoRow, !.attempt = 1, !.result = r]
  OBVIOUS
<1>4. d = Heard(c)
  BY <1>1, <1>3 DEF Heard, Contexts
<1>5. d \in Contexts /\ d.heard
  BY <1>2, <1>3 DEF Contexts, NoRow, Versions
<1>6. /\ d.op = c.op /\ d.id = c.id /\ d.key = c.key /\ d.by = c.by /\ d.at = c.at /\ d.err = c.err
      /\ (d.valid <=> c.valid) /\ (d.driverFails <=> c.driverFails) /\ (d.wrote <=> c.wrote)
      /\ d.result = r /\ d.unseen = 0 /\ d.seen = 0 /\ ~d.reborn /\ d.attempt = 1
  BY <1>3 DEF Contexts
<1> QED BY <1>2, <1>4, <1>5, <1>6

\* A context that has just been made.
Made(d, op, id, by) ==
    /\ d \in Contexts
    /\ d.op = op /\ d.id = id /\ d.key = id /\ d.by = by /\ (d.valid <=> by # "invalid")
    /\ (d.driverFails <=> op = "dbquery") /\ ~d.wrote /\ ~d.heard /\ ~d.reborn
    /\ d.attempt = 1 /\ d.seen = 0 /\ d.unseen = 0
    /\ IF halted /\ op # "dbquery" THEN d.at = "done" /\ d.err = "Stopped" ELSE d.at = "begin" /\ d.err = "ok"

\* MakeContext.
LEMMA MakeContextIs ==
    ASSUME NEW op \in Writes \cup {"query", "dbquery"}, NEW id \in Nat, NEW by \in Callers
    PROVE  Made(MakeContext(op, id, by), op, id, by)
<1>1. PICK at : at = IF halted /\ op # "dbquery" THEN "done" ELSE "begin"
  OBVIOUS
<1>2. PICK err : err = IF halted /\ op # "dbquery" THEN "Stopped" ELSE "ok"
  OBVIOUS
<1>3. PICK valid, fails : valid = (by # "invalid") /\ fails = (op = "dbquery")
  OBVIOUS
<1>4. PICK d : d = [op |-> op, id |-> id, key |-> id, valid |-> valid, driverFails |-> fails, by |-> by,
                    at |-> at, err |-> err,
                    found |-> FALSE, exists |-> FALSE, result |-> NoRow, request |-> NoRow, attempt |-> 1,
                    wrote |-> FALSE, seen |-> 0, unseen |-> 0, reborn |-> FALSE, heard |-> FALSE]
  OBVIOUS
<1>5. d = MakeContext(op, id, by)
  BY <1>1, <1>2, <1>3, <1>4 DEF MakeContext
<1>6. valid \in BOOLEAN /\ fails \in BOOLEAN /\ (valid <=> by # "invalid") /\ (fails <=> op = "dbquery")
  BY <1>3
<1>7. at \in {"done", "begin"} /\ err \in Outcomes
  BY <1>1, <1>2 DEF Outcomes
<1>8. d \in Contexts
  BY <1>4, <1>6, <1>7 DEF Contexts, NoRow, Versions
<1>9. /\ d.op = op /\ d.id = id /\ d.key = id /\ d.by = by /\ d.at = at /\ d.err = err
      /\ ~d.wrote /\ ~d.heard /\ ~d.reborn /\ d.attempt = 1 /\ d.seen = 0 /\ d.unseen = 0
      /\ d.valid = valid /\ d.driverFails = fails
  BY <1>4
<1> QED BY <1>1, <1>2, <1>5, <1>6, <1>8, <1>9 DEF Made

-------------------------------------------------------------------------------
\* A step that writes no row, of any calls.
LEMMA TableStays ==
    ASSUME TableIs, rows' = rows, nRows' = nRows, nNextId' \in Nat, nNextId' >= nNextId,
           calls' \in Seq(Contexts), DOMAIN calls \subseteq DOMAIN calls',
           \A i \in DOMAIN calls :
             /\ calls'[i].op = calls[i].op /\ (calls'[i].wrote <=> calls[i].wrote)
             /\ calls[i].wrote => calls'[i].key = calls[i].key /\ calls'[i].result.born = calls[i].result.born,
           \A i \in DOMAIN calls' \ DOMAIN calls : ~calls'[i].wrote
    PROVE  TableIs'
<1>1. \A b : Renamed(b)' = Renamed(b)
  BY DEF Renamed
<1>2. \A id \in UserIds : Present(id)' <=> Present(id)
  BY DEF Present
<1>3. There' = There
  BY <1>2 DEF There
<1>4. nNextId' >= kFirstAutoId
  BY UsersAssumption DEF TableIs
<1>5. \A id \in UserIds : RowAt(id)'
  <2> TAKE id \in UserIds
  <2>1. RowAt(id)
    BY DEF TableIs
  <2> QED BY <1>1, <1>2, <2>1 DEF RowAt
<1>6. ASSUME NEW k \in DOMAIN calls', calls'[k].op = "rename", calls'[k].wrote, calls'[k].result.born > 0
      PROVE  /\ calls'[k].result.born \in DOMAIN calls'
             /\ LET b == calls'[calls'[k].result.born] IN b.op = "register" /\ b.wrote /\ b.key = calls'[k].key
  <2>1. k \in DOMAIN calls /\ calls[k].op = "rename" /\ calls[k].wrote /\ calls'[k].key = calls[k].key
        /\ calls'[k].result.born = calls[k].result.born
    BY <1>6
  <2>2. PICK j : j = calls[k].result.born
    OBVIOUS
  <2>3. j \in DOMAIN calls /\ calls[j].op = "register" /\ calls[j].wrote /\ calls[j].key = calls[k].key
    BY <1>6, <2>1, <2>2 DEF TableIs
  <2> QED BY <2>1, <2>2, <2>3
<1> QED BY <1>3, <1>4, <1>5, <1>6 DEF TableIs

\* One call takes a step that writes no row.
LEMMA CallMoves ==
    ASSUME UsersCoreInv, NEW k \in DOMAIN calls, NEW d, calls' = [calls EXCEPT ![k] = d],
           rows' = rows, nRows' = nRows, nNextId' \in Nat, nNextId' >= nNextId,
           CallAt(d), RenameAt(d), d.op = calls[k].op, d.wrote <=> calls[k].wrote,
           calls[k].wrote => d.key = calls[k].key /\ d.result.born = calls[k].result.born
    PROVE  UsersCoreInv'
<1>1. calls \in Seq(Contexts) /\ d \in Contexts
  BY DEF UsersCoreInv, TableIs, CallAt
<1>2. calls' \in Seq(Contexts) /\ DOMAIN calls' = DOMAIN calls /\ calls'[k] = d
      /\ \A i \in DOMAIN calls : i # k => calls'[i] = calls[i]
  BY <1>1, OnePut
<1>3. TableIs'
  BY <1>2, TableStays DEF UsersCoreInv
<1>4. \A c : RenameAt(c) => RenameAt(c)'
  BY DEF RenameAt, Present
<1>5. ASSUME NEW i \in DOMAIN calls' PROVE (CallAt(calls[i]) /\ RenameAt(calls[i]))'
  <2>1. PICK c : c = calls'[i]
    OBVIOUS
  <2>2. CallAt(c) /\ RenameAt(c)
    <3>1. CASE i = k
      BY <1>2, <2>1, <3>1
    <3>2. CASE i # k
      BY <1>2, <1>5, <2>1, <3>2 DEF UsersCoreInv
    <3> QED BY <3>1, <3>2
  <2>3. RenameAt(c)'
    BY <1>4, <2>2
  <2> QED BY <2>1, <2>2, <2>3 DEF CallAt, RenameAt, Present
<1> QED BY <1>3, <1>5 DEF UsersCoreInv

-------------------------------------------------------------------------------
\* StepRejectIfAbsent, StepRejectIfExists and StepPrepareRename.
LEMMA Rejections ==
    ASSUME NEW c \in Contexts
    PROVE  /\ LET d == StepRejectIfAbsent(c)
              IN /\ Alike(c, d) /\ d.at = c.at /\ d.request = c.request /\ d.result = c.result
                 /\ d.err = IF c.err = "ok" /\ ~c.exists THEN "NotFound" ELSE c.err
           /\ LET d == StepRejectIfExists(c)
              IN /\ Alike(c, d) /\ d.at = c.at /\ d.request = c.request /\ d.result = c.result
                 /\ d.err = IF c.err = "ok" /\ c.exists THEN "Duplicate" ELSE c.err
           /\ LET d == StepPrepareRename(c)
              IN /\ Alike(c, d) /\ d.at = c.at /\ d.err = c.err /\ d.result = c.result
                 /\ c.err = "ok" => d.request = c.result
<1>1. Alike(c, c) /\ c.result \in Versions
  BY DEF Alike, Contexts
<1>2. "NotFound" \in Outcomes /\ "Duplicate" \in Outcomes
  BY DEF Outcomes
<1>3. LET d == StepRejectIfAbsent(c)
      IN /\ Alike(c, d) /\ d.at = c.at /\ d.request = c.request /\ d.result = c.result
         /\ d.err = IF c.err = "ok" /\ ~c.exists THEN "NotFound" ELSE c.err
  BY <1>1, <1>2 DEF StepRejectIfAbsent, Alike, Contexts
<1>4. LET d == StepRejectIfExists(c)
      IN /\ Alike(c, d) /\ d.at = c.at /\ d.request = c.request /\ d.result = c.result
         /\ d.err = IF c.err = "ok" /\ c.exists THEN "Duplicate" ELSE c.err
  BY <1>1, <1>2 DEF StepRejectIfExists, Alike, Contexts
<1>5. LET d == StepPrepareRename(c)
      IN /\ Alike(c, d) /\ d.at = c.at /\ d.err = c.err /\ d.result = c.result
         /\ c.err = "ok" => d.request = c.result
  <2>1. PICK r : r = c.result
    OBVIOUS
  <2> QED BY <1>1, <2>1, AlikeEdits, ZenonT(40) DEF StepPrepareRename
<1> QED BY <1>3, <1>4, <1>5

\* GoOn.
LEMMA GoesOn ==
    ASSUME NEW c \in Contexts, NEW next \in {"audit", "write"}
    PROVE  LET d == GoOn(c, next)
           IN /\ Alike(c, d) /\ d.request = c.request /\ d.err = c.err
              /\ d.at = IF c.err = "ok" /\ next = "write" THEN "write" ELSE "done"
<1>1. CASE c.err = "ok" /\ next = "write"
  BY <1>1 DEF GoOn, Alike, Contexts
<1>2. CASE ~(c.err = "ok" /\ next = "write")
  <2>1. GoOn(c, next) = StepAudit(c)
    BY <1>2 DEF GoOn
  <2>2. StepAudit(c).request = c.request
    BY DEF StepAudit, Contexts
  <2> QED BY <1>2, <2>1, <2>2, Audited
<1> QED BY <1>1, <1>2

\* What a query answers, unless the service is stopped.
Answer(c, d) ==
    CASE c.op = "dbquery" -> d.at = "done" /\ d.err = "exception"
      [] \/ c.op = "register" /\ ~c.valid
         \/ c.op \notin {"register", "dbquery"} /\ c.id = 0 -> d.at = "done" /\ d.err = "InvalidParam"
      [] c.op = "register" /\ c.valid ->
           IF Present(c.key) THEN d.at = "done" /\ d.err = "Duplicate" ELSE d.at = "write" /\ d.err = "ok"
      [] c.op = "query" /\ c.id # 0 ->
           d.at = "done" /\ d.err = IF Present(c.key) THEN "ok" ELSE "NotFound"
      [] c.op \in {"rename", "remove"} /\ c.id # 0 ->
           /\ IF Present(c.key) THEN d.at = "write" /\ d.err = "ok" ELSE d.at = "done" /\ d.err = "NotFound"
           /\ c.op = "rename" /\ d.at = "write" => d.request = rows[c.key]

\* QueryUser.
LEMMA Queried ==
    ASSUME TableIs, NEW k \in DOMAIN calls, CallAt(calls[k]), QueryUser(k)
    PROVE  \E d : /\ calls' = [calls EXCEPT ![k] = d] /\ Alike(calls[k], d) /\ calls[k].at = "begin"
                  /\ (d.at = "done" /\ d.err = "Stopped") \/ Answer(calls[k], d)
<1>1. PICK c0 : c0 = calls[k]
  OBVIOUS
<1>2. c0 \in Contexts /\ (c0.driverFails <=> c0.op = "dbquery") /\ (c0.at # "done" => c0.err = "ok")
      /\ rows \in [UserIds -> Versions] /\ c0.op \in {"register", "rename", "remove", "query", "dbquery"}
  BY <1>1, SMTT(40) DEF CallAt, TableIs, Contexts, Writes
<1>3. PICK c : c = Validated(c0)
  OBVIOUS
<1>4. /\ Alike(c0, c) /\ c.at = c0.at
      /\ c.err = CASE c0.op = "register" -> (IF c0.valid THEN "ok" ELSE "InvalidParam")
                   [] c0.op = "dbquery" -> c0.err
                   [] OTHER -> (IF c0.id = 0 THEN "InvalidParam" ELSE "ok")
  <2>1. "InvalidParam" \in Outcomes /\ "ok" \in Outcomes /\ Alike(c0, c0)
    BY <1>2 DEF Outcomes, Alike
  <2>2. CASE c0.op = "register"
    BY <1>2, <1>3, <2>1, <2>2 DEF Validated, StepValidateRecord, Alike, Contexts
  <2>3. CASE c0.op = "dbquery"
    BY <1>3, <2>1, <2>3 DEF Validated
  <2>4. CASE c0.op \notin {"register", "dbquery"}
    BY <1>2, <1>3, <2>1, <2>4 DEF Validated, StepValidateUserId, Alike, Contexts
  <2> QED BY <2>2, <2>3, <2>4
<1>5. c \in Contexts /\ c.op = c0.op /\ c.key = c0.key /\ (c.driverFails <=> c.op = "dbquery")
  BY <1>2, <1>4 DEF Alike
<1>6. PICK loaded : loaded = StepLoadRow(c)
  OBVIOUS
<1>7. /\ Alike(c, loaded) /\ loaded.at = c.at
      /\ c.driverFails => loaded.err = "exception"
      /\ ~c.driverFails /\ Present(c.key) => loaded.err = c.err /\ loaded.found /\ loaded.result = rows[c.key]
      /\ ~c.driverFails /\ ~Present(c.key) => loaded.err = "RowNotFound"
  BY <1>2, <1>5, <1>6, Loaded
<1>8. PICK q : q = BridgeQueryUser(loaded)
  OBVIOUS
<1>9. /\ Alike(loaded, q) /\ q.at = loaded.at /\ q.result = loaded.result
      /\ loaded.err = "ok" => q.err = "ok" /\ q.exists
      /\ loaded.err = "RowNotFound" => q.err = "ok" /\ ~q.exists
  BY <1>7, <1>8, Bridges DEF Alike
<1>10. Alike(c0, loaded) /\ Alike(c0, q)
  BY <1>4, <1>7, <1>9, AlikeTwice
<1>11. PICK d : d = IF c.err # "ok" THEN ToService(StepAudit(c)) ELSE AfterLoad(loaded)
  OBVIOUS
<1>12. calls' = [calls EXCEPT ![k] = d] /\ c0.at = "begin"
  BY <1>1, <1>3, <1>4, <1>6, <1>11 DEF QueryUser, Put
<1>15. loaded.op = c.op
  BY <1>7 DEF Alike
<1>13. ASSUME NEW p, Alike(c0, p), d = ToService(p)
       PROVE  Alike(c0, d) /\ ((d.at = "done" /\ d.err = "Stopped")
                               \/ (d.at = p.at /\ d.err = p.err /\ d.request = p.request))
  <2>1. p \in Contexts
    BY <1>13 DEF Alike
  <2>2. /\ Alike(p, d) /\ d.request = p.request
        /\ halted => d.at = "done" /\ d.err = "Stopped"
        /\ ~halted => d.at = p.at /\ d.err = p.err
    BY <1>13, <2>1, Audited
  <2> QED BY <1>13, <2>2, AlikeTwice
<1>14. Alike(c0, d) /\ ((d.at = "done" /\ d.err = "Stopped") \/ Answer(c0, d))
  <2>1. CASE c.err # "ok"
    <3>1. PICK p : p = StepAudit(c)
      OBVIOUS
    <3>2. Alike(c, p) /\ p.at = "done" /\ p.err = c.err
      BY <1>5, <3>1, Audited
    <3>3. Alike(c0, p)
      BY <1>4, <3>2, AlikeTwice
    <3>7. d = ToService(p)
      BY <1>11, <2>1, <3>1
    <3>4. c.err = "InvalidParam" /\ c0.op # "dbquery" /\ (c0.op = "register" => ~c0.valid)
          /\ (c0.op # "register" => c0.id = 0)
      BY <1>2, <1>4, <1>12, <2>1
    <3>5. d.at = "done" /\ d.err = "InvalidParam" => Answer(c0, d)
      BY <3>4 DEF Answer
    <3> QED BY <1>13, <3>2, <3>3, <3>4, <3>5, <3>7
  <2>2. CASE c.err = "ok" /\ c.op = "dbquery"
    <3>1. loaded.err = "exception" /\ loaded \in Contexts /\ d = StepAudit(loaded)
      BY <1>5, <1>7, <1>11, <1>15, <2>2 DEF Alike, AfterLoad
    <3>2. Alike(loaded, d) /\ d.at = "done" /\ d.err = "exception"
      BY <3>1, Audited
    <3>3. Answer(c0, d)
      BY <1>5, <2>2, <3>2 DEF Answer
    <3> QED BY <1>10, <3>2, <3>3, AlikeTwice
  <2>3. CASE c.err = "ok" /\ c.op # "dbquery"
    <3>1. /\ q \in Contexts /\ q.err = "ok" /\ (q.exists <=> Present(c0.key))
          /\ (Present(c0.key) => q.result = rows[c0.key])
      BY <1>5, <1>7, <1>9, <2>3 DEF Alike
    <3>2. (c0.op = "register" => c0.valid) /\ (c0.op # "register" => c0.id # 0)
      BY <1>4, <1>5, <2>3
    <3>3. CASE c.op = "query"
      <4>1. PICK a : a = StepRejectIfAbsent(q)
        OBVIOUS
      <4>2. Alike(q, a) /\ a.err = IF Present(c0.key) THEN "ok" ELSE "NotFound"
        BY <3>1, <4>1, Rejections
      <4>3. PICK p : p = GoOn(a, "audit")
        OBVIOUS
      <4>4. Alike(a, p) /\ p.err = a.err /\ p.at = "done"
        BY <4>2, <4>3, GoesOn DEF Alike
      <4>5. Alike(c0, p) /\ d = ToService(p)
        BY <1>8, <1>10, <1>11, <1>15, <2>3, <3>3, <4>1, <4>2, <4>3, <4>4, AlikeTwice DEF AfterLoad
      <4>6. d.at = p.at /\ d.err = p.err => Answer(c0, d)
        BY <1>5, <3>2, <3>3, <4>2, <4>4 DEF Answer
      <4> QED BY <1>13, <4>5, <4>6
    <3>4. CASE c.op = "register"
      <4>1. PICK a : a = StepRejectIfExists(q)
        OBVIOUS
      <4>2. Alike(q, a) /\ a.err = IF Present(c0.key) THEN "Duplicate" ELSE "ok"
        BY <3>1, <4>1, Rejections
      <4>3. PICK p : p = GoOn(a, "write")
        OBVIOUS
      <4>4. Alike(a, p) /\ p.err = a.err /\ p.at = IF a.err = "ok" THEN "write" ELSE "done"
        BY <4>2, <4>3, GoesOn DEF Alike
      <4>5. Alike(c0, p) /\ d = ToService(p)
        BY <1>8, <1>10, <1>11, <1>15, <2>3, <3>4, <4>1, <4>2, <4>3, <4>4, AlikeTwice DEF AfterLoad
      <4>6. d.at = p.at /\ d.err = p.err => Answer(c0, d)
        BY <1>5, <3>2, <3>4, <4>2, <4>4 DEF Answer
      <4> QED BY <1>13, <4>5, <4>6
    <3>5. CASE c.op = "rename"
      <4>1. PICK r : r = StepRejectIfAbsent(q)
        OBVIOUS
      <4>2. Alike(q, r) /\ r.result = q.result /\ r.err = IF Present(c0.key) THEN "ok" ELSE "NotFound"
        BY <3>1, <4>1, Rejections
      <4>3. PICK a : a = StepPrepareRename(r)
        OBVIOUS
      <4>4. Alike(r, a) /\ a.err = r.err /\ (r.err = "ok" => a.request = r.result)
        BY <4>2, <4>3, Rejections DEF Alike
      <4>5. PICK p : p = GoOn(a, "write")
        OBVIOUS
      <4>6. Alike(a, p) /\ p.err = a.err /\ p.at = (IF a.err = "ok" THEN "write" ELSE "done") /\ p.request = a.request
        BY <4>4, <4>5, GoesOn DEF Alike
      <4>7. Alike(c0, r) /\ d = ToService(p)
        BY <1>8, <1>10, <1>11, <1>15, <2>3, <3>5, <4>1, <4>2, <4>3, <4>5, AlikeTwice DEF AfterLoad
      <4>8. Alike(c0, p)
        BY <4>4, <4>6, <4>7, AlikeTwice
      <4>9. d.at = p.at /\ d.err = p.err /\ d.request = p.request => Answer(c0, d)
        BY <1>5, <3>1, <3>2, <3>5, <4>2, <4>4, <4>6 DEF Answer
      <4> QED BY <1>13, <4>7, <4>8, <4>9
    <3>6. CASE c.op = "remove"
      <4>1. PICK a : a = StepRejectIfAbsent(q)
        OBVIOUS
      <4>2. Alike(q, a) /\ a.err = IF Present(c0.key) THEN "ok" ELSE "NotFound"
        BY <3>1, <4>1, Rejections
      <4>3. PICK p : p = GoOn(a, "write")
        OBVIOUS
      <4>4. Alike(a, p) /\ p.err = a.err /\ p.at = IF a.err = "ok" THEN "write" ELSE "done"
        BY <4>2, <4>3, GoesOn DEF Alike
      <4>5. Alike(c0, p) /\ d = ToService(p)
        BY <1>8, <1>10, <1>11, <1>15, <2>3, <3>6, <4>1, <4>2, <4>3, <4>4, AlikeTwice DEF AfterLoad
      <4>6. d.at = p.at /\ d.err = p.err => Answer(c0, d)
        BY <1>5, <3>2, <3>6, <4>2, <4>4 DEF Answer
      <4> QED BY <1>13, <4>5, <4>6
    <3> QED BY <1>2, <1>5, <2>3, <3>3, <3>4, <3>5, <3>6
  <2> QED BY <2>1, <2>2, <2>3
<1> QED BY <1>1, <1>12, <1>14

\* A query preserves the core of the invariant.
LEMMA QueryStep == ASSUME UsersCoreInv, NEW k \in DOMAIN calls, QueryUser(k) PROVE UsersCoreInv'
<1>1. PICK c : c = calls[k]
  OBVIOUS
<1>2. CallAt(c) /\ RenameAt(c) /\ TableIs
  BY <1>1 DEF UsersCoreInv
<1>3. PICK d : /\ calls' = [calls EXCEPT ![k] = d] /\ Alike(c, d) /\ c.at = "begin"
               /\ (d.at = "done" /\ d.err = "Stopped") \/ Answer(c, d)
  BY <1>1, <1>2, Queried
<1>4. rows' = rows /\ nRows' = nRows /\ nNextId' = nNextId
  BY DEF QueryUser
<1>5. CallAt(d)
  BY <1>2, <1>3 DEF CallAt, Alike, Answer, Contexts, Writes
<1>6. RenameAt(d)
  <2>1. CASE d.at \in {"write", "apply"} /\ d.op = "rename"
    <3>1. Present(d.key) /\ d.request = rows[d.key]
      BY <1>3, <2>1 DEF Answer, Alike
    <3>2. rows[d.key] \in Versions
      BY <1>2, <3>1 DEF Present, TableIs
    <3>3. d.attempt = 1 /\ d.seen = 0 /\ d.unseen = 0 /\ ~d.reborn /\ ~d.wrote /\ d.err = "ok"
      BY <1>2, <1>3, <2>1 DEF CallAt, Alike, Answer
    <3> QED BY <3>1, <3>2, <3>3 DEF RenameAt, Versions
  <2>2. CASE ~(d.at \in {"write", "apply"} /\ d.op = "rename")
    <3>1. ~d.wrote /\ d.err # "VersionConflict"
      BY <1>2, <1>3 DEF CallAt, Alike, Answer, Contexts, Writes
    <3> QED BY <2>2, <3>1 DEF RenameAt
  <2> QED BY <2>1, <2>2
<1>7. nNextId' \in Nat /\ nNextId' >= nNextId
  BY <1>2, <1>4 DEF TableIs
<1>8. d.op = c.op /\ (d.wrote <=> c.wrote) /\ ~c.wrote
  BY <1>2, <1>3 DEF Alike, CallAt
<1> QED BY <1>1, <1>3, <1>4, <1>5, <1>6, <1>7, <1>8, CallMoves

\* WriteLoads: only an insert that finds its row ends here.
LEMMA WriteLoaded ==
    ASSUME TableIs, NEW k \in DOMAIN calls, CallAt(calls[k]), WriteLoads(k)
    PROVE  \E d : /\ calls' = [calls EXCEPT ![k] = d] /\ Alike(calls[k], d) /\ calls[k].at = "write"
                  /\ \/ d.at = "apply" /\ d.err = "ok" /\ d.request = calls[k].request
                     \/ d.at = "done" /\ d.op = "register" /\ Present(d.key) /\ d.err \in {"Stopped", "Duplicate"}
<1>1. PICK c0 : c0 = calls[k]
  OBVIOUS
<1>2. c0 \in Contexts /\ c0.at = "write" /\ ~c0.driverFails /\ c0.err = "ok" /\ rows \in [UserIds -> Versions]
      /\ c0.op \in Writes
  BY <1>1 DEF CallAt, TableIs, WriteLoads, Writes
<1>3. PICK loaded : loaded = StepLoadRow(c0)
  OBVIOUS
<1>4. /\ Alike(c0, loaded) /\ loaded.at = "write" /\ loaded.request = c0.request
      /\ IF Present(c0.key) THEN loaded.err = "ok" /\ loaded.found ELSE loaded.err = "RowNotFound" /\ ~loaded.found
  BY <1>2, <1>3, Loaded
<1>5. PICK c : c = StepAcceptNotFound(loaded)
  OBVIOUS
<1>6. /\ Alike(loaded, c) /\ c.at = "write" /\ c.request = c0.request /\ c.err = "ok" /\ (c.found <=> Present(c0.key))
  BY <1>4, <1>5 DEF StepAcceptNotFound, Alike, Contexts, Outcomes
<1>7. PICK d : d = IF c.op = "register" THEN DbRejectIfExists(c) ELSE c
  OBVIOUS
<1>8. /\ Alike(c, d) /\ d.at = "write" /\ d.request = c0.request
      /\ d.err = IF c.op = "register" /\ Present(c0.key) THEN "DuplicateKey" ELSE "ok"
  BY <1>6, <1>7 DEF DbRejectIfExists, Alike, Contexts, Outcomes
<1>9. Alike(c0, d)
  BY <1>4, <1>6, <1>8, AlikeTwice
<1>10. PICK e : e = IF d.err = "ok" THEN [d EXCEPT !.at = "apply"] ELSE Bridged(d)
  OBVIOUS
<1>11. calls' = [calls EXCEPT ![k] = e]
  BY <1>1, <1>3, <1>5, <1>7, <1>10 DEF WriteLoads, Put
<1>12. CASE d.err = "ok"
  <2>1. Alike(d, e) /\ e.at = "apply" /\ e.err = "ok" /\ e.request = c0.request
    BY <1>8, <1>10, <1>12 DEF Alike, Contexts
  <2> QED BY <1>1, <1>2, <1>9, <1>11, <2>1, AlikeTwice
<1>13. CASE d.err # "ok"
  <2>1. d.op = "register" /\ d.err = "DuplicateKey" /\ Present(c0.key) /\ d \in Contexts
    BY <1>6, <1>8, <1>13 DEF Alike
  <2>2. Alike(d, e) /\ e.at = "done" /\ e.err \in {"Stopped", "Duplicate"}
    BY <1>10, <1>13, <2>1, BridgedIs
  <2>3. Alike(c0, e)
    BY <1>9, <2>2, AlikeTwice
  <2>4. e.op = "register" /\ Present(e.key)
    BY <2>1, <2>3, <1>9 DEF Alike
  <2> QED BY <1>1, <1>2, <1>11, <2>2, <2>3, <2>4
<1> QED BY <1>12, <1>13

\* It preserves the core of the invariant.
LEMMA WriteStep == ASSUME UsersCoreInv, NEW k \in DOMAIN calls, WriteLoads(k) PROVE UsersCoreInv'
<1>1. PICK c : c = calls[k]
  OBVIOUS
<1>2. CallAt(c) /\ RenameAt(c) /\ TableIs
  BY <1>1 DEF UsersCoreInv
<1>3. PICK d : /\ calls' = [calls EXCEPT ![k] = d] /\ Alike(c, d) /\ c.at = "write"
               /\ \/ d.at = "apply" /\ d.err = "ok" /\ d.request = c.request
                  \/ d.at = "done" /\ d.op = "register" /\ Present(d.key) /\ d.err \in {"Stopped", "Duplicate"}
  BY <1>1, <1>2, WriteLoaded
<1>4. rows' = rows /\ nRows' = nRows /\ nNextId' = nNextId
  BY DEF WriteLoads
<1>5. CallAt(d)
  BY <1>2, <1>3 DEF CallAt, Alike
<1>6. RenameAt(d)
  BY <1>2, <1>3 DEF CallAt, Alike, RenameAt
<1>7. nNextId' \in Nat /\ nNextId' >= nNextId
  BY <1>2, <1>4 DEF TableIs
<1>8. d.op = c.op /\ (d.wrote <=> c.wrote) /\ ~c.wrote
  BY <1>2, <1>3 DEF Alike, CallAt
<1> QED BY <1>1, <1>3, <1>4, <1>5, <1>6, <1>7, <1>8, CallMoves

\* A rival begins.
LEMMA RivalCallStep == ASSUME UsersCoreInv, NEW k \in DOMAIN calls, RivalCalls(k) PROVE UsersCoreInv'
<1>1. PICK c : c = calls[k]
  OBVIOUS
<1>2. CallAt(c) /\ RenameAt(c) /\ TableIs /\ c.at = "idle"
  BY <1>1 DEF UsersCoreInv, RivalCalls
<1>3. PICK d : d = [c EXCEPT !.at = "begin"]
  OBVIOUS
<1>4. Alike(c, d) /\ d.at = "begin" /\ d.err = c.err
  BY <1>2, <1>3 DEF CallAt, Alike, Contexts
<1>5. calls' = [calls EXCEPT ![k] = d] /\ rows' = rows /\ nRows' = nRows /\ nNextId' = nNextId
  BY <1>1, <1>3 DEF RivalCalls, Put
<1>6. CallAt(d)
  BY <1>2, <1>4 DEF CallAt, Alike
<1>7. RenameAt(d)
  BY <1>2, <1>4 DEF CallAt, Alike, RenameAt
<1>8. nNextId' \in Nat /\ nNextId' >= nNextId
  BY <1>2, <1>5 DEF TableIs
<1>9. d.op = c.op /\ (d.wrote <=> c.wrote) /\ ~c.wrote
  BY <1>2, <1>4 DEF Alike, CallAt
<1> QED BY <1>1, <1>5, <1>6, <1>7, <1>8, <1>9, CallMoves

\* A settled call whose result is taken.
LEMMA HeardAt ==
    ASSUME NEW c, CallAt(c), RenameAt(c), c.at = "done"
    PROVE  CallAt(Heard(c)) /\ RenameAt(Heard(c))
<1>1. c \in Contexts
  BY DEF CallAt
<1>2. PICK d : d = Heard(c)
  OBVIOUS
<1>3. /\ d \in Contexts /\ d.heard
      /\ d.op = c.op /\ d.id = c.id /\ d.key = c.key /\ d.by = c.by /\ d.at = c.at /\ d.err = c.err
      /\ (d.valid <=> c.valid) /\ (d.driverFails <=> c.driverFails) /\ (d.wrote <=> c.wrote)
      /\ d.result.born = c.result.born /\ d.unseen = 0 /\ d.seen = 0 /\ ~d.reborn /\ d.attempt = 1
  BY <1>1, <1>2, HeardIs
<1>4. CallAt(d)
  BY <1>3 DEF CallAt
<1>5. RenameAt(d)
  BY <1>3 DEF RenameAt
<1> QED BY <1>2, <1>4, <1>5

\* RivalSettled preserves the core of the invariant.
LEMMA RivalSettledStep == ASSUME UsersCoreInv, NEW k \in DOMAIN calls, RivalSettled(k) PROVE UsersCoreInv'
<1>1. PICK c : c = calls[k]
  OBVIOUS
<1>2. CallAt(c) /\ RenameAt(c) /\ TableIs /\ c.at = "done" /\ c \in Contexts
  BY <1>1 DEF UsersCoreInv, RivalSettled, CallAt
<1>3. PICK d : d = Heard(c)
  OBVIOUS
<1>4. d.op = c.op /\ d.key = c.key /\ (d.wrote <=> c.wrote) /\ d.result.born = c.result.born
  BY <1>2, <1>3, HeardIs
<1>5. calls' = [calls EXCEPT ![k] = d] /\ rows' = rows /\ nRows' = nRows /\ nNextId' = nNextId
  BY <1>1, <1>3 DEF RivalSettled, Put
<1>6. CallAt(d) /\ RenameAt(d)
  BY <1>2, <1>3, HeardAt
<1>8. nNextId' \in Nat /\ nNextId' >= nNextId
  BY <1>2, <1>5 DEF TableIs
<1> QED BY <1>1, <1>4, <1>5, <1>6, <1>8, CallMoves

-------------------------------------------------------------------------------
\* PutAndNotice.
LEMMA PutIs ==
    ASSUME calls \in Seq(Contexts), NEW k \in DOMAIN calls, NEW d \in Contexts, NEW erased \in BOOLEAN,
           PutAndNotice(k, d, erased)
    PROVE  /\ calls' \in Seq(Contexts) /\ DOMAIN calls' = DOMAIN calls /\ calls'[k] = d
           /\ \A i \in DOMAIN calls : i # k => Beside(calls[i], calls'[i]) /\ calls'[i] = Notice(calls[i], d.key, erased)
<1> DEFINE r == [i \in DOMAIN calls |-> IF i = k THEN d ELSE Notice(calls[i], d.key, erased)]
<1>1. calls' = r
  BY DEF PutAndNotice
<1>2. ASSUME NEW i \in DOMAIN calls PROVE calls[i] \in Contexts
  BY <1>2
<1>3. ASSUME NEW i \in DOMAIN calls, i # k
      PROVE  r[i] = Notice(calls[i], d.key, erased) /\ Beside(calls[i], r[i])
  <2>1. PICK c : c = calls[i]
    OBVIOUS
  <2>2. c \in Contexts
    BY <1>2, <1>3, <2>1
  <2>3. PICK id : id = d.key
    OBVIOUS
  <2>4. Beside(c, Notice(c, id, erased))
    BY <2>2, NoticeIs
  <2>5. r[i] = Notice(c, id, erased)
    BY <1>3, <2>1, <2>3
  <2> QED BY <2>1, <2>3, <2>4, <2>5
<1>4. DOMAIN r = DOMAIN calls /\ r[k] = d
  OBVIOUS
<1>5. \A i \in DOMAIN calls : r[i] \in Contexts
  BY <1>3, <1>4 DEF Beside
<1>6. r \in Seq(Contexts)
  <2>1. r = [i \in DOMAIN r |-> r[i]]
    OBVIOUS
  <2> HIDE DEF r
  <2> QED BY <1>4, <1>5, <2>1, OneMapped
<1> QED BY <1>1, <1>3, <1>4, <1>6

\* The rows there are finitely many.
LEMMA RowsFinite == IsFiniteSet(There)
<1>1. IsFiniteSet(UserIds)
  <2>1. 1 \in Int /\ MaxUserId \in Int
    BY UsersAssumption
  <2> QED BY <2>1, FS_Interval DEF UserIds
<1>2. There \subseteq UserIds
  BY DEF There
<1> QED BY <1>1, <1>2, FS_Subset

\* So are the renames.
LEMMA RenamedFinite ==
    ASSUME NEW b, calls \in Seq(Contexts)
    PROVE  IsFiniteSet(Renamed(b)) /\ Renamed(b) \subseteq DOMAIN calls
<1>1. Len(calls) \in Nat /\ DOMAIN calls = 1 .. Len(calls)
  OBVIOUS
<1>2. 1 \in Int /\ Len(calls) \in Int
  BY <1>1
<1>3. IsFiniteSet(DOMAIN calls)
  BY <1>1, <1>2, FS_Interval
<1>4. Renamed(b) \subseteq DOMAIN calls
  BY DEF Renamed
<1> QED BY <1>3, <1>4, FS_Subset

\* A call that has written.
Written(c, d) ==
    /\ c \in Contexts /\ d \in Contexts
    /\ d.op = c.op /\ d.by = c.by /\ d.attempt = c.attempt /\ d.seen = c.seen /\ d.unseen = c.unseen
    /\ (d.valid <=> c.valid) /\ (d.driverFails <=> c.driverFails) /\ (d.reborn <=> c.reborn) /\ (d.heard <=> c.heard)
    /\ d.wrote /\ d.at = "done" /\ d.err = IF halted THEN "Stopped" ELSE "ok"

\* What an insert comes to.
InsertEnds(k, id, d) ==
    IF Present(id)
    THEN /\ calls' = [calls EXCEPT ![k] = d] /\ Alike(calls[k], d) /\ d.at = "done"
         /\ d.err = IF halted THEN "Stopped" ELSE "Duplicate"
         /\ rows' = rows /\ nRows' = nRows
    ELSE /\ PutAndNotice(k, d, FALSE) /\ Written(calls[k], d) /\ d.id = id /\ d.key = id /\ d.result.born = k
         /\ rows' = [rows EXCEPT ![id] = [version |-> 1, born |-> k]] /\ nRows' = nRows + 1

\* StepInsertRow: the row goes in unless there is one.
LEMMA Inserts ==
    ASSUME TableIs, NEW k \in DOMAIN calls, CallAt(calls[k]), StepInsertRow(k), NEW id,
           id = IF calls[k].key = 0 THEN nNextId ELSE calls[k].key
    PROVE  /\ calls[k].at = "apply" /\ calls[k].op = "register" /\ id \in UserIds
           /\ nNextId' = IF calls[k].key = 0 THEN nNextId + 1 ELSE nNextId
           /\ \E d : InsertEnds(k, id, d)
<1>1. PICK c : c = calls[k]
  OBVIOUS
<1>2. c \in Contexts /\ c.at = "apply" /\ c.op = "register" /\ id \in UserIds /\ id \in Nat
  BY <1>1 DEF CallAt, StepInsertRow, UserIds
<1>3. nNextId' = IF calls[k].key = 0 THEN nNextId + 1 ELSE nNextId
  BY DEF StepInsertRow
<1>4. CASE Present(id)
  <2>1. PICK e : e = [c EXCEPT !.err = "DuplicateKey"]
    OBVIOUS
  <2>2. Alike(c, e) /\ e.err = "DuplicateKey" /\ e.op = "register" /\ e \in Contexts
    BY <1>2, <2>1 DEF Alike, Contexts, Outcomes
  <2>3. PICK d : d = Bridged(e)
    OBVIOUS
  <2>4. Alike(e, d) /\ d.at = "done" /\ d.err = IF halted THEN "Stopped" ELSE "Duplicate"
    BY <2>2, <2>3, BridgedIs
  <2>5. calls' = [calls EXCEPT ![k] = d] /\ rows' = rows /\ nRows' = nRows
    BY <1>1, <1>4, <2>1, <2>3 DEF StepInsertRow, Put
  <2>6. Alike(c, d)
    BY <2>2, <2>4, AlikeTwice
  <2>7. InsertEnds(k, id, d)
    BY <1>1, <1>4, <2>4, <2>5, <2>6 DEF InsertEnds
  <2> QED BY <1>1, <1>2, <1>3, <2>7
<1>5. CASE ~Present(id)
  <2>1. PICK row : row = [version |-> 1, born |-> k]
    OBVIOUS
  <2>2. row \in Versions /\ row.born = k
    <3>1. k \in Nat
      BY DEF TableIs
    <3> QED BY <2>1, <3>1 DEF Versions
  <2>3. PICK e : e = [c EXCEPT !.key = id, !.result = row, !.wrote = TRUE]
    OBVIOUS
  <2>4. e \in Contexts
    BY <1>2, <2>2, <2>3 DEF Contexts
  <2>5. /\ e.op = "register" /\ e.err = c.err /\ e.key = id /\ e.result = row /\ e.wrote
        /\ e.by = c.by /\ e.attempt = c.attempt /\ e.seen = c.seen /\ e.unseen = c.unseen
        /\ (e.valid <=> c.valid) /\ (e.driverFails <=> c.driverFails) /\ (e.reborn <=> c.reborn)
        /\ (e.heard <=> c.heard)
    BY <1>2, <2>3 DEF Contexts
  <2>6. e.err = "ok"
    BY <1>1, <1>2, <2>5 DEF CallAt
  <2>7. PICK b : b = [e EXCEPT !.id = id]
    OBVIOUS
  <2>8. b \in Contexts /\ b.id = id
    BY <1>2, <2>4, <2>7 DEF Contexts
  <2>9. /\ b.op = "register" /\ b.err = "ok" /\ b.key = id /\ b.result = row /\ b.wrote
        /\ b.by = c.by /\ b.attempt = c.attempt /\ b.seen = c.seen /\ b.unseen = c.unseen
        /\ (b.valid <=> c.valid) /\ (b.driverFails <=> c.driverFails) /\ (b.reborn <=> c.reborn)
        /\ (b.heard <=> c.heard)
    BY <2>4, <2>5, <2>6, <2>7 DEF Contexts
  <2>10. b = BridgeInsertUser(e)
    BY <2>5, <2>6, <2>7 DEF BridgeInsertUser
  <2>11. PICK a : a = StepAudit(b)
    OBVIOUS
  <2>12. Alike(b, a) /\ a.at = "done" /\ a.err = "ok" /\ a.result = row
    BY <2>8, <2>9, <2>11, Audited DEF StepAudit, Contexts
  <2>13. PICK d : d = ToService(a)
    OBVIOUS
  <2>14. /\ Alike(a, d) /\ d.result = row
         /\ halted => d.at = "done" /\ d.err = "Stopped"
         /\ ~halted => d.at = "done" /\ d.err = "ok"
    <3>1. a \in Contexts
      BY <2>12 DEF Alike
    <3> QED BY <2>12, <2>13, <3>1, Audited
  <2>15. d = Bridged(e)
    BY <2>5, <2>10, <2>11, <2>13 DEF Bridged
  <2>16. PutAndNotice(k, d, FALSE) /\ rows' = [rows EXCEPT ![id] = row] /\ nRows' = nRows + 1
    BY <1>1, <1>5, <2>1, <2>3, <2>15 DEF StepInsertRow
  <2>17. Alike(b, d)
    BY <2>12, <2>14, AlikeTwice
  <2>18. Written(c, d) /\ d.id = id /\ d.key = id /\ d.result.born = k
    BY <1>2, <2>2, <2>8, <2>9, <2>14, <2>17 DEF Alike, Written
  <2>19. InsertEnds(k, id, d)
    BY <1>1, <1>5, <2>1, <2>16, <2>18 DEF InsertEnds
  <2> QED BY <1>1, <1>2, <1>3, <2>19
<1> QED BY <1>4, <1>5

\* What an update comes to.
ApplyEnds(k, c, d) ==
    IF ~Present(c.key)
    THEN /\ calls' = [calls EXCEPT ![k] = d] /\ Alike(c, d) /\ d.at = "done"
         /\ d.err = (IF halted THEN "Stopped" ELSE "DbUnavailable") /\ rows' = rows
    ELSE IF rows[c.key].version # c.request.version
    THEN /\ calls' = [calls EXCEPT ![k] = d] /\ rows' = rows
         /\ IF c.attempt < kMaxUpdateAttempts
            THEN /\ d \in Contexts /\ d.at = "write" /\ d.err = "ok" /\ d.attempt = c.attempt + 1
                 /\ d.request = rows[c.key] /\ d.unseen = 0 /\ ~d.reborn /\ d.seen = c.seen
                 /\ d.op = c.op /\ d.id = c.id /\ d.key = c.key /\ d.by = c.by
                 /\ (d.valid <=> c.valid) /\ (d.driverFails <=> c.driverFails)
                 /\ (d.wrote <=> c.wrote) /\ (d.heard <=> c.heard)
            ELSE /\ Alike(c, d) /\ d.at = "done"
                 /\ d.err = IF halted THEN "Stopped" ELSE "VersionConflict"
    ELSE /\ PutAndNotice(k, d, FALSE) /\ Written(c, d) /\ d.id = c.id /\ d.key = c.key
         /\ d.result.born = rows[c.key].born
         /\ rows' = [rows EXCEPT ![c.key] =
                       [version |-> rows[c.key].version + 1, born |-> rows[c.key].born]]

\* StepApplyUpdate: the row in the version expected is updated; another version is
\* a conflict, tried again unless it was the last attempt.
LEMMA Applies ==
    ASSUME TableIs, NEW k \in DOMAIN calls, CallAt(calls[k]), StepApplyUpdate(k), NEW c, c = calls[k]
    PROVE  /\ c.at = "apply" /\ c.op = "rename" /\ nRows' = nRows /\ nNextId' = nNextId
           /\ \E d : ApplyEnds(k, c, d)
<1>2. c \in Contexts /\ c.at = "apply" /\ c.op = "rename" /\ c.err = "ok" /\ nRows' = nRows /\ nNextId' = nNextId
  BY DEF CallAt, StepApplyUpdate
<1>3. kMaxUpdateAttempts \in Nat /\ kMaxUpdateAttempts >= 3
  BY UsersAssumption
<1>4. CASE ~Present(c.key)
  <2>1. PICK e : e = [c EXCEPT !.err = "RowNotFound"]
    OBVIOUS
  <2>2. Alike(c, e) /\ e.err = "RowNotFound" /\ e.op = "rename" /\ e \in Contexts
    BY <1>2, <2>1 DEF Alike, Contexts, Outcomes
  <2>3. PICK d : d = Bridged(e)
    OBVIOUS
  <2>4. Alike(e, d) /\ d.at = "done" /\ d.err = IF halted THEN "Stopped" ELSE "DbUnavailable"
    BY <2>2, <2>3, BridgedIs
  <2>5. UpdateUserAttempt(e) = d
    BY <2>2, <2>3 DEF UpdateUserAttempt
  <2>6. calls' = [calls EXCEPT ![k] = d] /\ rows' = rows
    BY <1>4, <2>1, <2>5 DEF StepApplyUpdate, Put
  <2>7. Alike(c, d)
    BY <2>2, <2>4, AlikeTwice
  <2>8. ApplyEnds(k, c, d)
    BY <1>4, <2>4, <2>6, <2>7 DEF ApplyEnds
  <2> QED BY <1>2, <2>8
<1>5. ASSUME Present(c.key) PROVE rows[c.key] \in Versions
  BY <1>5 DEF Present, TableIs
<1>6. CASE Present(c.key) /\ rows[c.key].version # c.request.version
  <2>1. PICK r : r = rows[c.key]
    OBVIOUS
  <2>2. r \in Versions
    BY <1>5, <1>6, <2>1
  <2>3. PICK e : e = [c EXCEPT !.err = "VersionConflict", !.result = r]
    OBVIOUS
  <2>4. e \in Contexts /\ e.err = "VersionConflict" /\ e.result = r
    BY <1>2, <2>2, <2>3 DEF Contexts, Outcomes
  <2>5. Alike(c, e)
    BY <1>2, <2>3, <2>4 DEF Alike, Contexts
  <2>6. PICK d : d = UpdateUserAttempt(e)
    OBVIOUS
  <2>7. calls' = [calls EXCEPT ![k] = d] /\ rows' = rows
    <3>1. ~SameVersion(rows[c.key], c.request)
      BY <1>6 DEF SameVersion
    <3> QED BY <1>6, <2>1, <2>3, <2>6, <3>1 DEF StepApplyUpdate, Put
  <2>8. CASE c.attempt < kMaxUpdateAttempts
    <3>1. PICK n : n = c.attempt + 1
      OBVIOUS
    <3>2. n \in Nat /\ e.attempt = c.attempt /\ c.attempt \in Nat
      BY <1>2, <2>5, <3>1 DEF Contexts, Alike
    <3>3. d = [e EXCEPT !.err = "ok", !.at = "write", !.attempt = n, !.request = r, !.unseen = 0, !.reborn = FALSE]
      BY <2>4, <2>6, <2>8, <3>1, <3>2 DEF UpdateUserAttempt, Contexts
    <3>4. d \in Contexts
      BY <2>2, <2>4, <3>2, <3>3 DEF Contexts, Outcomes
    <3>5. /\ d.at = "write" /\ d.err = "ok" /\ d.attempt = n /\ d.request = r /\ d.unseen = 0 /\ ~d.reborn
          /\ d.seen = e.seen /\ d.op = e.op /\ d.id = e.id /\ d.key = e.key /\ d.by = e.by
          /\ (d.valid <=> e.valid) /\ (d.driverFails <=> e.driverFails)
          /\ (d.wrote <=> e.wrote) /\ (d.heard <=> e.heard)
      BY <2>4, <3>3 DEF Contexts
    <3>6. /\ d.seen = c.seen /\ d.op = c.op /\ d.id = c.id /\ d.key = c.key /\ d.by = c.by
          /\ (d.valid <=> c.valid) /\ (d.driverFails <=> c.driverFails)
          /\ (d.wrote <=> c.wrote) /\ (d.heard <=> c.heard)
      BY <2>5, <3>5 DEF Alike
    <3>7. ApplyEnds(k, c, d)
      BY <1>6, <2>1, <2>7, <2>8, <3>1, <3>4, <3>5, <3>6 DEF ApplyEnds
    <3> QED BY <1>2, <3>7
  <2>9. CASE ~(c.attempt < kMaxUpdateAttempts)
    <3>1. d = Bridged(e) /\ e.op = "rename"
      BY <1>2, <2>4, <2>5, <2>6, <2>9 DEF UpdateUserAttempt, Alike
    <3>2. Alike(e, d) /\ d.at = "done" /\ d.err = IF halted THEN "Stopped" ELSE "VersionConflict"
      BY <2>4, <3>1, BridgedIs
    <3>3. Alike(c, d)
      BY <2>5, <3>2, AlikeTwice
    <3>4. ApplyEnds(k, c, d)
      BY <1>6, <2>7, <2>9, <3>2, <3>3 DEF ApplyEnds
    <3> QED BY <1>2, <3>4
  <2> QED BY <2>8, <2>9
<1>7. CASE Present(c.key) /\ rows[c.key].version = c.request.version
  <2>1. PICK r, n : r = rows[c.key] /\ n = r.version + 1
    OBVIOUS
  <2>2. r \in Versions /\ n \in Nat
    BY <1>5, <1>7, <2>1 DEF Versions
  <2>3. PICK row : row = [version |-> n, born |-> r.born]
    OBVIOUS
  <2>4. row \in Versions /\ row.born = r.born
    BY <2>2, <2>3 DEF Versions
  <2>5. row = [r EXCEPT !.version = @ + 1]
    BY <2>1, <2>2, <2>3 DEF Versions
  <2>6. PICK e : e = [c EXCEPT !.result = row, !.wrote = TRUE]
    OBVIOUS
  <2>7. e \in Contexts
    BY <1>2, <2>4, <2>6 DEF Contexts
  <2>8. /\ e.op = "rename" /\ e.err = "ok" /\ e.id = c.id /\ e.key = c.key /\ e.result = row /\ e.wrote
        /\ e.by = c.by /\ e.attempt = c.attempt /\ e.seen = c.seen /\ e.unseen = c.unseen
        /\ (e.valid <=> c.valid) /\ (e.driverFails <=> c.driverFails) /\ (e.reborn <=> c.reborn)
        /\ (e.heard <=> c.heard)
    BY <1>2, <2>6 DEF Contexts
  <2>9. PICK d : d = Bridged(e)
    OBVIOUS
  <2>10. Alike(e, d) /\ d.at = "done" /\ d.result = row /\ d.err = IF halted THEN "Stopped" ELSE "ok"
    BY <2>7, <2>8, <2>9, BridgedIs
  <2>11. UpdateUserAttempt(e) = d
    BY <2>8, <2>9 DEF UpdateUserAttempt
  <2>12. PutAndNotice(k, d, FALSE) /\ rows' = [rows EXCEPT ![c.key] = row]
    <3>1. SameVersion(rows[c.key], c.request)
      BY <1>7 DEF SameVersion
    <3> QED BY <1>7, <2>1, <2>5, <2>6, <2>11, <3>1 DEF StepApplyUpdate
  <2>13. Written(c, d) /\ d.id = c.id /\ d.key = c.key /\ d.result.born = r.born
    BY <1>2, <2>4, <2>8, <2>10 DEF Alike, Written
  <2>14. ApplyEnds(k, c, d)
    BY <1>7, <2>1, <2>3, <2>12, <2>13 DEF ApplyEnds
  <2> QED BY <1>2, <2>14
<1> QED BY <1>4, <1>6, <1>7

\* What a removal comes to.
EraseEnds(k, c, d) ==
    IF Present(c.key)
    THEN /\ PutAndNotice(k, d, TRUE) /\ Written(c, d) /\ d.id = c.id /\ d.key = c.key
         /\ rows' = [rows EXCEPT ![c.key] = NoRow] /\ nRows' = nRows - 1
    ELSE /\ calls' = [calls EXCEPT ![k] = d] /\ Alike(c, d) /\ d.at = "done"
         /\ d.err = (IF halted THEN "Stopped" ELSE "NotFound")
         /\ rows' = rows /\ nRows' = nRows

\* StepEraseRow.
LEMMA Erases ==
    ASSUME TableIs, NEW k \in DOMAIN calls, CallAt(calls[k]), StepEraseRow(k), NEW c, c = calls[k]
    PROVE  /\ c.at = "apply" /\ c.op = "remove" /\ nNextId' = nNextId
           /\ \E d : EraseEnds(k, c, d)
<1>2. c \in Contexts /\ c.at = "apply" /\ c.op = "remove" /\ c.err = "ok" /\ nNextId' = nNextId
  BY DEF CallAt, StepEraseRow
<1>4. CASE ~Present(c.key)
  <2>1. PICK e : e = [c EXCEPT !.err = "RowNotFound"]
    OBVIOUS
  <2>2. Alike(c, e) /\ e.err = "RowNotFound" /\ e.op = "remove" /\ e \in Contexts
    BY <1>2, <2>1 DEF Alike, Contexts, Outcomes
  <2>3. PICK d : d = Bridged(e)
    OBVIOUS
  <2>4. Alike(e, d) /\ d.at = "done" /\ d.err = IF halted THEN "Stopped" ELSE "NotFound"
    BY <2>2, <2>3, BridgedIs
  <2>6. calls' = [calls EXCEPT ![k] = d] /\ rows' = rows /\ nRows' = nRows
    BY <1>4, <2>1, <2>3 DEF StepEraseRow, Put
  <2>7. Alike(c, d)
    BY <2>2, <2>4, AlikeTwice
  <2>8. EraseEnds(k, c, d)
    BY <1>4, <2>4, <2>6, <2>7 DEF EraseEnds
  <2> QED BY <1>2, <2>8
<1>5. CASE Present(c.key)
  <2>6. PICK e : e = [c EXCEPT !.wrote = TRUE]
    OBVIOUS
  <2>7. e \in Contexts
    BY <1>2, <2>6 DEF Contexts
  <2>8. /\ e.op = "remove" /\ e.err = "ok" /\ e.id = c.id /\ e.key = c.key /\ e.wrote
        /\ e.by = c.by /\ e.attempt = c.attempt /\ e.seen = c.seen /\ e.unseen = c.unseen
        /\ (e.valid <=> c.valid) /\ (e.driverFails <=> c.driverFails) /\ (e.reborn <=> c.reborn)
        /\ (e.heard <=> c.heard)
    BY <1>2, <2>6 DEF Contexts
  <2>9. PICK d : d = Bridged(e)
    OBVIOUS
  <2>10. Alike(e, d) /\ d.at = "done" /\ d.err = IF halted THEN "Stopped" ELSE "ok"
    BY <2>7, <2>8, <2>9, BridgedIs
  <2>12. PutAndNotice(k, d, TRUE) /\ rows' = [rows EXCEPT ![c.key] = NoRow] /\ nRows' = nRows - 1
    BY <1>5, <2>6, <2>9 DEF StepEraseRow
  <2>13. Written(c, d) /\ d.id = c.id /\ d.key = c.key
    BY <1>2, <2>8, <2>10 DEF Alike, Written
  <2>14. EraseEnds(k, c, d)
    BY <1>5, <2>12, <2>13 DEF EraseEnds
  <2> QED BY <1>2, <2>14
<1> QED BY <1>4, <1>5

-------------------------------------------------------------------------------
\* A call that another call's write meets.
LEMMA OthersCall ==
    ASSUME NEW c, CallAt(c), NEW id, NEW erased \in BOOLEAN, NEW d, d = Notice(c, id, erased)
    PROVE  CallAt(d)
<1>1. c \in Contexts
  BY DEF CallAt
<1>2. /\ Beside(c, d)
      /\ IF c.at \in {"write", "apply"} /\ c.key = id
         THEN d.seen = c.seen + 1 /\ d.unseen = c.unseen + 1 /\ (d.reborn <=> c.reborn \/ erased)
         ELSE d.seen = c.seen /\ d.unseen = c.unseen /\ (d.reborn <=> c.reborn)
  BY <1>1, NoticeIs
<1> QED BY <1>2 DEF CallAt, Beside

\* A rename that a write meets: the version moves with what it has not seen.
LEMMA OthersRename ==
    ASSUME NEW c, CallAt(c), RenameAt(c), rows \in [UserIds -> Versions], NEW id \in UserIds, NEW erased \in BOOLEAN,
           NEW row \in Versions, rows' = [rows EXCEPT ![id] = row],
           erased \/ ~Present(id) \/ row.version = rows[id].version + 1,
           NEW d, d = Notice(c, id, erased)
    PROVE  RenameAt(d)'
<1>1. c \in Contexts
  BY DEF CallAt
<1>2. /\ Beside(c, d)
      /\ IF c.at \in {"write", "apply"} /\ c.key = id
         THEN d.seen = c.seen + 1 /\ d.unseen = c.unseen + 1 /\ (d.reborn <=> c.reborn \/ erased)
         ELSE d.seen = c.seen /\ d.unseen = c.unseen /\ (d.reborn <=> c.reborn)
  BY <1>1, NoticeIs
<1>3. d.op = c.op /\ d.at = c.at /\ d.key = c.key /\ (d.wrote <=> c.wrote) /\ d.err = c.err /\ (d.heard <=> c.heard)
      /\ d.request = c.request /\ d.attempt = c.attempt
  BY <1>2 DEF Beside
<1>4. c.seen \in Nat /\ c.unseen \in Nat /\ c.attempt \in Nat /\ c.request.version \in Nat
  BY <1>1 DEF Contexts, Versions
<1>5. SUFFICES ASSUME d.op = "rename" PROVE RenameAt(d)'
  BY DEF RenameAt
<1>6. CASE c.at \in {"write", "apply"} /\ c.key = id
  <2>1. ~d.wrote /\ d.err = "ok"
    BY <1>3, <1>6 DEF CallAt
  <2>2. d.reborn => d.unseen > 0
    BY <1>2, <1>4, <1>6
  <2>3. d.seen + 1 >= d.attempt + d.unseen
    BY <1>2, <1>3, <1>4, <1>5, <1>6 DEF RenameAt
  <2>4. ASSUME ~d.reborn
        PROVE  d.key \in UserIds /\ rows'[d.key] # NoRow /\ rows'[d.key].version = d.request.version + d.unseen
    <3>1. ~erased /\ Present(id) /\ rows[id].version = c.request.version + c.unseen
      BY <1>2, <1>3, <1>5, <1>6, <2>4 DEF RenameAt
    <3>2. rows'[id] = row /\ row.version = c.request.version + c.unseen + 1 /\ d.key = id
      BY <1>3, <1>6, <3>1
    <3>3. row.version > 0 /\ row # NoRow
      BY <1>4, <3>2 DEF NoRow
    <3> QED BY <1>2, <1>3, <1>4, <1>6, <3>2, <3>3
  <2> QED BY <2>1, <2>2, <2>3, <2>4 DEF RenameAt, Present
<1>7. CASE ~(c.at \in {"write", "apply"} /\ c.key = id)
  <2>1. d.seen = c.seen /\ d.unseen = c.unseen /\ (d.reborn <=> c.reborn)
    BY <1>2, <1>7
  <2>2. CASE c.at \in {"write", "apply"}
    <3>1. c.key # id
      BY <1>7, <2>2
    <3>2. Present(c.key) => c.key \in UserIds /\ rows'[c.key] = rows[c.key]
      BY <3>1 DEF Present
    <3> QED BY <1>3, <1>5, <2>1, <2>2, <3>2 DEF RenameAt, Present
  <2>3. CASE c.at \notin {"write", "apply"}
    BY <1>3, <1>5, <2>1, <2>3 DEF RenameAt
  <2> QED BY <2>2, <2>3
<1> QED BY <1>6, <1>7

\* A call writes a row: the others keep theirs.
LEMMA TableChanges ==
    ASSUME TableIs, NEW k \in DOMAIN calls, ~calls[k].wrote,
           calls' \in Seq(Contexts), DOMAIN calls' = DOMAIN calls,
           \A i \in DOMAIN calls : i # k => Beside(calls[i], calls'[i]),
           calls'[k].op = calls[k].op, calls'[k].wrote, NEW id \in UserIds, calls'[k].key = id,
           calls[k].op = "rename" => Present(id) /\ calls'[k].result.born = rows[id].born,
           NEW row \in Versions, rows' = [rows EXCEPT ![id] = row],
           nNextId' \in Nat, nNextId' >= nNextId,
           nRows' = Cardinality(There'), RowAt(id)'
    PROVE  TableIs'
<1>1. rows' \in [UserIds -> Versions]
  BY DEF TableIs
<1>2. nNextId' >= kFirstAutoId
  BY UsersAssumption DEF TableIs
<1>3. \A i \in DOMAIN calls : i # k =>
        /\ calls'[i].op = calls[i].op /\ (calls'[i].wrote <=> calls[i].wrote) /\ calls'[i].key = calls[i].key
        /\ calls'[i].result = calls[i].result
  BY DEF Beside
<1>4. ASSUME NEW i \in UserIds, i # id PROVE RowAt(i)'
  <2>1. rows'[i] = rows[i] /\ (Present(i)' <=> Present(i)) /\ RowAt(i)
    BY <1>4 DEF Present, TableIs
  <2>2. PICK b : b = rows[i].born
    OBVIOUS
  <2>3. SUFFICES ASSUME Present(i), b > 0
                 PROVE  /\ b \in DOMAIN calls /\ calls'[b].op = "register" /\ calls'[b].wrote /\ calls'[b].key = i
                        /\ rows[i].version = 1 + Cardinality(Renamed(b)')
    <3>1. Renamed(rows[i].born)' = Renamed(b)'
      BY <2>1, <2>2 DEF Renamed
    <3>2. Present(i) => rows[i].version > 0
      BY <2>1 DEF RowAt
    <3> QED BY <2>1, <2>2, <3>1, <3>2 DEF RowAt
  <2>4. b \in DOMAIN calls /\ calls[b].op = "register" /\ calls[b].wrote /\ calls[b].key = i
        /\ rows[i].version = 1 + Cardinality(Renamed(b))
    BY <2>1, <2>2, <2>3 DEF RowAt
  <2>5. b # k /\ calls'[b].op = "register" /\ calls'[b].wrote /\ calls'[b].key = i
    BY <1>3, <2>4
  <2>6. ~(calls[k].op = "rename" /\ calls'[k].result.born = b)
    <3>1. SUFFICES ASSUME calls[k].op = "rename", rows[id].born = b PROVE FALSE
      OBVIOUS
    <3>2. RowAt(id) /\ Present(id) /\ b > 0
      BY <2>3, <3>1 DEF TableIs
    <3>3. calls[b].key = id
      BY <3>1, <3>2 DEF RowAt
    <3> QED BY <1>4, <2>4, <3>3
  <2>7. {j \in DOMAIN calls' : calls'[j].op = "rename" /\ calls'[j].wrote /\ calls'[j].result.born = b} = Renamed(b)
    BY <1>3, <2>6 DEF Renamed
  <2>8. Renamed(b)' = Renamed(b)
    BY <2>7 DEF Renamed
  <2> QED BY <2>4, <2>5, <2>8
<1>5. ASSUME NEW i \in DOMAIN calls', calls'[i].op = "rename", calls'[i].wrote, calls'[i].result.born > 0
      PROVE  /\ calls'[i].result.born \in DOMAIN calls'
             /\ LET b == calls'[calls'[i].result.born] IN b.op = "register" /\ b.wrote /\ b.key = calls'[i].key
  <2>1. PICK b : b = calls'[i].result.born
    OBVIOUS
  <2>2. b \in DOMAIN calls /\ calls[b].op = "register" /\ calls[b].wrote /\ calls[b].key = calls'[i].key
    <3>1. CASE i = k
      <4>1. Present(id) /\ rows[id].born = b /\ b > 0 /\ RowAt(id) /\ calls'[i].key = id
        BY <1>5, <2>1, <3>1 DEF TableIs
      <4> QED BY <4>1 DEF RowAt
    <3>2. CASE i # k
      <4>1. calls[i].op = "rename" /\ calls[i].wrote /\ calls[i].result.born = b /\ calls[i].key = calls'[i].key /\ b > 0
        BY <1>3, <1>5, <2>1, <3>2
      <4>2. i \in DOMAIN calls
        BY <1>5
      <4> QED BY <4>1, <4>2 DEF TableIs
    <3> QED BY <3>1, <3>2
  <2>3. b # k
    BY <2>2
  <2> QED BY <1>3, <2>1, <2>2, <2>3
<1> QED BY <1>1, <1>2, <1>4, <1>5 DEF TableIs

\* Who calls and what each has come to, after a write.
LEMMA WriteKeepsCalls ==
    ASSUME UsersCoreInv, NEW k \in DOMAIN calls, NEW d, NEW erased \in BOOLEAN, PutAndNotice(k, d, erased),
           CallAt(d), RenameAt(d)', NEW id \in UserIds, d.key = id, NEW row \in Versions, rows' = [rows EXCEPT ![id] = row],
           erased \/ ~Present(id) \/ row.version = rows[id].version + 1, TableIs'
    PROVE  UsersCoreInv'
<1>1. calls \in Seq(Contexts) /\ rows \in [UserIds -> Versions] /\ d \in Contexts
  BY DEF UsersCoreInv, TableIs, CallAt
<1>2. /\ calls' \in Seq(Contexts) /\ DOMAIN calls' = DOMAIN calls /\ calls'[k] = d
      /\ \A i \in DOMAIN calls : i # k => calls'[i] = Notice(calls[i], d.key, erased)
  BY <1>1, PutIs
<1>3. ASSUME NEW i \in DOMAIN calls' PROVE (CallAt(calls[i]) /\ RenameAt(calls[i]))'
  <2>1. PICK e : e = calls'[i]
    OBVIOUS
  <2>2. CallAt(e) /\ RenameAt(e)'
    <3>1. CASE i = k
      BY <1>2, <2>1, <3>1
    <3>2. CASE i # k
      <4>1. PICK c : c = calls[i]
        OBVIOUS
      <4>2. CallAt(c) /\ RenameAt(c) /\ e = Notice(c, id, erased)
        BY <1>2, <1>3, <2>1, <3>2, <4>1 DEF UsersCoreInv
      <4>3. CallAt(e)
        BY <4>2, OthersCall
      <4>4. RenameAt(e)'
        BY <1>1, <4>2, OthersRename
      <4> QED BY <4>3, <4>4
    <3> QED BY <3>1, <3>2
  <2> QED BY <2>1, <2>2 DEF CallAt, RenameAt, Present
<1> QED BY <1>3 DEF UsersCoreInv

\* An insert preserves the core of the invariant.
LEMMA InsertStep == ASSUME UsersCoreInv, NEW k \in DOMAIN calls, StepInsertRow(k) PROVE UsersCoreInv'
<1>1. PICK c : c = calls[k]
  OBVIOUS
<1>2. CallAt(c) /\ RenameAt(c) /\ TableIs
  BY <1>1 DEF UsersCoreInv
<1>3. PICK id : id = IF calls[k].key = 0 THEN nNextId ELSE calls[k].key
  OBVIOUS
<1>4. PICK d : IF Present(id)
               THEN /\ calls' = [calls EXCEPT ![k] = d] /\ Alike(c, d) /\ d.at = "done"
                    /\ d.err = (IF halted THEN "Stopped" ELSE "Duplicate")
                    /\ rows' = rows /\ nRows' = nRows
               ELSE /\ PutAndNotice(k, d, FALSE) /\ Written(c, d) /\ d.id = id /\ d.key = id
                    /\ d.result.born = k
                    /\ rows' = [rows EXCEPT ![id] = [version |-> 1, born |-> k]] /\ nRows' = nRows + 1
  <2>1. TableIs /\ CallAt(calls[k])
    BY <1>1, <1>2
  <2>2. PICK d : InsertEnds(k, id, d)
    BY <1>3, <2>1, Inserts
  <2> QED BY <1>1, <2>2 DEF InsertEnds
<1>5. c.at = "apply" /\ c.op = "register" /\ id \in UserIds
      /\ nNextId' = IF c.key = 0 THEN nNextId + 1 ELSE nNextId
  BY <1>1, <1>2, <1>3, Inserts
<1>6. nNextId' \in Nat /\ nNextId' >= nNextId
  BY <1>2, <1>5 DEF TableIs
<1>7. ~c.wrote /\ ~c.heard /\ c \in Contexts
  BY <1>2, <1>5 DEF CallAt
<1>8. CASE Present(id)
  <2>1. calls' = [calls EXCEPT ![k] = d] /\ Alike(c, d) /\ d.at = "done" /\ d.err \in {"Stopped", "Duplicate"}
        /\ rows' = rows /\ nRows' = nRows
    BY <1>4, <1>8
  <2>2. CallAt(d)
    BY <1>2, <1>5, <1>7, <2>1 DEF CallAt, Alike
  <2>3. RenameAt(d)
    BY <1>5, <2>1 DEF Alike, RenameAt
  <2>4. d.op = c.op /\ (d.wrote <=> c.wrote)
    BY <2>1 DEF Alike
  <2> QED BY <1>1, <1>6, <1>7, <2>1, <2>2, <2>3, <2>4, CallMoves
<1>9. CASE ~Present(id)
  <2>1. PutAndNotice(k, d, FALSE) /\ Written(c, d) /\ d.id = id /\ d.key = id /\ d.result.born = k
        /\ rows' = [rows EXCEPT ![id] = [version |-> 1, born |-> k]] /\ nRows' = nRows + 1
    BY <1>4, <1>9
  <2>2. id > 0 /\ id \in Nat
    BY <1>5 DEF UserIds
  <2>3. d.op = "register" /\ d.wrote /\ d.at = "done" /\ d.err \in {"ok", "Stopped"} /\ d \in Contexts /\ ~d.heard
        /\ (d.driverFails <=> c.driverFails)
    BY <1>5, <1>7, <2>1 DEF Written
  <2>4. CallAt(d)
    BY <1>2, <1>5, <2>1, <2>2, <2>3 DEF CallAt
  <2>5. RenameAt(d)'
    BY <2>3 DEF RenameAt
  <2>6. calls \in Seq(Contexts) /\ k \in Nat
    BY <1>2 DEF TableIs
  <2>7. /\ calls' \in Seq(Contexts) /\ DOMAIN calls' = DOMAIN calls /\ calls'[k] = d
        /\ \A i \in DOMAIN calls : i # k => Beside(calls[i], calls'[i])
    BY <2>1, <2>3, <2>6, PutIs
  <2>8. PICK row : row = [version |-> 1, born |-> k]
    OBVIOUS
  <2>9. row \in Versions /\ row.version = 1 /\ row.born = k /\ row # NoRow
    BY <2>6, <2>8 DEF Versions, NoRow
  <2>10. rows' = [rows EXCEPT ![id] = row] /\ rows'[id] = row
    BY <1>2, <1>5, <2>1, <2>8 DEF TableIs
  <2>11. nRows' = Cardinality(There')
    <3>1. PICK S : S = There
      OBVIOUS
    <3>2. IsFiniteSet(S) /\ id \notin S /\ nRows = Cardinality(S)
      BY <1>2, <1>9, <3>1, RowsFinite DEF TableIs, There
    <3>3. Cardinality(S \cup {id}) = Cardinality(S) + 1
      BY <3>2, FS_AddElement
    <3>4. There' = S \cup {id}
      BY <1>2, <1>5, <2>9, <2>10, <3>1 DEF Present, TableIs, There
    <3> QED BY <2>1, <3>2, <3>3, <3>4
  <2>12. Renamed(k)' = {}
    <3>1. SUFFICES ASSUME NEW j \in DOMAIN calls', calls'[j].op = "rename", calls'[j].wrote, calls'[j].result.born = k
                   PROVE  FALSE
      BY DEF Renamed
    <3>2. j # k /\ j \in DOMAIN calls
      BY <2>3, <2>7, <3>1
    <3>3. calls[j].op = "rename" /\ calls[j].wrote /\ calls[j].result.born = k
      BY <2>7, <3>1, <3>2 DEF Beside
    <3>4. k > 0
      BY <2>6
    <3>5. calls[k].wrote
      BY <1>2, <3>2, <3>3, <3>4 DEF TableIs
    <3> QED BY <1>1, <1>7, <3>5
  <2>13. RowAt(id)'
    <3>1. Cardinality(Renamed(k)') = 0
      BY <2>12, FS_EmptySet
    <3>2. Cardinality(Renamed(k))' = 0
      BY <3>1
    <3>3. Renamed(rows[id].born)' = Renamed(k)'
      BY <2>9, <2>10 DEF Renamed
    <3> QED BY <2>1, <2>3, <2>7, <2>9, <2>10, <3>1, <3>3 DEF RowAt
  <2>14. TableIs'
    <3>1. ~calls[k].wrote /\ calls'[k].op = calls[k].op /\ calls'[k].wrote /\ calls'[k].key = id
          /\ calls[k].op # "rename"
      BY <1>1, <1>5, <1>7, <2>1, <2>3, <2>7
    <3>2. TableIs /\ id \in UserIds /\ row \in Versions /\ rows' = [rows EXCEPT ![id] = row]
          /\ calls' \in Seq(Contexts) /\ DOMAIN calls' = DOMAIN calls
          /\ (\A i \in DOMAIN calls : i # k => Beside(calls[i], calls'[i]))
          /\ nNextId' \in Nat /\ nNextId' >= nNextId
      BY <1>2, <1>5, <1>6, <2>7, <2>9, <2>10
    <3> QED BY <2>11, <2>13, <3>1, <3>2, TableChanges
  <2>15. FALSE \in BOOLEAN /\ id \in UserIds /\ row \in Versions /\ d.key = id /\ PutAndNotice(k, d, FALSE)
         /\ CallAt(d) /\ rows' = [rows EXCEPT ![id] = row] /\ ~Present(id)
    BY <1>5, <1>9, <2>1, <2>4, <2>9, <2>10
  <2> QED BY <2>5, <2>14, <2>15, WriteKeepsCalls
<1> QED BY <1>8, <1>9

\* An update preserves the core of the invariant.
LEMMA ApplyStep == ASSUME UsersCoreInv, NEW k \in DOMAIN calls, StepApplyUpdate(k) PROVE UsersCoreInv'
<1>1. PICK c : c = calls[k]
  OBVIOUS
<1>2. CallAt(c) /\ RenameAt(c) /\ TableIs /\ CallAt(calls[k])
  BY <1>1 DEF UsersCoreInv
<1>3. PICK d : ApplyEnds(k, c, d)
  BY <1>1, <1>2, Applies
<1>4. c.at = "apply" /\ c.op = "rename" /\ nRows' = nRows /\ nNextId' = nNextId
  BY <1>1, <1>2, Applies
<1>5. nNextId' \in Nat /\ nNextId' >= nNextId
  BY <1>2, <1>4 DEF TableIs
<1>6. ~c.wrote /\ ~c.heard /\ c \in Contexts /\ c.err = "ok"
  BY <1>2, <1>4 DEF CallAt
<1>7. c.seen \in Nat /\ c.unseen \in Nat /\ c.attempt \in Nat /\ c.request.version \in Nat
      /\ kMaxUpdateAttempts \in Nat /\ kMaxUpdateAttempts >= 3
  BY <1>6, UsersAssumption DEF Contexts, Versions
<1>8. /\ c.reborn => c.unseen > 0
      /\ ~c.reborn => Present(c.key) /\ rows[c.key].version = c.request.version + c.unseen
      /\ c.seen + 1 >= c.attempt + c.unseen
  BY <1>2, <1>4 DEF RenameAt
<1>9. CASE ~Present(c.key)
  <2>1. calls' = [calls EXCEPT ![k] = d] /\ Alike(c, d) /\ d.at = "done" /\ d.err \in {"Stopped", "DbUnavailable"}
        /\ rows' = rows
    BY <1>3, <1>9 DEF ApplyEnds
  <2>2. d.op = c.op /\ (d.wrote <=> c.wrote)
    BY <2>1 DEF Alike
  <2>3. CallAt(d)
    BY <1>2, <1>4, <1>6, <2>1 DEF CallAt, Alike
  <2>4. RenameAt(d)
    BY <1>6, <2>1, <2>2 DEF RenameAt
  <2> QED BY <1>1, <1>4, <1>5, <1>6, <2>1, <2>2, <2>3, <2>4, CallMoves
<1>10. CASE Present(c.key) /\ rows[c.key].version # c.request.version
  <2>1. calls' = [calls EXCEPT ![k] = d] /\ rows' = rows
    BY <1>3, <1>10 DEF ApplyEnds
  <2>2. c.unseen >= 1
    BY <1>7, <1>8, <1>10
  <2>3. CASE c.attempt < kMaxUpdateAttempts
    <3>1. /\ d \in Contexts /\ d.at = "write" /\ d.err = "ok" /\ d.attempt = c.attempt + 1
          /\ d.request = rows[c.key] /\ d.unseen = 0 /\ ~d.reborn /\ d.seen = c.seen
          /\ d.op = c.op /\ d.id = c.id /\ d.key = c.key /\ d.by = c.by
          /\ (d.valid <=> c.valid) /\ (d.driverFails <=> c.driverFails)
          /\ (d.wrote <=> c.wrote) /\ (d.heard <=> c.heard)
      BY <1>3, <1>10, <2>3 DEF ApplyEnds
    <3>2. CallAt(d)
      BY <1>2, <1>4, <1>6, <3>1 DEF CallAt, Writes
    <3>3. d.seen + 1 >= d.attempt + d.unseen
      BY <1>7, <1>8, <2>2, <3>1
    <3>4. Present(d.key) /\ rows[d.key].version = d.request.version + d.unseen
      <4>1. rows[c.key] \in Versions
        BY <1>2, <1>10 DEF Present, TableIs
      <4>2. rows[c.key].version \in Nat
        BY <4>1 DEF Versions
      <4> QED BY <1>10, <3>1, <4>2
    <3>5. RenameAt(d)
      BY <1>6, <3>1, <3>3, <3>4 DEF RenameAt
    <3> QED BY <1>1, <1>5, <1>4, <1>6, <2>1, <3>1, <3>2, <3>5, CallMoves
  <2>4. CASE ~(c.attempt < kMaxUpdateAttempts)
    <3>1. Alike(c, d) /\ d.at = "done" /\ d.err \in {"Stopped", "VersionConflict"}
      BY <1>3, <1>10, <2>4 DEF ApplyEnds
    <3>2. d.op = c.op /\ (d.wrote <=> c.wrote) /\ d.seen = c.seen
      BY <3>1 DEF Alike
    <3>3. CallAt(d)
      BY <1>2, <1>4, <1>6, <3>1 DEF CallAt, Alike
    <3>4. d.seen >= kMaxUpdateAttempts
      BY <1>7, <1>8, <2>2, <2>4, <3>2
    <3>5. RenameAt(d)
      BY <1>6, <3>1, <3>2, <3>4 DEF RenameAt
    <3> QED BY <1>1, <1>4, <1>5, <1>6, <2>1, <3>2, <3>3, <3>5, CallMoves
  <2> QED BY <2>3, <2>4
<1>11. CASE Present(c.key) /\ rows[c.key].version = c.request.version
  <2>1. PICK id, old : id = c.key /\ old = rows[id]
    OBVIOUS
  <2>2. id \in UserIds /\ old \in Versions /\ old.version \in Nat /\ Present(id)
    BY <1>2, <1>11, <2>1 DEF Present, TableIs, Versions
  <2>3. PICK n : n = old.version + 1
    OBVIOUS
  <2>4. PICK row : row = [version |-> n, born |-> old.born]
    OBVIOUS
  <2>5. row \in Versions /\ row.version = old.version + 1 /\ row.born = old.born /\ row # NoRow
    BY <2>2, <2>3, <2>4 DEF Versions, NoRow
  <2>6. PutAndNotice(k, d, FALSE) /\ Written(c, d) /\ d.id = c.id /\ d.key = id /\ d.result.born = old.born
        /\ rows' = [rows EXCEPT ![id] = row]
    BY <1>3, <1>11, <2>1, <2>3, <2>4 DEF ApplyEnds
  <2>7. /\ d.op = "rename" /\ d.wrote /\ d.at = "done" /\ d.err \in {"ok", "Stopped"} /\ d \in Contexts /\ ~d.heard
        /\ (d.driverFails <=> c.driverFails) /\ d.unseen = c.unseen /\ (d.reborn <=> c.reborn)
    BY <1>4, <1>6, <2>6 DEF Written
  <2>8. CallAt(d)
    BY <1>2, <1>4, <2>1, <2>6, <2>7 DEF CallAt, Writes
  <2>9. d.unseen = 0 \/ d.reborn
    BY <1>7, <1>8, <1>11, <2>7
  <2>10. RenameAt(d)'
    BY <2>7, <2>9 DEF RenameAt
  <2>11. calls \in Seq(Contexts)
    BY <1>2 DEF TableIs
  <2>12. /\ calls' \in Seq(Contexts) /\ DOMAIN calls' = DOMAIN calls /\ calls'[k] = d
         /\ \A i \in DOMAIN calls : i # k => Beside(calls[i], calls'[i])
    BY <2>6, <2>7, <2>11, PutIs
  <2>13. rows'[id] = row /\ \A i \in UserIds : i # id => rows'[i] = rows[i]
    BY <1>2, <2>2, <2>6 DEF TableIs
  <2>14. nRows' = Cardinality(There')
    <3>1. There' = There
      BY <2>2, <2>5, <2>13 DEF There, Present
    <3> QED BY <1>2, <1>4, <3>1 DEF TableIs
  <2>15. RowAt(id)'
    <3>1. Present(id)' /\ RowAt(id)
      BY <1>2, <2>2, <2>5, <2>13 DEF Present, TableIs
    <3>2. PICK b : b = old.born
      OBVIOUS
    <3>3. SUFFICES ASSUME b > 0
                   PROVE  /\ b \in DOMAIN calls' /\ calls'[b].op = "register" /\ calls'[b].wrote /\ calls'[b].key = id
                          /\ row.version = 1 + Cardinality(Renamed(b)')
      <4>1. Renamed(rows[id].born)' = Renamed(b)'
        BY <2>5, <2>13, <3>2 DEF Renamed
      <4> QED BY <2>2, <2>5, <2>13, <3>2, <4>1 DEF RowAt
    <3>4. /\ b \in DOMAIN calls /\ calls[b].op = "register" /\ calls[b].wrote /\ calls[b].key = id
          /\ old.version = 1 + Cardinality(Renamed(b))
      BY <2>1, <2>2, <3>1, <3>2, <3>3 DEF RowAt
    <3>5. b # k
      BY <1>1, <1>6, <3>4
    <3>6. calls'[b].op = "register" /\ calls'[b].wrote /\ calls'[b].key = id
      BY <2>12, <3>4, <3>5 DEF Beside
    <3>7. PICK S : S = Renamed(b)
      OBVIOUS
    <3>8. k \notin S /\ IsFiniteSet(S)
      BY <1>1, <1>6, <2>11, <3>7, RenamedFinite DEF Renamed
    <3>9. \A i \in DOMAIN calls : i # k =>
            calls'[i].op = calls[i].op /\ (calls'[i].wrote <=> calls[i].wrote) /\ calls'[i].result = calls[i].result
      BY <2>12 DEF Beside
    <3>10. Renamed(b)' = S \cup {k}
      <4>1. {i \in DOMAIN calls' : calls'[i].op = "rename" /\ calls'[i].wrote /\ calls'[i].result.born = b} = S \cup {k}
        BY <2>6, <2>7, <2>12, <3>2, <3>7, <3>9 DEF Renamed
      <4> QED BY <4>1 DEF Renamed
    <3>11. Cardinality(S \cup {k}) = Cardinality(S) + 1 /\ Cardinality(S) \in Nat
      BY <3>8, FS_AddElement, FS_CardinalityType
    <3> QED BY <2>5, <2>12, <3>4, <3>6, <3>7, <3>10, <3>11
  <2>16. TableIs'
    <3>1. /\ ~calls[k].wrote /\ calls'[k].op = calls[k].op /\ calls'[k].wrote /\ calls'[k].key = id
          /\ Present(id) /\ calls'[k].result.born = rows[id].born
      BY <1>1, <1>4, <1>6, <2>1, <2>2, <2>6, <2>7, <2>12
    <3>2. TableIs /\ id \in UserIds /\ row \in Versions /\ rows' = [rows EXCEPT ![id] = row]
          /\ calls' \in Seq(Contexts) /\ DOMAIN calls' = DOMAIN calls
          /\ (\A i \in DOMAIN calls : i # k => Beside(calls[i], calls'[i]))
          /\ nNextId' \in Nat /\ nNextId' >= nNextId
      BY <1>2, <1>5, <2>2, <2>5, <2>6, <2>12
    <3> QED BY <2>14, <2>15, <3>1, <3>2, TableChanges
  <2>17. FALSE \in BOOLEAN /\ id \in UserIds /\ row \in Versions /\ d.key = id /\ PutAndNotice(k, d, FALSE)
         /\ CallAt(d) /\ rows' = [rows EXCEPT ![id] = row] /\ row.version = rows[id].version + 1
    BY <2>1, <2>2, <2>5, <2>6, <2>8
  <2> QED BY <2>10, <2>16, <2>17, WriteKeepsCalls
<1> QED BY <1>9, <1>10, <1>11

\* A removal preserves the core of the invariant.
LEMMA EraseStep == ASSUME UsersCoreInv, NEW k \in DOMAIN calls, StepEraseRow(k) PROVE UsersCoreInv'
<1>1. PICK c : c = calls[k]
  OBVIOUS
<1>2. CallAt(c) /\ RenameAt(c) /\ TableIs /\ CallAt(calls[k])
  BY <1>1 DEF UsersCoreInv
<1>3. PICK d : EraseEnds(k, c, d)
  BY <1>1, <1>2, Erases
<1>4. c.at = "apply" /\ c.op = "remove" /\ nNextId' = nNextId
  BY <1>1, <1>2, Erases
<1>5. nNextId' \in Nat /\ nNextId' >= nNextId
  BY <1>2, <1>4 DEF TableIs
<1>6. ~c.wrote /\ ~c.heard /\ c \in Contexts /\ c.err = "ok"
  BY <1>2, <1>4 DEF CallAt
<1>9. CASE ~Present(c.key)
  <2>1. calls' = [calls EXCEPT ![k] = d] /\ Alike(c, d) /\ d.at = "done" /\ d.err \in {"Stopped", "NotFound"}
        /\ rows' = rows /\ nRows' = nRows
    BY <1>3, <1>9 DEF EraseEnds
  <2>2. d.op = c.op /\ (d.wrote <=> c.wrote)
    BY <2>1 DEF Alike
  <2>3. CallAt(d)
    BY <1>2, <1>4, <1>6, <2>1 DEF CallAt, Alike
  <2>4. RenameAt(d)
    BY <1>4, <2>2 DEF RenameAt
  <2> QED BY <1>1, <1>4, <1>5, <1>6, <2>1, <2>2, <2>3, <2>4, CallMoves
<1>11. CASE Present(c.key)
  <2>1. PICK id : id = c.key
    OBVIOUS
  <2>2. id \in UserIds /\ Present(id)
    BY <1>11, <2>1 DEF Present
  <2>4. PICK row : row = NoRow
    OBVIOUS
  <2>5. row \in Versions
    BY <2>4 DEF Versions, NoRow
  <2>6. PutAndNotice(k, d, TRUE) /\ Written(c, d) /\ d.id = c.id /\ d.key = id
        /\ rows' = [rows EXCEPT ![id] = row] /\ nRows' = nRows - 1
    BY <1>3, <1>11, <2>1, <2>4 DEF EraseEnds
  <2>7. /\ d.op = "remove" /\ d.wrote /\ d.at = "done" /\ d.err \in {"ok", "Stopped"} /\ d \in Contexts /\ ~d.heard
        /\ (d.driverFails <=> c.driverFails)
    BY <1>4, <1>6, <2>6 DEF Written
  <2>8. CallAt(d)
    BY <1>2, <1>4, <2>1, <2>6, <2>7 DEF CallAt, Writes
  <2>10. RenameAt(d)'
    BY <2>7 DEF RenameAt
  <2>11. calls \in Seq(Contexts)
    BY <1>2 DEF TableIs
  <2>12. /\ calls' \in Seq(Contexts) /\ DOMAIN calls' = DOMAIN calls /\ calls'[k] = d
         /\ \A i \in DOMAIN calls : i # k => Beside(calls[i], calls'[i])
    <3>1. TRUE \in BOOLEAN
      OBVIOUS
    <3> QED BY <2>6, <2>7, <2>11, <3>1, PutIs
  <2>13. rows'[id] = NoRow /\ \A i \in UserIds : i # id => rows'[i] = rows[i]
    BY <1>2, <2>2, <2>4, <2>6 DEF TableIs
  <2>14. nRows' = Cardinality(There')
    <3>1. There' = There \ {id} /\ id \in There
      BY <2>2, <2>13 DEF There, Present
    <3>2. PICK S : S = There
      OBVIOUS
    <3>3. IsFiniteSet(S) /\ nRows = Cardinality(S)
      BY <1>2, <3>2, RowsFinite DEF TableIs
    <3>4. Cardinality(S \ {id}) = Cardinality(S) - 1
      BY <3>1, <3>2, <3>3, FS_RemoveElement
    <3> QED BY <2>6, <3>1, <3>2, <3>3, <3>4
  <2>15. RowAt(id)'
    BY <2>13 DEF RowAt, Present
  <2>16. TableIs'
    <3>1. /\ ~calls[k].wrote /\ calls'[k].op = calls[k].op /\ calls'[k].wrote /\ calls'[k].key = id
          /\ calls[k].op # "rename"
      BY <1>1, <1>4, <1>6, <2>1, <2>2, <2>6, <2>7, <2>12
    <3>2. TableIs /\ id \in UserIds /\ row \in Versions /\ rows' = [rows EXCEPT ![id] = row]
          /\ calls' \in Seq(Contexts) /\ DOMAIN calls' = DOMAIN calls
          /\ (\A i \in DOMAIN calls : i # k => Beside(calls[i], calls'[i]))
          /\ nNextId' \in Nat /\ nNextId' >= nNextId
      BY <1>2, <1>5, <2>2, <2>5, <2>6, <2>12
    <3> QED BY <2>14, <2>15, <3>1, <3>2, TableChanges
  <2>17. TRUE \in BOOLEAN /\ id \in UserIds /\ row \in Versions /\ d.key = id /\ PutAndNotice(k, d, TRUE)
         /\ CallAt(d) /\ rows' = [rows EXCEPT ![id] = row]
    BY <2>1, <2>2, <2>5, <2>6, <2>8
  <2> QED BY <2>10, <2>16, <2>17, WriteKeepsCalls
<1> QED BY <1>9, <1>11

-------------------------------------------------------------------------------
\* A call that has just been made is as a call is.
LEMMA MadeAt ==
    ASSUME NEW d, NEW op, NEW id, NEW by, Made(d, op, id, by)
    PROVE  CallAt(d) /\ RenameAt(d) /\ ~d.wrote
<1>1. CallAt(d)
  BY DEF Made, CallAt, Contexts, Writes
<1>2. d.at \notin {"write", "apply"} /\ ~d.wrote /\ d.err # "VersionConflict"
  BY DEF Made
<1> QED BY <1>1, <1>2 DEF RenameAt

\* What a scene calls, and for which user.
SceneOp(scene) ==
    CASE scene \in {"register", "duplicate", "invalid"} -> "register"
      [] scene \in {"query", "reads"}    -> "query"
      [] scene = "renames"               -> "rename"
      [] scene \in {"remove", "again"}   -> "remove"
      [] scene = "dberror"               -> "dbquery"
SceneId(scene, id) == IF scene \in {"register", "invalid"} THEN 0 ELSE id
SceneSize(scene) == IF scene \in {"reads", "renames"} THEN 3 ELSE 1

\* The scenes by number.
LEMMA SceneNumbers ==
    /\ Len(Scenes) = 9
    /\ Scenes[1] = "register" /\ Scenes[2] = "duplicate" /\ Scenes[3] = "query" /\ Scenes[4] = "reads"
    /\ Scenes[5] = "renames" /\ Scenes[6] = "remove" /\ Scenes[7] = "again" /\ Scenes[8] = "invalid"
    /\ Scenes[9] = "dberror"
BY DEF Scenes

\* The numbers one by one.
LEMMA SceneCases == ASSUME NEW i \in 1 .. 9 PROVE i \in {1, 2, 3, 4, 5, 6, 7, 8, 9}
OBVIOUS

\* SceneCalls makes its calls.
LEMMA SceneMade ==
    ASSUME NEW i \in 1 .. 9, NEW id \in Nat, NEW scene, scene = Scenes[i]
    PROVE  /\ SceneCalls(scene, id) \in Seq(Contexts) /\ Len(SceneCalls(scene, id)) = SceneSize(scene)
           /\ \A j \in 1 .. SceneSize(scene) :
                Made(SceneCalls(scene, id)[j], SceneOp(scene), SceneId(scene, id), scene)
<1>1. scene \in {"register", "duplicate", "query", "reads", "renames", "remove", "again", "invalid", "dberror"}
  BY SceneCases, SceneNumbers
<1>2. scene \in Callers
  BY DEF Callers
<1>3. SceneOp(scene) \in Writes \cup {"query", "dbquery"} /\ SceneId(scene, id) \in Nat
  BY <1>1 DEF SceneOp, SceneId, Writes
<1>4. PICK d : d = MakeContext(SceneOp(scene), SceneId(scene, id), scene)
  OBVIOUS
<1>5. Made(d, SceneOp(scene), SceneId(scene, id), scene)
  <2>1. PICK op, n : op = SceneOp(scene) /\ n = SceneId(scene, id)
    OBVIOUS
  <2> QED BY <1>2, <1>3, <1>4, <2>1, MakeContextIs
<1>6. d \in Contexts
  BY <1>5 DEF Made
<1>7. CASE scene \in {"reads", "renames"}
  <2>1. PICK s : s = [j \in 1 .. 3 |-> d]
    OBVIOUS
  <2>2. s \in Seq(Contexts) /\ Len(s) = 3 /\ \A j \in 1 .. 3 : s[j] = d
    BY <1>6, <2>1
  <2>3. s = SceneCalls(scene, id)
    BY <1>4, <1>7, <2>1 DEF SceneCalls, SceneOp, SceneId
  <2> QED BY <1>5, <1>7, <2>2, <2>3 DEF SceneSize
<1>8. CASE scene \notin {"reads", "renames"}
  <2>1. PICK s : s = <<d>>
    OBVIOUS
  <2>2. s \in Seq(Contexts) /\ Len(s) = 1 /\ \A j \in 1 .. 1 : s[j] = d
    BY <1>6, <2>1
  <2>3. s = SceneCalls(scene, id)
    <3>1. CASE scene \in {"register", "invalid"}
      BY <1>4, <2>1, <3>1 DEF SceneCalls, SceneOp, SceneId
    <3>2. CASE scene \in {"duplicate", "query", "dberror"}
      BY <1>4, <2>1, <3>2 DEF SceneCalls, SceneOp, SceneId
    <3>3. CASE scene \in {"remove", "again"}
      BY <1>4, <2>1, <3>3 DEF SceneCalls, SceneOp, SceneId
    <3> QED BY <1>1, <1>8, <3>1, <3>2, <3>3
  <2> QED BY <1>5, <1>8, <2>2, <2>3 DEF SceneSize
<1> QED BY <1>7, <1>8

\* Calls heard and calls made.
LEMMA CallsGrow ==
    ASSUME UsersCoreInv, rows' = rows, nRows' = nRows, nNextId' = nNextId,
           calls' \in Seq(Contexts), DOMAIN calls \subseteq DOMAIN calls',
           \A i \in DOMAIN calls : calls'[i] = calls[i] \/ (calls[i].at = "done" /\ calls'[i] = Heard(calls[i])),
           \A i \in DOMAIN calls' \ DOMAIN calls : \E op, id, by : Made(calls'[i], op, id, by)
    PROVE  UsersCoreInv'
<1>1. TableIs
  BY DEF UsersCoreInv
<1>2. nNextId' \in Nat /\ nNextId' >= nNextId
  BY <1>1 DEF TableIs
<1>3. ASSUME NEW i \in DOMAIN calls
      PROVE  /\ CallAt(calls'[i]) /\ calls'[i].op = calls[i].op /\ (calls'[i].wrote <=> calls[i].wrote)
             /\ calls'[i].key = calls[i].key /\ calls'[i].result.born = calls[i].result.born
             /\ \E e : e = calls'[i] /\ RenameAt(e)
  <2>1. PICK c, e : c = calls[i] /\ e = calls'[i]
    OBVIOUS
  <2>2. CallAt(c) /\ RenameAt(c) /\ c \in Contexts
    BY <2>1 DEF UsersCoreInv, CallAt
  <2>3. CASE e = c
    BY <2>1, <2>2, <2>3
  <2>4. CASE c.at = "done" /\ e = Heard(c)
    <3>1. CallAt(e) /\ RenameAt(e)
      BY <2>2, <2>4, HeardAt
    <3>2. e.op = c.op /\ (e.wrote <=> c.wrote) /\ e.key = c.key /\ e.result.born = c.result.born
      BY <2>2, <2>4, HeardIs
    <3> QED BY <2>1, <3>1, <3>2
  <2> QED BY <2>1, <2>3, <2>4
<1>4. ASSUME NEW i \in DOMAIN calls' \ DOMAIN calls
      PROVE  CallAt(calls'[i]) /\ ~calls'[i].wrote /\ \E e : e = calls'[i] /\ RenameAt(e)
  <2>1. PICK e : e = calls'[i]
    OBVIOUS
  <2>2. PICK op, id, by : Made(e, op, id, by)
    BY <1>4, <2>1
  <2>3. CallAt(e) /\ RenameAt(e) /\ ~e.wrote
    BY <2>2, MadeAt
  <2> QED BY <2>1, <2>3
<1>5. TableIs'
  BY <1>1, <1>2, <1>3, <1>4, TableStays
<1>6. ASSUME NEW i \in DOMAIN calls' PROVE (CallAt(calls[i]) /\ RenameAt(calls[i]))'
  <2>1. PICK e : e = calls'[i] /\ RenameAt(e) /\ CallAt(e)
    BY <1>3, <1>4, <1>6
  <2>2. RenameAt(e)'
    BY <2>1 DEF RenameAt, Present
  <2> QED BY <2>1, <2>2 DEF CallAt, RenameAt, Present
<1> QED BY <1>5, <1>6 DEF UsersCoreInv

\* A sequence with more behind it.
LEMMA Appended ==
    ASSUME NEW S, NEW q \in Seq(S), NEW s \in Seq(S)
    PROVE  LET r == q \o s
           IN /\ r \in Seq(S) /\ Len(r) = Len(q) + Len(s) /\ DOMAIN q \subseteq DOMAIN r
              /\ \A i \in DOMAIN q : r[i] = q[i]
              /\ \A i \in DOMAIN r \ DOMAIN q : i - Len(q) \in 1 .. Len(s) /\ r[i] = s[i - Len(q)]
              /\ \A j \in 1 .. Len(s) : Len(q) + j \in DOMAIN r \ DOMAIN q /\ r[Len(q) + j] = s[j]
<1>1. Len(q) \in Nat /\ Len(s) \in Nat /\ DOMAIN q = 1 .. Len(q) /\ DOMAIN s = 1 .. Len(s)
  OBVIOUS
<1>2. PICK r : r = q \o s
  OBVIOUS
<1>3. r \in Seq(S) /\ Len(r) = Len(q) + Len(s) /\ DOMAIN r = 1 .. Len(r)
  BY <1>2
<1>4. \A i \in 1 .. Len(r) : r[i] = IF i <= Len(q) THEN q[i] ELSE s[i - Len(q)]
  BY <1>1, <1>2, <1>3
<1> QED BY <1>1, <1>2, <1>3, <1>4

\* How the demo goes on.
SettledNext(c) == IF c.by = "register" /\ c.id = 0 THEN InvalidScene ELSE demo.scene + 1
SettledUser(c) == IF c.by = "register" THEN c.id ELSE demo.userId
Begun(next, id, m) ==
    \A i \in DOMAIN calls' \ DOMAIN calls :
        Len(calls) < i /\ i <= Len(calls) + m /\ next \in 1 .. 9
        /\ Made(calls'[i], SceneOp(Scenes[next]), SceneId(Scenes[next], id), Scenes[next])

\* DemoSettled: the call is heard; the last of a scene makes the calls of the next.
LEMMA DemoGoesOn ==
    ASSUME UsersCoreInv, demo.scene \in Nat, demo.userId \in Nat, NEW k \in DOMAIN calls, DemoSettled(k)
    PROVE  /\ calls[k].at = "done" /\ ~calls[k].heard /\ calls[k].by # "rival"
           /\ calls' \in Seq(Contexts) /\ calls'[k] = Heard(calls[k])
           /\ \A i \in DOMAIN calls : i # k => calls'[i] = calls[i]
           /\ \E m \in Nat, next \in Nat, id \in Nat :
                /\ Len(calls') = Len(calls) + m /\ Begun(next, id, m)
                /\ IF demo.pending > 1 THEN demo' = [demo EXCEPT !.pending = @ - 1] /\ m = 0
                   ELSE /\ next = SettledNext(calls[k]) /\ id = SettledUser(calls[k])
                        /\ demo' = [scene |-> next, userId |-> id, pending |-> m]
                        /\ m = IF next <= 9 THEN SceneSize(Scenes[next]) ELSE 0
<1>1. PICK c : c = calls[k]
  OBVIOUS
<1>2. calls \in Seq(Contexts) /\ c \in Contexts /\ CallAt(c)
  BY <1>1 DEF UsersCoreInv, TableIs, CallAt
<1>3. c.at = "done" /\ ~c.heard /\ c.by # "rival"
  BY <1>1 DEF DemoSettled
<1>4. PICK h : h = [calls EXCEPT ![k] = Heard(c)]
  OBVIOUS
<1>5. h \in Seq(Contexts) /\ DOMAIN h = DOMAIN calls /\ h[k] = Heard(c) /\ \A i \in DOMAIN calls : i # k => h[i] = calls[i]
  <2>1. PICK e : e = Heard(c)
    OBVIOUS
  <2>2. e \in Contexts
    BY <1>2, <2>1, HeardIs
  <2> QED BY <1>2, <1>4, <2>1, <2>2, OnePut
<1>6. Len(h) = Len(calls) /\ Len(calls) \in Nat /\ DOMAIN calls = 1 .. Len(calls)
  BY <1>2, <1>5
<1>7. CASE demo.pending > 1
  <2>1. calls' = h /\ demo' = [demo EXCEPT !.pending = @ - 1]
    BY <1>1, <1>4, <1>7 DEF DemoSettled
  <2>2. Begun(1, 1, 0) /\ Len(calls') = Len(calls) + 0
    BY <1>5, <1>6, <2>1 DEF Begun
  <2> QED BY <1>1, <1>3, <1>5, <1>7, <2>1, <2>2
<1>8. CASE ~(demo.pending > 1)
  <2>1. PICK next, id : next = SettledNext(c) /\ id = SettledUser(c)
    OBVIOUS
  <2>2. next \in Nat /\ id \in Nat /\ next >= 1
    <3>1. c.id \in Nat
      BY <1>2 DEF Contexts
    <3>2. demo.scene + 1 \in Nat /\ demo.scene + 1 >= 1 /\ demo.userId \in Nat
      OBVIOUS
    <3> QED BY <2>1, <3>1, <3>2 DEF SettledNext, SettledUser, InvalidScene
  <2>3. PICK s : s = IF next <= Len(Scenes) THEN SceneCalls(Scenes[next], id) ELSE <<>>
    OBVIOUS
  <2>4. calls' = h \o s /\ demo' = [scene |-> next, userId |-> id, pending |-> Len(s)]
    BY <1>1, <1>4, <1>8, <2>1, <2>3 DEF DemoSettled, SettledNext, SettledUser
  <2>5. /\ s \in Seq(Contexts) /\ Len(s) = IF next <= 9 THEN SceneSize(Scenes[next]) ELSE 0
        /\ \A j \in 1 .. Len(s) : next \in 1 .. 9
              /\ Made(s[j], SceneOp(Scenes[next]), SceneId(Scenes[next], id), Scenes[next])
    <3>1. CASE next <= 9
      <4>1. next \in 1 .. 9
        BY <2>2, <3>1
      <4>2. PICK scene : scene = Scenes[next]
        OBVIOUS
      <4>3. s = SceneCalls(scene, id)
        BY <2>3, <3>1, <4>2, SceneNumbers
      <4>4. /\ s \in Seq(Contexts) /\ Len(s) = SceneSize(scene)
            /\ \A j \in 1 .. SceneSize(scene) : Made(s[j], SceneOp(scene), SceneId(scene, id), scene)
        BY <2>2, <4>1, <4>2, <4>3, SceneMade
      <4> QED BY <3>1, <4>1, <4>2, <4>4
    <3>2. CASE ~(next <= 9)
      <4>1. s = <<>>
        BY <2>3, <3>2, SceneNumbers
      <4> QED BY <3>2, <4>1
    <3> QED BY <3>1, <3>2
  <2>6. PICK m : m = Len(s)
    OBVIOUS
  <2>7. m \in Nat
    BY <2>5, <2>6
  <2>8. /\ calls' \in Seq(Contexts) /\ Len(calls') = Len(calls) + m
        /\ \A i \in DOMAIN calls : calls'[i] = h[i]
        /\ \A i \in DOMAIN calls' \ DOMAIN calls : i - Len(calls) \in 1 .. m /\ calls'[i] = s[i - Len(calls)]
    <3>1. PICK r : r = h \o s
      OBVIOUS
    <3>2. /\ r \in Seq(Contexts) /\ Len(r) = Len(h) + Len(s) /\ \A i \in DOMAIN h : r[i] = h[i]
          /\ \A i \in DOMAIN r \ DOMAIN h : i - Len(h) \in 1 .. Len(s) /\ r[i] = s[i - Len(h)]
      <4>1. h \in Seq(Contexts) /\ s \in Seq(Contexts)
        BY <1>5, <2>5
      <4> QED BY <3>1, <4>1, Appended
    <3>3. Len(h) = Len(calls) /\ DOMAIN h = DOMAIN calls /\ calls' = r /\ Len(s) = m
      BY <1>6, <2>4, <2>6, <3>1
    <3> QED BY <3>2, <3>3
  <2>9. Begun(next, id, m)
    <3>1. SUFFICES ASSUME NEW i \in DOMAIN calls' \ DOMAIN calls
                   PROVE  Len(calls) < i /\ i <= Len(calls) + m /\ next \in 1 .. 9
                          /\ Made(calls'[i], SceneOp(Scenes[next]), SceneId(Scenes[next], id), Scenes[next])
      BY DEF Begun
    <3>2. i \in Nat /\ i - Len(calls) \in 1 .. m /\ calls'[i] = s[i - Len(calls)]
      BY <2>8
    <3>3. PICK j : j = i - Len(calls)
      OBVIOUS
    <3>4. j \in 1 .. Len(s) /\ calls'[i] = s[j]
      BY <2>6, <3>2, <3>3
    <3>5. Len(calls) < i /\ i <= Len(calls) + m
      BY <1>6, <2>7, <3>2
    <3> QED BY <2>5, <3>4, <3>5
  <2>10. m = IF next <= 9 THEN SceneSize(Scenes[next]) ELSE 0
    BY <2>5, <2>6
  <2> QED BY <1>1, <1>3, <1>5, <1>8, <2>1, <2>2, <2>4, <2>6, <2>7, <2>8, <2>9, <2>10
<1> QED BY <1>7, <1>8

\* It preserves the core of the invariant.
LEMMA DemoStep ==
    ASSUME UsersCoreInv, demo.scene \in Nat, demo.userId \in Nat, NEW k \in DOMAIN calls, DemoSettled(k)
    PROVE  UsersCoreInv'
<1>1. /\ calls[k].at = "done" /\ calls' \in Seq(Contexts) /\ calls'[k] = Heard(calls[k])
      /\ \A i \in DOMAIN calls : i # k => calls'[i] = calls[i]
  BY DemoGoesOn
<1>2. PICK m \in Nat, next \in Nat, id \in Nat : Len(calls') = Len(calls) + m /\ Begun(next, id, m)
  BY DemoGoesOn
<1>3. calls \in Seq(Contexts)
  BY DEF UsersCoreInv, TableIs
<1>4. DOMAIN calls \subseteq DOMAIN calls'
  BY <1>1, <1>2, <1>3
<1>5. \A i \in DOMAIN calls' \ DOMAIN calls : \E op, n, by : Made(calls'[i], op, n, by)
  BY <1>2 DEF Begun
<1>6. \A i \in DOMAIN calls : calls'[i] = calls[i] \/ (calls[i].at = "done" /\ calls'[i] = Heard(calls[i]))
  BY <1>1
<1>7. rows' = rows /\ nRows' = nRows /\ nNextId' = nNextId
  BY DEF DemoSettled
<1> QED BY <1>1, <1>4, <1>5, <1>6, <1>7, CallsGrow

\* ScheduleExample makes the first call.
LEMMA ScheduleStarts ==
    ASSUME calls \in Seq(Contexts), ScheduleExample
    PROVE  /\ demo.scene = 0 /\ ~halted /\ demo' = [scene |-> 1, userId |-> 0, pending |-> 1]
           /\ calls' \in Seq(Contexts) /\ Len(calls') = Len(calls) + 1 /\ Begun(1, 0, 1)
           /\ \A i \in DOMAIN calls : calls'[i] = calls[i]
<1>1. PICK s : s = SceneCalls("register", 0)
  OBVIOUS
<1>2. /\ s \in Seq(Contexts) /\ Len(s) = 1
      /\ \A j \in 1 .. 1 : Made(s[j], SceneOp("register"), SceneId("register", 0), "register")
  <2>1. PICK scene : scene = Scenes[1]
    OBVIOUS
  <2>2. scene = "register"
    BY <2>1, SceneNumbers
  <2>3. SceneSize(scene) = 1
    BY <2>2 DEF SceneSize
  <2>4. SceneCalls(scene, 0) \in Seq(Contexts) /\ Len(SceneCalls(scene, 0)) = SceneSize(scene)
        /\ \A j \in 1 .. SceneSize(scene) : Made(SceneCalls(scene, 0)[j], SceneOp(scene), SceneId(scene, 0), scene)
    BY <2>1, SceneMade
  <2> QED BY <1>1, <2>2, <2>3, <2>4
<1>3. demo.scene = 0 /\ ~halted /\ demo' = [scene |-> 1, userId |-> 0, pending |-> 1] /\ calls' = calls \o s
  BY <1>1 DEF ScheduleExample
<1>4. PICK r : r = calls \o s
  OBVIOUS
<1>5. /\ r \in Seq(Contexts) /\ Len(r) = Len(calls) + 1 /\ \A i \in DOMAIN calls : r[i] = calls[i]
      /\ \A i \in DOMAIN r \ DOMAIN calls : i - Len(calls) \in 1 .. 1 /\ r[i] = s[i - Len(calls)]
  <2>1. calls \in Seq(Contexts) /\ s \in Seq(Contexts)
    BY <1>2
  <2>2. /\ r \in Seq(Contexts) /\ Len(r) = Len(calls) + Len(s) /\ \A i \in DOMAIN calls : r[i] = calls[i]
        /\ \A i \in DOMAIN r \ DOMAIN calls : i - Len(calls) \in 1 .. Len(s) /\ r[i] = s[i - Len(calls)]
    BY <1>4, <2>1, Appended
  <2> QED BY <1>2, <2>2
<1>6. Len(calls) \in Nat /\ DOMAIN r = 1 .. Len(calls) + 1
  BY <1>5
<1>7. Begun(1, 0, 1)
  <2>1. SUFFICES ASSUME NEW i \in DOMAIN r \ DOMAIN calls
                 PROVE  Len(calls) < i /\ i <= Len(calls) + 1 /\ 1 \in 1 .. 9
                        /\ Made(r[i], SceneOp(Scenes[1]), SceneId(Scenes[1], 0), Scenes[1])
    BY <1>3, <1>4 DEF Begun
  <2>2. i \in Nat /\ i - Len(calls) \in 1 .. 1 /\ r[i] = s[i - Len(calls)]
    BY <1>5, <1>6
  <2>3. i - Len(calls) = 1
    BY <2>2
  <2>4. Made(r[i], SceneOp("register"), SceneId("register", 0), "register")
    BY <1>2, <2>2, <2>3
  <2>5. Len(calls) < i /\ i <= Len(calls) + 1
    BY <1>6, <2>2, <2>3
  <2> QED BY <2>4, <2>5, SceneNumbers
<1> QED BY <1>3, <1>4, <1>5, <1>7

\* It preserves the core of the invariant.
LEMMA ScheduleStep == ASSUME UsersCoreInv, ScheduleExample PROVE UsersCoreInv'
<1>1. calls \in Seq(Contexts)
  BY DEF UsersCoreInv, TableIs
<1>2. /\ calls' \in Seq(Contexts) /\ Len(calls') = Len(calls) + 1 /\ Begun(1, 0, 1)
      /\ \A i \in DOMAIN calls : calls'[i] = calls[i]
  BY <1>1, ScheduleStarts
<1>3. DOMAIN calls \subseteq DOMAIN calls'
  BY <1>1, <1>2
<1>4. \A i \in DOMAIN calls' \ DOMAIN calls : \E op, id, by : Made(calls'[i], op, id, by)
  BY <1>2 DEF Begun
<1>5. rows' = rows /\ nRows' = nRows /\ nNextId' = nNextId
  BY DEF ScheduleExample
<1> QED BY <1>2, <1>3, <1>4, <1>5, CallsGrow

\* The rows a table starts from: none of them was registered.
LEMMA SeedsAre ==
    /\ SeedRows \in [UserIds -> Versions]
    /\ \A id \in UserIds : /\ SeedRows[id] # NoRow <=> id \in kSeedUserIds
                           /\ SeedRows[id].born = 0 /\ (id \in kSeedUserIds => SeedRows[id].version = 1)
BY UsersAssumption DEF SeedRows, UserIds, Versions, NoRow

\* A call that has not begun, or that was heard, has nothing to do with the table.
LEMMA CallRests ==
    ASSUME NEW c, CallAt(c), RenameAt(c), c.at = "idle" \/ c.heard
    PROVE  RenameAt(c)'
BY DEF CallAt, RenameAt

\* RestartModules preserves the core of the invariant.
LEMMA RestartStep == ASSUME UsersCoreInv, RestartModules PROVE UsersCoreInv'
<1>1. /\ rows' = SeedRows /\ nRows' = Cardinality(kSeedUserIds) /\ nNextId' = nNextId /\ calls' = calls
      /\ \A k \in DOMAIN calls : calls[k].at = "idle" \/ calls[k].heard
  BY DEF RestartModules
<1>2. TableIs /\ \A k \in DOMAIN calls : CallAt(calls[k]) /\ RenameAt(calls[k])
  BY DEF UsersCoreInv
<1>3. There' = kSeedUserIds
  <2>1. There' = {id \in UserIds : SeedRows[id] # NoRow}
    BY <1>1 DEF There, Present
  <2>2. kSeedUserIds \subseteq UserIds
    BY UsersAssumption DEF UserIds
  <2> QED BY <2>1, <2>2, SeedsAre
<1>4. TableIs'
  <2>1. rows' \in [UserIds -> Versions] /\ nRows' = Cardinality(There')
    BY <1>1, <1>3, SeedsAre
  <2>2. nNextId' \in Nat /\ nNextId' >= kFirstAutoId /\ calls' \in Seq(Contexts)
    BY <1>1, <1>2 DEF TableIs
  <2>3. \A id \in UserIds : RowAt(id)'
    BY <1>1, SeedsAre DEF RowAt, Present
  <2>4. \A k \in DOMAIN calls' : LET c == calls'[k] IN
         c.op = "rename" /\ c.wrote /\ c.result.born > 0 =>
           /\ c.result.born \in DOMAIN calls'
           /\ calls'[c.result.born].op = "register" /\ calls'[c.result.born].wrote /\ calls'[c.result.born].key = c.key
    BY <1>1, <1>2 DEF TableIs
  <2> QED BY <2>1, <2>2, <2>3, <2>4 DEF TableIs
<1>5. ASSUME NEW k \in DOMAIN calls PROVE (CallAt(calls[k]) /\ RenameAt(calls[k]))'
  <2>1. PICK c : c = calls[k]
    OBVIOUS
  <2>2. CallAt(c) /\ RenameAt(c) /\ (c.at = "idle" \/ c.heard)
    BY <1>1, <1>2, <2>1
  <2>3. RenameAt(c)'
    BY <2>2, CallRests
  <2>4. calls'[k] = c
    BY <1>1, <2>1
  <2> QED BY <2>2, <2>3, <2>4 DEF CallAt, RenameAt, Present
<1> QED BY <1>1, <1>4, <1>5 DEF UsersCoreInv

\* A step that leaves the table and the calls preserves it.
LEMMA CoreKept == ASSUME UsersCoreInv, UNCHANGED <<rows, nRows, nNextId, calls>> PROVE UsersCoreInv'
<1>1. UNCHANGED <<rows, nRows, nNextId, calls>>
  OBVIOUS
<1>2. \A b : Renamed(b)' = Renamed(b)
  BY <1>1 DEF Renamed
<1>3. There' = There
  BY <1>1 DEF There, Present
<1>4. TableIs <=> TableIs'
  <2>1. ASSUME NEW id \in UserIds PROVE RowAt(id) <=> RowAt(id)'
    BY <1>1, <1>2 DEF RowAt, Present
  <2> QED BY <1>1, <1>3, <2>1 DEF TableIs
<1>5. ASSUME NEW k \in DOMAIN calls, CallAt(calls[k]), RenameAt(calls[k]) PROVE (CallAt(calls[k]) /\ RenameAt(calls[k]))'
  BY <1>1, <1>5 DEF CallAt, RenameAt, Present
<1> QED BY <1>1, <1>4, <1>5 DEF UsersCoreInv

\* StopService is one.
LEMMA StopStep == ASSUME UsersCoreInv, StopService PROVE UsersCoreInv'
BY CoreKept DEF StopService

\* The service starts in the core of its invariant.
LEMMA UsersStart == UsersInit => UsersCoreInv
<1>1. SUFFICES ASSUME UsersInit PROVE UsersCoreInv
  OBVIOUS
<1>2. PICK r \in Rivals :
         calls = [k \in DOMAIN r.calls |-> [MakeContext(r.calls[k][1], r.calls[k][2], "rival") EXCEPT !.at = "idle"]]
  BY <1>1 DEF UsersInit
<1>3. r.calls \in Seq({"register", "query", "rename", "remove"} \X Nat)
  BY UsersAssumption
<1>4. ASSUME NEW k \in DOMAIN r.calls
      PROVE  \E op, id : /\ Made([calls[k] EXCEPT !.at = "begin"], op, id, "rival") /\ calls[k] \in Contexts
                         /\ calls[k].at = "idle" /\ CallAt(calls[k]) /\ RenameAt(calls[k]) /\ ~calls[k].wrote
  <2>1. PICK op, id : op = r.calls[k][1] /\ id = r.calls[k][2]
    OBVIOUS
  <2>2. op \in Writes \cup {"query", "dbquery"} /\ id \in Nat /\ "rival" \in Callers
    BY <1>3, <2>1 DEF Writes, Callers
  <2>3. PICK d : d = MakeContext(op, id, "rival")
    OBVIOUS
  <2>4. Made(d, op, id, "rival") /\ ~halted
    BY <1>1, <2>2, <2>3, MakeContextIs DEF UsersInit
  <2>5. d.at = "begin" /\ d.err = "ok" /\ d \in Contexts
    BY <2>4 DEF Made
  <2>6. PICK e : e = [d EXCEPT !.at = "idle"]
    OBVIOUS
  <2>7. calls[k] = e
    BY <1>2, <2>1, <2>3, <2>6
  <2>8. e \in Contexts /\ e.at = "idle" /\ [e EXCEPT !.at = "begin"] = d
    BY <2>5, <2>6 DEF Contexts
  <2>9. /\ e.attempt = d.attempt /\ e.seen = d.seen /\ e.unseen = d.unseen /\ (e.reborn <=> d.reborn) /\ e.by = d.by
        /\ e.err = d.err /\ (e.wrote <=> d.wrote) /\ (e.heard <=> d.heard) /\ e.key = d.key /\ e.id = d.id
        /\ (e.driverFails <=> d.driverFails) /\ e.op = d.op
    BY <2>5, <2>6 DEF Contexts
  <2>10. CallAt(d) /\ RenameAt(d) /\ ~d.wrote /\ d.by = "rival"
    BY <2>4, MadeAt DEF Made
  <2>11. CallAt(e) /\ RenameAt(e) /\ ~e.wrote
    BY <2>5, <2>8, <2>9, <2>10 DEF CallAt, RenameAt
  <2> QED BY <2>4, <2>7, <2>8, <2>11
<1>5. DOMAIN calls = DOMAIN r.calls /\ calls \in Seq(Contexts)
  <2>1. DOMAIN calls = DOMAIN r.calls /\ calls = [k \in DOMAIN calls |-> calls[k]]
    BY <1>2
  <2>2. \A i \in DOMAIN r.calls : calls[i] \in Contexts
    BY <1>4
  <2> QED BY <1>3, <2>1, <2>2, OneMapped
<1>6. There = kSeedUserIds
  <2>1. There = {id \in UserIds : SeedRows[id] # NoRow}
    BY <1>1 DEF There, Present, UsersInit
  <2>2. kSeedUserIds \subseteq UserIds
    BY UsersAssumption DEF UserIds
  <2> QED BY <2>1, <2>2, SeedsAre
<1>7. TableIs
  <2>1. rows \in [UserIds -> Versions] /\ nRows = Cardinality(There)
    BY <1>1, <1>6, SeedsAre DEF UsersInit
  <2>2. nNextId \in Nat /\ nNextId >= kFirstAutoId
    BY <1>1, UsersAssumption DEF UsersInit
  <2>3. \A id \in UserIds : RowAt(id)
    BY <1>1, SeedsAre DEF RowAt, Present, UsersInit
  <2>4. \A k \in DOMAIN calls : ~calls[k].wrote
    BY <1>4, <1>5
  <2> QED BY <1>5, <2>1, <2>2, <2>3, <2>4 DEF TableIs
<1> QED BY <1>4, <1>5, <1>7 DEF UsersCoreInv

-------------------------------------------------------------------------------
\* A call takes a step of its own: the others keep all but the writes of others they
\* met, and only an insert without an id gets one.
Progress(k) ==
    /\ DOMAIN calls' = DOMAIN calls /\ demo' = demo /\ nNextId' \in Nat /\ nNextId' >= nNextId
    /\ calls[k].at # "done" /\ calls'[k].at # "idle"
    /\ \A i \in DOMAIN calls : i # k => Beside(calls[i], calls'[i])
    /\ calls'[k] \in Contexts /\ calls'[k].op = calls[k].op /\ calls'[k].by = calls[k].by
    /\ (calls'[k].valid <=> calls[k].valid) /\ (calls'[k].heard <=> calls[k].heard)
    /\ \/ calls'[k].id = calls[k].id /\ calls'[k].key = calls[k].key
       \/ /\ calls[k].op = "register" /\ calls[k].id = 0 /\ calls'[k].wrote
          /\ calls'[k].id = nNextId /\ calls'[k].key = nNextId /\ nNextId' = nNextId + 1

\* Those that write no row.
LEMMA ProgressAlike ==
    ASSUME TableIs, NEW k \in DOMAIN calls, NEW d, calls' = [calls EXCEPT ![k] = d], calls[k].at # "done",
           d \in Contexts, d.at # "idle", d.op = calls[k].op, d.by = calls[k].by, d.valid <=> calls[k].valid,
           d.heard <=> calls[k].heard, d.id = calls[k].id, d.key = calls[k].key,
           nNextId' = nNextId \/ nNextId' = nNextId + 1, demo' = demo
    PROVE  Progress(k) /\ calls'[k] = d /\ \A i \in DOMAIN calls : i # k => calls'[i] = calls[i]
<1>1. calls \in Seq(Contexts) /\ nNextId \in Nat
  BY DEF TableIs
<1>2. calls'[k] = d /\ DOMAIN calls' = DOMAIN calls /\ \A i \in DOMAIN calls : i # k => calls'[i] = calls[i]
  BY <1>1, OnePut
<1>3. ASSUME NEW i \in DOMAIN calls, i # k PROVE Beside(calls[i], calls'[i])
  <2>1. calls[i] \in Contexts /\ calls'[i] = calls[i]
    BY <1>1, <1>2, <1>3
  <2> QED BY <2>1 DEF Beside
<1>4. nNextId' \in Nat /\ nNextId' >= nNextId
  BY <1>1
<1> QED BY <1>2, <1>3, <1>4 DEF Progress

\* Those that write one.
LEMMA ProgressWritten ==
    ASSUME TableIs, NEW k \in DOMAIN calls, NEW d, NEW erased \in BOOLEAN, PutAndNotice(k, d, erased),
           Written(calls[k], d), d.id = calls[k].id /\ d.key = calls[k].key, calls[k].at # "done",
           nNextId' = nNextId, demo' = demo
    PROVE  Progress(k) /\ calls'[k] = d
<1>1. calls \in Seq(Contexts) /\ nNextId \in Nat /\ d \in Contexts
  BY DEF TableIs, Written
<1>2. calls'[k] = d /\ DOMAIN calls' = DOMAIN calls /\ \A i \in DOMAIN calls : i # k => Beside(calls[i], calls'[i])
  BY <1>1, PutIs
<1> QED BY <1>1, <1>2 DEF Progress, Written

\* QueryUser, WriteLoads and RivalCalls are such steps.
LEMMA ReadsProgress ==
    ASSUME UsersCoreInv, NEW k \in DOMAIN calls, QueryUser(k) \/ WriteLoads(k) \/ RivalCalls(k)
    PROVE  Progress(k)
<1>1. TableIs /\ CallAt(calls[k])
  BY DEF UsersCoreInv
<1>2. demo' = demo /\ nNextId' = nNextId
  BY DEF QueryUser, WriteLoads, RivalCalls
<1>3. CASE QueryUser(k)
  <2>1. PICK d : /\ calls' = [calls EXCEPT ![k] = d] /\ Alike(calls[k], d) /\ calls[k].at = "begin"
                 /\ (d.at = "done" /\ d.err = "Stopped") \/ Answer(calls[k], d)
    BY <1>1, <1>3, Queried
  <2>2. d.at # "idle"
    BY <1>1, <2>1 DEF Answer, CallAt, Contexts, Writes
  <2> QED BY <1>1, <1>2, <2>1, <2>2, ProgressAlike DEF Alike
<1>4. CASE WriteLoads(k)
  <2>1. PICK d : calls' = [calls EXCEPT ![k] = d] /\ Alike(calls[k], d) /\ calls[k].at = "write" /\ d.at # "idle"
    BY <1>1, <1>4, WriteLoaded
  <2> QED BY <1>1, <1>2, <2>1, ProgressAlike DEF Alike
<1>5. CASE RivalCalls(k)
  <2>1. PICK c, d : c = calls[k] /\ d = [c EXCEPT !.at = "begin"]
    OBVIOUS
  <2>2. calls' = [calls EXCEPT ![k] = d] /\ c.at = "idle" /\ c \in Contexts
    BY <1>1, <1>5, <2>1 DEF RivalCalls, Put, CallAt
  <2>3. Alike(c, d) /\ d.at = "begin"
    BY <2>1, <2>2 DEF Alike, Contexts
  <2> QED BY <1>1, <1>2, <2>1, <2>2, <2>3, ProgressAlike DEF Alike
<1> QED BY <1>3, <1>4, <1>5

\* So is an insert.
LEMMA InsertProgress == ASSUME UsersCoreInv, NEW k \in DOMAIN calls, StepInsertRow(k) PROVE Progress(k)
<1>1. TableIs /\ CallAt(calls[k])
  BY DEF UsersCoreInv
<1>2. demo' = demo
  BY DEF StepInsertRow
<1>3. PICK id : id = IF calls[k].key = 0 THEN nNextId ELSE calls[k].key
  OBVIOUS
<1>4. /\ calls[k].at = "apply" /\ calls[k].op = "register" /\ id \in UserIds
      /\ nNextId' = IF calls[k].key = 0 THEN nNextId + 1 ELSE nNextId
      /\ \E d : InsertEnds(k, id, d)
  BY <1>1, <1>3, Inserts
<1>5. PICK d : InsertEnds(k, id, d)
  BY <1>4
<1>6. CASE Present(id)
  <2>1. calls' = [calls EXCEPT ![k] = d] /\ Alike(calls[k], d) /\ d.at = "done"
    BY <1>5, <1>6 DEF InsertEnds
  <2>2. nNextId' = nNextId \/ nNextId' = nNextId + 1
    BY <1>4
  <2> QED BY <1>1, <1>2, <1>4, <2>1, <2>2, ProgressAlike DEF Alike
<1>7. CASE ~Present(id)
  <2>1. PutAndNotice(k, d, FALSE) /\ Written(calls[k], d) /\ d.id = id /\ d.key = id
    BY <1>5, <1>7 DEF InsertEnds
  <2>2. calls[k].key = calls[k].id
    BY <1>1, <1>4 DEF CallAt
  <2>3. CASE calls[k].key # 0
    <3>1. d.id = calls[k].id /\ d.key = calls[k].key /\ nNextId' = nNextId
      BY <1>3, <1>4, <2>1, <2>2, <2>3
    <3> QED BY <1>1, <1>2, <1>4, <2>1, <3>1, ProgressWritten
  <2>4. CASE calls[k].key = 0
    <3>1. calls \in Seq(Contexts) /\ nNextId \in Nat /\ d \in Contexts
      BY <1>1, <2>1 DEF TableIs, Written
    <3>2. calls'[k] = d /\ DOMAIN calls' = DOMAIN calls /\ \A i \in DOMAIN calls : i # k => Beside(calls[i], calls'[i])
      BY <2>1, <3>1, PutIs
    <3>3. id = nNextId /\ nNextId' = nNextId + 1 /\ calls[k].id = 0
      BY <1>3, <1>4, <2>2, <2>4
    <3>4. d.op = calls[k].op /\ d.by = calls[k].by /\ (d.valid <=> calls[k].valid) /\ (d.heard <=> calls[k].heard) /\ d.wrote
          /\ d.at = "done"
      BY <2>1 DEF Written
    <3>5. nNextId' \in Nat /\ nNextId' >= nNextId
      BY <3>1, <3>3
    <3> QED BY <1>2, <1>4, <2>1, <3>1, <3>2, <3>3, <3>4, <3>5 DEF Progress
  <2> QED BY <2>3, <2>4
<1> QED BY <1>6, <1>7

\* So is an update.
LEMMA ApplyProgress == ASSUME UsersCoreInv, NEW k \in DOMAIN calls, StepApplyUpdate(k) PROVE Progress(k)
<1>1. TableIs /\ CallAt(calls[k])
  BY DEF UsersCoreInv
<1>2. demo' = demo
  BY DEF StepApplyUpdate
<1>3. PICK c : c = calls[k]
  OBVIOUS
<1>4. c.at = "apply" /\ c.op = "rename" /\ nNextId' = nNextId /\ \E d : ApplyEnds(k, c, d)
  BY <1>1, <1>3, Applies
<1>5. PICK d : ApplyEnds(k, c, d)
  BY <1>4
<1>6. CASE ~Present(c.key)
  <2>1. calls' = [calls EXCEPT ![k] = d] /\ Alike(c, d) /\ d.at = "done"
    BY <1>5, <1>6 DEF ApplyEnds
  <2> QED BY <1>1, <1>2, <1>3, <1>4, <2>1, ProgressAlike DEF Alike
<1>7. CASE Present(c.key) /\ rows[c.key].version # c.request.version
  <2>1. calls' = [calls EXCEPT ![k] = d]
    BY <1>5, <1>7 DEF ApplyEnds
  <2>2. /\ d \in Contexts /\ d.op = c.op /\ d.id = c.id /\ d.key = c.key /\ d.by = c.by /\ (d.valid <=> c.valid)
        /\ (d.heard <=> c.heard) /\ d.at # "idle"
    <3>1. CASE c.attempt < kMaxUpdateAttempts
      BY <1>5, <1>7, <3>1 DEF ApplyEnds
    <3>2. CASE ~(c.attempt < kMaxUpdateAttempts)
      BY <1>5, <1>7, <3>2 DEF ApplyEnds, Alike
    <3> QED BY <3>1, <3>2
  <2> QED BY <1>1, <1>2, <1>3, <1>4, <2>1, <2>2, ProgressAlike
<1>8. CASE Present(c.key) /\ rows[c.key].version = c.request.version
  <2>1. PutAndNotice(k, d, FALSE) /\ Written(c, d) /\ d.id = c.id /\ d.key = c.key
    BY <1>5, <1>8 DEF ApplyEnds
  <2> QED BY <1>1, <1>2, <1>3, <1>4, <2>1, ProgressWritten
<1> QED BY <1>6, <1>7, <1>8

\* So is a removal.
LEMMA EraseProgress == ASSUME UsersCoreInv, NEW k \in DOMAIN calls, StepEraseRow(k) PROVE Progress(k)
<1>1. TableIs /\ CallAt(calls[k])
  BY DEF UsersCoreInv
<1>2. demo' = demo
  BY DEF StepEraseRow
<1>3. PICK c : c = calls[k]
  OBVIOUS
<1>4. c.at = "apply" /\ c.op = "remove" /\ nNextId' = nNextId /\ \E d : EraseEnds(k, c, d)
  BY <1>1, <1>3, Erases
<1>5. PICK d : EraseEnds(k, c, d)
  BY <1>4
<1>6. CASE ~Present(c.key)
  <2>1. calls' = [calls EXCEPT ![k] = d] /\ Alike(c, d) /\ d.at = "done"
    BY <1>5, <1>6 DEF EraseEnds
  <2> QED BY <1>1, <1>2, <1>3, <1>4, <2>1, ProgressAlike DEF Alike
<1>7. CASE Present(c.key)
  <2>1. PutAndNotice(k, d, TRUE) /\ Written(c, d) /\ d.id = c.id /\ d.key = c.key
    BY <1>5, <1>7 DEF EraseEnds
  <2> QED BY <1>1, <1>2, <1>3, <1>4, <2>1, ProgressWritten
<1> QED BY <1>6, <1>7

\* The scenes come in order: what is not yet asked, and what is heard, while a call
\* of the demo is on its way.
LEMMA SceneOrder ==
    ASSUME DemoAt, NEW k \in DOMAIN calls, Demo(k), ~calls[k].heard
    PROVE  /\ demo.scene \in 1 .. 9 /\ calls[k].by = Scenes[demo.scene]
           /\ calls[k].by \in {"register", "duplicate", "query", "reads", "renames"} =>
                \A j \in DOMAIN calls : calls[j].by \notin {"remove", "again"}
           /\ calls[k].by = "register" => \A j \in DOMAIN calls : Demo(j) => calls[j].by = "register"
           /\ calls[k].by = "remove" => \A j \in DOMAIN calls : calls[j].by # "again"
           /\ calls[k].by \in {"remove", "again"} => \A j \in DOMAIN calls : calls[j].by = "renames" => calls[j].heard
<1>1. PICK n : n = demo.scene
  OBVIOUS
<1>2. n \in 1 .. 9 /\ calls[k].by = Scenes[n]
  BY <1>1 DEF DemoAt
<1>3. ASSUME NEW j \in DOMAIN calls, Demo(j)
      PROVE  \E i \in 1 .. 9 : calls[j].by = Scenes[i] /\ i <= n /\ (~calls[j].heard => i = n)
  BY <1>1, <1>3 DEF DemoAt
<1>4. ASSUME NEW j \in DOMAIN calls
      PROVE  /\ n <= 5 => calls[j].by \notin {"remove", "again"}
             /\ n = 1 /\ Demo(j) => calls[j].by = "register"
             /\ n = 6 => calls[j].by # "again"
             /\ n \in {6, 7} => (calls[j].by = "renames" => calls[j].heard)
  <2>1. CASE ~Demo(j)
    BY <2>1 DEF Demo
  <2>2. CASE Demo(j)
    <3>1. PICK i \in 1 .. 9 : calls[j].by = Scenes[i] /\ i <= n /\ (~calls[j].heard => i = n)
      BY <1>3, <2>2
    <3>2. i \in {1, 2, 3, 4, 5, 6, 7, 8, 9}
      BY <3>1, SceneCases
    <3>3. /\ calls[j].by = "remove" => i = 6
          /\ calls[j].by = "again" => i = 7
          /\ calls[j].by = "renames" => i = 5
          /\ i = 1 => calls[j].by = "register"
      BY <3>1, <3>2, SceneNumbers
    <3> QED BY <1>2, <3>1, <3>3
  <2> QED BY <2>1, <2>2
<1>5. /\ calls[k].by \in {"register", "duplicate", "query", "reads", "renames"} => n <= 5
      /\ calls[k].by = "register" => n = 1
      /\ calls[k].by = "remove" => n = 6
      /\ calls[k].by = "again" => n = 7
  <2>1. n \in {1, 2, 3, 4, 5, 6, 7, 8, 9}
    BY <1>2, SceneCases
  <2> QED BY <1>2, <2>1, SceneNumbers
<1> QED BY <1>1, <1>2, <1>4, <1>5

\* The demo's user was registered by its one call.
LEMMA UserRegistered ==
    ASSUME UsersCoreInv, DemoAt, demo.userId > 0
    PROVE  \E r \in DOMAIN calls :
             /\ calls[r].by = "register" /\ calls[r].op = "register" /\ calls[r].heard /\ calls[r].at = "done"
             /\ calls[r].wrote /\ calls[r].id = demo.userId /\ calls[r].key = demo.userId
             /\ \A j \in DOMAIN calls : calls[j].by = "register" => j = r
<1>1. PICK r \in DOMAIN calls : calls[r].by = "register" /\ calls[r].heard
  BY DEF DemoAt
<1>2. CallAt(calls[r])
  BY DEF UsersCoreInv
<1>3. calls[r].op = "register" /\ demo.userId = calls[r].id
  BY <1>1 DEF DemoAt, Asks, Demo
<1>4. calls[r].wrote
  BY <1>1, <1>3 DEF DemoAt
<1>5. calls[r].at = "done" /\ calls[r].key = calls[r].id
  BY <1>1, <1>2, <1>3 DEF CallAt
<1>6. \A j \in DOMAIN calls : calls[j].by = "register" => j = r
  BY <1>1 DEF DemoAt
<1> QED BY <1>1, <1>3, <1>4, <1>5, <1>6

\* The demo's place is kept by a step of one call.
LEMMA DemoAtKept == ASSUME UsersCoreInv, DemoAt, NEW k \in DOMAIN calls, Progress(k) PROVE DemoAt'
<1>1. DOMAIN calls' = DOMAIN calls /\ demo' = demo
  BY DEF Progress
<1>2. ASSUME NEW i \in DOMAIN calls
      PROVE  /\ calls'[i].by = calls[i].by /\ calls'[i].op = calls[i].op /\ (calls'[i].valid <=> calls[i].valid)
             /\ (calls'[i].heard <=> calls[i].heard)
             /\ i # k => /\ calls'[i].id = calls[i].id /\ calls'[i].key = calls[i].key
                         /\ (calls'[i].wrote <=> calls[i].wrote)
  BY DEF Progress, Beside
<1>3. CallAt(calls[k]) /\ calls[k].at # "done"
  BY DEF UsersCoreInv, Progress
<1>4. ~calls[k].wrote /\ ~calls[k].heard
  BY <1>3 DEF CallAt
<1>5. Unheard' = Unheard /\ Renames' = Renames
  BY <1>1, <1>2 DEF Unheard, Renames, Demo
<1>6. ASSUME NEW i \in DOMAIN calls, calls[i].by \in {"duplicate", "query", "reads", "renames", "remove", "again"}
      PROVE  calls'[i].id = calls[i].id
  <2>1. Asks(calls[i])
    BY <1>6 DEF DemoAt, Demo
  <2>2. CASE i = k
    <3>1. ~(calls[k].op = "register" /\ calls[k].id = 0)
      BY <1>6, <2>1, <2>2 DEF Asks
    <3> QED BY <2>2, <3>1 DEF Progress
  <2> QED BY <1>2, <2>2
<1>7. ASSUME NEW i \in DOMAIN calls, Demo(i)
      PROVE  Asks(calls[i])'
  <2>1. Asks(calls[i])
    BY <1>7 DEF DemoAt
  <2>2. PICK e : e = calls'[i]
    OBVIOUS
  <2>3. Asks(e)'
    BY <1>1, <1>2, <1>6, <2>1, <2>2 DEF Asks
  <2> QED BY <2>2, <2>3 DEF Asks
<1>8. ASSUME NEW i \in DOMAIN calls, calls[i].by = "register"
      PROVE  /\ demo.userId = IF calls'[i].heard THEN calls'[i].id ELSE 0
             /\ calls'[i].id > 0 => calls'[i].wrote /\ calls'[i].key < nNextId' /\ calls'[i].key >= kFirstAutoId
  <2>1. /\ demo.userId = IF calls[i].heard THEN calls[i].id ELSE 0
        /\ calls[i].id > 0 => calls[i].wrote /\ calls[i].key < nNextId /\ calls[i].key >= kFirstAutoId
    BY <1>8 DEF DemoAt
  <2>2. CASE i # k
    <3>1. calls[i].key \in Nat /\ nNextId \in Nat
      BY DEF UsersCoreInv, CallAt, Contexts, TableIs
    <3>2. nNextId' \in Nat /\ nNextId' >= nNextId
      BY DEF Progress
    <3> QED BY <1>2, <2>1, <2>2, <3>1, <3>2
  <2>3. CASE i = k
    <3>1. nNextId \in Nat /\ nNextId >= kFirstAutoId /\ kFirstAutoId \in Nat
      BY UsersAssumption DEF UsersCoreInv, TableIs
    <3>2. ~(calls[k].id > 0)
      BY <1>4, <2>1, <2>3
    <3>3. calls'[k].id > 0 => calls'[k].wrote /\ calls'[k].key = nNextId /\ nNextId' = nNextId + 1
      BY <3>2 DEF Progress
    <3>4. calls'[k].id > 0 => calls'[k].key < nNextId' /\ calls'[k].key >= kFirstAutoId
      BY <3>1, <3>3
    <3>5. ~calls'[i].heard /\ ~calls[i].heard
      BY <1>2, <1>4, <2>3
    <3> QED BY <2>1, <2>3, <3>3, <3>4, <3>5
  <2> QED BY <2>2, <2>3
<1>9. ASSUME NEW i \in DOMAIN calls, Demo(i)
      PROVE  \E n \in 1 .. 9 : calls'[i].by = Scenes[n] /\ n <= demo.scene /\ (~calls'[i].heard => n = demo.scene)
  <2>1. PICK n \in 1 .. 9 : calls[i].by = Scenes[n] /\ n <= demo.scene /\ (~calls[i].heard => n = demo.scene)
    BY <1>9 DEF DemoAt
  <2> QED BY <1>2, <2>1
<1>10. demo' \in [scene : 0 .. 10, userId : Nat, pending : Nat] /\ IsFiniteSet(Unheard') /\ demo'.pending = Cardinality(Unheard')
       /\ IsFiniteSet(Renames') /\ Cardinality(Renames') <= 3
  BY <1>1, <1>5 DEF DemoAt
<1>11. \A j, l \in DOMAIN calls' : calls'[j].by = calls'[l].by /\ calls'[j].by \in {"register", "remove"} => j = l
  BY <1>1, <1>2 DEF DemoAt
<1>12. demo'.userId > 0 => \E i \in DOMAIN calls' : calls'[i].by = "register" /\ calls'[i].heard
  BY <1>1, <1>2 DEF DemoAt
<1>13. \A i \in DOMAIN calls' : Demo(i)' => Demo(i)
  BY <1>1, <1>2 DEF Demo
<1>14. \A i \in DOMAIN calls' : Demo(i)' =>
         /\ Asks(calls[i])'
         /\ \E n \in 1 .. 9 : calls'[i].by = Scenes[n] /\ n <= demo'.scene /\ (~calls'[i].heard => n = demo'.scene)
  BY <1>1, <1>7, <1>9, <1>13
<1>15. \A i \in DOMAIN calls' : calls'[i].by = "register" =>
         /\ demo'.userId = IF calls'[i].heard THEN calls'[i].id ELSE 0
         /\ calls'[i].id > 0 => calls'[i].wrote /\ calls'[i].key < nNextId' /\ calls'[i].key >= kFirstAutoId
  BY <1>1, <1>2, <1>8
<1> QED BY <1>10, <1>11, <1>12, <1>14, <1>15 DEF DemoAt

\* Nobody has stopped the service or touched a user before a step after which that is so.
LEMMA AloneBefore ==
    ASSUME UsersCoreInv, NEW k \in DOMAIN calls, Progress(k), NEW id \in Nat, id > 0, Alone(id)'
    PROVE  Alone(id)
<1>1. SUFFICES ASSUME NEW i \in DOMAIN calls
               PROVE  calls[i].err # "Stopped" /\ (calls[i].by = "rival" /\ calls[i].at # "idle" => calls[i].id # id)
  BY DEF Alone
<1>2. calls'[i].err # "Stopped" /\ (calls'[i].by = "rival" /\ calls'[i].at # "idle" => calls'[i].id # id)
  BY DEF Alone, Progress
<1>3. CASE i # k
  BY <1>2, <1>3 DEF Progress, Beside
<1>4. CASE i = k
  <2>1. CallAt(calls[k])
    BY DEF UsersCoreInv
  <2>2. calls[k].at # "done" /\ calls'[k].by = calls[k].by
    BY DEF Progress
  <2>3. calls[k].err = "ok"
    BY <2>1, <2>2 DEF CallAt
  <2> QED BY <1>2, <1>4, <2>2, <2>3 DEF Progress
<1> QED BY <1>3, <1>4

\* Which scene a call of the demo is of, by what it asks.
LEMMA AskedBy ==
    ASSUME UsersCoreInv, DemoAt, NEW k \in DOMAIN calls, Demo(k), NEW c, c = calls[k]
    PROVE  /\ c.by \in {"register", "duplicate", "query", "reads", "renames", "remove", "again", "invalid", "dberror"}
           /\ c.op = "register" <=> c.by \in {"register", "duplicate", "invalid"}
           /\ c.op = "query" <=> c.by \in {"query", "reads"}
           /\ c.op = "rename" <=> c.by = "renames"
           /\ c.op = "remove" <=> c.by \in {"remove", "again"}
           /\ c.op = "dbquery" <=> c.by = "dberror"
           /\ c.by \in {"duplicate", "query", "reads", "renames", "remove", "again"} =>
                c.id = demo.userId /\ c.key = demo.userId /\ demo.userId > 0
           /\ c.valid <=> c.by # "invalid"
<1>1. c \in Contexts /\ CallAt(c)
  BY DEF UsersCoreInv, CallAt
<1>2. PICK i \in 1 .. 9 : c.by = Scenes[i]
  BY DEF DemoAt
<1>3. c.by \in {"register", "duplicate", "query", "reads", "renames", "remove", "again", "invalid", "dberror"}
  <2>1. i \in {1, 2, 3, 4, 5, 6, 7, 8, 9}
    BY <1>2, SceneCases
  <2> QED BY <1>2, <2>1, SceneNumbers
<1>4. Asks(c)
  BY DEF DemoAt
<1>5. c.op \in {"register", "rename", "remove", "query", "dbquery"}
  BY <1>1 DEF Contexts, Writes
<1>6. c.by \in {"duplicate", "query", "reads", "renames", "remove", "again"} => c.key = c.id
  BY <1>1, <1>4 DEF CallAt, Asks
<1> QED BY <1>3, <1>4, <1>5, <1>6 DEF Asks

\* While a call of the demo is not heard, some are pending.
LEMMA PendingSome ==
    ASSUME DemoAt, NEW k \in DOMAIN calls, Demo(k), ~calls[k].heard
    PROVE  demo.pending > 0
<1>1. PICK U : U = Unheard
  OBVIOUS
<1>2. k \in U /\ IsFiniteSet(U) /\ demo.pending = Cardinality(U) /\ demo.pending \in Nat
  BY <1>1 DEF Unheard, DemoAt
<1>3. Cardinality(U) # 0
  BY <1>2, FS_EmptySet
<1> QED BY <1>2, <1>3

\* The user's row while a call of the demo is on its way.
LEMMA UserRow ==
    ASSUME UsersCoreInv, DemoAt, DemoRow, demo.userId > 0, Alone(demo.userId),
           NEW k \in DOMAIN calls, Demo(k), ~calls[k].heard
    PROVE  IF \E j \in DOMAIN calls : RemovedBy(j) THEN ~Present(demo.userId)
           ELSE Present(demo.userId) /\ rows[demo.userId].born \in DOMAIN calls
                /\ calls[rows[demo.userId].born].by = "register"
<1>1. PICK r \in DOMAIN calls :
        calls[r].by = "register" /\ calls[r].wrote /\ calls[r].key = demo.userId
  BY UserRegistered
<1>2. demo.pending > 0
  BY PendingSome
<1>3. demo.userId \in Nat
  BY DEF DemoAt
<1> QED BY <1>1, <1>2, <1>3 DEF DemoRow

\* A registered user: who registered it, before and after a step of another call.
LEMMA RegisteredBefore ==
    ASSUME UsersCoreInv, DemoAt, NEW k \in DOMAIN calls, Progress(k), NEW id \in Nat,
           NEW r \in DOMAIN calls, r # k, calls'[r].by = "register", calls'[r].wrote, calls'[r].key = id, Alone(id)'
    PROVE  /\ calls[r].by = "register" /\ calls[r].wrote /\ calls[r].key = id /\ Alone(id)
           /\ calls[r].id = id /\ id > 0 /\ id < nNextId
           /\ calls[r].heard => demo.userId = id
<1>1. calls[r].by = "register" /\ calls[r].wrote /\ calls[r].key = id
  BY DEF Progress, Beside
<1>2. PICK c : c = calls[r]
  OBVIOUS
<1>3. CallAt(c) /\ c \in Contexts
  BY <1>2 DEF UsersCoreInv, CallAt
<1>4. c.op = "register"
  BY <1>1, <1>2 DEF DemoAt, Demo, Asks
<1>5. c.id \in Nat /\ c.id > 0 /\ c.key = c.id
  BY <1>1, <1>2, <1>3, <1>4 DEF CallAt, Contexts
<1>6. c.key < nNextId /\ (c.heard => demo.userId = c.id)
  BY <1>1, <1>2, <1>5 DEF DemoAt
<1>7. id > 0
  BY <1>1, <1>2, <1>5
<1>8. Alone(id)
  BY <1>7, AloneBefore
<1> QED BY <1>1, <1>2, <1>5, <1>6, <1>7, <1>8

\* A step that writes nothing leaves the user's row as it is.
LEMMA RowKept ==
    ASSUME UsersCoreInv, DemoAt, DemoRow, NEW k \in DOMAIN calls, Progress(k), rows' = rows,
           calls'[k].wrote <=> calls[k].wrote
    PROVE  DemoRow'
<1>1. SUFFICES ASSUME NEW r \in DOMAIN calls', NEW id \in Nat, calls'[r].by = "register", calls'[r].wrote,
                      calls'[r].key = id, Alone(id)', demo'.pending > 0
               PROVE  IF \E j \in DOMAIN calls' : RemovedBy(j)' THEN ~Present(id)'
                      ELSE Present(id)' /\ rows'[id].born = r
  BY DEF DemoRow
<1>2. r \in DOMAIN calls /\ DOMAIN calls' = DOMAIN calls /\ demo' = demo
  BY DEF Progress
<1>3. ~calls[k].wrote
  BY DEF UsersCoreInv, CallAt, Progress
<1>4. r # k
  BY <1>1, <1>3
<1>5. calls[r].by = "register" /\ calls[r].wrote /\ calls[r].key = id /\ Alone(id)
  BY <1>1, <1>2, <1>4, RegisteredBefore
<1>6. \A j \in DOMAIN calls : RemovedBy(j)' <=> RemovedBy(j)
  BY <1>3 DEF Progress, Beside, RemovedBy
<1>7. IF \E j \in DOMAIN calls : RemovedBy(j) THEN ~Present(id) ELSE Present(id) /\ rows[id].born = r
  BY <1>1, <1>2, <1>5 DEF DemoRow
<1> QED BY <1>2, <1>6, <1>7 DEF Present

\* An insert makes the demo's row, or leaves it.
LEMMA RowInsert ==
    ASSUME UsersCoreInv, DemoAt, DemoRow, DemoCalls, NEW k \in DOMAIN calls, StepInsertRow(k)
    PROVE  DemoRow'
<1>1. TableIs /\ CallAt(calls[k]) /\ Progress(k)
  BY InsertProgress DEF UsersCoreInv
<1>2. PICK id : id = IF calls[k].key = 0 THEN nNextId ELSE calls[k].key
  OBVIOUS
<1>3. /\ calls[k].at = "apply" /\ calls[k].op = "register" /\ id \in UserIds
      /\ \E d : InsertEnds(k, id, d)
  BY <1>1, <1>2, Inserts
<1>4. PICK d : InsertEnds(k, id, d)
  BY <1>3
<1>5. ~calls[k].wrote /\ ~calls[k].heard /\ calls[k].key = calls[k].id
  BY <1>1, <1>3 DEF CallAt
<1>6. CASE Present(id)
  <2>1. calls' = [calls EXCEPT ![k] = d] /\ Alike(calls[k], d) /\ rows' = rows
    BY <1>4, <1>6 DEF InsertEnds
  <2>2. calls'[k].wrote <=> calls[k].wrote
    BY <2>1 DEF Alike
  <2> QED BY <1>1, <2>1, <2>2, RowKept
<1>7. CASE ~Present(id)
  <2>1. /\ PutAndNotice(k, d, FALSE) /\ Written(calls[k], d) /\ d.id = id /\ d.key = id
        /\ rows' = [rows EXCEPT ![id] = [version |-> 1, born |-> k]]
    BY <1>4, <1>7 DEF InsertEnds
  <2>2. DOMAIN calls' = DOMAIN calls /\ demo' = demo
    BY <1>1 DEF Progress
  <2>3. calls'[k] = d
    BY <1>1, <2>1, PutIs DEF TableIs, Written
  <2>4. rows \in [UserIds -> Versions]
    BY <1>1 DEF TableIs
  <2>5. Demo(k) => calls[k].by \in {"register", "duplicate", "invalid"}
    BY <1>3, AskedBy
  <2>6. calls[k].by \notin {"remove", "again"}
    BY <2>5 DEF Demo
  <2>7. \A j \in DOMAIN calls : RemovedBy(j)' <=> RemovedBy(j)
    BY <1>1, <2>6 DEF Progress, Beside, RemovedBy
  <2>8. SUFFICES ASSUME NEW r \in DOMAIN calls, NEW u \in Nat, calls'[r].by = "register", calls'[r].wrote,
                        calls'[r].key = u, Alone(u)', demo.pending > 0
                 PROVE  IF \E j \in DOMAIN calls : RemovedBy(j) THEN ~Present(u)'
                        ELSE Present(u)' /\ rows'[u].born = r
    BY <2>2, <2>7 DEF DemoRow
  <2>9. CASE r = k
    <3>1. u = id
      BY <2>1, <2>3, <2>8, <2>9
    <3>2. calls[k].by = "register"
      BY <1>1, <2>8, <2>9 DEF Progress
    <3>3. \A j \in DOMAIN calls : ~RemovedBy(j)
      BY <1>5, <3>2, SceneOrder DEF Demo, RemovedBy
    <3>4. rows'[id] = [version |-> 1, born |-> k]
      BY <1>3, <2>1, <2>4
    <3>5. Present(id)' /\ rows'[id].born = k
      BY <1>3, <3>4 DEF Present, NoRow
    <3> QED BY <2>9, <3>1, <3>3, <3>5
  <2>10. CASE r # k
    <3>1. /\ calls[r].by = "register" /\ calls[r].wrote /\ calls[r].key = u /\ Alone(u)
          /\ u > 0 /\ u < nNextId /\ (calls[r].heard => demo.userId = u)
      BY <1>1, <2>8, <2>10, RegisteredBefore
    <3>2. IF \E j \in DOMAIN calls : RemovedBy(j) THEN ~Present(u) ELSE Present(u) /\ rows[u].born = r
      BY <2>8, <3>1 DEF DemoRow
    <3>3. id # u
      <4>1. CASE ~Demo(k)
        <5>1. calls[k].id # u
          BY <1>3, <3>1, <4>1 DEF Alone, Demo
        <5>2. nNextId # u
          BY <1>1, <3>1 DEF TableIs
        <5> QED BY <1>2, <1>5, <5>1, <5>2
      <4>2. CASE Demo(k) /\ ~calls[r].heard
        <5>1. calls[k].by = "register"
          BY <3>1, <4>2, SceneOrder DEF Demo
        <5>2. k = r
          BY <3>1, <5>1 DEF DemoAt
        <5> QED BY <2>10, <5>2
      <4>3. CASE Demo(k) /\ calls[r].heard
        <5>1. demo.userId > 0 /\ Alone(demo.userId)
          BY <3>1, <4>3
        <5>2. Expected(calls[k])
          BY <4>3, <5>1 DEF DemoCalls
        <5>3. calls[k].by # "register"
          BY <2>10, <3>1 DEF DemoAt
        <5> QED BY <1>3, <2>5, <4>3, <5>2, <5>3 DEF Expected
      <4> QED BY <4>1, <4>2, <4>3
    <3>4. Present(u)' <=> Present(u)
      BY <2>1, <2>4, <3>3 DEF Present
    <3>5. Present(u) => rows'[u] = rows[u]
      BY <2>1, <2>4, <3>3 DEF Present
    <3> QED BY <3>2, <3>4, <3>5
  <2> QED BY <2>9, <2>10
<1> QED BY <1>6, <1>7

\* An update leaves it there, as it was registered.
LEMMA RowApply ==
    ASSUME UsersCoreInv, DemoAt, DemoRow, NEW k \in DOMAIN calls, StepApplyUpdate(k)
    PROVE  DemoRow'
<1>1. TableIs /\ CallAt(calls[k]) /\ Progress(k)
  BY ApplyProgress DEF UsersCoreInv
<1>2. PICK c : c = calls[k]
  OBVIOUS
<1>3. c.at = "apply" /\ c.op = "rename" /\ \E d : ApplyEnds(k, c, d)
  BY <1>1, <1>2, Applies
<1>4. PICK d : ApplyEnds(k, c, d)
  BY <1>3
<1>5. rows \in [UserIds -> Versions] /\ calls \in Seq(Contexts) /\ ~c.wrote
  BY <1>1, <1>2, <1>3 DEF TableIs, CallAt
<1>6. CASE ~Present(c.key) \/ rows[c.key].version # c.request.version
  <2>1. calls' = [calls EXCEPT ![k] = d] /\ rows' = rows /\ (d.wrote <=> c.wrote)
    <3>1. CASE ~Present(c.key)
      BY <1>4, <3>1 DEF ApplyEnds, Alike
    <3>2. CASE Present(c.key) /\ c.attempt < kMaxUpdateAttempts
      BY <1>4, <1>6, <3>2 DEF ApplyEnds
    <3>3. CASE Present(c.key) /\ ~(c.attempt < kMaxUpdateAttempts)
      BY <1>4, <1>6, <3>3 DEF ApplyEnds, Alike
    <3> QED BY <3>1, <3>2, <3>3
  <2>2. calls'[k].wrote <=> calls[k].wrote
    BY <1>2, <1>5, <2>1
  <2> QED BY <1>1, <2>1, <2>2, RowKept
<1>7. CASE Present(c.key) /\ rows[c.key].version = c.request.version
  <2>1. /\ PutAndNotice(k, d, FALSE) /\ Written(c, d) /\ d.id = c.id /\ d.key = c.key
        /\ rows' = [rows EXCEPT ![c.key] = [version |-> rows[c.key].version + 1, born |-> rows[c.key].born]]
    BY <1>4, <1>7 DEF ApplyEnds
  <2>2. DOMAIN calls' = DOMAIN calls /\ demo' = demo
    BY <1>1 DEF Progress
  <2>3. calls[k].by \notin {"register", "remove", "again"}
    BY <1>2, <1>3, AskedBy DEF Demo
  <2>4. \A j \in DOMAIN calls : RemovedBy(j)' <=> RemovedBy(j)
    BY <1>1, <2>3 DEF Progress, Beside, RemovedBy
  <2>5. c.key \in UserIds /\ rows[c.key] \in Versions
    BY <1>5, <1>7 DEF Present
  <2>6. \A u \in Nat : (Present(u)' <=> Present(u)) /\ (Present(u) => rows'[u].born = rows[u].born)
    <3>1. PICK n \in Nat : n = rows[c.key].version
      BY <2>5 DEF Versions
    <3>2. rows'[c.key] = [version |-> n + 1, born |-> rows[c.key].born] /\ n + 1 # 0
      BY <1>5, <2>1, <2>5, <3>1
    <3>3. \A u \in UserIds : u # c.key => rows'[u] = rows[u]
      BY <1>5, <2>1
    <3>4. rows'[c.key] # NoRow /\ rows'[c.key].born = rows[c.key].born
      BY <3>2 DEF NoRow
    <3> QED BY <1>7, <3>3, <3>4 DEF Present
  <2>7. SUFFICES ASSUME NEW r \in DOMAIN calls, NEW u \in Nat, calls'[r].by = "register", calls'[r].wrote,
                        calls'[r].key = u, Alone(u)', demo.pending > 0
                 PROVE  IF \E j \in DOMAIN calls : RemovedBy(j) THEN ~Present(u)'
                        ELSE Present(u)' /\ rows'[u].born = r
    BY <2>2, <2>4 DEF DemoRow
  <2>8. r # k
    BY <1>1, <2>3, <2>7 DEF Progress
  <2>9. calls[r].by = "register" /\ calls[r].wrote /\ calls[r].key = u /\ Alone(u)
    BY <1>1, <2>7, <2>8, RegisteredBefore
  <2>10. IF \E j \in DOMAIN calls : RemovedBy(j) THEN ~Present(u) ELSE Present(u) /\ rows[u].born = r
    BY <2>7, <2>9 DEF DemoRow
  <2> QED BY <2>6, <2>10
<1> QED BY <1>6, <1>7

\* A removal is the demo's own, or leaves it.
LEMMA RowErase ==
    ASSUME UsersCoreInv, DemoAt, DemoRow, NEW k \in DOMAIN calls, StepEraseRow(k)
    PROVE  DemoRow'
<1>1. TableIs /\ CallAt(calls[k]) /\ Progress(k)
  BY EraseProgress DEF UsersCoreInv
<1>2. PICK c : c = calls[k]
  OBVIOUS
<1>3. c.at = "apply" /\ c.op = "remove" /\ \E d : EraseEnds(k, c, d)
  BY <1>1, <1>2, Erases
<1>4. PICK d : EraseEnds(k, c, d)
  BY <1>3
<1>5. rows \in [UserIds -> Versions] /\ calls \in Seq(Contexts) /\ ~c.wrote /\ c.key = c.id
  BY <1>1, <1>2, <1>3 DEF TableIs, CallAt
<1>6. CASE ~Present(c.key)
  <2>1. calls' = [calls EXCEPT ![k] = d] /\ rows' = rows /\ (d.wrote <=> c.wrote)
    BY <1>4, <1>6 DEF EraseEnds, Alike
  <2>2. calls'[k].wrote <=> calls[k].wrote
    BY <1>2, <1>5, <2>1
  <2> QED BY <1>1, <2>1, <2>2, RowKept
<1>7. CASE Present(c.key)
  <2>1. PutAndNotice(k, d, TRUE) /\ Written(c, d) /\ rows' = [rows EXCEPT ![c.key] = NoRow]
    BY <1>4, <1>7 DEF EraseEnds
  <2>2. DOMAIN calls' = DOMAIN calls /\ demo' = demo
    BY <1>1 DEF Progress
  <2>3. calls'[k] = d /\ d.wrote
    BY <1>1, <1>2, <2>1, PutIs DEF TableIs, Written
  <2>4. Demo(k) <=> c.by \in {"remove", "again"}
    BY <1>2, <1>3, AskedBy DEF Demo
  <2>5. SUFFICES ASSUME NEW r \in DOMAIN calls, NEW u \in Nat, calls'[r].by = "register", calls'[r].wrote,
                        calls'[r].key = u, Alone(u)', demo.pending > 0
                 PROVE  IF \E j \in DOMAIN calls : RemovedBy(j)' THEN ~Present(u)'
                        ELSE Present(u)' /\ rows'[u].born = r
    BY <2>2 DEF DemoRow
  <2>6. r # k
    BY <1>1, <1>2, <2>4, <2>5 DEF Progress, Demo
  <2>7. calls[r].by = "register" /\ calls[r].wrote /\ calls[r].key = u /\ Alone(u) /\ calls[r].id = u
    BY <1>1, <2>5, <2>6, RegisteredBefore
  <2>8. IF \E j \in DOMAIN calls : RemovedBy(j) THEN ~Present(u) ELSE Present(u) /\ rows[u].born = r
    BY <2>5, <2>7 DEF DemoRow
  <2>9. \A j \in DOMAIN calls : j # k => (RemovedBy(j)' <=> RemovedBy(j))
    BY <1>1 DEF Progress, Beside, RemovedBy
  <2>10. CASE c.key = u
    <3>1. Demo(k)
      BY <1>2, <1>3, <1>5, <2>7, <2>10 DEF Alone, Demo
    <3>2. RemovedBy(k)'
      BY <1>1, <1>2, <2>3, <2>4, <3>1 DEF RemovedBy, Progress
    <3>3. ~Present(u)'
      BY <1>5, <2>1, <2>10 DEF Present
    <3> QED BY <2>2, <3>2, <3>3
  <2>11. CASE c.key # u
    <3>1. ~Demo(k)
      <4>1. SUFFICES ASSUME Demo(k) PROVE FALSE
        OBVIOUS
      <4>2. c.key = demo.userId /\ demo.userId > 0
        BY <1>2, <2>4, <4>1, AskedBy
      <4>3. calls[r].id = demo.userId
        BY <2>7, <4>2, UserRegistered
      <4> QED BY <2>7, <2>11, <4>2, <4>3
    <3>2. \A j \in DOMAIN calls : RemovedBy(j)' <=> RemovedBy(j)
      BY <1>1, <1>2, <2>4, <2>9, <3>1 DEF Progress, RemovedBy
    <3>3. (Present(u)' <=> Present(u)) /\ (Present(u) => rows'[u] = rows[u])
      BY <1>5, <2>1, <2>11 DEF Present
    <3> QED BY <2>8, <3>2, <3>3
  <2> QED BY <2>10, <2>11
<1> QED BY <1>6, <1>7

\* What the calls of the demo come to, after a step of one of them or of a rival.
LEMMA CallsKept ==
    ASSUME UsersCoreInv, DemoAt, DemoCalls, NEW k \in DOMAIN calls, Progress(k), NEW e, e = calls'[k],
           Demo(k) /\ demo.userId > 0 /\ Alone(demo.userId) /\ e.err # "Stopped" => Expected(e),
           \A i \in DOMAIN calls :
               /\ i # k /\ calls[i].by = "renames" /\ calls[i].at \in {"write", "apply"}
               /\ demo.userId > 0 /\ Alone(demo.userId)
               => (calls'[i].reborn <=> calls[i].reborn)
    PROVE  DemoCalls'
<1>1. DOMAIN calls' = DOMAIN calls /\ demo' = demo /\ calls[k].at # "done"
  BY DEF Progress
<1>2. PICK u \in Nat : u = demo.userId
  BY DEF DemoAt
<1>3. SUFFICES ASSUME u > 0, Alone(u)'
               PROVE  /\ \A i \in DOMAIN calls : Demo(i)' => Expected(calls'[i])
                      /\ (\E i \in DOMAIN calls : calls'[i].by = "again") =>
                           \E i \in DOMAIN calls : calls'[i].by = "remove" /\ calls'[i].wrote
  BY <1>1, <1>2 DEF DemoCalls, Alone
<1>4. Alone(u)
  BY <1>3, AloneBefore
<1>5. /\ \A i \in DOMAIN calls : Demo(i) => Expected(calls[i])
      /\ (\E i \in DOMAIN calls : calls[i].by = "again") => \E i \in DOMAIN calls : calls[i].by = "remove" /\ calls[i].wrote
  BY <1>2, <1>3, <1>4 DEF DemoCalls
<1>6. \A i \in DOMAIN calls : calls'[i].by = calls[i].by /\ (i # k => (calls'[i].wrote <=> calls[i].wrote))
  BY DEF Progress, Beside
<1>7. ~calls[k].wrote
  BY <1>1 DEF UsersCoreInv, CallAt
<1>8. ASSUME NEW i \in DOMAIN calls, Demo(i)' PROVE Expected(calls'[i])
  <2>1. Demo(i)
    BY <1>6, <1>8 DEF Demo
  <2>2. CASE i = k
    <3>1. e.err # "Stopped"
      BY <1>1, <1>3 DEF Alone
    <3> QED BY <1>2, <1>3, <1>4, <2>1, <2>2, <3>1
  <2>3. CASE i # k
    <3>1. PICK c, d : c = calls[i] /\ d = calls'[i]
      OBVIOUS
    <3>2. d.by = c.by /\ d.at = c.at /\ d.err = c.err /\ d.attempt = c.attempt /\ d.request = c.request
      BY <2>3, <3>1 DEF Progress, Beside
    <3>3. c.by = "renames" /\ c.at \in {"write", "apply"} => (d.reborn <=> c.reborn)
      BY <1>2, <1>3, <1>4, <2>3, <3>1
    <3>4. Expected(c)
      BY <1>5, <2>1, <3>1
    <3>5. c.by \in {"register", "duplicate", "query", "reads", "renames", "remove", "again", "invalid", "dberror"}
      BY <2>1, <3>1, AskedBy
    <3>6. Expected(d)
      BY <3>2, <3>3, <3>4, <3>5 DEF Expected
    <3> QED BY <3>1, <3>6
  <2> QED BY <2>2, <2>3
<1> QED BY <1>5, <1>6, <1>7, <1>8

\* A call that a write without a removal meets is not born again.
LEMMA NoticedAlike ==
    ASSUME TableIs, NEW k \in DOMAIN calls, NEW d \in Contexts, PutAndNotice(k, d, FALSE)
    PROVE  calls'[k] = d /\ \A i \in DOMAIN calls : i # k => (calls'[i].reborn <=> calls[i].reborn)
<1>1. calls \in Seq(Contexts) /\ FALSE \in BOOLEAN
  BY DEF TableIs
<1>2. calls'[k] = d /\ \A i \in DOMAIN calls : i # k => calls'[i] = Notice(calls[i], d.key, FALSE)
  BY <1>1, PutIs
<1>3. ASSUME NEW i \in DOMAIN calls, i # k PROVE calls'[i].reborn <=> calls[i].reborn
  <2>1. PICK c, e : c = calls[i] /\ e = Notice(c, d.key, FALSE)
    OBVIOUS
  <2>2. c \in Contexts
    BY <1>1, <2>1
  <2>3. e.reborn <=> c.reborn
    BY <1>1, <2>1, <2>2, NoticeIs
  <2> QED BY <1>2, <1>3, <2>1, <2>3
<1> QED BY <1>2, <1>3

\* A query.
LEMMA QueryCalls ==
    ASSUME UsersCoreInv, DemoAt, DemoRow, DemoCalls, NEW k \in DOMAIN calls, QueryUser(k)
    PROVE  DemoCalls'
<1>1. TableIs /\ CallAt(calls[k]) /\ Progress(k)
  BY ReadsProgress DEF UsersCoreInv
<1>2. PICK c : c = calls[k]
  OBVIOUS
<1>3. PICK d : /\ calls' = [calls EXCEPT ![k] = d] /\ Alike(c, d) /\ c.at = "begin"
               /\ (d.at = "done" /\ d.err = "Stopped") \/ Answer(c, d)
  BY <1>1, <1>2, Queried
<1>4. calls'[k] = d /\ \A i \in DOMAIN calls : i # k => calls'[i] = calls[i]
  BY <1>3, OnePut DEF Alike, UsersCoreInv, TableIs
<1>5. CallAt(c) /\ c \in Contexts /\ ~c.heard /\ ~c.wrote /\ c.attempt = 1 /\ ~c.reborn
  BY <1>1, <1>2, <1>3 DEF CallAt
<1>6. ASSUME Demo(k), demo.userId > 0, Alone(demo.userId), d.err # "Stopped" PROVE Expected(d)
  <2>1. PICK u \in Nat : u = demo.userId
    BY DEF DemoAt
  <2>2. /\ c.by \in {"register", "duplicate", "query", "reads", "renames", "remove", "again", "invalid", "dberror"}
        /\ c.op = "register" <=> c.by \in {"register", "duplicate", "invalid"}
        /\ c.op = "query" <=> c.by \in {"query", "reads"}
        /\ c.op = "rename" <=> c.by = "renames"
        /\ c.op = "remove" <=> c.by \in {"remove", "again"}
        /\ c.op = "dbquery" <=> c.by = "dberror"
        /\ c.by \in {"duplicate", "query", "reads", "renames", "remove", "again"} => c.id = u /\ c.key = u
        /\ c.valid <=> c.by # "invalid"
    BY <1>2, <1>6, <2>1, AskedBy
  <2>3. Expected(c) /\ ((\E i \in DOMAIN calls : calls[i].by = "again") => \E i \in DOMAIN calls : calls[i].by = "remove" /\ calls[i].wrote)
    BY <1>2, <1>6 DEF DemoCalls
  <2>4. IF \E j \in DOMAIN calls : RemovedBy(j) THEN ~Present(u) ELSE Present(u)
    BY <1>2, <1>5, <1>6, <2>1, UserRow
  <2>5. Answer(c, d) /\ u > 0
    BY <1>3, <1>6, <2>1
  <2>6. d.by = c.by /\ d.attempt = 1 /\ ~d.reborn /\ c.by # "register"
    BY <1>3, <1>5, <2>3 DEF Alike, Expected
  <2>7. CASE c.by \in {"invalid", "dberror"}
    BY <2>2, <2>5, <2>6, <2>7 DEF Answer, Expected
  <2>8. CASE c.by \in {"duplicate", "query", "reads", "renames"}
    <3>1. \A j \in DOMAIN calls : ~RemovedBy(j)
      BY <1>2, <1>5, <1>6, <2>8, SceneOrder DEF RemovedBy
    <3>2. Present(u)
      BY <2>4, <3>1
    <3>3. CASE c.by = "duplicate"
      BY <2>2, <2>5, <2>6, <3>2, <3>3 DEF Answer, Expected
    <3>4. CASE c.by \in {"query", "reads"}
      <4>1. c.op = "query" /\ c.id # 0 /\ c.key = u
        BY <2>2, <2>5, <3>4
      <4>2. d.at = "done" /\ d.err = "ok"
        BY <2>5, <3>2, <4>1 DEF Answer
      <4> QED BY <2>6, <3>4, <4>2 DEF Expected
    <3>5. CASE c.by = "renames"
      <4>1. d.at = "write" /\ d.request = rows[u]
        <5>1. c.op = "rename" /\ c.id # 0 /\ c.key = u
          BY <2>2, <2>5, <3>5
        <5> QED BY <2>5, <3>2, <5>1 DEF Answer
      <4>2. rows[u].version \in Nat /\ rows[u].version > 0
        BY <3>2 DEF UsersCoreInv, TableIs, RowAt, Present, Versions
      <4>3. 1 <= d.request.version
        BY <4>1, <4>2
      <4> QED BY <2>6, <3>5, <4>1, <4>3 DEF Expected
    <3> QED BY <2>8, <3>3, <3>4, <3>5
  <2>9. CASE c.by = "remove"
    <3>1. \A j \in DOMAIN calls : calls[j].by # "again" /\ (calls[j].by = "remove" => j = k)
      BY <1>2, <1>5, <1>6, <2>9, SceneOrder DEF DemoAt
    <3>2. \A j \in DOMAIN calls : ~RemovedBy(j)
      BY <1>2, <1>5, <3>1 DEF RemovedBy
    <3>3. Present(u)
      BY <2>4, <3>2
    <3>4. c.op = "remove" /\ c.id # 0 /\ c.key = u
      BY <2>2, <2>5, <2>9
    <3>5. d.at = "write"
      BY <2>5, <3>3, <3>4 DEF Answer
    <3> QED BY <2>6, <2>9, <3>5 DEF Expected
  <2>10. CASE c.by = "again"
    <3>1. \E j \in DOMAIN calls : RemovedBy(j)
      BY <1>2, <2>3, <2>10 DEF RemovedBy
    <3>2. ~Present(u)
      BY <2>4, <3>1
    <3>3. c.op = "remove" /\ c.id # 0 /\ c.key = u
      BY <2>2, <2>5, <2>10
    <3>4. d.at = "done" /\ d.err = "NotFound"
      BY <2>5, <3>2, <3>3 DEF Answer
    <3> QED BY <2>6, <2>10, <3>4 DEF Expected
  <2> QED BY <2>2, <2>6, <2>7, <2>8, <2>9, <2>10
<1> QED BY <1>1, <1>4, <1>6, CallsKept

\* The load of a write.
LEMMA WriteCalls ==
    ASSUME UsersCoreInv, DemoAt, DemoCalls, NEW k \in DOMAIN calls, WriteLoads(k)
    PROVE  DemoCalls'
<1>1. TableIs /\ CallAt(calls[k]) /\ Progress(k)
  BY ReadsProgress DEF UsersCoreInv
<1>2. PICK c : c = calls[k]
  OBVIOUS
<1>3. PICK d : /\ calls' = [calls EXCEPT ![k] = d] /\ Alike(c, d) /\ c.at = "write"
               /\ \/ d.at = "apply" /\ d.err = "ok" /\ d.request = c.request
                  \/ d.at = "done" /\ d.op = "register"
  BY <1>1, <1>2, WriteLoaded
<1>4. calls'[k] = d /\ \A i \in DOMAIN calls : i # k => calls'[i] = calls[i]
  BY <1>3, OnePut DEF Alike, UsersCoreInv, TableIs
<1>5. ASSUME Demo(k), demo.userId > 0, Alone(demo.userId), d.err # "Stopped" PROVE Expected(d)
  <2>1. Expected(c)
    BY <1>2, <1>5 DEF DemoCalls
  <2>2. /\ c.by \in {"register", "duplicate", "query", "reads", "renames", "remove", "again", "invalid", "dberror"}
        /\ c.op = "register" <=> c.by \in {"register", "duplicate", "invalid"}
    BY <1>2, <1>5, AskedBy
  <2>3. c.by \in {"renames", "remove"} /\ c.op # "register"
    BY <1>3, <2>1, <2>2 DEF Expected
  <2>4. d.by = c.by /\ d.attempt = c.attempt /\ (d.reborn <=> c.reborn) /\ d.op = c.op
    BY <1>3 DEF Alike
  <2> QED BY <1>3, <2>1, <2>3, <2>4 DEF Expected
<1> QED BY <1>1, <1>4, <1>5, CallsKept

\* An insert: none of the demo's calls is one, once it has its user.
LEMMA InsertCalls ==
    ASSUME UsersCoreInv, DemoAt, DemoCalls, NEW k \in DOMAIN calls, StepInsertRow(k)
    PROVE  DemoCalls'
<1>1. TableIs /\ CallAt(calls[k]) /\ Progress(k)
  BY InsertProgress DEF UsersCoreInv
<1>2. PICK id : id = IF calls[k].key = 0 THEN nNextId ELSE calls[k].key
  OBVIOUS
<1>3. calls[k].at = "apply" /\ calls[k].op = "register" /\ \E d : InsertEnds(k, id, d)
  BY <1>1, <1>2, Inserts
<1>4. PICK d : InsertEnds(k, id, d)
  BY <1>3
<1>5. ~(Demo(k) /\ demo.userId > 0 /\ Alone(demo.userId))
  <2>1. SUFFICES ASSUME Demo(k), demo.userId > 0, Alone(demo.userId) PROVE FALSE
    OBVIOUS
  <2>2. Expected(calls[k])
    BY <2>1 DEF DemoCalls
  <2>3. calls[k].by \in {"register", "duplicate", "invalid"}
    BY <1>3, <2>1, AskedBy
  <2> QED BY <1>3, <2>2, <2>3 DEF Expected
<1>6. \A i \in DOMAIN calls : i # k => (calls'[i].reborn <=> calls[i].reborn)
  <2>1. CASE Present(id)
    <3>1. calls' = [calls EXCEPT ![k] = d] /\ d \in Contexts
      BY <1>4, <2>1 DEF InsertEnds, Alike
    <3> QED BY <1>1, <3>1, OnePut DEF TableIs
  <2>2. CASE ~Present(id)
    <3>1. PutAndNotice(k, d, FALSE) /\ d \in Contexts
      BY <1>4, <2>2 DEF InsertEnds, Written
    <3> QED BY <1>1, <3>1, NoticedAlike
  <2> QED BY <2>1, <2>2
<1> QED BY <1>1, <1>5, <1>6, CallsKept

\* The demo's own renames are the only ones on its user: at most two beside a third.
LEMMA FewRenames ==
    ASSUME UsersCoreInv, DemoAt, demo.userId > 0, Alone(demo.userId),
           NEW k \in DOMAIN calls, calls[k].by = "renames", ~calls[k].wrote,
           NEW r \in DOMAIN calls, r > 0, calls[r].by = "register"
    PROVE  Cardinality(Renamed(r)) \in Nat /\ Cardinality(Renamed(r)) <= 2
<1>1. PICK R, S : R = Renamed(r) /\ S = Renames
  OBVIOUS
<1>2. IsFiniteSet(S) /\ Cardinality(S) <= 3 /\ k \in S
  BY <1>1 DEF DemoAt, Renames
<1>3. ASSUME NEW j \in R PROVE j \in S \ {k}
  <2>1. PICK c : c = calls[j]
    OBVIOUS
  <2>2. j \in DOMAIN calls /\ c.op = "rename" /\ c.wrote /\ c.result.born = r
    BY <1>1, <2>1 DEF Renamed
  <2>3. calls[r].key = c.key
    BY <2>1, <2>2 DEF UsersCoreInv, TableIs
  <2>4. calls[r].key = demo.userId
    BY UserRegistered
  <2>5. CallAt(c)
    BY <2>1, <2>2 DEF UsersCoreInv
  <2>6. c.at = "done" /\ c.id = demo.userId
    BY <2>2, <2>3, <2>4, <2>5 DEF CallAt
  <2>7. Demo(j)
    BY <2>1, <2>2, <2>6 DEF Alone, Demo
  <2>8. c.by = "renames"
    BY <2>1, <2>2, <2>7, AskedBy
  <2> QED BY <1>1, <2>1, <2>2, <2>8 DEF Renames
<1>4. IsFiniteSet(S \ {k}) /\ Cardinality(S \ {k}) = Cardinality(S) - 1 /\ Cardinality(S) \in Nat
  BY <1>2, FS_RemoveElement, FS_CardinalityType
<1>5. R \subseteq S \ {k}
  BY <1>3
<1>6. Cardinality(R) <= Cardinality(S \ {k}) /\ IsFiniteSet(R)
  BY <1>4, <1>5, FS_Subset
<1>7. Cardinality(R) \in Nat
  BY <1>6, FS_CardinalityType
<1> QED BY <1>1, <1>2, <1>4, <1>6, <1>7

\* An update: three attempts are enough for a rename of the demo.
LEMMA ApplyCalls ==
    ASSUME UsersCoreInv, DemoAt, DemoRow, DemoCalls, NEW k \in DOMAIN calls, StepApplyUpdate(k)
    PROVE  DemoCalls'
<1>1. TableIs /\ CallAt(calls[k]) /\ Progress(k)
  BY ApplyProgress DEF UsersCoreInv
<1>2. PICK c : c = calls[k]
  OBVIOUS
<1>3. c.at = "apply" /\ c.op = "rename" /\ \E d : ApplyEnds(k, c, d)
  BY <1>1, <1>2, Applies
<1>4. PICK d : ApplyEnds(k, c, d)
  BY <1>3
<1>5. CallAt(c) /\ RenameAt(c) /\ ~c.wrote /\ ~c.heard /\ c \in Contexts
  BY <1>2, <1>3 DEF UsersCoreInv, CallAt
<1>6. calls'[k] = d /\ \A i \in DOMAIN calls : i # k => (calls'[i].reborn <=> calls[i].reborn)
  <2>1. CASE ~Present(c.key) \/ rows[c.key].version # c.request.version
    <3>1. calls' = [calls EXCEPT ![k] = d] /\ d \in Contexts
      <4>1. CASE ~Present(c.key)
        BY <1>4, <4>1 DEF ApplyEnds, Alike
      <4>2. CASE Present(c.key) /\ c.attempt < kMaxUpdateAttempts
        BY <1>4, <2>1, <4>2 DEF ApplyEnds
      <4>3. CASE Present(c.key) /\ ~(c.attempt < kMaxUpdateAttempts)
        BY <1>4, <2>1, <4>3 DEF ApplyEnds, Alike
      <4> QED BY <4>1, <4>2, <4>3
    <3> QED BY <1>1, <3>1, OnePut DEF TableIs
  <2>2. CASE Present(c.key) /\ rows[c.key].version = c.request.version
    <3>1. PutAndNotice(k, d, FALSE) /\ d \in Contexts
      BY <1>4, <2>2 DEF ApplyEnds, Written
    <3> QED BY <1>1, <3>1, NoticedAlike
  <2> QED BY <2>1, <2>2
<1>7. ASSUME Demo(k), demo.userId > 0, Alone(demo.userId), d.err # "Stopped" PROVE Expected(d)
  <2>1. PICK u \in Nat : u = demo.userId
    BY DEF DemoAt
  <2>2. c.by = "renames" /\ c.key = u
    BY <1>2, <1>3, <1>7, <2>1, AskedBy
  <2>3. c.attempt <= c.request.version /\ ~c.reborn
    BY <1>2, <1>3, <1>7, <2>2 DEF DemoCalls, Expected
  <2>4. Present(u) /\ rows[u].version = c.request.version + c.unseen
    BY <1>3, <1>5, <2>2, <2>3 DEF RenameAt
  <2>5. PICK v \in Nat, w \in Nat, a \in Nat, n \in Nat :
          v = rows[u].version /\ w = c.request.version /\ a = c.attempt /\ n = c.unseen
    BY <1>1, <1>5, <2>4 DEF TableIs, Present, Versions, Contexts
  <2>6. v = w + n /\ a <= w
    BY <2>3, <2>4, <2>5
  <2>7. CASE v = w
    <3>1. Written(c, d)
      BY <1>4, <2>2, <2>4, <2>5, <2>7 DEF ApplyEnds
    <3>2. d.by = "renames" /\ d.at = "done" /\ d.err = "ok"
      BY <1>7, <2>2, <3>1 DEF Written
    <3> QED BY <3>2 DEF Expected
  <2>8. CASE v # w
    <3>1. a < v
      BY <2>6, <2>8
    <3>2. \A j \in DOMAIN calls : ~RemovedBy(j)
      BY <1>2, <1>5, <1>7, <2>2, SceneOrder DEF RemovedBy
    <3>3. rows[u].born \in DOMAIN calls /\ calls[rows[u].born].by = "register"
      BY <1>2, <1>5, <1>7, <2>1, <3>2, UserRow
    <3>4. PICK r \in DOMAIN calls : r = rows[u].born /\ calls[r].by = "register"
      BY <3>3
    <3>5. r > 0
      BY <1>1, <3>4 DEF TableIs
    <3>6. rows[u].version = 1 + Cardinality(Renamed(rows[u].born))
      BY <1>1, <2>4, <3>4, <3>5 DEF TableIs, RowAt, Present
    <3>7. PICK x : x = Cardinality(Renamed(r))
      OBVIOUS
    <3>8. x \in Nat /\ x <= 2
      BY <1>2, <1>5, <1>7, <2>2, <3>4, <3>5, <3>7, FewRenames
    <3>9. v = 1 + x
      BY <2>5, <3>4, <3>6, <3>7
    <3>10. a < 3 /\ kMaxUpdateAttempts >= 3 /\ kMaxUpdateAttempts \in Nat
      BY <3>1, <3>8, <3>9, UsersAssumption
    <3>11. a < kMaxUpdateAttempts
      BY <3>10
    <3>12. d.at = "write" /\ d.attempt = c.attempt + 1 /\ d.request = rows[c.key] /\ ~d.reborn /\ d.by = c.by
      BY <1>4, <2>2, <2>4, <2>5, <2>8, <3>11 DEF ApplyEnds
    <3>13. d.attempt = a + 1 /\ d.request.version = v
      BY <2>2, <2>5, <3>12
    <3>14. d.attempt <= d.request.version
      BY <3>1, <3>13
    <3> QED BY <2>2, <3>12, <3>14 DEF Expected
  <2> QED BY <2>7, <2>8
<1> QED BY <1>1, <1>6, <1>7, CallsKept

\* A removal: of a rival, of another row; of the demo, when its renames are heard.
LEMMA EraseCalls ==
    ASSUME UsersCoreInv, DemoAt, DemoRow, DemoCalls, NEW k \in DOMAIN calls, StepEraseRow(k)
    PROVE  DemoCalls'
<1>1. TableIs /\ CallAt(calls[k]) /\ Progress(k)
  BY EraseProgress DEF UsersCoreInv
<1>2. PICK c : c = calls[k]
  OBVIOUS
<1>3. c.at = "apply" /\ c.op = "remove" /\ \E d : EraseEnds(k, c, d)
  BY <1>1, <1>2, Erases
<1>4. PICK d : EraseEnds(k, c, d)
  BY <1>3
<1>5. CallAt(c) /\ ~c.wrote /\ ~c.heard /\ c \in Contexts /\ c.key = c.id
  BY <1>1, <1>2, <1>3 DEF CallAt
<1>6. calls \in Seq(Contexts) /\ d \in Contexts /\ calls'[k] = d
  <2>1. calls \in Seq(Contexts)
    BY <1>1 DEF TableIs
  <2>2. CASE Present(c.key)
    <3>1. PutAndNotice(k, d, TRUE) /\ d \in Contexts
      BY <1>4, <2>2 DEF EraseEnds, Written
    <3> QED BY <2>1, <3>1, PutIs
  <2>3. CASE ~Present(c.key)
    <3>1. calls' = [calls EXCEPT ![k] = d] /\ d \in Contexts
      BY <1>4, <2>3 DEF EraseEnds, Alike
    <3> QED BY <2>1, <3>1, OnePut
  <2> QED BY <2>2, <2>3
<1>7. ASSUME Demo(k), demo.userId > 0, Alone(demo.userId), d.err # "Stopped" PROVE Expected(d)
  <2>1. PICK u \in Nat : u = demo.userId
    BY DEF DemoAt
  <2>2. c.by = "remove" /\ c.key = u
    <3>1. c.by \in {"remove", "again"} /\ (c.by \in {"remove", "again"} => c.key = u)
      BY <1>2, <1>3, <1>7, <2>1, AskedBy
    <3>2. Expected(c)
      BY <1>2, <1>7 DEF DemoCalls
    <3> QED BY <1>3, <3>1, <3>2 DEF Expected
  <2>3. \A j \in DOMAIN calls : calls[j].by # "again" /\ (calls[j].by = "remove" => j = k)
    BY <1>2, <1>5, <1>7, <2>2, SceneOrder DEF DemoAt
  <2>4. \A j \in DOMAIN calls : ~RemovedBy(j)
    BY <1>2, <1>5, <2>3 DEF RemovedBy
  <2>5. Present(u)
    BY <1>2, <1>5, <1>7, <2>1, <2>4, UserRow
  <2>6. Written(c, d)
    BY <1>4, <2>2, <2>5 DEF EraseEnds
  <2>7. d.by = "remove" /\ d.err = "ok"
    BY <1>7, <2>2, <2>6 DEF Written
  <2> QED BY <2>7 DEF Expected
<1>8. ASSUME NEW i \in DOMAIN calls, i # k, calls[i].by = "renames", calls[i].at \in {"write", "apply"},
             demo.userId > 0, Alone(demo.userId)
      PROVE  calls'[i].reborn <=> calls[i].reborn
  <2>1. CASE ~Present(c.key)
    <3>1. calls' = [calls EXCEPT ![k] = d]
      BY <1>4, <2>1 DEF EraseEnds
    <3> QED BY <1>6, <1>8, <3>1, OnePut
  <2>2. CASE Present(c.key) /\ Demo(k)
    <3>1. c.by \in {"remove", "again"}
      BY <1>2, <1>3, <2>2, AskedBy
    <3>2. calls[i].heard
      BY <1>2, <1>5, <1>8, <2>2, <3>1, SceneOrder
    <3>3. CallAt(calls[i])
      BY DEF UsersCoreInv
    <3> QED BY <1>8, <3>2, <3>3 DEF CallAt
  <2>3. CASE Present(c.key) /\ ~Demo(k)
    <3>1. PutAndNotice(k, d, TRUE) /\ d.key = c.key /\ TRUE \in BOOLEAN
      BY <1>4, <2>3 DEF EraseEnds
    <3>2. \A j \in DOMAIN calls : j # k => calls'[j] = Notice(calls[j], d.key, TRUE)
      BY <1>6, <3>1, PutIs, ZenonT(40)
    <3>3. c.key # demo.userId
      BY <1>2, <1>3, <1>5, <1>8, <2>3 DEF Alone, Demo
    <3>4. calls[i].key = demo.userId
      BY <1>8, AskedBy DEF Demo
    <3>5. Notice(calls[i], d.key, TRUE) = calls[i]
      BY <3>1, <3>3, <3>4 DEF Notice
    <3>6. calls'[i] = calls[i]
      BY <1>8, <3>2, <3>5
    <3> QED BY <3>6
  <2> QED BY <2>1, <2>2, <2>3
<1> QED BY <1>1, <1>6, <1>7, <1>8, CallsKept

\* A rival begins.
LEMMA RivalCallsKept ==
    ASSUME UsersCoreInv, DemoAt, DemoRow, DemoCalls, NEW k \in DOMAIN calls, RivalCalls(k)
    PROVE  DemoRow' /\ DemoCalls'
<1>1. TableIs /\ CallAt(calls[k]) /\ Progress(k)
  BY ReadsProgress DEF UsersCoreInv
<1>2. PICK c, d : c = calls[k] /\ d = [c EXCEPT !.at = "begin"]
  OBVIOUS
<1>3. calls' = [calls EXCEPT ![k] = d] /\ c.at = "idle" /\ c \in Contexts /\ rows' = rows
  BY <1>1, <1>2 DEF RivalCalls, Put, CallAt
<1>4. Alike(c, d)
  BY <1>2, <1>3 DEF Alike, Contexts
<1>5. calls'[k] = d /\ \A i \in DOMAIN calls : i # k => calls'[i] = calls[i]
  BY <1>1, <1>3, <1>4, OnePut DEF Alike, TableIs
<1>6. ~Demo(k)
  BY <1>1, <1>2, <1>3 DEF CallAt, Demo
<1>7. calls'[k].wrote <=> calls[k].wrote
  BY <1>2, <1>4, <1>5 DEF Alike
<1>8. DemoRow'
  BY <1>1, <1>3, <1>7, RowKept
<1> QED BY <1>1, <1>5, <1>6, <1>8, CallsKept

\* What the demo knows of a call.
SameCall(c, d) ==
    /\ d.op = c.op /\ d.id = c.id /\ d.key = c.key /\ d.by = c.by /\ d.at = c.at /\ d.err = c.err
    /\ (d.valid <=> c.valid) /\ (d.wrote <=> c.wrote)

\* No two scenes are the same.
LEMMA ScenesDiffer == ASSUME NEW i \in 1 .. 9, NEW j \in 1 .. 9, Scenes[i] = Scenes[j] PROVE i = j
<1>1. i \in {1, 2, 3, 4, 5, 6, 7, 8, 9} /\ j \in {1, 2, 3, 4, 5, 6, 7, 8, 9}
  BY SceneCases
<1>2. CASE i = 1
  BY <1>1, <1>2, SceneNumbers
<1>3. CASE i = 2
  BY <1>1, <1>3, SceneNumbers
<1>4. CASE i = 3
  BY <1>1, <1>4, SceneNumbers
<1>5. CASE i = 4
  BY <1>1, <1>5, SceneNumbers
<1>6. CASE i = 5
  BY <1>1, <1>6, SceneNumbers
<1>7. CASE i = 6
  BY <1>1, <1>7, SceneNumbers
<1>8. CASE i = 7
  BY <1>1, <1>8, SceneNumbers
<1>9. CASE i = 8
  BY <1>1, <1>9, SceneNumbers
<1>10. CASE i = 9
  BY <1>1, <1>10, SceneNumbers
<1> QED BY <1>1, <1>2, <1>3, <1>4, <1>5, <1>6, <1>7, <1>8, <1>9, <1>10

\* A scene of those before is not the next.
LEMMA ScenesBefore ==
    ASSUME NEW next \in 1 .. 10, NEW s \in 0 .. 10, next > s
    PROVE  \A j \in 1 .. 9 : j <= s => j <= next /\ j # next
OBVIOUS

\* A scene begins: its calls are the only ones that are not heard.
LEMMA SceneBegins ==
    ASSUME DemoAt, calls \in Seq(Contexts), calls' \in Seq(Contexts), NEW next \in 1 .. 10, next > demo.scene,
           NEW id \in Nat, NEW m \in Nat, m = IF next <= 9 THEN SceneSize(Scenes[next]) ELSE 0,
           demo' = [scene |-> next, userId |-> id, pending |-> m], Len(calls') = Len(calls) + m,
           Begun(next, id, m), nNextId' = nNextId,
           \A i \in DOMAIN calls : SameCall(calls[i], calls'[i]) /\ (Demo(i) => calls'[i].heard),
           next \in 2 .. 7 => id > 0, next = 1 => id = 0,
           \A i \in DOMAIN calls :
               calls[i].by \in {"duplicate", "query", "reads", "renames", "remove", "again"} => id = demo.userId,
           \A i \in DOMAIN calls : calls[i].by = "register" => id = calls[i].id,
           id > 0 => \E i \in DOMAIN calls : calls[i].by = "register"
    PROVE  DemoAt'
<1>1. PICK n \in Nat, s \in 0 .. 10 : n = Len(calls) /\ s = demo.scene
  BY DEF DemoAt
<1>2. DOMAIN calls = 1 .. n /\ DOMAIN calls' = 1 .. (n + m)
  BY <1>1
<1>3. \A i \in n + 1 .. n + m : i \in DOMAIN calls' \ DOMAIN calls
  BY <1>2
<1>4. \A i \in DOMAIN calls' : i \in DOMAIN calls \/ i \in n + 1 .. n + m
  BY <1>2
<1>5. \A j \in 1 .. 9 : j <= s => j <= next /\ j # next
  <2>1. next > s /\ next \in 1 .. 10 /\ s \in 0 .. 10
    BY <1>1
  <2> QED BY <2>1, ScenesBefore
<1>6. ASSUME NEW i \in n + 1 .. n + m
      PROVE  /\ next \in 1 .. 9 /\ calls'[i].by = Scenes[next] /\ ~calls'[i].heard
             /\ Made(calls'[i], SceneOp(Scenes[next]), SceneId(Scenes[next], id), Scenes[next])
  BY <1>3 DEF Begun, Made
<1>7. \A i \in DOMAIN calls : calls'[i].by = calls[i].by
  BY DEF SameCall
<1>8. ASSUME NEW i \in DOMAIN calls, Demo(i)
      PROVE  \E j \in 1 .. 9 : calls[i].by = Scenes[j] /\ j <= s
  BY <1>1, <1>8 DEF DemoAt
<1>9. next \in 1 .. 9 => Scenes[next] # "rival"
  <2>1. next \in 1 .. 9 => next \in {1, 2, 3, 4, 5, 6, 7, 8, 9}
    BY SceneCases
  <2> QED BY <2>1, SceneNumbers
<1>10. \A i \in n + 1 .. n + m, j \in DOMAIN calls : calls'[i].by # calls[j].by
  <2>1. SUFFICES ASSUME NEW i \in n + 1 .. n + m, NEW j \in DOMAIN calls, calls'[i].by = calls[j].by PROVE FALSE
    OBVIOUS
  <2>2. next \in 1 .. 9 /\ calls[j].by = Scenes[next]
    BY <1>6, <2>1
  <2>3. PICK l \in 1 .. 9 : calls[j].by = Scenes[l] /\ l <= s
    BY <1>8, <1>9, <2>2 DEF Demo
  <2>4. l = next
    BY <2>2, <2>3, ScenesDiffer
  <2> QED BY <1>5, <2>3, <2>4
<1>11. Unheard' = n + 1 .. n + m
  <2>1. ASSUME NEW i \in Unheard' PROVE i \in n + 1 .. n + m
    BY <1>4, <1>7, <2>1 DEF Unheard, Demo
  <2>2. ASSUME NEW i \in n + 1 .. n + m PROVE i \in Unheard'
    BY <1>3, <1>6, <1>9 DEF Unheard, Demo
  <2> QED BY <2>1, <2>2
<1>12. IsFiniteSet(n + 1 .. n + m) /\ Cardinality(n + 1 .. n + m) = m
  <2>1. n + 1 \in Int /\ n + m \in Int
    OBVIOUS
  <2>2. IsFiniteSet(n + 1 .. n + m) /\ Cardinality(n + 1 .. n + m) = IF n + 1 > n + m THEN 0 ELSE (n + m) - (n + 1) + 1
    BY <2>1, FS_Interval
  <2> QED BY <2>2
<1>13. demo' \in [scene : 0 .. 10, userId : Nat, pending : Nat]
  OBVIOUS
<1>14. IsFiniteSet(Renames') /\ Cardinality(Renames') <= 3
  <2>1. CASE next = 5
    <3>1. m = 3 /\ Scenes[next] = "renames"
      BY <2>1, SceneNumbers DEF SceneSize
    <3>2. ASSUME NEW i \in Renames' PROVE i \in n + 1 .. n + m
      <4>1. i \in DOMAIN calls' /\ calls'[i].by = "renames"
        BY DEF Renames
      <4>2. SUFFICES ASSUME i \in DOMAIN calls PROVE FALSE
        BY <1>4, <4>1
      <4>3. PICK j \in 1 .. 9 : calls[i].by = Scenes[j] /\ j <= s
        BY <1>7, <1>8, <4>1, <4>2 DEF Demo
      <4>4. j \in {1, 2, 3, 4, 5, 6, 7, 8, 9} /\ j # 5
        BY <1>5, <2>1, <4>3, SceneCases
      <4> QED BY <1>7, <4>1, <4>2, <4>3, <4>4, SceneNumbers
    <3>3. PICK R, U : R = Renames' /\ U = n + 1 .. n + m
      OBVIOUS
    <3>4. R \subseteq U /\ IsFiniteSet(U) /\ Cardinality(U) = 3
      BY <1>12, <3>1, <3>2, <3>3
    <3>5. IsFiniteSet(R) /\ Cardinality(R) <= Cardinality(U)
      BY <3>4, FS_Subset
    <3> QED BY <3>3, <3>4, <3>5
  <2>2. CASE next # 5
    <3>1. next \in 1 .. 9 => Scenes[next] # "renames"
      <4>1. next \in 1 .. 9 => next \in {1, 2, 3, 4, 5, 6, 7, 8, 9}
        BY SceneCases
      <4> QED BY <2>2, <4>1, SceneNumbers
    <3>2. Renames' = Renames
      <4>1. ASSUME NEW i \in Renames' PROVE i \in Renames
        BY <1>4, <1>6, <1>7, <3>1, <4>1 DEF Renames
      <4>2. ASSUME NEW i \in Renames PROVE i \in Renames'
        BY <1>2, <1>7, <4>2 DEF Renames
      <4> QED BY <4>1, <4>2
    <3> QED BY <3>2 DEF DemoAt
  <2> QED BY <2>1, <2>2
<1>15. ASSUME NEW i \in DOMAIN calls', Demo(i)'
       PROVE  /\ Asks(calls[i])'
              /\ \E j \in 1 .. 9 : calls'[i].by = Scenes[j] /\ j <= demo'.scene /\ (~calls'[i].heard => j = demo'.scene)
  <2>1. PICK e : e = calls'[i]
    OBVIOUS
  <2>2. demo'.scene = next /\ demo'.userId = id
    OBVIOUS
  <2>3. CASE i \in DOMAIN calls
    <3>1. Demo(i) /\ Asks(calls[i]) /\ SameCall(calls[i], e) /\ e.heard
      BY <1>7, <1>15, <2>1, <2>3 DEF Demo, DemoAt
    <3>2. e.by \in {"duplicate", "query", "reads", "renames", "remove", "again"} => id = demo.userId
      BY <2>3, <3>1 DEF SameCall
    <3>3. Asks(e)'
      BY <2>2, <3>1, <3>2 DEF Asks, SameCall
    <3>4. PICK j \in 1 .. 9 : calls[i].by = Scenes[j] /\ j <= s
      BY <1>8, <2>3, <3>1
    <3>5. j <= next
      BY <1>5, <3>4
    <3> QED BY <1>7, <2>1, <2>2, <2>3, <3>1, <3>3, <3>4, <3>5 DEF Asks
  <2>4. CASE i \in n + 1 .. n + m
    <3>1. PICK b : b = Scenes[next]
      OBVIOUS
    <3>2. next \in 1 .. 9 /\ Made(e, SceneOp(b), SceneId(b, id), b) /\ e.by = b /\ ~e.heard
      BY <1>6, <2>1, <2>4, <3>1
    <3>3. next \in {1, 2, 3, 4, 5, 6, 7, 8, 9}
      BY <3>2, SceneCases
    <3>4. /\ b \in {"register", "duplicate", "invalid"} => SceneOp(b) = "register"
          /\ b \in {"query", "reads"} => SceneOp(b) = "query"
          /\ b = "renames" => SceneOp(b) = "rename"
          /\ b \in {"remove", "again"} => SceneOp(b) = "remove"
          /\ b = "dberror" => SceneOp(b) = "dbquery"
      BY DEF SceneOp
    <3>5. b \in {"duplicate", "query", "reads", "renames", "remove", "again"} => next \in 2 .. 7 /\ SceneId(b, id) = id
      <4>1. CASE next \in {1, 8, 9}
        BY <3>1, <4>1, SceneNumbers
      <4>2. CASE next \in {2, 3, 4, 5, 6, 7}
        <5>1. b \in {"duplicate", "query", "reads", "renames", "remove", "again"}
          BY <3>1, <4>2, SceneNumbers
        <5>2. SceneId(b, id) = id
          BY <5>1 DEF SceneId
        <5> QED BY <4>2, <5>2
      <4> QED BY <3>3, <4>1, <4>2
    <3>6. Asks(e)'
      BY <2>2, <3>2, <3>4, <3>5 DEF Asks, Made
    <3> QED BY <2>1, <2>2, <3>1, <3>2, <3>6 DEF Asks
  <2> QED BY <1>4, <2>3, <2>4
<1>16. ASSUME NEW j \in DOMAIN calls', NEW l \in DOMAIN calls', calls'[j].by = calls'[l].by, calls'[j].by \in {"register", "remove"}
       PROVE  j = l
  <2>1. CASE j \in DOMAIN calls /\ l \in DOMAIN calls
    BY <1>7, <1>16, <2>1, ZenonT(40) DEF DemoAt
  <2>2. CASE j \in DOMAIN calls /\ l \in n + 1 .. n + m
    BY <1>7, <1>10, <1>16, <2>2
  <2>3. CASE l \in DOMAIN calls /\ j \in n + 1 .. n + m
    BY <1>7, <1>10, <1>16, <2>3, ZenonT(40)
  <2>4. CASE l \in n + 1 .. n + m /\ j \in n + 1 .. n + m
    <3>1. next \in 1 .. 9 /\ Scenes[next] \in {"register", "remove"}
      BY <1>6, <1>16, <2>4
    <3>2. m = 1
      BY <3>1 DEF SceneSize
    <3> QED BY <2>4, <3>2
  <2> QED BY <1>4, <2>1, <2>2, <2>3, <2>4
<1>17. ASSUME NEW i \in DOMAIN calls', calls'[i].by = "register"
       PROVE  /\ demo'.userId = IF calls'[i].heard THEN calls'[i].id ELSE 0
              /\ calls'[i].id > 0 => calls'[i].wrote /\ calls'[i].key < nNextId' /\ calls'[i].key >= kFirstAutoId
  <2>1. CASE i \in DOMAIN calls
    <3>1. calls[i].by = "register" /\ calls'[i].heard /\ SameCall(calls[i], calls'[i])
      BY <1>7, <1>17, <2>1 DEF Demo
    <3>2. id = calls[i].id
      BY <2>1, <3>1
    <3>3. calls[i].id > 0 => calls[i].wrote /\ calls[i].key < nNextId /\ calls[i].key >= kFirstAutoId
      BY <2>1, <3>1 DEF DemoAt
    <3> QED BY <3>1, <3>2, <3>3 DEF SameCall
  <2>2. CASE i \in n + 1 .. n + m
    <3>1. next \in 1 .. 9 /\ Scenes[next] = "register" /\ ~calls'[i].heard /\ calls'[i].id = SceneId(Scenes[next], id)
      BY <1>6, <1>17, <2>2 DEF Made
    <3>2. next \in {1, 2, 3, 4, 5, 6, 7, 8, 9}
      BY <3>1, SceneCases
    <3>3. next = 1
      BY <3>1, <3>2, SceneNumbers
    <3>4. calls'[i].id = 0 /\ id = 0
      BY <3>1, <3>3 DEF SceneId
    <3> QED BY <3>1, <3>4
  <2> QED BY <1>4, <2>1, <2>2
<1>18. demo'.userId > 0 => \E i \in DOMAIN calls' : calls'[i].by = "register" /\ calls'[i].heard
  <2>1. SUFFICES ASSUME id > 0 PROVE \E i \in DOMAIN calls' : calls'[i].by = "register" /\ calls'[i].heard
    OBVIOUS
  <2>2. PICK i \in DOMAIN calls : calls[i].by = "register"
    BY <2>1
  <2>3. i \in DOMAIN calls' /\ calls'[i].by = "register" /\ calls'[i].heard
    BY <1>2, <1>7, <2>2 DEF Demo
  <2> QED BY <2>3
<1>19. demo'.pending = Cardinality(Unheard') /\ IsFiniteSet(Unheard')
  BY <1>11, <1>12
<1> QED BY <1>13, <1>14, <1>15, <1>16, <1>17, <1>18, <1>19 DEF DemoAt

\* What the callback of the demo leaves of the calls made.
LEMMA SettledCalls ==
    ASSUME UsersCoreInv, DemoAt, NEW k \in DOMAIN calls, DemoSettled(k)
    PROVE  /\ DOMAIN calls \subseteq DOMAIN calls' /\ calls'[k].heard /\ Demo(k) /\ ~calls[k].heard /\ calls[k].at = "done"
           /\ \A i \in DOMAIN calls : SameCall(calls[i], calls'[i]) /\ (i # k => calls'[i] = calls[i])
           /\ nNextId' = nNextId /\ rows' = rows
<1>1. demo.scene \in Nat /\ demo.userId \in Nat
  BY DEF DemoAt
<1>2. /\ calls[k].at = "done" /\ ~calls[k].heard /\ calls[k].by # "rival"
      /\ calls' \in Seq(Contexts) /\ calls'[k] = Heard(calls[k])
      /\ \A i \in DOMAIN calls : i # k => calls'[i] = calls[i]
      /\ \E m \in Nat : Len(calls') = Len(calls) + m
  BY <1>1, DemoGoesOn
<1>3. calls \in Seq(Contexts)
  BY DEF UsersCoreInv, TableIs
<1>4. DOMAIN calls \subseteq DOMAIN calls'
  <2>1. PICK m \in Nat : Len(calls') = Len(calls) + m
    BY <1>2
  <2>2. DOMAIN calls = 1 .. Len(calls) /\ DOMAIN calls' = 1 .. Len(calls') /\ Len(calls) \in Nat
    BY <1>2, <1>3
  <2> QED BY <2>1, <2>2
<1>5. calls'[k].heard /\ SameCall(calls[k], calls'[k])
  <2>1. PICK c, h : c = calls[k] /\ h = Heard(c)
    OBVIOUS
  <2>2. c \in Contexts
    BY <1>3, <2>1
  <2>3. h.heard /\ SameCall(c, h)
    BY <2>1, <2>2, HeardIs DEF SameCall
  <2> QED BY <1>2, <2>1, <2>3
<1>6. \A i \in DOMAIN calls : SameCall(calls[i], calls'[i])
  BY <1>2, <1>5 DEF SameCall
<1>7. nNextId' = nNextId /\ rows' = rows
  BY DEF DemoSettled
<1> QED BY <1>2, <1>4, <1>5, <1>6, <1>7 DEF Demo

\* One of several calls of a scene is heard.
LEMMA SceneGoesOn ==
    ASSUME UsersCoreInv, DemoAt, NEW k \in DOMAIN calls, DemoSettled(k), demo.pending > 1
    PROVE  DemoAt'
<1>1. demo.scene \in Nat /\ demo.userId \in Nat /\ demo \in [scene : 0 .. 10, userId : Nat, pending : Nat]
  BY DEF DemoAt
<1>2. /\ DOMAIN calls \subseteq DOMAIN calls' /\ calls'[k].heard /\ Demo(k) /\ ~calls[k].heard
      /\ \A i \in DOMAIN calls : SameCall(calls[i], calls'[i]) /\ (i # k => calls'[i] = calls[i])
      /\ nNextId' = nNextId
  BY SettledCalls
<1>3. demo' = [demo EXCEPT !.pending = @ - 1] /\ DOMAIN calls' = DOMAIN calls
  <2>1. PICK m \in Nat : /\ Len(calls') = Len(calls) + m /\ calls' \in Seq(Contexts)
                         /\ demo' = [demo EXCEPT !.pending = @ - 1] /\ m = 0
    BY <1>1, DemoGoesOn
  <2>2. Len(calls) \in Nat /\ DOMAIN calls = 1 .. Len(calls)
    BY DEF UsersCoreInv, TableIs
  <2> QED BY <2>1, <2>2
<1>4. PICK p \in Nat : p = demo.pending
  BY <1>1
<1>5. demo'.scene = demo.scene /\ demo'.userId = demo.userId /\ demo'.pending = p - 1 /\ p > 1
      /\ demo' \in [scene : 0 .. 10, userId : Nat, pending : Nat]
  BY <1>1, <1>3, <1>4
<1>6. \A i \in DOMAIN calls : calls'[i].by = calls[i].by /\ (Demo(i)' <=> Demo(i))
  BY <1>2 DEF SameCall, Demo
<1>7. Unheard' = Unheard \ {k} /\ k \in Unheard /\ Renames' = Renames
  <2>1. \A i \in DOMAIN calls : i # k => (calls'[i].heard <=> calls[i].heard)
    BY <1>2
  <2> QED BY <1>2, <1>3, <1>6, <2>1 DEF Unheard, Renames
<1>8. PICK U, V : U = Unheard /\ V = Unheard'
  OBVIOUS
<1>9. IsFiniteSet(U) /\ Cardinality(U) = p /\ k \in U /\ V = U \ {k}
  BY <1>4, <1>7, <1>8 DEF DemoAt
<1>10. IsFiniteSet(V) /\ Cardinality(V) = p - 1
  BY <1>9, FS_RemoveElement
<1>11. calls[k].by # "register"
  <2>1. SUFFICES ASSUME calls[k].by = "register" PROVE FALSE
    OBVIOUS
  <2>2. \A i \in DOMAIN calls : Demo(i) => i = k
    BY <1>2, <2>1, SceneOrder DEF DemoAt
  <2>3. V = {}
    BY <1>8, <1>9, <2>2 DEF Unheard
  <2>4. Cardinality(V) = 0
    BY <2>3, FS_EmptySet
  <2> QED BY <1>5, <1>10, <2>4
<1>12. ASSUME NEW i \in DOMAIN calls, Demo(i)
       PROVE  /\ Asks(calls[i])'
              /\ \E j \in 1 .. 9 : calls'[i].by = Scenes[j] /\ j <= demo.scene /\ (~calls'[i].heard => j = demo.scene)
  <2>1. PICK e : e = calls'[i]
    OBVIOUS
  <2>2. Asks(calls[i]) /\ SameCall(calls[i], e)
    BY <1>2, <1>12, <2>1 DEF DemoAt
  <2>3. Asks(e)'
    BY <1>5, <2>2 DEF Asks, SameCall
  <2>4. PICK j \in 1 .. 9 : calls[i].by = Scenes[j] /\ j <= demo.scene /\ (~calls[i].heard => j = demo.scene)
    BY <1>12 DEF DemoAt
  <2>5. ~calls'[i].heard => ~calls[i].heard
    BY <1>2
  <2> QED BY <1>6, <2>1, <2>3, <2>4, <2>5 DEF Asks
<1>13. \A j, l \in DOMAIN calls : calls'[j].by = calls'[l].by /\ calls'[j].by \in {"register", "remove"} => j = l
  BY <1>6 DEF DemoAt
<1>14. ASSUME NEW i \in DOMAIN calls, calls'[i].by = "register"
       PROVE  /\ demo.userId = IF calls'[i].heard THEN calls'[i].id ELSE 0
              /\ calls'[i].id > 0 => calls'[i].wrote /\ calls'[i].key < nNextId' /\ calls'[i].key >= kFirstAutoId
  <2>1. i # k /\ calls[i].by = "register" /\ calls'[i] = calls[i]
    BY <1>2, <1>6, <1>11, <1>14
  <2> QED BY <1>2, <2>1 DEF DemoAt
<1>15. demo.userId > 0 => \E i \in DOMAIN calls : calls'[i].by = "register" /\ calls'[i].heard
  BY <1>2, <1>6, <1>11 DEF DemoAt
<1>16. IsFiniteSet(Unheard') /\ demo'.pending = Cardinality(Unheard')
  BY <1>5, <1>8, <1>10
<1>17. IsFiniteSet(Renames') /\ Cardinality(Renames') <= 3
  BY <1>7 DEF DemoAt
<1>18. \A i \in DOMAIN calls' : Demo(i)' =>
         /\ Asks(calls[i])'
         /\ \E j \in 1 .. 9 : calls'[i].by = Scenes[j] /\ j <= demo'.scene /\ (~calls'[i].heard => j = demo'.scene)
  BY <1>3, <1>5, <1>6, <1>12
<1>19. \A i \in DOMAIN calls' : calls'[i].by = "register" =>
         /\ demo'.userId = IF calls'[i].heard THEN calls'[i].id ELSE 0
         /\ calls'[i].id > 0 => calls'[i].wrote /\ calls'[i].key < nNextId' /\ calls'[i].key >= kFirstAutoId
  BY <1>3, <1>5, <1>14
<1>20. demo'.userId > 0 => \E i \in DOMAIN calls' : calls'[i].by = "register" /\ calls'[i].heard
  BY <1>3, <1>5, <1>15
<1> QED BY <1>3, <1>5, <1>13, <1>16, <1>17, <1>18, <1>19, <1>20 DEF DemoAt

\* The last call of a scene is heard: the user it goes on with.
LEMMA NextUser ==
    ASSUME UsersCoreInv, DemoAt, NEW k \in DOMAIN calls, Demo(k), ~calls[k].heard,
           NEW c, c = calls[k], NEW next, next = SettledNext(c), NEW id, id = SettledUser(c)
    PROVE  /\ next \in 2 .. 10 /\ next > demo.scene /\ id \in Nat
           /\ next \in 2 .. 7 => id > 0
           /\ \A i \in DOMAIN calls :
                calls[i].by \in {"duplicate", "query", "reads", "renames", "remove", "again"} => id = demo.userId
           /\ \A i \in DOMAIN calls : calls[i].by = "register" => id = calls[i].id
           /\ id > 0 => \E i \in DOMAIN calls : calls[i].by = "register"
           /\ c.by = "remove" <=> next = 7
<1>1. PICK s : s = demo.scene
  OBVIOUS
<1>2. s \in 1 .. 9 /\ c.by = Scenes[s]
  BY <1>1, SceneOrder
<1>3. s \in {1, 2, 3, 4, 5, 6, 7, 8, 9}
  BY <1>2, SceneCases
<1>4. c.id \in Nat /\ demo.userId \in Nat
  <2>1. c \in Contexts
    BY DEF UsersCoreInv, CallAt
  <2>2. demo.userId \in Nat
    BY DEF DemoAt
  <2> QED BY <2>1, <2>2 DEF Contexts
<1>5. c.by = "register" <=> s = 1
  BY <1>2, <1>3, SceneNumbers
<1>6. c.by = "remove" <=> s = 6
  BY <1>2, <1>3, SceneNumbers
<1>7. s \in 2 .. 6 => c.by \in {"duplicate", "query", "reads", "renames", "remove"}
  <2>1. SUFFICES ASSUME s \in 2 .. 6 PROVE c.by \in {"duplicate", "query", "reads", "renames", "remove"}
    OBVIOUS
  <2>2. s \in {2, 3, 4, 5, 6}
    BY <2>1
  <2> QED BY <1>2, <2>2, SceneNumbers
<1>8. CASE s = 1
  <2>1. c.by = "register" /\ id = c.id
    BY <1>5, <1>8 DEF SettledUser
  <2>2. next = IF c.id = 0 THEN 8 ELSE 2
    BY <1>1, <1>8, <2>1 DEF SettledNext, InvalidScene
  <2>3. \A i \in DOMAIN calls : Demo(i) => i = k
    BY <2>1, SceneOrder DEF DemoAt
  <2>4. \A i \in DOMAIN calls : calls[i].by # "rival" => i = k
    BY <2>3 DEF Demo
  <2> QED BY <1>1, <1>4, <1>8, <2>1, <2>2, <2>4
<1>9. CASE s # 1
  <2>1. c.by # "register" /\ id = demo.userId /\ next = s + 1
    BY <1>1, <1>5, <1>9 DEF SettledUser, SettledNext
  <2>2. next \in 2 .. 7 => id > 0
    <3>1. SUFFICES ASSUME next \in 2 .. 7 PROVE id > 0
      OBVIOUS
    <3>2. s \in 2 .. 6
      BY <1>2, <1>9, <2>1, <3>1
    <3>3. c.by \in {"duplicate", "query", "reads", "renames", "remove"}
      BY <1>7, <3>2
    <3>4. demo.userId > 0
      BY <3>3, AskedBy
    <3> QED BY <2>1, <3>4
  <2>3. \A i \in DOMAIN calls : calls[i].by = "register" => id = calls[i].id
    <3>1. SUFFICES ASSUME NEW i \in DOMAIN calls, calls[i].by = "register" PROVE demo.userId = calls[i].id
      BY <2>1
    <3>2. calls[i].heard
      <4>1. SUFFICES ASSUME ~calls[i].heard PROVE FALSE
        OBVIOUS
      <4>2. c.by = "register"
        BY <3>1, <4>1, SceneOrder DEF Demo
      <4> QED BY <2>1, <4>2
    <3> QED BY <3>1, <3>2 DEF DemoAt
  <2>4. id > 0 => \E i \in DOMAIN calls : calls[i].by = "register"
    BY <2>1 DEF DemoAt
  <2>5. next \in 2 .. 10 /\ next > s /\ (s = 6 <=> next = 7)
    BY <1>2, <1>9, <2>1
  <2> QED BY <1>1, <1>4, <1>6, <2>1, <2>2, <2>3, <2>4, <2>5
<1> QED BY <1>8, <1>9

\* DemoSettled keeps the demo's place.
LEMMA DemoSettledAt == ASSUME UsersCoreInv, DemoAt, NEW k \in DOMAIN calls, DemoSettled(k) PROVE DemoAt'
<1>1. CASE demo.pending > 1
  BY <1>1, SceneGoesOn
<1>2. CASE ~(demo.pending > 1)
  <2>1. /\ calls'[k].heard /\ Demo(k) /\ ~calls[k].heard
        /\ \A i \in DOMAIN calls : SameCall(calls[i], calls'[i]) /\ (i # k => calls'[i] = calls[i])
        /\ nNextId' = nNextId
    BY SettledCalls
  <2>2. demo.scene \in Nat /\ demo.userId \in Nat
    BY DEF DemoAt
  <2>3. PICK m \in Nat, next \in Nat, id \in Nat :
          /\ Len(calls') = Len(calls) + m /\ Begun(next, id, m) /\ calls' \in Seq(Contexts)
          /\ next = SettledNext(calls[k]) /\ id = SettledUser(calls[k])
          /\ demo' = [scene |-> next, userId |-> id, pending |-> m]
          /\ m = IF next <= 9 THEN SceneSize(Scenes[next]) ELSE 0
    BY <1>2, <2>2, DemoGoesOn
  <2>4. PICK c : c = calls[k]
    OBVIOUS
  <2>5. /\ next \in 2 .. 10 /\ next > demo.scene
        /\ next \in 2 .. 7 => id > 0
        /\ \A i \in DOMAIN calls :
             calls[i].by \in {"duplicate", "query", "reads", "renames", "remove", "again"} => id = demo.userId
        /\ \A i \in DOMAIN calls : calls[i].by = "register" => id = calls[i].id
        /\ id > 0 => \E i \in DOMAIN calls : calls[i].by = "register"
    BY <2>1, <2>3, <2>4, NextUser
  <2>6. \A i \in DOMAIN calls : Demo(i) => calls'[i].heard
    <3>1. SUFFICES ASSUME NEW i \in DOMAIN calls, Demo(i), ~calls'[i].heard PROVE FALSE
      OBVIOUS
    <3>2. i # k /\ ~calls[i].heard
      BY <2>1, <3>1
    <3>3. PICK U : U = Unheard
      OBVIOUS
    <3>4. i \in U /\ k \in U /\ IsFiniteSet(U) /\ Cardinality(U) = demo.pending /\ demo.pending \in Nat
      BY <2>1, <3>1, <3>2, <3>3 DEF Unheard, DemoAt
    <3>5. Cardinality(U \ {k}) = Cardinality(U) - 1 /\ IsFiniteSet(U \ {k})
      BY <3>4, FS_RemoveElement
    <3>6. i \in U \ {k}
      BY <3>2, <3>4
    <3>7. Cardinality(U \ {k}) # 0 /\ Cardinality(U \ {k}) \in Nat
      BY <3>5, <3>6, FS_EmptySet, FS_CardinalityType
    <3> QED BY <1>2, <3>4, <3>5, <3>7
  <2>7. next \in 1 .. 10 /\ next # 1
    BY <2>5
  <2>8. calls \in Seq(Contexts)
    BY DEF UsersCoreInv, TableIs
  <2>9. \A i \in DOMAIN calls : SameCall(calls[i], calls'[i]) /\ (Demo(i) => calls'[i].heard)
    BY <2>1, <2>6
  <2> QED BY <2>1, <2>3, <2>5, <2>7, <2>8, <2>9, SceneBegins
<1> QED BY <1>1, <1>2

\* ScheduleExample keeps it: no scene came before.
LEMMA ScheduleAt == ASSUME UsersCoreInv, DemoAt, ScheduleExample PROVE DemoAt'
<1>1. calls \in Seq(Contexts)
  BY DEF UsersCoreInv, TableIs
<1>2. /\ demo.scene = 0 /\ demo' = [scene |-> 1, userId |-> 0, pending |-> 1]
      /\ calls' \in Seq(Contexts) /\ Len(calls') = Len(calls) + 1 /\ Begun(1, 0, 1)
      /\ \A i \in DOMAIN calls : calls'[i] = calls[i]
  BY <1>1, ScheduleStarts
<1>3. \A i \in DOMAIN calls : ~Demo(i)
  BY <1>2 DEF DemoAt
<1>4. \A i \in DOMAIN calls : calls[i].by = "rival"
  BY <1>3 DEF Demo
<1>5. \A i \in DOMAIN calls : SameCall(calls[i], calls'[i]) /\ (Demo(i) => calls'[i].heard)
  BY <1>2, <1>3 DEF SameCall
<1>6. nNextId' = nNextId
  BY DEF ScheduleExample
<1>7. PICK next \in 1 .. 10, m \in Nat, id \in Nat : next = 1 /\ m = 1 /\ id = 0
  OBVIOUS
<1>8. m = IF next <= 9 THEN SceneSize(Scenes[next]) ELSE 0
  BY <1>7, SceneNumbers DEF SceneSize
<1>9. next > demo.scene /\ ~(next \in 2 .. 7) /\ ~(id > 0)
  BY <1>2, <1>7
<1>10. demo' = [scene |-> next, userId |-> id, pending |-> m] /\ Len(calls') = Len(calls) + m /\ Begun(next, id, m)
  BY <1>2, <1>7
<1> QED BY <1>1, <1>2, <1>4, <1>5, <1>6, <1>7, <1>8, <1>9, <1>10, SceneBegins

\* The demo's row after its callback, or its timer.
LEMMA DemoSettledRow == ASSUME UsersCoreInv, DemoAt, DemoRow, NEW k \in DOMAIN calls, DemoSettled(k) PROVE DemoRow'
<1>1. /\ DOMAIN calls \subseteq DOMAIN calls' /\ Demo(k) /\ ~calls[k].heard /\ rows' = rows
      /\ \A i \in DOMAIN calls : SameCall(calls[i], calls'[i])
  BY SettledCalls
<1>2. demo.pending > 0
  BY <1>1, PendingSome
<1>3. \A i \in DOMAIN calls' \ DOMAIN calls : ~calls'[i].wrote
  <2>1. demo.scene \in Nat /\ demo.userId \in Nat
    BY DEF DemoAt
  <2>2. PICK m, next, id : Begun(next, id, m)
    BY <2>1, DemoGoesOn
  <2> QED BY <2>2 DEF Begun, Made
<1>4. SUFFICES ASSUME NEW r \in DOMAIN calls', NEW id \in Nat, calls'[r].by = "register", calls'[r].wrote,
                      calls'[r].key = id, Alone(id)'
               PROVE  IF \E j \in DOMAIN calls' : RemovedBy(j)' THEN ~Present(id)'
                      ELSE Present(id)' /\ rows'[id].born = r
  BY DEF DemoRow
<1>5. r \in DOMAIN calls /\ calls[r].by = "register" /\ calls[r].wrote /\ calls[r].key = id
  BY <1>1, <1>3, <1>4 DEF SameCall
<1>6. Alone(id)
  BY <1>1, <1>4 DEF Alone, SameCall
<1>7. (\E j \in DOMAIN calls' : RemovedBy(j)') <=> \E j \in DOMAIN calls : RemovedBy(j)
  BY <1>1, <1>3 DEF RemovedBy, SameCall
<1>8. IF \E j \in DOMAIN calls : RemovedBy(j) THEN ~Present(id) ELSE Present(id) /\ rows[id].born = r
  BY <1>2, <1>5, <1>6 DEF DemoRow
<1> QED BY <1>1, <1>7, <1>8 DEF Present

\* Before its first call the demo has no row.
LEMMA ScheduleRow == ASSUME UsersCoreInv, DemoAt, ScheduleExample PROVE DemoRow'
<1>1. calls \in Seq(Contexts)
  BY DEF UsersCoreInv, TableIs
<1>2. demo.scene = 0 /\ Begun(1, 0, 1) /\ \A i \in DOMAIN calls : calls'[i] = calls[i]
  BY <1>1, ScheduleStarts
<1>3. \A i \in DOMAIN calls : ~Demo(i)
  BY <1>2 DEF DemoAt
<1>4. \A i \in DOMAIN calls' : ~(calls'[i].by = "register" /\ calls'[i].wrote)
  BY <1>2, <1>3 DEF Begun, Made, Demo
<1> QED BY <1>4 DEF DemoRow

\* What the demo's calls come to, after its callback: the last of a scene begins the next.
LEMMA DemoSettledCalls ==
    ASSUME UsersCoreInv, DemoAt, DemoCalls, NEW k \in DOMAIN calls, DemoSettled(k)
    PROVE  DemoCalls'
<1>1. /\ DOMAIN calls \subseteq DOMAIN calls' /\ Demo(k) /\ ~calls[k].heard /\ calls[k].at = "done"
      /\ \A i \in DOMAIN calls : SameCall(calls[i], calls'[i]) /\ (i # k => calls'[i] = calls[i])
  BY SettledCalls
<1>2. demo.scene \in Nat /\ demo.userId \in Nat
  BY DEF DemoAt
<1>3. PICK m \in Nat, next \in Nat, id \in Nat :
        /\ Begun(next, id, m) /\ Len(calls') = Len(calls) + m
        /\ IF demo.pending > 1 THEN demo' = [demo EXCEPT !.pending = @ - 1] /\ m = 0
           ELSE /\ next = SettledNext(calls[k]) /\ id = SettledUser(calls[k])
                /\ demo' = [scene |-> next, userId |-> id, pending |-> m]
  BY <1>2, DemoGoesOn
<1>4. PICK c : c = calls[k]
  OBVIOUS
<1>5. CallAt(c)
  BY <1>4 DEF UsersCoreInv
<1>6. PICK x, y : x = SettledNext(c) /\ y = SettledUser(c)
  OBVIOUS
<1>7. /\ x \in 2 .. 10 /\ y \in Nat /\ (c.by = "remove" <=> x = 7)
      /\ \A i \in DOMAIN calls :
           calls[i].by \in {"duplicate", "query", "reads", "renames", "remove", "again"} => y = demo.userId
      /\ \A i \in DOMAIN calls : calls[i].by = "register" => y = calls[i].id
  BY <1>1, <1>4, <1>6, NextUser
<1>8. PICK u \in Nat : u = demo'.userId
  <2>1. demo \in [scene : 0 .. 10, userId : Nat, pending : Nat]
    BY DEF DemoAt
  <2>2. CASE demo.pending > 1
    BY <1>3, <2>1, <2>2
  <2>3. CASE ~(demo.pending > 1)
    BY <1>3, <2>3
  <2> QED BY <2>2, <2>3
<1>9. SUFFICES ASSUME u > 0, Alone(u)'
               PROVE  /\ \A i \in DOMAIN calls' : Demo(i)' => Expected(calls'[i])
                      /\ (\E i \in DOMAIN calls' : calls'[i].by = "again") =>
                           \E i \in DOMAIN calls' : calls'[i].by = "remove" /\ calls'[i].wrote
  BY <1>8 DEF DemoCalls, Alone
<1>10. Alone(u)
  BY <1>1, <1>9 DEF Alone, SameCall
<1>11. ASSUME NEW i \in DOMAIN calls, Demo(i)
       PROVE  Expected(calls[i])
  <2>1. CASE u = demo.userId
    BY <1>9, <1>10, <1>11, <2>1 DEF DemoCalls
  <2>2. CASE u # demo.userId
    <3>1. ~(demo.pending > 1)
      BY <1>3, <1>8, <2>2 DEF DemoAt
    <3>2. u = y
      BY <1>3, <1>4, <1>6, <1>8, <3>1
    <3>3. c.by = "register"
      BY <1>4, <1>6, <2>2, <3>2 DEF SettledUser
    <3>4. i = k
      BY <1>1, <1>4, <1>11, <3>3, SceneOrder DEF DemoAt
    <3>5. c.id > 0 /\ c.wrote
      BY <1>4, <1>7, <1>9, <3>2, <3>3 DEF DemoAt
    <3>6. c.err # "Stopped"
      BY <1>4, <1>10 DEF Alone
    <3>7. c.err = "ok"
      BY <1>5, <3>5, <3>6 DEF CallAt
    <3> QED BY <1>1, <1>4, <3>3, <3>4, <3>7 DEF Expected
  <2> QED BY <2>1, <2>2
<1>12. ASSUME NEW i \in DOMAIN calls, Demo(i)'
       PROVE  Expected(calls'[i])
  <2>1. Demo(i) /\ Expected(calls[i])
    BY <1>1, <1>11, <1>12 DEF Demo, SameCall
  <2>2. CASE i # k
    BY <1>1, <2>1, <2>2
  <2>3. CASE i = k
    <3>1. PICK d : d = calls'[k]
      OBVIOUS
    <3>2. d.by = c.by /\ d.at = "done" /\ d.err = c.err /\ c.at = "done"
      BY <1>1, <1>4, <3>1 DEF SameCall
    <3>3. c.by \in {"register", "duplicate", "query", "reads", "renames", "remove", "again", "invalid", "dberror"}
      BY <1>1, <1>4, AskedBy
    <3>4. Expected(c)
      BY <1>4, <2>1, <2>3
    <3>5. Expected(d)
      BY <3>2, <3>3, <3>4 DEF Expected
    <3> QED BY <2>3, <3>1, <3>5
  <2> QED BY <2>2, <2>3
<1>13. ASSUME NEW i \in DOMAIN calls' \ DOMAIN calls
       PROVE  /\ Expected(calls'[i]) /\ next = x /\ next \in 1 .. 9 /\ calls'[i].by = Scenes[next]
  <2>1. PICK b, d : b = Scenes[next] /\ d = calls'[i]
    OBVIOUS
  <2>2. next \in 1 .. 9 /\ Made(d, SceneOp(b), SceneId(b, id), b)
    BY <1>3, <2>1 DEF Begun
  <2>3. ~(demo.pending > 1)
    <3>1. SUFFICES ASSUME demo.pending > 1 PROVE FALSE
      OBVIOUS
    <3>2. m = 0
      BY <1>3, <3>1
    <3>3. calls \in Seq(Contexts) /\ Len(calls) \in Nat
      BY DEF UsersCoreInv, TableIs
    <3>4. Len(calls) < i /\ i <= Len(calls) + m
      BY <1>3 DEF Begun
    <3>5. calls' \in Seq(Contexts)
      BY <1>2, DemoGoesOn
    <3>6. i \in Nat
      BY <3>5
    <3> QED BY <3>2, <3>3, <3>4, <3>6
  <2>4. next = x
    BY <1>3, <1>4, <1>6, <2>3
  <2>5. next \in {2, 3, 4, 5, 6, 7, 8, 9}
    BY <1>7, <2>2, <2>4
  <2>6. b \in {"duplicate", "query", "reads", "renames", "remove", "again", "invalid", "dberror"}
    BY <2>1, <2>5, SceneNumbers
  <2>7. d.err # "Stopped"
    BY <1>9, <2>1 DEF Alone
  <2>8. d.by = b /\ d.at = "begin"
    BY <2>2, <2>7 DEF Made
  <2>9. Expected(d)
    BY <2>6, <2>8 DEF Expected
  <2> QED BY <2>1, <2>2, <2>4, <2>8, <2>9
<1>14. \A i \in DOMAIN calls' : Demo(i)' => Expected(calls'[i])
  BY <1>12, <1>13
<1>15. ASSUME NEW i \in DOMAIN calls', calls'[i].by = "again"
       PROVE  \E j \in DOMAIN calls' : calls'[j].by = "remove" /\ calls'[j].wrote
  <2>1. CASE i \in DOMAIN calls
    <3>1. calls[i].by = "again"
      BY <1>1, <1>15, <2>1 DEF SameCall
    <3>2. u = demo.userId
      <4>1. CASE demo.pending > 1
        BY <1>3, <1>8, <4>1 DEF DemoAt
      <4>2. CASE ~(demo.pending > 1)
        BY <1>3, <1>4, <1>6, <1>7, <1>8, <2>1, <3>1, <4>2
      <4> QED BY <4>1, <4>2
    <3>3. PICK j \in DOMAIN calls : calls[j].by = "remove" /\ calls[j].wrote
      BY <1>9, <1>10, <2>1, <3>1, <3>2 DEF DemoCalls
    <3> QED BY <1>1, <3>3 DEF SameCall
  <2>2. CASE i \notin DOMAIN calls
    <3>1. next = x /\ next \in 1 .. 9 /\ Scenes[next] = "again"
      BY <1>13, <1>15, <2>2
    <3>2. x = 7
      <4>1. next \in {1, 2, 3, 4, 5, 6, 7, 8, 9}
        BY <3>1, SceneCases
      <4> QED BY <3>1, <4>1, SceneNumbers
    <3>3. c.by = "remove"
      BY <1>7, <3>2
    <3>4. c.op = "remove" /\ Expected(c) /\ c.at = "done"
      BY <1>1, <1>4, <1>11, <3>3, AskedBy
    <3>5. c.wrote
      BY <1>5, <3>3, <3>4 DEF Expected, CallAt, Writes
    <3> QED BY <1>1, <1>4, <3>3, <3>5 DEF SameCall
  <2> QED BY <2>1, <2>2
<1> QED BY <1>14, <1>15

\* A step that leaves the calls of the demo, and who has touched which user.
LEMMA DemoUntouched ==
    ASSUME DemoAt, DemoCalls, DOMAIN calls' = DOMAIN calls, demo' = demo, nNextId' = nNextId,
           \A i \in DOMAIN calls : IF Demo(i) THEN calls'[i] = calls[i] ELSE SameCall(calls[i], calls'[i])
    PROVE  /\ DemoAt' /\ DemoCalls' /\ (rows' = rows /\ DemoRow => DemoRow')
<1>1. \A i \in DOMAIN calls : SameCall(calls[i], calls'[i]) /\ (Demo(i) => calls'[i] = calls[i])
  BY DEF SameCall
<1>2. \A i \in DOMAIN calls : (Demo(i)' <=> Demo(i)) /\ calls'[i].by = calls[i].by
  BY <1>1 DEF Demo, SameCall
<1>3. Unheard' = Unheard /\ Renames' = Renames
  BY <1>1, <1>2 DEF Unheard, Renames
<1>4. ASSUME NEW i \in DOMAIN calls, Demo(i) PROVE Asks(calls[i])' /\ calls'[i] = calls[i]
  <2>1. PICK c : c = calls[i]
    OBVIOUS
  <2>2. Asks(c) /\ calls'[i] = c
    BY <1>1, <1>4, <2>1 DEF DemoAt
  <2>3. Asks(c)'
    BY <2>2 DEF Asks
  <2> QED BY <2>1, <2>2, <2>3 DEF Asks
<1>5. DemoAt'
  <2>1. \A i \in DOMAIN calls' : Demo(i)' =>
         /\ Asks(calls[i])'
         /\ \E j \in 1 .. 9 : calls'[i].by = Scenes[j] /\ j <= demo'.scene /\ (~calls'[i].heard => j = demo'.scene)
    BY <1>2, <1>4 DEF DemoAt
  <2>2. \A j, l \in DOMAIN calls' : calls'[j].by = calls'[l].by /\ calls'[j].by \in {"register", "remove"} => j = l
    BY <1>2 DEF DemoAt
  <2>3. \A i \in DOMAIN calls : calls[i].by = "register" => Demo(i)
    BY DEF Demo
  <2>4. \A i \in DOMAIN calls' : calls'[i].by = "register" =>
         /\ demo'.userId = IF calls'[i].heard THEN calls'[i].id ELSE 0
         /\ calls'[i].id > 0 => calls'[i].wrote /\ calls'[i].key < nNextId' /\ calls'[i].key >= kFirstAutoId
    BY <1>2, <1>4, <2>3 DEF DemoAt
  <2>5. demo'.userId > 0 => \E i \in DOMAIN calls' : calls'[i].by = "register" /\ calls'[i].heard
    BY <1>2, <1>4, <2>3 DEF DemoAt
  <2>6. demo' \in [scene : 0 .. 10, userId : Nat, pending : Nat] /\ IsFiniteSet(Unheard') /\ demo'.pending = Cardinality(Unheard')
        /\ IsFiniteSet(Renames') /\ Cardinality(Renames') <= 3
    BY <1>3 DEF DemoAt
  <2> QED BY <2>1, <2>2, <2>4, <2>5, <2>6 DEF DemoAt
<1>6. \A id \in Nat : Alone(id)' <=> Alone(id)
  BY <1>1 DEF Alone, SameCall
<1>7. demo.userId \in Nat
  BY DEF DemoAt
<1>8. DemoCalls'
  <2>1. PICK u \in Nat : u = demo.userId
    BY <1>7
  <2>2. SUFFICES ASSUME u > 0, Alone(u)'
                 PROVE  /\ \A i \in DOMAIN calls' : Demo(i)' => Expected(calls'[i])
                        /\ (\E i \in DOMAIN calls' : calls'[i].by = "again") =>
                             \E i \in DOMAIN calls' : calls'[i].by = "remove" /\ calls'[i].wrote
    BY <2>1 DEF DemoCalls, Alone
  <2>3. Alone(u)
    BY <1>6, <2>2
  <2> QED BY <1>1, <1>2, <2>1, <2>2, <2>3 DEF DemoCalls, SameCall
<1>9. ASSUME rows' = rows, DemoRow PROVE DemoRow'
  <2>1. \A j \in DOMAIN calls : RemovedBy(j)' <=> RemovedBy(j)
    BY <1>1 DEF RemovedBy, SameCall
  <2>2. \A id \in Nat : Present(id)' <=> Present(id)
    BY <1>9 DEF Present
  <2> QED BY <1>1, <1>6, <1>9, <2>1, <2>2 DEF DemoRow, SameCall
<1> QED BY <1>5, <1>8, <1>9

\* A rival's result is taken, and the service is stopped: nothing of the demo's.
LEMMA RivalSettledDemo == ASSUME UsersCoreInv, DemoAt, DemoRow, DemoCalls, NEW k \in DOMAIN calls, RivalSettled(k)
                          PROVE  DemoAt' /\ DemoRow' /\ DemoCalls'
<1>1. PICK c, h : c = calls[k] /\ h = Heard(c)
  OBVIOUS
<1>2. calls \in Seq(Contexts) /\ c \in Contexts
  BY <1>1 DEF UsersCoreInv, TableIs
<1>3. c.by = "rival" /\ calls' = [calls EXCEPT ![k] = h] /\ rows' = rows /\ nNextId' = nNextId /\ demo' = demo
  BY <1>1 DEF RivalSettled, Put
<1>4. h \in Contexts /\ SameCall(c, h)
  BY <1>1, <1>2, HeardIs DEF SameCall
<1>5. DOMAIN calls' = DOMAIN calls /\ calls'[k] = h /\ \A i \in DOMAIN calls : i # k => calls'[i] = calls[i]
  BY <1>2, <1>3, <1>4, OnePut
<1>6. \A i \in DOMAIN calls : IF Demo(i) THEN calls'[i] = calls[i] ELSE SameCall(calls[i], calls'[i])
  BY <1>1, <1>3, <1>4, <1>5 DEF Demo, SameCall
<1> QED BY <1>3, <1>5, <1>6, DemoUntouched

\* The service is stopped.
LEMMA StopDemo == ASSUME UsersCoreInv, DemoAt, DemoRow, DemoCalls, StopService PROVE DemoAt' /\ DemoRow' /\ DemoCalls'
<1>1. rows' = rows /\ nNextId' = nNextId /\ demo' = demo /\ calls' = calls
  BY DEF StopService
<1>2. \A i \in DOMAIN calls : IF Demo(i) THEN calls'[i] = calls[i] ELSE SameCall(calls[i], calls'[i])
  BY <1>1 DEF SameCall
<1> QED BY <1>1, <1>2, DemoUntouched

\* The modules are started again: no call of the demo is on its way.
LEMMA RestartDemo == ASSUME UsersCoreInv, DemoAt, DemoCalls, RestartModules PROVE DemoAt' /\ DemoRow' /\ DemoCalls'
<1>1. nNextId' = nNextId /\ demo' = demo /\ calls' = calls /\ demo.pending = 0
  BY DEF RestartModules
<1>2. \A i \in DOMAIN calls : IF Demo(i) THEN calls'[i] = calls[i] ELSE SameCall(calls[i], calls'[i])
  BY <1>1 DEF SameCall
<1>3. DemoAt' /\ DemoCalls'
  BY <1>1, <1>2, DemoUntouched
<1>4. DemoRow'
  BY <1>1 DEF DemoRow
<1> QED BY <1>3, <1>4

\* The service starts before the demo.
LEMMA DemoStart == UsersInit => DemoAt /\ DemoRow /\ DemoCalls
<1>1. SUFFICES ASSUME UsersInit PROVE DemoAt /\ DemoRow /\ DemoCalls
  OBVIOUS
<1>2. PICK r \in Rivals :
         /\ calls = [k \in DOMAIN r.calls |-> [MakeContext(r.calls[k][1], r.calls[k][2], "rival") EXCEPT !.at = "idle"]]
         /\ demo = [scene |-> IF r.demo THEN 0 ELSE Len(Scenes) + 1, userId |-> 0, pending |-> 0]
  BY <1>1 DEF UsersInit
<1>3. ASSUME NEW k \in DOMAIN calls PROVE calls[k].by = "rival"
  <2>1. PICK op, id : op = r.calls[k][1] /\ id = r.calls[k][2]
    OBVIOUS
  <2>2. calls[k] = [MakeContext(op, id, "rival") EXCEPT !.at = "idle"]
    BY <1>2, <2>1
  <2> QED BY <2>2 DEF MakeContext
<1>4. \A k \in DOMAIN calls : ~Demo(k) /\ calls[k].by \notin {"register", "remove", "renames", "again"}
  BY <1>3 DEF Demo
<1>5. Unheard = {} /\ Renames = {}
  BY <1>4 DEF Unheard, Renames
<1>6. demo \in [scene : 0 .. 10, userId : Nat, pending : Nat] /\ demo.userId = 0 /\ demo.pending = 0
  <2>1. (IF r.demo THEN 0 ELSE Len(Scenes) + 1) \in 0 .. 10
    BY SceneNumbers
  <2> QED BY <1>2, <2>1
<1>7. IsFiniteSet({}) /\ Cardinality({}) = 0
  BY FS_EmptySet
<1>8. DemoAt
  BY <1>4, <1>5, <1>6, <1>7 DEF DemoAt
<1> QED BY <1>4, <1>6, <1>8 DEF DemoRow, DemoCalls

-------------------------------------------------------------------------------
\* Every step of the user service preserves its invariant.
LEMMA UsersKeep == UsersIInv /\ [UsersNext]_userVars => UsersIInv'
<1>1. SUFFICES ASSUME UsersIInv, [UsersNext]_userVars PROVE UsersIInv'
  OBVIOUS
<1>2. UsersCoreInv /\ DemoAt /\ DemoRow /\ DemoCalls
  BY <1>1 DEF UsersIInv
<1>3. demo.scene \in Nat /\ demo.userId \in Nat
  BY <1>2 DEF DemoAt
<1>4. ASSUME NEW k \in DOMAIN calls, CallSteps(k) PROVE UsersIInv'
  <2>1. CASE QueryUser(k)
    <3>1. Progress(k) /\ UsersCoreInv'
      BY <1>2, <2>1, ReadsProgress, QueryStep
    <3>2. DemoAt' /\ DemoCalls'
      BY <1>2, <2>1, <3>1, DemoAtKept, QueryCalls
    <3>3. rows' = rows /\ (calls'[k].wrote <=> calls[k].wrote)
      <4>1. rows' = rows
        BY <2>1 DEF QueryUser
      <4>2. TableIs /\ CallAt(calls[k])
        BY <1>2 DEF UsersCoreInv
      <4>3. PICK d : calls' = [calls EXCEPT ![k] = d] /\ Alike(calls[k], d)
        BY <2>1, <4>2, Queried
      <4> QED BY <4>1, <4>2, <4>3, OnePut DEF Alike, TableIs
    <3>4. DemoRow'
      BY <1>2, <3>1, <3>3, RowKept
    <3> QED BY <3>1, <3>2, <3>4 DEF UsersIInv
  <2>2. CASE WriteLoads(k)
    <3>1. Progress(k) /\ UsersCoreInv'
      BY <1>2, <2>2, ReadsProgress, WriteStep
    <3>2. DemoAt' /\ DemoCalls'
      BY <1>2, <2>2, <3>1, DemoAtKept, WriteCalls
    <3>3. rows' = rows /\ (calls'[k].wrote <=> calls[k].wrote)
      <4>1. rows' = rows
        BY <2>2 DEF WriteLoads
      <4>2. TableIs /\ CallAt(calls[k])
        BY <1>2 DEF UsersCoreInv
      <4>3. PICK d : calls' = [calls EXCEPT ![k] = d] /\ Alike(calls[k], d)
        BY <2>2, <4>2, WriteLoaded
      <4> QED BY <4>1, <4>2, <4>3, OnePut DEF Alike, TableIs
    <3>4. DemoRow'
      BY <1>2, <3>1, <3>3, RowKept
    <3> QED BY <3>1, <3>2, <3>4 DEF UsersIInv
  <2>3. CASE StepInsertRow(k)
    <3>1. UsersCoreInv' /\ DemoAt'
      BY <1>2, <2>3, InsertProgress, InsertStep, DemoAtKept
    <3>2. DemoRow' /\ DemoCalls'
      BY <1>2, <2>3, RowInsert, InsertCalls
    <3> QED BY <3>1, <3>2 DEF UsersIInv
  <2>4. CASE StepApplyUpdate(k)
    <3>1. UsersCoreInv' /\ DemoAt'
      BY <1>2, <2>4, ApplyProgress, ApplyStep, DemoAtKept
    <3>2. DemoRow' /\ DemoCalls'
      BY <1>2, <2>4, RowApply, ApplyCalls
    <3> QED BY <3>1, <3>2 DEF UsersIInv
  <2>5. CASE StepEraseRow(k)
    <3>1. UsersCoreInv' /\ DemoAt'
      BY <1>2, <2>5, EraseProgress, EraseStep, DemoAtKept
    <3>2. DemoRow' /\ DemoCalls'
      BY <1>2, <2>5, RowErase, EraseCalls
    <3> QED BY <3>1, <3>2 DEF UsersIInv
  <2>6. CASE DemoSettled(k)
    <3>1. UsersCoreInv' /\ DemoAt'
      BY <1>2, <1>3, <2>6, DemoStep, DemoSettledAt
    <3>2. DemoRow' /\ DemoCalls'
      BY <1>2, <2>6, DemoSettledRow, DemoSettledCalls
    <3> QED BY <3>1, <3>2 DEF UsersIInv
  <2>7. CASE RivalCalls(k)
    <3>1. UsersCoreInv' /\ DemoAt'
      BY <1>2, <2>7, ReadsProgress, RivalCallStep, DemoAtKept
    <3>2. DemoRow' /\ DemoCalls'
      BY <1>2, <2>7, RivalCallsKept
    <3> QED BY <3>1, <3>2 DEF UsersIInv
  <2>8. CASE RivalSettled(k)
    BY <1>2, <2>8, RivalSettledStep, RivalSettledDemo DEF UsersIInv
  <2> QED BY <1>4, <2>1, <2>2, <2>3, <2>4, <2>5, <2>6, <2>7, <2>8 DEF CallSteps
<1>5. CASE ScheduleExample
  <2>1. UsersCoreInv' /\ DemoAt' /\ DemoRow'
    BY <1>2, <1>5, ScheduleStep, ScheduleAt, ScheduleRow
  <2>2. demo'.userId = 0
    BY <1>5 DEF ScheduleExample
  <2>3. DemoCalls'
    BY <2>2 DEF DemoCalls
  <2> QED BY <2>1, <2>3 DEF UsersIInv
<1>6. CASE StopService
  BY <1>2, <1>6, StopStep, StopDemo DEF UsersIInv
<1>7. CASE RestartModules
  BY <1>2, <1>7, RestartStep, RestartDemo DEF UsersIInv
<1>8. CASE UNCHANGED userVars
  <2>1. UNCHANGED <<rows, nRows, nNextId, calls, demo>>
    BY <1>8 DEF userVars
  <2>2. \A i \in DOMAIN calls : IF Demo(i) THEN calls'[i] = calls[i] ELSE SameCall(calls[i], calls'[i])
    BY <2>1 DEF SameCall
  <2>3. DemoAt' /\ DemoRow' /\ DemoCalls'
    BY <1>2, <2>1, <2>2, DemoUntouched
  <2>4. UsersCoreInv'
    BY <1>2, <2>1, CoreKept
  <2> QED BY <2>3, <2>4 DEF UsersIInv
<1> QED BY <1>1, <1>4, <1>5, <1>6, <1>7, <1>8 DEF UsersNext

\* The invariant of the user service follows.
LEMMA UsersInvFollows == UsersIInv => UsersInv
<1>1. SUFFICES ASSUME UsersIInv PROVE UsersInv
  OBVIOUS
<1>2. /\ TableIs /\ DemoAt /\ DemoRow /\ DemoCalls
      /\ \A k \in DOMAIN calls : CallAt(calls[k]) /\ RenameAt(calls[k])
  BY <1>1 DEF UsersIInv, UsersCoreInv
<1>3. TableExact
  BY <1>2 DEF TableIs, TableExact, There, RowAt, Renamed
<1>4. OutcomesTrue
  BY <1>2 DEF OutcomesTrue, CallAt, CallSettled, Writes
<1>5. OptimisticLock
  BY <1>2 DEF OptimisticLock, RenameAt
<1>6. DemoAsAnnounced
  <2>1. SUFFICES ASSUME Alone(demo.userId), NEW k \in DOMAIN calls, calls[k].at = "done", Demo(k), demo.userId > 0
                 PROVE  calls[k].err = DemoOutcome(calls[k].by)
    BY DEF DemoAsAnnounced, Alone, CallSettled, Demo
  <2>2. Expected(calls[k])
    BY <1>2, <2>1 DEF DemoCalls
  <2>3. PICK c : c = calls[k]
    OBVIOUS
  <2>4. c.by \in {"register", "duplicate", "query", "reads", "renames", "remove", "again", "invalid", "dberror"}
    BY <1>1, <1>2, <2>1, <2>3, AskedBy DEF UsersIInv
  <2>5. c.err = DemoOutcome(c.by)
    BY <2>1, <2>2, <2>3, <2>4 DEF Expected, DemoOutcome
  <2> QED BY <2>3, <2>5
<1> QED BY <1>3, <1>4, <1>5, <1>6 DEF UsersInv

\* Whatever is called in whatever order and whenever the service is stopped: no rename
\* is lost or counted twice, a write is told of exactly when it was made, an update never
\* goes over a write that was not seen, and the demo sees what its scenes announce.
THEOREM UsersInvHolds == UsersSpec => []UsersInv
<1>1. UsersInit => UsersIInv
  BY UsersStart, DemoStart DEF UsersIInv
<1> QED BY <1>1, UsersKeep, UsersInvFollows, PTL DEF UsersSpec
==============================================================================

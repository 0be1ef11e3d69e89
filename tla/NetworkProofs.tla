---------------------------- MODULE NetworkProofs -----------------------------
(***************************************************************************)
(* The network classes: UdpInv of CUdpSocket for any number of datagrams,  *)
(* sends and bindings, and ClientInv of CTcpClient for any number of       *)
(* payloads and reads.                                                     *)
(*                                                                         *)
(* UdpInv is not inductive: that the loop stays alive needs to know that   *)
(* nobody but Stop() closes the socket or aborts a receive (Owned), and    *)
(* that a joinable thread is left behind only by a second binding needs to *)
(* know where the thread, the spent io_context and Stop() are (Threads).   *)
(***************************************************************************)
EXTENDS UdpSocket, TcpClient, NetworkModule, FiniteSetTheorems, SequenceTheorems, TLAPS

UdpTypeOK ==
    /\ udp \in [open : BOOLEAN, running : BOOLEAN, spent : BOOLEAN,
                thread : {"none", "start", "run", "ended", "joined", "destroyed", "terminated"},
                receive : {"none", "arming", "tested", "out", "data", "error", "aborted"}]
    /\ udpStop \in {"idle", "cancel", "close", "join"}
    /\ sends \in [called : Nat, resolving : Nat, posted : Nat, sent : Nat, dropped : Nat, late : Nat]
    /\ counts \in [binds : Nat, bound : Nat, sendTos : Nat, received : Nat]

\* While the socket runs it is open and Stop() has not begun; an aborted receive
\* is the work of Stop().
Owned ==
    /\ udp.running => udp.open /\ udpStop = "idle" /\ udp.thread \in {"start", "run"}
    /\ udp.running /\ ~udp.spent => udp.receive # "aborted"
    /\ ~udp.spent /\ udp.thread = "start" => udp.receive = "none"

\* Where the thread is, by what Stop() is doing and by the bindings made.  In
\* particular Bind never assigns to a thread that is still joinable.
Threads ==
    /\ udpStop # "idle" => udp.thread \in {"start", "run", "ended"}
    /\ udp.thread \in {"start", "run"} => udp.running \/ udpStop # "idle"
    /\ udp.thread \in {"ended", "joined"} => udp.spent
    /\ udp.thread = "ended" /\ udpStop = "idle" => udp.open /\ counts.bound > 1
    /\ udp.thread \notin {"none", "destroyed"} => counts.bound > 0
    /\ udp.thread \in {"start", "run"} /\ udp.spent => counts.bound > 1

\* Datagrams by the state of the io_context.
Handed ==
    /\ udp.thread = "none" =>
         /\ ~udp.spent /\ udp.receive = "none"
         /\ sends.called = 0 /\ sends.resolving = 0 /\ sends.posted = 0
    /\ udp.spent => sends.posted = 0 /\ sends.resolving = sends.late
    /\ ~udp.spent => sends.late = 0

UdpIInv == UdpTypeOK /\ Owned /\ Threads /\ Handed /\ UdpInv
-------------------------------------------------------------------------------
\* A new CUdpSocket satisfies the invariant.
LEMMA UdpInitIInv == UdpInit => UdpIInv
BY DEF UdpInit, UdpIInv, UdpTypeOK, Owned, Threads, Handed, UdpInv, Over

\* A step that leaves the socket, Stop() and the bindings alone preserves the
\* invariant if it keeps what Handed and UdpInv say of the datagrams.
LEMMA SendsStep ==
  ASSUME UdpIInv, UNCHANGED <<udp, udpStop>>,
         counts' \in [binds : Nat, bound : Nat, sendTos : Nat, received : Nat],
         counts'.bound = counts.bound,
         sends' \in [called : Nat, resolving : Nat, posted : Nat, sent : Nat, dropped : Nat, late : Nat],
         udp.thread \in {"start", "run", "ended", "joined"},
         udp.spent => sends'.posted = 0 /\ sends'.resolving = sends'.late,
         ~udp.spent => sends'.late = 0
  PROVE  UdpIInv'
BY DEF UdpIInv, UdpTypeOK, Owned, Threads, Handed, UdpInv, Over

\* The types of the four records, each by itself.
LEMMA UdpTypes ==
  UdpIInv => /\ sends \in [called : Nat, resolving : Nat, posted : Nat, sent : Nat, dropped : Nat, late : Nat]
             /\ counts \in [binds : Nat, bound : Nat, sendTos : Nat, received : Nat]
             /\ udp.open \in BOOLEAN /\ udp.spent \in BOOLEAN /\ udp.running \in BOOLEAN
BY DEF UdpIInv, UdpTypeOK

\* A SendTo that passed its test starts the resolver, too late if run() has returned.
LEMMA SendToResolvesStep == UdpIInv /\ SendToResolves => UdpIInv'
<1> SUFFICES ASSUME UdpIInv, SendToResolves PROVE UdpIInv'
  OBVIOUS
<1>1. sends.called > 0 /\ UNCHANGED <<udp, udpStop, counts>>
  BY DEF SendToResolves
<1>2. udp.thread \in {"start", "run", "ended", "joined"}
  BY <1>1, UdpTypes DEF SendToResolves, UdpIInv, UdpTypeOK, Handed, Over
<1>3. CASE udp.spent
  <2> DEFINE called == sends.called - 1  resolving == sends.resolving + 1  tardy == sends.late + 1
  <2>1. sends' = [sends EXCEPT !.called = called, !.resolving = resolving, !.late = tardy]
    BY <1>3 DEF SendToResolves
  <2>2. sends.posted = 0 /\ sends.resolving = sends.late
    BY <1>3 DEF UdpIInv, Handed
  <2>3. called \in Nat /\ resolving \in Nat /\ tardy \in Nat /\ resolving = tardy
    BY <1>1, <2>2, UdpTypes
  <2> HIDE DEF called, resolving, tardy
  <2>4. QED
    BY <1>1, <1>2, <1>3, <2>1, <2>2, <2>3, UdpTypes, SendsStep
<1>4. CASE ~udp.spent
  <2> DEFINE called == sends.called - 1  resolving == sends.resolving + 1  tardy == sends.late + 0
  <2>1. sends' = [sends EXCEPT !.called = called, !.resolving = resolving, !.late = tardy]
    BY <1>4 DEF SendToResolves
  <2>2. sends.late = 0
    BY <1>4 DEF UdpIInv, Handed
  <2>3. called \in Nat /\ resolving \in Nat /\ tardy \in Nat /\ tardy = 0
    BY <1>1, <2>2, UdpTypes
  <2> HIDE DEF called, resolving, tardy
  <2>4. QED
    BY <1>1, <1>2, <1>4, <2>1, <2>2, <2>3, UdpTypes, SendsStep
<1>5. QED
  BY <1>3, <1>4

\* The io thread takes a datagram from one stage to the next, while run() is on.
LEMMA ResolvedStep == ASSUME NEW ok \in BOOLEAN PROVE UdpIInv /\ Resolved(ok) => UdpIInv'
<1> SUFFICES ASSUME UdpIInv, Resolved(ok) PROVE UdpIInv'
  OBVIOUS
<1>1. /\ sends.resolving > 0 /\ UNCHANGED <<udp, udpStop, counts>>
      /\ udp.thread = "run" /\ ~udp.spent /\ sends.late = 0
  BY DEF Resolved, UdpIInv, Handed
<1> DEFINE resolving == sends.resolving - 1  posted == sends.posted + 1  dropped == sends.dropped + 1
<1>2. \/ sends' = [sends EXCEPT !.resolving = resolving, !.posted = posted]
      \/ sends' = [sends EXCEPT !.resolving = resolving, !.dropped = dropped]
  BY DEF Resolved
<1>3. resolving \in Nat /\ posted \in Nat /\ dropped \in Nat
  BY <1>1, UdpTypes
<1> HIDE DEF resolving, posted, dropped
<1>4. QED
  BY <1>1, <1>2, <1>3, UdpTypes, SendsStep

\* So does the handler that sends it, or drops it on a closed socket.
LEMMA SendPostedStep == UdpIInv /\ SendPosted => UdpIInv'
<1> SUFFICES ASSUME UdpIInv, SendPosted PROVE UdpIInv'
  OBVIOUS
<1>1. /\ sends.posted > 0 /\ UNCHANGED <<udp, udpStop, counts>>
      /\ udp.thread = "run" /\ ~udp.spent /\ sends.late = 0
  BY DEF SendPosted, UdpIInv, Handed
<1> DEFINE posted == sends.posted - 1  sent == sends.sent + 1  dropped == sends.dropped + 1
<1>2. \/ sends' = [sends EXCEPT !.posted = posted, !.sent = sent]
      \/ sends' = [sends EXCEPT !.posted = posted, !.dropped = dropped]
  BY DEF SendPosted
<1>3. posted \in Nat /\ sent \in Nat /\ dropped \in Nat
  BY <1>1, UdpTypes
<1> HIDE DEF posted, sent, dropped
<1>4. QED
  BY <1>1, <1>2, <1>3, UdpTypes, SendsStep

\* run() returns with nothing left to do, or at once on a spent io_context; the
\* first needs a Stop() in progress, the second a second binding.
LEMMA UdpRunReturnsStep == UdpIInv /\ UdpRunReturns => UdpIInv'
<1> SUFFICES ASSUME UdpIInv, UdpRunReturns PROVE UdpIInv'
  OBVIOUS
<1>1. /\ udp' = [udp EXCEPT !.thread = "ended", !.running = FALSE, !.spent = TRUE]
      /\ UNCHANGED <<udpStop, sends, counts>> /\ udp.thread = "run"
  BY DEF UdpRunReturns
<1>2. sends.posted = 0 /\ sends.resolving = sends.late
  <2>1. CASE udp.spent
    BY <2>1 DEF UdpIInv, Handed
  <2>2. CASE ~udp.spent
    <3>1. sends.resolving + sends.posted = 0 /\ sends.late = 0
      BY <2>2 DEF UdpRunReturns, UdpIInv, Handed
    <3>2. QED
      BY <3>1, UdpTypes
  <2>3. QED
    BY <2>1, <2>2
<1>3. udpStop = "idle" => udp.open /\ counts.bound > 1
  BY <1>1, UdpTypes DEF UdpRunReturns, UdpIInv, UdpInv, Owned, Threads
<1>4. counts.bound > 0
  BY <1>1 DEF UdpIInv, Threads
<1>5. QED
  BY <1>1, <1>2, <1>3, <1>4 DEF UdpIInv, UdpTypeOK, Owned, Threads, Handed, UdpInv, Over

\* Bind is refused by open(), or leaves the socket open and unbound, or starts the
\* thread; the thread it replaces was never started or has been joined.
LEMMA BindStep == ASSUME NEW bound \in BOOLEAN PROVE UdpIInv /\ Bind(bound) => UdpIInv'
<1> SUFFICES ASSUME UdpIInv, Bind(bound) PROVE UdpIInv'
  OBVIOUS
<1>1. /\ ~udp.running /\ udpStop = "idle" /\ udp.thread \in {"none", "ended", "joined"}
      /\ UNCHANGED <<udpStop, sends>>
  BY UdpTypes DEF Bind, UdpIInv, UdpTypeOK, Threads, Over
<1>2. CASE udp.open \/ ~bound
  <2> DEFINE nBinds == counts.binds + 1  nBound == counts.bound + 0
  <2>0. nBinds \in Nat /\ nBound \in Nat /\ nBound = counts.bound
    BY UdpTypes
  <2>1. counts' = [counts EXCEPT !.binds = nBinds, !.bound = nBound]
    BY <1>2 DEF Bind
  <2> HIDE DEF nBinds, nBound
  <2>2. /\ counts' \in [binds : Nat, bound : Nat, sendTos : Nat, received : Nat]
        /\ counts'.bound = counts.bound
    BY <2>0, <2>1, UdpTypes
  <2>3. udp' = udp \/ udp' = [udp EXCEPT !.open = TRUE]
    BY <1>2 DEF Bind
  <2>4. QED
    BY <1>1, <2>2, <2>3, ZenonT(30) DEF UdpIInv, UdpTypeOK, Owned, Threads, Handed, UdpInv, Over
<1>3. CASE ~udp.open /\ bound
  <2> DEFINE nBinds == counts.binds + 1  nBound == counts.bound + 1
  <2>0. nBinds \in Nat /\ nBound \in Nat /\ nBound = counts.bound + 1
    BY UdpTypes
  <2>1. counts' = [counts EXCEPT !.binds = nBinds, !.bound = nBound]
    BY <1>3 DEF Bind
  <2> HIDE DEF nBinds, nBound
  <2>2. /\ counts' \in [binds : Nat, bound : Nat, sendTos : Nat, received : Nat]
        /\ counts'.bound = counts.bound + 1
    BY <2>0, <2>1, UdpTypes
  <2>3. udp' = [udp EXCEPT !.open = TRUE, !.running = TRUE, !.thread = "start"]
    BY <1>3 DEF Bind
  <2>4. /\ counts'.bound > 0
        /\ udp.spent => counts'.bound > 1
    BY <1>1, <2>2, UdpTypes DEF UdpIInv, Threads, Handed
  <2>5. QED
    BY <1>1, <1>3, <2>2, <2>3, <2>4 DEF UdpIInv, UdpTypeOK, Owned, Threads, Handed, UdpInv, Over
<1>4. QED
  BY <1>2, <1>3, UdpTypes

\* Every step of the owner, of a sender and of the io thread preserves it.
LEMMA UdpNextIInv == UdpIInv /\ [UdpNext]_udpVars => UdpIInv'
<1> SUFFICES ASSUME UdpIInv, [UdpNext]_udpVars PROVE UdpIInv'
  OBVIOUS
<1> USE DEF UdpIInv, UdpTypeOK, Owned, Threads, Handed, UdpInv, Over
<1>1. ASSUME NEW bound \in BOOLEAN, Bind(bound) PROVE UdpIInv'
  BY <1>1, BindStep
<1>2. CASE SendTo
  BY <1>2 DEF SendTo
<1>3. CASE SendToResolves
  BY <1>3, SendToResolvesStep
<1>4. CASE UdpStop
  BY <1>4 DEF UdpStop
<1>5. CASE UdpCancel
  BY <1>5 DEF UdpCancel, Abort
<1>6. CASE UdpClose
  BY <1>6 DEF UdpClose, Abort
<1>7. CASE UdpJoin
  BY <1>7 DEF UdpJoin
<1>8. CASE UdpDestroy
  BY <1>8 DEF UdpDestroy
<1>9. CASE UdpThreadMain
  BY <1>9 DEF UdpThreadMain
<1>10. ASSUME NEW tardy \in BOOLEAN, StartReceive(tardy) PROVE UdpIInv'
  BY <1>10 DEF StartReceive
<1>11. CASE AsyncReceive
  BY <1>11 DEF AsyncReceive
<1>12. ASSUME NEW res \in {"data", "error"}, ReceiveCompletes(res) PROVE UdpIInv'
  BY <1>12 DEF ReceiveCompletes
<1>13. CASE HandleReceive
  BY <1>13 DEF HandleReceive
<1>14. ASSUME NEW ok \in BOOLEAN, Resolved(ok) PROVE UdpIInv'
  BY <1>14, ResolvedStep
<1>15. CASE SendPosted
  BY <1>15, SendPostedStep
<1>16. CASE UdpRunReturns
  BY <1>16, UdpRunReturnsStep
<1>17. CASE UNCHANGED udpVars
  BY <1>17 DEF udpVars
<1>18. QED
  BY <1>1, <1>2, <1>3, <1>4, <1>5, <1>6, <1>7, <1>8, <1>9, <1>10, <1>11, <1>12, <1>13,
     <1>14, <1>15, <1>16, <1>17 DEF UdpNext, UdpIo

\* The inductive invariant of CUdpSocket.
THEOREM UdpInductive == UdpSpec => []UdpIInv
BY UdpInitIInv, UdpNextIInv, PTL DEF UdpSpec

\* For any number of datagrams, sends and bindings: the receive loop survives every
\* error while the socket runs, nothing is out on a closed socket, a thread that has
\* ended has taken every datagram handed to it in time, and only a second binding
\* makes the destructor terminate the process.
THEOREM UdpInvHolds == UdpSpec => []UdpInv
<1>1. UdpIInv => UdpInv
  BY DEF UdpIInv
<1>2. QED
  BY UdpInductive, <1>1, PTL
(***************************************************************************)
(* CTcpClient.                                                             *)
(*                                                                         *)
(* ClientInv is not inductive.  One connect result needs to know that one  *)
(* resolve or connect at a time is on its way (OneChain) and that run() is *)
(* entered for the first Connect() only (ClientLife); the order of the     *)
(* stream needs to know how much of the pending output a queued write      *)
(* completion stands for (StreamAt).                                       *)
(***************************************************************************)
Tags == {"resolving", "connecting", "read", "write", "append", "closeio"}
Handlers == [do : Tags, arg : Nat]

\* The chain of a connect; what a connection queues; the completion of a write.
Chain == {"resolving", "connecting"}
Streaming == {"read", "write", "append"}
Writes == {"write"}

\* A handler of one of these kinds is queued; no two are.
Queued(q, D) == \E k \in 1 .. Len(q) : q[k].do \in D
Lone(q, D) == \A i, j \in 1 .. Len(q) : q[i].do \in D /\ q[j].do \in D => i = j

ClientTypeOK ==
    /\ client \in [running : BOOLEAN, connected : BOOLEAN, notified : BOOLEAN,
                   thread : {"none", "start", "run", "ended", "joined", "terminated"},
                   stopping : BOOLEAN, stage : {"none", "resolving", "connecting"}, socket : BOOLEAN,
                   reading : BOOLEAN, pending : Seq(Nat), inflight : Nat, moved : BOOLEAN, spent : BOOLEAN]
    /\ done \in Seq(Handlers)
    /\ heard \in [connects : Nat, refused : Nat, closes : Nat, reads : Nat, sends : Nat, calls : Nat,
                  taken : Seq(Nat), wire : Seq(Nat), closing : BOOLEAN, missed : BOOLEAN]

\* The thread, by the calls made: only the first Connect() enters run().
ClientLife ==
    /\ heard.calls <= 2
    /\ client.thread = "none" <=> heard.calls = 0
    /\ client.thread = "none" => ~client.running /\ ~client.spent
    /\ client.thread \in {"start", "run"} => client.running \/ client.stopping
    /\ client.thread = "run" => heard.calls = 1 /\ ~client.spent
    /\ client.thread \in {"ended", "joined"} => client.spent
    /\ client.thread = "start" /\ ~client.spent => heard.calls = 1
    /\ heard.calls = 2 => client.spent \/ client.thread = "terminated"
    /\ client.stopping => client.thread \in {"start", "run", "ended"}

\* The chain of resolve and connect has one link at a time, until its result.
OneChain ==
    /\ Lone(done, Chain)
    /\ client.stage # "none" => ~Queued(done, Chain) /\ client.thread = "run"
    /\ client.stage # "none" \/ Queued(done, Chain) => heard.connects = 0 /\ heard.refused = 0
    /\ client.thread = "none" \/ (client.thread = "start" /\ ~client.spent) =>
         client.stage = "none" /\ ~Queued(done, Chain) /\ heard.connects = 0 /\ heard.refused = 0
    /\ heard.connects = 0 \/ heard.refused = 0
    /\ heard.connects <= 1 /\ heard.refused <= 1

\* Without a connection nothing is read or written.
NothingBefore ==
    heard.connects = 0 =>
      /\ ~client.connected /\ ~client.reading /\ heard.reads = 0 /\ client.inflight = 0
      /\ ~Queued(done, Streaming)
      /\ client.pending = <<>> /\ heard.taken = <<>> /\ heard.wire = <<>>

\* The close callback.
ClosedOnce ==
    /\ heard.closes <= 1 /\ (heard.refused = 1 => heard.closes = 1)
    /\ heard.calls = 1 => (client.notified <=> heard.closes = 1)
    /\ heard.calls = 0 => heard.closes = 0 /\ ~client.notified

\* With w of the pending payloads on the wire: where wire and pending lie in what
\* AppendWrite took.
StreamAt(pending, taken, wire, w) ==
    /\ w <= Len(pending) /\ w <= Len(wire) /\ Len(taken) + w = Len(wire) + Len(pending)
    /\ \A i \in 1 .. Len(pending) : pending[i] = taken[(Len(taken) - Len(pending)) + i]
    /\ \A i \in 1 .. Len(wire) : wire[i] \in {0, taken[i]}

ClientStream ==
    /\ Lone(done, Writes)
    /\ client.inflight > 0 => ~Queued(done, Writes)
    /\ client.inflight > 0 \/ Queued(done, Writes) => client.pending # <<>>
    /\ client.inflight <= Len(client.pending)
    /\ ~Queued(done, Writes) => StreamAt(client.pending, heard.taken, heard.wire, 0)
    /\ \A k \in 1 .. Len(done) :
          done[k].do = "write" => StreamAt(client.pending, heard.taken, heard.wire, done[k].arg)
    /\ client.socket /\ client.pending # <<>> /\ ~client.notified /\ heard.calls = 1 =>
         client.inflight > 0 \/ Queued(done, Writes)

ClientIInv == ClientTypeOK /\ ClientLife /\ OneChain /\ NothingBefore /\ ClosedOnce /\ ClientStream
-------------------------------------------------------------------------------
\* What Append and Tail do to the queue.
QueuedOne(q, e, r) ==
    /\ r \in Seq(Handlers)
    /\ \A D \in {Chain, Streaming, Writes} :
          /\ Queued(r, D) <=> Queued(q, D) \/ e.do \in D
          /\ Lone(q, D) /\ (e.do \in D => ~Queued(q, D)) => Lone(r, D)
    /\ \A k \in 1 .. Len(r) : r[k] = e \/ \E j \in 1 .. Len(q) : r[k] = q[j]

CalledOne(q, r) ==
    /\ r \in Seq(Handlers)
    /\ \A D \in {Chain, Streaming, Writes} :
          /\ Queued(r, D) => Queued(q, D)
          /\ Head(q).do \notin D /\ Queued(q, D) => Queued(r, D)
          /\ Head(q).do \in D => Queued(q, D)
          /\ Lone(q, D) => Lone(r, D) /\ (Head(q).do \in D => ~Queued(r, D))
    /\ \A k \in 1 .. Len(r) : \E j \in 1 .. Len(q) : r[k] = q[j]
    /\ Head(q) \in Handlers /\ \E j \in 1 .. Len(q) : Head(q) = q[j]

\* A handler that is queued is there besides what was.
LEMMA QueueAppend ==
  ASSUME NEW q \in Seq(Handlers), NEW e \in Handlers
  PROVE QueuedOne(q, e, Append(q, e))
<1> DEFINE r == Append(q, e)
<1>1. r \in Seq(Handlers) /\ Len(r) = Len(q) + 1 /\ r[Len(q) + 1] = e /\ \A k \in 1 .. Len(q) : r[k] = q[k]
  OBVIOUS
<1> HIDE DEF r
<1>2. ASSUME NEW D PROVE /\ Queued(r, D) <=> Queued(q, D) \/ e.do \in D
                         /\ Lone(q, D) /\ (e.do \in D => ~Queued(q, D)) => Lone(r, D)
  BY <1>1 DEF Queued, Lone
<1>3. \A k \in 1 .. Len(r) : r[k] = e \/ \E j \in 1 .. Len(q) : r[k] = q[j]
  BY <1>1
<1> QED BY <1>1, <1>2, <1>3 DEF QueuedOne, r

\* A handler that is called is gone, and the others are left.
LEMMA QueueTail ==
  ASSUME NEW q \in Seq(Handlers), q # <<>>
  PROVE CalledOne(q, Tail(q))
<1> DEFINE r == Tail(q)
<1>1. r \in Seq(Handlers) /\ Len(r) = Len(q) - 1 /\ (\A k \in 1 .. Len(r) : r[k] = q[k + 1])
        /\ Head(q) = q[1] /\ Len(q) \in Nat \ {0} /\ Head(q) \in Handlers
  OBVIOUS
<1> HIDE DEF r
<1>2. ASSUME NEW D PROVE /\ Queued(r, D) => Queued(q, D)
                         /\ Head(q).do \notin D /\ Queued(q, D) => Queued(r, D)
                         /\ Head(q).do \in D => Queued(q, D)
                         /\ Lone(q, D) => Lone(r, D) /\ (Head(q).do \in D => ~Queued(r, D))
  <2>1. Queued(r, D) => Queued(q, D)
    BY <1>1 DEF Queued
  <2>2. ASSUME Head(q).do \notin D, Queued(q, D) PROVE Queued(r, D)
    <3>1. PICK k \in 1 .. Len(q) : q[k].do \in D
      BY <2>2 DEF Queued
    <3>2. k # 1 /\ k - 1 \in 1 .. Len(r) /\ r[k - 1] = q[k]
      BY <3>1, <2>2, <1>1
    <3> QED BY <3>1, <3>2 DEF Queued
  <2>3. Head(q).do \in D => Queued(q, D)
    BY <1>1 DEF Queued
  <2>4. Lone(q, D) => Lone(r, D) /\ (Head(q).do \in D => ~Queued(r, D))
    <3> SUFFICES ASSUME Lone(q, D) PROVE Lone(r, D) /\ (Head(q).do \in D => ~Queued(r, D))
      OBVIOUS
    <3>1. ASSUME NEW i \in 1 .. Len(r) PROVE i + 1 \in 1 .. Len(q) /\ i + 1 # 1 /\ r[i] = q[i + 1]
      BY <1>1
    <3>2. Lone(r, D)
      <4> SUFFICES ASSUME NEW i \in 1 .. Len(r), NEW j \in 1 .. Len(r), r[i].do \in D, r[j].do \in D PROVE i = j
        BY DEF Lone
      <4>1. i + 1 = j + 1
        BY <3>1 DEF Lone
      <4> QED BY <4>1
    <3>3. Head(q).do \in D => ~Queued(r, D)
      BY <3>1, <1>1 DEF Lone, Queued
    <3> QED BY <3>2, <3>3
  <2> QED BY <2>1, <2>2, <2>3, <2>4
<1>3. \A k \in 1 .. Len(r) : \E j \in 1 .. Len(q) : r[k] = q[j]
  BY <1>1
<1> QED BY <1>1, <1>2, <1>3 DEF CalledOne, r
\* Which kind of handler is of which class.
LEMMA TagClasses ==
  /\ "resolving" \in Chain /\ "connecting" \in Chain
  /\ "read" \notin Chain /\ "write" \notin Chain /\ "append" \notin Chain /\ "closeio" \notin Chain
  /\ "read" \in Streaming /\ "write" \in Streaming /\ "append" \in Streaming
  /\ "resolving" \notin Streaming /\ "connecting" \notin Streaming /\ "closeio" \notin Streaming
  /\ "write" \in Writes /\ \A t \in Tags \ {"write"} : t \notin Writes
BY DEF Chain, Streaming, Writes, Tags

\* A new CTcpClient satisfies the invariant.
LEMMA ClientInitIInv == ClientInit => ClientIInv
<1> SUFFICES ASSUME ClientInit PROVE ClientIInv
  OBVIOUS
<1> USE DEF ClientInit
<1>1. <<>> \in Seq(Nat) /\ <<>> \in Seq(Handlers)
  OBVIOUS
<1>2. ClientTypeOK
  BY <1>1 DEF ClientTypeOK
<1>3. \A D : ~Queued(done, D) /\ Lone(done, D)
  BY DEF Queued, Lone
<1>4. ClientLife /\ OneChain /\ NothingBefore /\ ClosedOnce
  BY <1>3 DEF ClientLife, OneChain, NothingBefore, ClosedOnce
<1>5. ClientStream
  BY <1>3 DEF ClientStream, StreamAt
<1> QED BY <1>2, <1>4, <1>5 DEF ClientIInv

\* What each part of the invariant depends on.
KeepsLife == UNCHANGED <<client.thread, client.running, client.spent, client.stopping, heard.calls>>
KeepsChain == UNCHANGED <<client.stage, client.thread, client.spent, heard.connects, heard.refused>>
KeepsBefore == UNCHANGED <<client.connected, client.reading, client.inflight, client.pending,
                           heard.connects, heard.reads, heard.taken, heard.wire>>
KeepsClosed == UNCHANGED <<client.notified, heard.closes, heard.refused, heard.calls>>
KeepsStream == UNCHANGED <<client.pending, client.inflight, client.socket, client.notified,
                           heard.calls, heard.taken, heard.wire>>
QueueKeeps(D) == Lone(done', D) /\ (Queued(done', D) <=> Queued(done, D))
WritesKept ==
    \A k \in 1 .. Len(done') : done'[k].do = "write" => \E j \in 1 .. Len(done) : done'[k] = done[j]

\* A step that keeps what a part depends on preserves that part.
LEMMA ClientFrames ==
  /\ ClientLife /\ KeepsLife => ClientLife'
  /\ OneChain /\ KeepsChain /\ QueueKeeps(Chain) => OneChain'
  /\ NothingBefore /\ KeepsBefore /\ (Queued(done', Streaming) => Queued(done, Streaming) \/ heard.connects # 0)
       => NothingBefore'
  /\ ClosedOnce /\ KeepsClosed => ClosedOnce'
  /\ ClientStream /\ KeepsStream /\ QueueKeeps(Writes) /\ WritesKept => ClientStream'
<1>1. ClientLife /\ KeepsLife => ClientLife'
  BY DEF ClientLife, KeepsLife
<1>2. OneChain /\ KeepsChain /\ QueueKeeps(Chain) => OneChain'
  BY DEF OneChain, KeepsChain, QueueKeeps
<1>3. NothingBefore /\ KeepsBefore /\ (Queued(done', Streaming) => Queued(done, Streaming) \/ heard.connects # 0)
        => NothingBefore'
  BY DEF NothingBefore, KeepsBefore
<1>4. ClosedOnce /\ KeepsClosed => ClosedOnce'
  BY DEF ClosedOnce, KeepsClosed
<1>5. ClientStream /\ KeepsStream /\ QueueKeeps(Writes) /\ WritesKept => ClientStream'
  BY DEF ClientStream, KeepsStream, QueueKeeps, WritesKept
<1> QED BY <1>1, <1>2, <1>3, <1>4, <1>5

\* The queue unchanged, with one handler more, or with one less.
LEMMA QueueFrames ==
  ASSUME ClientIInv
  PROVE /\ done' = done => QueueKeeps(Chain) /\ QueueKeeps(Writes) /\ WritesKept /\ (Queued(done', Streaming) <=> Queued(done, Streaming))
        /\ \A e \in Handlers : done' = Append(done, e) =>
             /\ done' \in Seq(Handlers)
             /\ e.do \notin Chain => QueueKeeps(Chain)
             /\ e.do # "write" => QueueKeeps(Writes) /\ WritesKept
             /\ e.do \notin Streaming => (Queued(done', Streaming) <=> Queued(done, Streaming))
             /\ QueuedOne(done, e, done')
        /\ done # <<>> /\ done' = Tail(done) =>
             /\ done' \in Seq(Handlers)
             /\ Head(done).do \notin Chain => QueueKeeps(Chain)
             /\ Head(done).do # "write" => QueueKeeps(Writes)
             /\ WritesKept
             /\ Queued(done', Streaming) => Queued(done, Streaming)
             /\ CalledOne(done, done')
<1> USE DEF ClientIInv
<1>1. done \in Seq(Handlers) /\ Lone(done, Chain) /\ Lone(done, Writes)
  BY DEF ClientTypeOK, OneChain, ClientStream
<1>2. ASSUME done' = done
      PROVE QueueKeeps(Chain) /\ QueueKeeps(Writes) /\ WritesKept /\ (Queued(done', Streaming) <=> Queued(done, Streaming))
  BY <1>1, <1>2 DEF QueueKeeps, WritesKept
<1>3. ASSUME NEW e \in Handlers, done' = Append(done, e)
      PROVE /\ done' \in Seq(Handlers)
            /\ e.do \notin Chain => QueueKeeps(Chain)
            /\ e.do # "write" => QueueKeeps(Writes) /\ WritesKept
            /\ e.do \notin Streaming => (Queued(done', Streaming) <=> Queued(done, Streaming))
            /\ QueuedOne(done, e, done')
  <2>1. QueuedOne(done, e, done')
    BY <1>1, <1>3, QueueAppend
  <2>2. e.do # "write" => e.do \notin Writes
    BY TagClasses DEF Handlers
  <2> QED BY <1>1, <2>1, <2>2 DEF QueuedOne, QueueKeeps, WritesKept
<1>4. ASSUME done # <<>>, done' = Tail(done)
      PROVE /\ done' \in Seq(Handlers)
            /\ Head(done).do \notin Chain => QueueKeeps(Chain)
            /\ Head(done).do # "write" => QueueKeeps(Writes)
            /\ WritesKept
            /\ Queued(done', Streaming) => Queued(done, Streaming)
            /\ CalledOne(done, done')
  <2>1. CalledOne(done, done')
    BY <1>1, <1>4, QueueTail
  <2>2. Head(done).do # "write" => Head(done).do \notin Writes
    BY <2>1, TagClasses DEF CalledOne, Handlers
  <2> QED BY <1>1, <2>1, <2>2 DEF CalledOne, QueueKeeps, WritesKept
<1> QED BY <1>2, <1>3, <1>4

\* Connect: the object starts its thread, or terminates the process.
LEMMA ConnectStep == ASSUME ClientIInv, Connect PROVE ClientIInv'
<1> USE DEF ClientIInv
<1>1. PICK n \in Nat : n = heard.calls + 1
  BY DEF ClientTypeOK
<1>2. /\ heard' = [heard EXCEPT !.calls = n] /\ n \in {1, 2} /\ done' = done
      /\ client' = [client EXCEPT !.running = TRUE, !.connected = FALSE, !.notified = FALSE,
                    !.thread = IF @ \in {"none", "joined"} THEN "start" ELSE "terminated"]
      /\ ~client.running /\ ~client.stopping /\ client.thread # "terminated"
  BY <1>1 DEF Connect, ClientTypeOK
<1>3. ClientTypeOK'
  BY <1>2 DEF ClientTypeOK
<1>4. client.thread \in {"none", "ended", "joined"} /\ (client.thread = "none" <=> n = 1)
  BY <1>1, <1>2 DEF ClientTypeOK, ClientLife
<1>5. /\ client'.running /\ ~client'.connected /\ ~client'.notified /\ heard'.calls = n
      /\ client'.thread = (IF client.thread \in {"none", "joined"} THEN "start" ELSE "terminated")
      /\ UNCHANGED <<client.spent, client.stopping, client.stage, heard.connects, heard.refused, client.reading,
                     client.inflight, client.pending, client.socket, heard.reads, heard.taken, heard.wire, heard.closes>>
  BY <1>2 DEF ClientTypeOK
<1> HIDE <1>2
<1>6. ClientLife'
  BY <1>1, <1>2, <1>4, <1>5 DEF ClientLife
<1>7. OneChain'
  BY <1>2, <1>4, <1>5 DEF ClientLife, OneChain
<1>8. NothingBefore'
  BY <1>2, <1>5 DEF NothingBefore
<1>9. ClosedOnce'
  <2>1. n = 1 => heard.calls = 0
    BY <1>1 DEF ClientTypeOK
  <2> QED BY <1>2, <1>5, <2>1 DEF ClosedOnce
<1>10. ClientStream'
  <2>1. n = 1 => client.pending = <<>>
    BY <1>4 DEF OneChain, NothingBefore
  <2> QED BY <1>2, <1>5, <2>1 DEF ClientStream
<1> QED BY <1>3, <1>6, <1>7, <1>8, <1>9, <1>10

\* The thread begins, or finds the io_context spent; run() returns; Stop() has
\* joined; nothing moves.
LEMMA ClientThreadStep ==
  ASSUME ClientIInv, ClientThreadMain \/ ClientRunReturns \/ ClientStopJoin \/ UNCHANGED clientVars PROVE ClientIInv'
<1> USE DEF ClientIInv
<1>1. done' = done /\ heard' = heard
  BY DEF ClientThreadMain, ClientRunReturns, ClientStopJoin, clientVars
<1>2. \/ client' = client
      \/ client' = [client EXCEPT !.thread = "ended", !.running = FALSE] /\ client.thread = "start" /\ client.spent
      \/ client' = [client EXCEPT !.thread = "run", !.stage = "resolving"] /\ client.thread = "start" /\ ~client.spent
      \/ /\ client' = [client EXCEPT !.thread = "ended", !.running = FALSE, !.spent = TRUE]
         /\ client.thread = "run" /\ client.stage = "none"
      \/ client' = [client EXCEPT !.stopping = FALSE, !.thread = "joined"] /\ client.thread = "ended"
  BY DEF ClientThreadMain, ClientRunReturns, ClientStopJoin, clientVars
<1>3. ClientTypeOK'
  BY <1>1, <1>2, ZenonT(40) DEF ClientTypeOK
<1>4. KeepsBefore /\ KeepsClosed /\ KeepsStream
  BY <1>1, <1>2, ZenonT(40) DEF ClientTypeOK, KeepsBefore, KeepsClosed, KeepsStream
<1>5. NothingBefore' /\ ClosedOnce' /\ ClientStream'
  BY <1>1, <1>4, ClientFrames, QueueFrames
<1>6. ClientLife' /\ OneChain'
  <2>1. CASE client' = client
    BY <2>1, <1>1 DEF ClientLife, OneChain
  <2>2. CASE client' = [client EXCEPT !.thread = "ended", !.running = FALSE] /\ client.thread = "start" /\ client.spent
    BY <2>2, <1>1 DEF ClientTypeOK, ClientLife, OneChain
  <2>3. CASE client' = [client EXCEPT !.thread = "run", !.stage = "resolving"] /\ client.thread = "start" /\ ~client.spent
    BY <2>3, <1>1 DEF ClientTypeOK, ClientLife, OneChain
  <2>4. CASE /\ client' = [client EXCEPT !.thread = "ended", !.running = FALSE, !.spent = TRUE]
             /\ client.thread = "run" /\ client.stage = "none"
    BY <2>4, <1>1 DEF ClientTypeOK, ClientLife, OneChain
  <2>5. CASE client' = [client EXCEPT !.stopping = FALSE, !.thread = "joined"] /\ client.thread = "ended"
    BY <2>5, <1>1 DEF ClientTypeOK, ClientLife, OneChain
  <2> QED BY <1>2, <2>1, <2>2, <2>3, <2>4, <2>5
<1> QED BY <1>3, <1>5, <1>6

\* A resolve or a connect ends.
LEMMA StageEndsStep == ASSUME ClientIInv, NEW ok \in BOOLEAN, StageEnds(ok) PROVE ClientIInv'
<1> USE DEF ClientIInv
<1> DEFINE e == [do |-> client.stage, arg |-> IF ok THEN 1 ELSE 0]
<1>1. e \in Handlers /\ e.do = client.stage /\ e.do \in {"resolving", "connecting"} /\ client.stage # "none"
        /\ client.thread = "run"
  BY DEF StageEnds, ClientTypeOK, Handlers, Tags
<1>2. done' = Append(done, e) /\ heard' = heard /\ client' = [client EXCEPT !.stage = "none"]
  BY DEF StageEnds, Did
<1> HIDE DEF e
<1>3. e.do \in Chain /\ e.do \notin Streaming /\ e.do # "write"
  BY <1>1, TagClasses
<1>4. ClientTypeOK'
  BY <1>1, <1>2, QueueFrames DEF ClientTypeOK
<1>5. KeepsLife /\ KeepsBefore /\ KeepsClosed /\ KeepsStream
  BY <1>2 DEF ClientTypeOK, KeepsLife, KeepsBefore, KeepsClosed, KeepsStream
<1>6. ClientLife' /\ NothingBefore' /\ ClosedOnce' /\ ClientStream'
  BY <1>1, <1>2, <1>3, <1>5, ClientFrames, QueueFrames
<1>7. QueuedOne(done, e, done')
  BY <1>1, <1>2, QueueFrames
<1>8. client'.stage = "none" /\ UNCHANGED <<client.thread, client.spent, heard.connects, heard.refused>>
  BY <1>2 DEF ClientTypeOK
<1>9. Lone(done', Chain) /\ Queued(done', Chain)
  BY <1>1, <1>3, <1>7 DEF QueuedOne, OneChain
<1>10. OneChain'
  BY <1>1, <1>8, <1>9 DEF OneChain
<1> QED BY <1>4, <1>6, <1>10
\* A read completes.
LEMMA ClientReadReadyStep == ASSUME ClientIInv, NEW res \in {0, 1}, ClientReadReady(res) PROVE ClientIInv'
<1> USE DEF ClientIInv
<1> DEFINE e == [do |-> "read", arg |-> res]
<1>1. e \in Handlers /\ e.do = "read"
  BY DEF Handlers, Tags
<1>2. done' = Append(done, e) /\ heard' = heard /\ client' = [client EXCEPT !.reading = FALSE] /\ client.reading
  BY DEF ClientReadReady, Did
<1> HIDE DEF e
<1>3. ClientTypeOK'
  BY <1>1, <1>2, QueueFrames DEF ClientTypeOK
<1>4. KeepsLife /\ KeepsChain /\ KeepsClosed /\ KeepsStream
  BY <1>2 DEF ClientTypeOK, KeepsLife, KeepsChain, KeepsClosed, KeepsStream
<1>5. ClientLife' /\ OneChain' /\ ClosedOnce' /\ ClientStream'
  BY <1>1, <1>2, <1>4, TagClasses, ClientFrames, QueueFrames
<1>6. heard.connects # 0
  BY <1>2 DEF NothingBefore
<1> QED BY <1>2, <1>3, <1>5, <1>6 DEF NothingBefore

\* Send, while the client is connected.
LEMMA ClientSendStep == ASSUME ClientIInv, ClientSend PROVE ClientIInv'
<1> USE DEF ClientIInv
<1>1. PICK n \in Nat : n = heard.sends + 1
  BY DEF ClientTypeOK
<1> DEFINE e == [do |-> "append", arg |-> n]
<1>2. e \in Handlers /\ e.do = "append"
  BY DEF Handlers, Tags
<1>3. done' = Append(done, e) /\ heard' = [heard EXCEPT !.sends = n] /\ client' = client /\ client.connected
  BY <1>1 DEF ClientSend, Did
<1> HIDE DEF e
<1>4. ClientTypeOK'
  <2>1. done' \in Seq(Handlers)
    BY <1>2, <1>3, QueueFrames
  <2> QED BY <1>3, <2>1, ZenonT(40) DEF ClientTypeOK
<1>5. KeepsLife /\ KeepsChain /\ KeepsBefore /\ KeepsClosed /\ KeepsStream
  BY <1>3 DEF ClientTypeOK, KeepsLife, KeepsChain, KeepsBefore, KeepsClosed, KeepsStream
<1>6. heard.connects # 0
  BY <1>3 DEF NothingBefore
<1>7. ClientLife' /\ OneChain' /\ NothingBefore' /\ ClosedOnce' /\ ClientStream'
  BY <1>2, <1>3, <1>5, <1>6, TagClasses, ClientFrames, QueueFrames
<1> QED BY <1>4, <1>7

\* Close and Stop post the close of the socket.
LEMMA ClientCloseStep == ASSUME ClientIInv, ClientClose \/ ClientStop PROVE ClientIInv'
<1> USE DEF ClientIInv
<1> DEFINE e == [do |-> "closeio", arg |-> 0]
<1>1. e \in Handlers /\ e.do = "closeio"
  BY DEF Handlers, Tags
<1>2. /\ done' = done \/ done' = Append(done, e)
      /\ heard' = heard \/ heard' = [heard EXCEPT !.closing = TRUE]
      /\ \/ client' = client
         \/ /\ client' = [client EXCEPT !.running = FALSE, !.stopping = TRUE]
            /\ client.thread \in {"start", "run", "ended"}
  BY DEF ClientClose, ClientStop, Did
<1> HIDE DEF e
<1>3. ClientTypeOK'
  BY <1>1, <1>2, QueueFrames DEF ClientTypeOK
<1>4. KeepsChain /\ KeepsBefore /\ KeepsClosed /\ KeepsStream
  BY <1>2 DEF ClientTypeOK, KeepsChain, KeepsBefore, KeepsClosed, KeepsStream
<1>5. OneChain' /\ NothingBefore' /\ ClosedOnce' /\ ClientStream'
  BY <1>1, <1>2, <1>4, TagClasses, ClientFrames, QueueFrames
<1>6. UNCHANGED <<client.thread, client.spent, heard.calls>>
  BY <1>2 DEF ClientTypeOK
<1>7. CASE client' = client
  BY <1>3, <1>5, <1>6, <1>7 DEF ClientLife
<1>8. CASE client' = [client EXCEPT !.running = FALSE, !.stopping = TRUE] /\ client.thread \in {"start", "run", "ended"}
  <2>1. ~client'.running /\ client'.stopping
    BY <1>8 DEF ClientTypeOK
  <2> QED BY <1>3, <1>5, <1>6, <1>8, <2>1 DEF ClientLife
<1> QED BY <1>2, <1>3, <1>5, <1>7, <1>8

\* A resolve or a connect fails, by its result or because the socket was closed.
LEMMA ClientFailedStep ==
  ASSUME ClientIInv, client.thread = "run", done # <<>>, Head(done).do \in Chain, done' = Tail(done), ConnectFailed
  PROVE ClientIInv'
<1> USE DEF ClientIInv
<1>1. CalledOne(done, done') /\ done' \in Seq(Handlers) /\ Head(done).do # "write"
  BY QueueFrames DEF Chain
<1>2. Queued(done, Chain) /\ ~Queued(done', Chain) /\ Lone(done', Chain)
  BY <1>1 DEF CalledOne, OneChain
<1>3. /\ heard.connects = 0 /\ heard.refused = 0 /\ client.stage = "none" /\ heard.calls = 1
      /\ (heard.closes = 0 /\ ~client.notified) \/ (heard.closes = 1 /\ client.notified)
  BY <1>2 DEF OneChain, ClientLife, ClosedOnce, ClientTypeOK
<1>4. heard' = [heard EXCEPT !.refused = 1, !.closes = 1] /\ client' = [client EXCEPT !.notified = TRUE]
  <2> DEFINE h == [heard EXCEPT !.refused = 1]
  <2>1. [heard EXCEPT !.refused = @ + 1] = h
    BY <1>3
  <2>2. h \in [connects : Nat, refused : Nat, closes : Nat, reads : Nat, sends : Nat, calls : Nat,
               taken : Seq(Nat), wire : Seq(Nat), closing : BOOLEAN, missed : BOOLEAN] /\ h.closes = heard.closes
    BY DEF ClientTypeOK
  <2>3. heard' = IF client.notified THEN h ELSE [h EXCEPT !.closes = @ + 1]
    BY <2>1 DEF ConnectFailed, NotifyClose
  <2> HIDE DEF h
  <2>4. heard' = [h EXCEPT !.closes = 1]
    BY <1>3, <2>2, <2>3
  <2> QED BY <2>4 DEF ConnectFailed, h
<1>5. ClientTypeOK'
  BY <1>1, <1>4 DEF ClientTypeOK
<1>6. KeepsLife /\ KeepsBefore
  BY <1>4 DEF ClientTypeOK, KeepsLife, KeepsBefore
<1>7. ClientLife' /\ NothingBefore'
  BY <1>6, QueueFrames, ClientFrames
<1>8. /\ client'.notified /\ heard'.refused = 1 /\ heard'.closes = 1
      /\ UNCHANGED <<client.stage, client.thread, client.spent, client.pending, client.inflight,
                     heard.connects, heard.calls, heard.taken, heard.wire>>
  BY <1>4 DEF ClientTypeOK
<1>9. OneChain'
  BY <1>2, <1>3, <1>8 DEF OneChain
<1>10. ClosedOnce'
  BY <1>3, <1>8 DEF ClosedOnce
<1>11. ClientStream'
  <2>1. QueueKeeps(Writes) /\ WritesKept
    BY <1>1, QueueFrames
  <2> QED BY <1>8, <2>1 DEF ClientStream, QueueKeeps, WritesKept
<1> QED BY <1>5, <1>7, <1>9, <1>10, <1>11

\* A name is resolved and the connect begins, or the resolve has failed.
LEMMA OnResolveStep == ASSUME ClientIInv, OnResolve PROVE ClientIInv'
<1> USE DEF ClientIInv
<1>1. /\ client.thread = "run" /\ done # <<>> /\ Head(done).do = "resolving" /\ done' = Tail(done)
      /\ ConnectFailed \/ (client' = [client EXCEPT !.stage = "connecting", !.socket = TRUE] /\ heard' = heard)
  BY DEF OnResolve, ClientThread
<1>2. CASE ConnectFailed
  BY <1>1, <1>2, TagClasses, ClientFailedStep
<1>3. CASE client' = [client EXCEPT !.stage = "connecting", !.socket = TRUE] /\ heard' = heard
  <2>1. CalledOne(done, done') /\ done' \in Seq(Handlers) /\ Head(done).do # "write" /\ Head(done).do \in Chain
    BY <1>1, QueueFrames, TagClasses
  <2>2. Queued(done, Chain) /\ ~Queued(done', Chain) /\ Lone(done', Chain)
    BY <2>1 DEF CalledOne, OneChain
  <2>3. heard.connects = 0 /\ heard.refused = 0 /\ client.stage = "none" /\ client.pending = <<>>
    BY <2>2 DEF OneChain, NothingBefore
  <2>4. ClientTypeOK'
    BY <1>3, <2>1 DEF ClientTypeOK
  <2>5. KeepsLife /\ KeepsBefore /\ KeepsClosed
    BY <1>3 DEF ClientTypeOK, KeepsLife, KeepsBefore, KeepsClosed
  <2>6. ClientLife' /\ NothingBefore' /\ ClosedOnce'
    BY <1>1, <2>5, QueueFrames, ClientFrames
  <2>7. client'.stage = "connecting" /\ UNCHANGED <<client.thread, client.spent, client.pending, client.inflight, heard>>
    BY <1>3 DEF ClientTypeOK
  <2>8. OneChain'
    BY <1>1, <2>2, <2>3, <2>7 DEF OneChain
  <2>9. ClientStream'
    <3>1. QueueKeeps(Writes) /\ WritesKept
      BY <1>1, <2>1, QueueFrames
    <3> QED BY <2>3, <2>7, <3>1 DEF ClientStream, QueueKeeps, WritesKept
  <2> QED BY <2>4, <2>6, <2>8, <2>9
<1> QED BY <1>1, <1>2, <1>3

\* The connection is made.
LEMMA HandleConnectStep == ASSUME ClientIInv, HandleConnect PROVE ClientIInv'
<1> USE DEF ClientIInv
<1>1. PICK n \in Nat : n = heard.connects + 1
  BY DEF ClientTypeOK
<1>2. /\ client.thread = "run" /\ done # <<>> /\ Head(done).do = "connecting" /\ done' = Tail(done)
      /\ \/ ConnectFailed
         \/ /\ client' = [client EXCEPT !.connected = TRUE, !.reading = TRUE]
            /\ heard' = [heard EXCEPT !.connects = n]
  BY <1>1 DEF HandleConnect, ClientThread
<1>3. CASE ConnectFailed
  BY <1>2, <1>3, TagClasses, ClientFailedStep
<1>4. CASE client' = [client EXCEPT !.connected = TRUE, !.reading = TRUE] /\ heard' = [heard EXCEPT !.connects = n]
  <2>1. CalledOne(done, done') /\ done' \in Seq(Handlers) /\ Head(done).do # "write" /\ Head(done).do \in Chain
    BY <1>2, QueueFrames, TagClasses
  <2>2. Queued(done, Chain) /\ ~Queued(done', Chain) /\ Lone(done', Chain)
    BY <2>1 DEF CalledOne, OneChain
  <2>3. heard.refused = 0 /\ n = 1 /\ client.stage = "none"
    BY <1>1, <2>2 DEF OneChain
  <2>4. ClientTypeOK'
    BY <1>4, <2>1 DEF ClientTypeOK
  <2>5. KeepsLife /\ KeepsClosed /\ KeepsStream
    BY <1>4 DEF ClientTypeOK, KeepsLife, KeepsClosed, KeepsStream
  <2>6. ClientLife' /\ ClosedOnce' /\ ClientStream'
    BY <1>2, <2>1, <2>5, QueueFrames, ClientFrames
  <2>7. heard'.connects = 1 /\ UNCHANGED <<client.stage, client.thread, client.spent, heard.refused>>
    BY <1>4, <2>3 DEF ClientTypeOK
  <2>8. OneChain' /\ NothingBefore'
    BY <1>2, <2>2, <2>3, <2>7 DEF OneChain, NothingBefore
  <2> QED BY <2>4, <2>6, <2>8
<1> QED BY <1>2, <1>3, <1>4
-------------------------------------------------------------------------------
\* AppendWrite adds to what is pending what it takes.
LEMMA StreamAppended ==
  ASSUME NEW pend \in Seq(Nat), NEW taken \in Seq(Nat), NEW wire \in Seq(Nat), NEW w \in Nat, NEW x \in Nat,
         StreamAt(pend, taken, wire, w)
  PROVE StreamAt(Append(pend, x), Append(taken, x), wire, w)
<1> DEFINE p2 == Append(pend, x)  t2 == Append(taken, x)
<1>1. /\ p2 \in Seq(Nat) /\ Len(p2) = Len(pend) + 1 /\ p2[Len(pend) + 1] = x /\ \A i \in 1 .. Len(pend) : p2[i] = pend[i]
      /\ t2 \in Seq(Nat) /\ Len(t2) = Len(taken) + 1 /\ t2[Len(taken) + 1] = x /\ \A i \in 1 .. Len(taken) : t2[i] = taken[i]
      /\ Len(pend) \in Nat /\ Len(taken) \in Nat /\ Len(wire) \in Nat
  OBVIOUS
<1> HIDE DEF p2, t2
<1>2. /\ w <= Len(pend) /\ w <= Len(wire) /\ Len(taken) + w = Len(wire) + Len(pend)
      /\ \A i \in 1 .. Len(pend) : pend[i] = taken[(Len(taken) - Len(pend)) + i]
      /\ \A i \in 1 .. Len(wire) : wire[i] \in {0, taken[i]}
  BY DEF StreamAt
<1>3. \A i \in 1 .. Len(p2) : p2[i] = t2[(Len(t2) - Len(p2)) + i]
  <2> SUFFICES ASSUME NEW i \in 1 .. Len(p2) PROVE p2[i] = t2[(Len(t2) - Len(p2)) + i]
    OBVIOUS
  <2>1. CASE i = Len(pend) + 1
    BY <1>1, <1>2, <2>1
  <2>2. CASE i \in 1 .. Len(pend)
    <3>1. (Len(taken) - Len(pend)) + i \in 1 .. Len(taken) /\ (Len(t2) - Len(p2)) + i = (Len(taken) - Len(pend)) + i
      BY <1>1, <1>2, <2>2
    <3> QED BY <1>1, <1>2, <2>2, <3>1
  <2> QED BY <1>1, <2>1, <2>2
<1>4. \A i \in 1 .. Len(wire) : wire[i] \in {0, t2[i]}
  <2>1. Len(wire) <= Len(taken)
    BY <1>1, <1>2
  <2>2. \A i \in 1 .. Len(wire) : i \in 1 .. Len(taken)
    BY <1>1, <2>1
  <2> QED BY <1>1, <1>2, <2>2
<1>5. w <= Len(p2) /\ w <= Len(wire) /\ Len(t2) + w = Len(wire) + Len(p2)
  BY <1>1, <1>2
<1>6. StreamAt(p2, t2, wire, w)
  BY <1>3, <1>4, <1>5 DEF StreamAt
<1> QED BY <1>6 DEF p2, t2

\* The socket takes n payloads of the outstanding write, or garbage.
LEMMA StreamWritten ==
  ASSUME NEW pend \in Seq(Nat), NEW taken \in Seq(Nat), NEW wire \in Seq(Nat), NEW n \in Nat, NEW moved \in BOOLEAN,
         StreamAt(pend, taken, wire, 0), n <= Len(pend)
  PROVE LET w2 == wire \o IF moved THEN [k \in 1 .. n |-> 0] ELSE SubSeq(pend, 1, n)
        IN  w2 \in Seq(Nat) /\ StreamAt(pend, taken, w2, n)
<1> DEFINE g == IF moved THEN [k \in 1 .. n |-> 0] ELSE SubSeq(pend, 1, n)
           w2 == wire \o g
<1>1. g \in Seq(Nat) /\ Len(g) = n /\ \A i \in 1 .. n : g[i] \in {0, pend[i]}
  <2>1. [k \in 1 .. n |-> 0] \in Seq(Nat) /\ Len([k \in 1 .. n |-> 0]) = n
    BY IsASeq
  <2>2. /\ SubSeq(pend, 1, n) \in Seq(Nat) /\ Len(SubSeq(pend, 1, n)) = n
        /\ \A i \in 1 .. n : SubSeq(pend, 1, n)[i] = pend[i]
    OBVIOUS
  <2> QED BY <2>1, <2>2
<1> HIDE DEF g
<1>2. /\ w2 \in Seq(Nat) /\ Len(w2) = Len(wire) + n /\ (\A i \in 1 .. Len(wire) : w2[i] = wire[i])
      /\ \A i \in 1 .. n : w2[Len(wire) + i] = g[i]
  BY <1>1
<1> HIDE DEF w2
<1>3. /\ Len(taken) = Len(wire) + Len(pend)
      /\ \A i \in 1 .. Len(pend) : pend[i] = taken[(Len(taken) - Len(pend)) + i]
      /\ \A i \in 1 .. Len(wire) : wire[i] \in {0, taken[i]}
      /\ Len(pend) \in Nat /\ Len(taken) \in Nat /\ Len(wire) \in Nat
  BY DEF StreamAt
<1>4. \A i \in 1 .. Len(w2) : w2[i] \in {0, taken[i]}
  <2> SUFFICES ASSUME NEW i \in 1 .. Len(w2) PROVE w2[i] \in {0, taken[i]}
    OBVIOUS
  <2>1. CASE i \in 1 .. Len(wire)
    BY <1>2, <1>3, <2>1
  <2>2. CASE i > Len(wire)
    <3>1. PICK j \in 1 .. n : i = Len(wire) + j
      <4>1. PICK m \in Nat : m = Len(wire)
        BY <1>3
      <4>2. i \in Nat /\ i <= m + n /\ i > m
        BY <1>2, <2>2, <4>1
      <4>3. i - m \in 1 .. n /\ i = m + (i - m)
        BY <4>2
      <4> QED BY <4>1, <4>3
    <3>2. w2[i] \in {0, pend[j]}
      BY <1>1, <1>2, <3>1
    <3>3. pend[j] = taken[i]
      BY <1>3, <3>1
    <3> QED BY <3>2, <3>3
  <2> QED BY <1>2, <1>3, <2>1, <2>2
<1>5. StreamAt(pend, taken, w2, n)
  BY <1>2, <1>3, <1>4 DEF StreamAt
<1> QED BY <1>2, <1>5 DEF g, w2

\* The handler of the write drops from the pending output what is on the wire.
LEMMA StreamHandled ==
  ASSUME NEW pend \in Seq(Nat), NEW taken \in Seq(Nat), NEW wire \in Seq(Nat), NEW w \in Nat,
         StreamAt(pend, taken, wire, w)
  PROVE LET left == SubSeq(pend, w + 1, Len(pend))
        IN  left \in Seq(Nat) /\ StreamAt(left, taken, wire, 0)
<1> DEFINE left == SubSeq(pend, w + 1, Len(pend))
<1>1. /\ w <= Len(pend) /\ w <= Len(wire) /\ Len(taken) + w = Len(wire) + Len(pend)
      /\ \A i \in 1 .. Len(pend) : pend[i] = taken[(Len(taken) - Len(pend)) + i]
      /\ \A i \in 1 .. Len(wire) : wire[i] \in {0, taken[i]}
      /\ Len(pend) \in Nat /\ Len(taken) \in Nat /\ Len(wire) \in Nat
  BY DEF StreamAt
<1>2. left \in Seq(Nat) /\ Len(left) = Len(pend) - w /\ \A i \in 1 .. Len(left) : left[i] = pend[w + i]
  BY <1>1
<1> HIDE DEF left
<1>3. \A i \in 1 .. Len(left) : left[i] = taken[(Len(taken) - Len(left)) + i]
  <2> SUFFICES ASSUME NEW i \in 1 .. Len(left) PROVE left[i] = taken[(Len(taken) - Len(left)) + i]
    OBVIOUS
  <2>1. w + i \in 1 .. Len(pend) /\ (Len(taken) - Len(pend)) + (w + i) = (Len(taken) - Len(left)) + i
    BY <1>1, <1>2
  <2>2. pend[w + i] = taken[(Len(taken) - Len(pend)) + (w + i)]
    BY <1>1, <2>1
  <2> QED BY <1>2, <2>1, <2>2
<1>4. StreamAt(left, taken, wire, 0)
  BY <1>1, <1>2, <1>3 DEF StreamAt
<1> QED BY <1>2, <1>4 DEF left

\* What StreamAt says of the stream, in the words of the property.
LEMMA StreamIsInOrder ==
  ASSUME NEW pend \in Seq(Nat), NEW taken \in Seq(Nat), NEW wire \in Seq(Nat), NEW w \in Nat,
         StreamAt(pend, taken, wire, w)
  PROVE /\ 0 \notin Range(wire) => IsPrefix(wire, taken)
        /\ IsSuffix(pend, taken)
        /\ Len(wire) <= Len(taken) /\ Len(taken) <= Len(wire) + Len(pend)
<1>1. /\ w <= Len(pend) /\ w <= Len(wire) /\ Len(taken) + w = Len(wire) + Len(pend)
      /\ \A i \in 1 .. Len(pend) : pend[i] = taken[(Len(taken) - Len(pend)) + i]
      /\ \A i \in 1 .. Len(wire) : wire[i] \in {0, taken[i]}
      /\ Len(pend) \in Nat /\ Len(taken) \in Nat /\ Len(wire) \in Nat
  BY DEF StreamAt
<1>2. Len(wire) <= Len(taken) /\ Len(taken) <= Len(wire) + Len(pend)
  BY <1>1
<1>3. ASSUME 0 \notin Range(wire) PROVE IsPrefix(wire, taken)
  <2>1. \A i \in 1 .. Len(wire) : wire[i] # 0
    BY <1>3 DEF Range
  <2>2. SubSeq(wire, 1, Len(wire)) = SubSeq(taken, 1, Len(wire))
    BY <1>1, <1>2, <2>1
  <2> QED BY <1>2, <2>2 DEF IsPrefix
<1>4. IsSuffix(pend, taken)
  <2> DEFINE rp == Reverse(pend)  rt == Reverse(taken)
  <2>0. Len(pend) <= Len(taken)
    BY <1>1
  <2>1. rp \in Seq(Nat) /\ Len(rp) = Len(pend) /\ \A i \in 1 .. Len(pend) : rp[i] = pend[(Len(pend) - i) + 1]
    BY <1>1 DEF Reverse
  <2>2. rt \in Seq(Nat) /\ Len(rt) = Len(taken) /\ \A i \in 1 .. Len(taken) : rt[i] = taken[(Len(taken) - i) + 1]
    BY <1>1 DEF Reverse
  <2> HIDE DEF rp, rt
  <2>3. \A i \in 1 .. Len(pend) : rp[i] = rt[i]
    <3> SUFFICES ASSUME NEW i \in 1 .. Len(pend) PROVE rp[i] = rt[i]
      OBVIOUS
    <3>1. (Len(pend) - i) + 1 \in 1 .. Len(pend)
      BY <1>1
    <3>2. pend[(Len(pend) - i) + 1] = taken[(Len(taken) - Len(pend)) + ((Len(pend) - i) + 1)]
      BY <1>1, <3>1
    <3>3. (Len(taken) - Len(pend)) + ((Len(pend) - i) + 1) = (Len(taken) - i) + 1 /\ i \in 1 .. Len(taken)
      BY <1>1, <2>0
    <3> QED BY <2>1, <2>2, <3>2, <3>3
  <2>4. SubSeq(rp, 1, Len(rp)) = SubSeq(rt, 1, Len(rp))
    BY <1>1, <2>0, <2>1, <2>2, <2>3
  <2> QED BY <2>0, <2>1, <2>2, <2>4 DEF IsSuffix, IsPrefix, rp, rt
<1> QED BY <1>2, <1>3, <1>4
-------------------------------------------------------------------------------
\* The peer is gone while the connection lives: the application is told once.
LEMMA LostPeerStep ==
  ASSUME ClientIInv, done' \in Seq(Handlers), QueueKeeps(Chain), QueueKeeps(Writes), WritesKept,
         heard.connects # 0, heard.calls = 1, LostPeer
  PROVE ClientIInv'
<1> USE DEF ClientIInv
<1>1. (heard.closes = 0 /\ ~client.notified) \/ (heard.closes = 1 /\ client.notified)
  BY DEF ClosedOnce, ClientTypeOK
<1>2. heard' = [heard EXCEPT !.closes = 1] /\ client' = [client EXCEPT !.notified = TRUE]
  <2>1. CASE client.notified
    BY <1>1, <2>1 DEF LostPeer, NotifyClose, ClientTypeOK
  <2>2. CASE ~client.notified
    <3>1. PICK n \in Nat : n = heard.closes + 1 /\ n = 1
      BY <1>1, <2>2
    <3>2. heard' = [heard EXCEPT !.closes = n]
      BY <2>2, <3>1 DEF LostPeer, NotifyClose
    <3> QED BY <3>1, <3>2 DEF LostPeer
  <2> QED BY <2>1, <2>2
<1>3. ClientTypeOK'
  BY <1>2 DEF ClientTypeOK
<1>4. KeepsLife /\ KeepsChain
  BY <1>2 DEF ClientTypeOK, KeepsLife, KeepsChain
<1>5. /\ client'.notified /\ heard'.closes = 1
      /\ UNCHANGED <<client.socket, client.pending, client.inflight, heard.connects, heard.calls, heard.taken,
                     heard.refused, heard.wire>>
  BY <1>2 DEF ClientTypeOK
<1>6. ClientLife' /\ OneChain'
  BY <1>4, ClientFrames
<1>7. NothingBefore' /\ ClosedOnce'
  BY <1>5 DEF NothingBefore, ClosedOnce
<1>8. ClientStream'
  BY <1>5 DEF ClientStream, QueueKeeps, WritesKept
<1> QED BY <1>3, <1>6, <1>7, <1>8

\* Bytes arrive, or the peer is gone.
LEMMA ClientHandleReadStep == ASSUME ClientIInv, ClientHandleRead PROVE ClientIInv'
<1> USE DEF ClientIInv
<1>1. /\ client.thread = "run" /\ done # <<>> /\ Head(done).do = "read" /\ done' = Tail(done)
      /\ LostPeer \/ /\ heard' = [heard EXCEPT !.reads = @ + 1]
                     /\ client' = [client EXCEPT !.reading = client.connected]
  BY DEF ClientHandleRead, ClientThread
<1>2. done' \in Seq(Handlers) /\ QueueKeeps(Chain) /\ QueueKeeps(Writes) /\ WritesKept /\ Queued(done, Streaming)
  BY <1>1, QueueFrames, TagClasses DEF CalledOne
<1>3. heard.connects # 0 /\ heard.calls = 1
  BY <1>1, <1>2 DEF NothingBefore, ClientLife
<1>4. CASE LostPeer
  BY <1>2, <1>3, <1>4, LostPeerStep
<1>5. CASE heard' = [heard EXCEPT !.reads = @ + 1] /\ client' = [client EXCEPT !.reading = client.connected]
  <2>0. PICK n \in Nat : n = heard.reads + 1
    BY DEF ClientTypeOK
  <2>1. heard' = [heard EXCEPT !.reads = n]
    BY <1>5, <2>0
  <2>2. ClientTypeOK'
    BY <1>2, <1>5, <2>1 DEF ClientTypeOK
  <2>3. KeepsLife /\ KeepsChain /\ KeepsClosed /\ KeepsStream /\ heard'.connects = heard.connects
    BY <1>5, <2>1 DEF ClientTypeOK, KeepsLife, KeepsChain, KeepsClosed, KeepsStream
  <2>4. NothingBefore'
    BY <1>3, <2>3 DEF NothingBefore
  <2> QED BY <1>2, <2>2, <2>3, <2>4, ClientFrames
<1> QED BY <1>1, <1>4, <1>5

\* AppendWrite: the socket is closed and nothing happens, or the payload is
\* pending, and the first one starts a write.
LEMMA ClientAppendWriteStep ==
  ASSUME ClientIInv, NEW moves \in BOOLEAN, ClientAppendWrite(moves) PROVE ClientIInv'
<1> USE DEF ClientIInv
<1>1. client.thread = "run" /\ done # <<>> /\ Head(done).do = "append" /\ done' = Tail(done)
  BY DEF ClientAppendWrite, ClientThread
<1>2. /\ done' \in Seq(Handlers) /\ QueueKeeps(Chain) /\ QueueKeeps(Writes) /\ WritesKept /\ Queued(done, Streaming)
      /\ Queued(done', Streaming) => Queued(done, Streaming)
      /\ Outcome \in Nat
  BY <1>1, QueueFrames, TagClasses DEF CalledOne, Outcome, Handlers
<1>3. heard.connects # 0
  BY <1>2 DEF NothingBefore
<1>4. CASE UNCHANGED <<client, heard>>
  <2>1. KeepsLife /\ KeepsChain /\ KeepsBefore /\ KeepsClosed /\ KeepsStream
    BY <1>4 DEF KeepsLife, KeepsChain, KeepsBefore, KeepsClosed, KeepsStream
  <2>2. ClientTypeOK'
    BY <1>2, <1>4 DEF ClientTypeOK
  <2> QED BY <1>2, <2>1, <2>2, ClientFrames
<1>5. CASE client.socket
  <2>1. PICK x \in Nat : x = Outcome
    BY <1>2
  <2>2. PICK m \in BOOLEAN : m = (client.inflight > 0 /\ (client.moved \/ moves))
    BY DEF ClientTypeOK
  <2>0. PICK pe \in Seq(Nat), ta \in Seq(Nat) : pe = client.pending /\ ta = heard.taken
    BY DEF ClientTypeOK
  <2>1a. Append(pe, x) \in Seq(Nat) /\ Append(ta, x) \in Seq(Nat)
    OBVIOUS
  <2>3. PICK p \in Seq(Nat) : p = Append(client.pending, x)
    BY <2>0, <2>1a
  <2>4. PICK tk \in Seq(Nat) : tk = Append(heard.taken, x)
    BY <2>0, <2>1a
  <2>5. PICK fl \in Nat : fl = IF client.pending = <<>> THEN 1 ELSE client.inflight
    BY DEF ClientTypeOK
  <2>6. client' = [client EXCEPT !.pending = p, !.inflight = fl, !.moved = m] /\ heard' = [heard EXCEPT !.taken = tk]
    BY <1>5, <2>1, <2>2, <2>3, <2>4, <2>5 DEF ClientAppendWrite
  <2>7. ClientTypeOK'
    BY <1>2, <2>6 DEF ClientTypeOK
  <2>8. KeepsLife /\ KeepsChain /\ KeepsClosed
    BY <2>6 DEF ClientTypeOK, KeepsLife, KeepsChain, KeepsClosed
  <2>9. /\ client'.pending = p /\ client'.inflight = fl /\ heard'.taken = tk
        /\ UNCHANGED <<client.socket, client.notified, heard.wire, heard.calls, heard.connects>>
    BY <2>6 DEF ClientTypeOK
  <2>10. ClientLife' /\ OneChain' /\ ClosedOnce' /\ NothingBefore'
    BY <1>2, <1>3, <2>8, <2>9, ClientFrames DEF NothingBefore
  <2>11. p # <<>> /\ Len(p) = Len(client.pending) + 1 /\ (client.pending = <<>> <=> Len(client.pending) = 0)
    BY <2>3, SMTT(40) DEF ClientTypeOK
  <2>12. \A w \in Nat : StreamAt(client.pending, heard.taken, heard.wire, w) => StreamAt(p, tk, heard.wire, w)
    <3> SUFFICES ASSUME NEW w \in Nat, StreamAt(client.pending, heard.taken, heard.wire, w)
                 PROVE StreamAt(p, tk, heard.wire, w)
      OBVIOUS
    <3>1. PICK wi \in Seq(Nat) : wi = heard.wire
      BY DEF ClientTypeOK
    <3> QED BY <2>0, <2>3, <2>4, <3>1, StreamAppended
  <2>13. \A k \in 1 .. Len(done) : done[k].arg \in Nat
    <3>1. done \in Seq(Handlers)
      BY DEF ClientTypeOK
    <3>2. \A k \in 1 .. Len(done) : done[k] \in Handlers
      BY <3>1
    <3> QED BY <3>2 DEF Handlers
  <2>14. /\ Lone(done', Writes) /\ (Queued(done', Writes) <=> Queued(done, Writes))
         /\ client.pending = <<>> => ~Queued(done, Writes) /\ fl = 1
         /\ client.pending # <<>> => fl = client.inflight
         /\ client.inflight > 0 => ~Queued(done, Writes)
         /\ client.inflight <= Len(client.pending)
    BY <1>2, <2>5 DEF QueueKeeps, ClientStream
  <2>15. fl <= Len(p)
    BY <2>11, <2>14 DEF ClientTypeOK
  <2>16. \A k \in 1 .. Len(done') : done'[k].do = "write" => StreamAt(p, tk, heard.wire, done'[k].arg)
    BY <1>2, <2>12, <2>13 DEF WritesKept, ClientStream
  <2>17. ~Queued(done', Writes) => StreamAt(p, tk, heard.wire, 0)
    BY <2>12, <2>14 DEF ClientStream
  <2>18. client.socket /\ p # <<>> /\ ~client.notified /\ heard.calls = 1 => fl > 0 \/ Queued(done', Writes)
    BY <2>14 DEF ClientStream
  <2>19. ClientStream'
    BY <2>9, <2>11, <2>14, <2>15, <2>16, <2>17, <2>18 DEF ClientStream
  <2> QED BY <2>7, <2>10, <2>19
<1> QED BY <1>4, <1>5 DEF ClientAppendWrite

\* The socket takes n payloads of what is out.
LEMMA ClientWriteReadyStep ==
  ASSUME ClientIInv, NEW n \in 0 .. MaxSends, ClientWriteReady(n) PROVE ClientIInv'
<1> USE DEF ClientIInv
<1> DEFINE e == [do |-> "write", arg |-> n]
<1>0. n \in Nat
  BY ClientAssumption
<1>1. e \in Handlers /\ e.do = "write" /\ e.arg = n
  BY <1>0 DEF Handlers, Tags
<1>2. PICK pe \in Seq(Nat), ta \in Seq(Nat), wi \in Seq(Nat), mo \in BOOLEAN :
         pe = client.pending /\ ta = heard.taken /\ wi = heard.wire /\ mo = client.moved
  BY DEF ClientTypeOK
<1>3. /\ client.thread = "run" /\ client.inflight >= n /\ client.inflight > 0 /\ ~Queued(done, Writes)
      /\ client.inflight <= Len(pe) /\ pe # <<>> /\ StreamAt(pe, ta, wi, 0)
  BY <1>2 DEF ClientWriteReady, ClientStream
<1>4. PICK w2 \in Seq(Nat) : /\ w2 = wi \o IF mo THEN [k \in 1 .. n |-> 0] ELSE SubSeq(pe, 1, n)
                             /\ StreamAt(pe, ta, w2, n)
  <2>1. n <= Len(pe)
    BY <1>0, <1>3 DEF ClientTypeOK
  <2> QED BY <1>0, <1>3, <2>1, StreamWritten
<1>5. /\ client' = [client EXCEPT !.inflight = 0, !.moved = FALSE] /\ heard' = [heard EXCEPT !.wire = w2]
      /\ done' = Append(done, e)
  BY <1>2, <1>4 DEF ClientWriteReady, Did
<1> HIDE DEF e
<1>6. /\ done' \in Seq(Handlers) /\ QueueKeeps(Chain) /\ QueuedOne(done, e, done')
  BY <1>1, <1>5, QueueFrames, TagClasses
<1>7. Lone(done', Writes) /\ Queued(done', Writes)
  BY <1>1, <1>3, <1>6, TagClasses DEF QueuedOne, ClientStream
<1>8. ClientTypeOK'
  BY <1>5, <1>6 DEF ClientTypeOK
<1>9. KeepsLife /\ KeepsChain /\ KeepsClosed
  BY <1>5 DEF ClientTypeOK, KeepsLife, KeepsChain, KeepsClosed
<1>10. /\ client'.pending = pe /\ client'.inflight = 0 /\ heard'.taken = ta /\ heard'.wire = w2
       /\ heard'.connects = heard.connects
  BY <1>2, <1>5 DEF ClientTypeOK
<1>11. heard.connects # 0
  BY <1>2, <1>3 DEF NothingBefore
<1>12. ClientLife' /\ OneChain' /\ ClosedOnce' /\ NothingBefore'
  BY <1>6, <1>9, <1>10, <1>11, ClientFrames DEF NothingBefore
<1>13. \A k \in 1 .. Len(done') : done'[k].do = "write" => done'[k].arg = n
  <2>1. \A k \in 1 .. Len(done) : done[k].do # "write"
    BY <1>3, TagClasses DEF Queued
  <2> QED BY <1>1, <1>6, <2>1 DEF QueuedOne
<1>14. ClientStream'
  BY <1>3, <1>4, <1>7, <1>10, <1>13 DEF ClientStream
<1> QED BY <1>8, <1>12, <1>14

\* A write has completed: what is left is written next, or the socket is closed.
LEMMA ClientHandleWriteStep == ASSUME ClientIInv, ClientHandleWrite PROVE ClientIInv'
<1> USE DEF ClientIInv
<1>1. /\ client.thread = "run" /\ done # <<>> /\ Head(done).do = "write" /\ done' = Tail(done)
  BY DEF ClientHandleWrite, ClientThread
<1>2. /\ done' \in Seq(Handlers) /\ QueueKeeps(Chain) /\ WritesKept /\ Queued(done, Streaming)
      /\ Queued(done, Writes) /\ ~Queued(done', Writes) /\ Lone(done', Writes)
      /\ Outcome \in Nat /\ \E j \in 1 .. Len(done) : Head(done) = done[j]
  BY <1>1, QueueFrames, TagClasses DEF CalledOne, Outcome, Handlers, ClientStream
<1>3. /\ heard.connects # 0 /\ heard.calls = 1 /\ client.inflight = 0
      /\ StreamAt(client.pending, heard.taken, heard.wire, Outcome)
  <2>1. ~(client.inflight > 0) /\ StreamAt(client.pending, heard.taken, heard.wire, Outcome)
    BY <1>1, <1>2 DEF ClientStream, Outcome
  <2> QED BY <1>1, <1>2, <2>1 DEF NothingBefore, ClientLife, ClientTypeOK
<1>4. PICK pe \in Seq(Nat), ta \in Seq(Nat), wi \in Seq(Nat), w \in Nat :
         pe = client.pending /\ ta = heard.taken /\ wi = heard.wire /\ w = Outcome
  BY <1>2 DEF ClientTypeOK
<1>5. (heard.closes = 0 /\ ~client.notified) \/ (heard.closes = 1 /\ client.notified)
  <2>1. heard.calls = 1 /\ client.notified \in BOOLEAN /\ heard.closes \in Nat
    BY <1>3 DEF ClientTypeOK
  <2>2. heard.closes <= 1 /\ (client.notified <=> heard.closes = 1)
    BY <2>1 DEF ClosedOnce
  <2> QED BY <2>1, <2>2
<1>6. PICK left \in Seq(Nat) : /\ left = SubSeq(pe, w + 1, Len(pe)) /\ StreamAt(left, ta, wi, 0)
                               /\ w = 0 => left = pe
  <2>1. w = 0 => SubSeq(pe, w + 1, Len(pe)) = pe
    OBVIOUS
  <2> QED BY <1>3, <1>4, <2>1, StreamHandled
<1>7. PICK fl \in Nat, nt \in BOOLEAN, cl \in {0, 1} :
         /\ client' = [client EXCEPT !.pending = left, !.inflight = fl, !.notified = nt]
         /\ heard' = [heard EXCEPT !.closes = cl]
         /\ nt <=> cl = 1
         /\ heard.closes = 1 => cl = 1
         /\ fl <= Len(left)
         /\ client.socket /\ left # <<>> /\ ~nt => fl > 0
  <2>1. CASE Outcome = 0 /\ LostPeer
    <3>1. heard' = [heard EXCEPT !.closes = 1]
      <4>1. CASE client.notified
        BY <1>5, <2>1, <4>1 DEF LostPeer, NotifyClose, ClientTypeOK
      <4>2. CASE ~client.notified
        <5>1. PICK n \in Nat : n = heard.closes + 1 /\ n = 1
          BY <1>5, <4>2
        <5>2. heard' = [heard EXCEPT !.closes = n]
          BY <2>1, <4>2, <5>1 DEF LostPeer, NotifyClose
        <5> QED BY <5>1, <5>2
      <4> QED BY <4>1, <4>2
    <3>2. client' = [client EXCEPT !.pending = left, !.inflight = 0, !.notified = TRUE]
      <4>1. client.pending = left /\ client' = [client EXCEPT !.notified = TRUE]
        BY <1>4, <1>6, <2>1 DEF LostPeer
      <4>2. client = [client EXCEPT !.pending = left, !.inflight = 0]
        BY <1>3, <4>1 DEF ClientTypeOK
      <4> QED BY <4>1, <4>2
    <3>3. 0 <= Len(left)
      OBVIOUS
    <3> QED BY <3>1, <3>2, <3>3
  <2>2. CASE /\ client' = [client EXCEPT !.pending = left,
                             !.inflight = IF client.socket THEN Len(left) ELSE 0,
                             !.notified = @ \/ (left # <<>> /\ ~client.socket)]
             /\ heard' = IF left # <<>> /\ ~client.socket THEN NotifyClose(heard) ELSE heard
    <3>1. PICK f1 \in Nat : f1 = IF client.socket THEN Len(left) ELSE 0
      BY DEF ClientTypeOK
    <3>2. PICK n1 \in BOOLEAN : n1 = (client.notified \/ (left # <<>> /\ ~client.socket))
      BY DEF ClientTypeOK
    <3>3. client' = [client EXCEPT !.pending = left, !.inflight = f1, !.notified = n1]
      BY <2>2, <3>1, <3>2
    <3>4. (left # <<>> => Len(left) > 0) /\ Len(left) \in Nat
      OBVIOUS
    <3>5. CASE left # <<>> /\ ~client.socket /\ ~client.notified
      <4>1. PICK n \in Nat : n = heard.closes + 1 /\ n = 1
        BY <1>5, <3>5
      <4>2. heard' = [heard EXCEPT !.closes = n]
        BY <2>2, <3>5, <4>1 DEF NotifyClose
      <4>3. client' = [client EXCEPT !.pending = left, !.inflight = f1, !.notified = TRUE]
        BY <3>2, <3>3, <3>5
      <4>4. f1 = 0 /\ f1 <= Len(left)
        BY <3>1, <3>5
      <4> QED BY <3>5, <4>1, <4>2, <4>3, <4>4
    <3>6. CASE ~(left # <<>> /\ ~client.socket /\ ~client.notified)
      <4>1. heard' = heard
        BY <2>2, <3>6 DEF NotifyClose
      <4>2. n1 <=> client.notified
        BY <3>2, <3>6
      <4>3. PICK c1 \in {0, 1} : c1 = heard.closes
        BY <1>5
      <4>4. heard' = [heard EXCEPT !.closes = c1]
        BY <4>1, <4>3 DEF ClientTypeOK
      <4>5. f1 <= Len(left) /\ (client.socket /\ left # <<>> => f1 > 0)
        <5>1. CASE client.socket
          BY <3>1, <3>4, <5>1
        <5>2. CASE ~client.socket
          BY <3>1, <3>4, <5>2
        <5> QED BY <5>1, <5>2
      <4>6. n1 <=> c1 = 1
        BY <1>5, <4>2, <4>3
      <4>7. heard.closes = 1 => c1 = 1
        BY <4>3
      <4> QED BY <3>3, <4>4, <4>5, <4>6, <4>7
    <3> QED BY <3>5, <3>6
  <2> QED BY <1>4, <1>6, <2>1, <2>2 DEF ClientHandleWrite
<1>8. ClientTypeOK'
  <2>1. cl \in Nat
    OBVIOUS
  <2>2. client' = [client EXCEPT !.pending = left, !.inflight = fl, !.notified = nt] /\ heard' = [heard EXCEPT !.closes = cl]
    BY <1>7
  <2> QED BY <1>2, <2>1, <2>2 DEF ClientTypeOK
<1>9. KeepsLife /\ KeepsChain
  BY <1>7 DEF ClientTypeOK, KeepsLife, KeepsChain
<1>10. /\ client'.pending = left /\ client'.inflight = fl /\ (client'.notified <=> nt) /\ heard'.closes = cl
       /\ heard'.taken = ta /\ heard'.wire = wi
       /\ UNCHANGED <<client.socket, heard.connects, heard.refused, heard.calls>>
  BY <1>4, <1>7 DEF ClientTypeOK
<1>11. ClientLife' /\ OneChain'
  BY <1>2, <1>9, ClientFrames
<1>12. NothingBefore' /\ ClosedOnce'
  BY <1>3, <1>7, <1>10 DEF NothingBefore, ClosedOnce
<1>13. fl > 0 => left # <<>>
  BY <1>7
<1>14. \A k \in 1 .. Len(done') : done'[k].do # "write"
  BY <1>2, TagClasses DEF Queued
<1>15. ClientStream'
  BY <1>2, <1>6, <1>7, <1>10, <1>13, <1>14 DEF ClientStream
<1> QED BY <1>8, <1>11, <1>12, <1>15

\* The socket is closed: a connect that was out reports failure, what was read
\* or written nothing.
LEMMA ClientCloseOnIoThreadStep == ASSUME ClientIInv, ClientCloseOnIoThread PROVE ClientIInv'
<1> USE DEF ClientIInv
<1> DEFINE q == Tail(done)
           e == [do |-> "connecting", arg |-> 0]
<1>1. /\ client.thread = "run" /\ done # <<>> /\ Head(done).do = "closeio"
      /\ done' = q \o (IF client.stage = "connecting" THEN <<e>> ELSE <<>>)
  BY DEF ClientCloseOnIoThread, ClientThread
<1>2. /\ q \in Seq(Handlers) /\ CalledOne(done, q)
  BY <1>1, QueueTail DEF ClientTypeOK
<1> HIDE DEF q
<1>3. e \in Handlers /\ e.do = "connecting"
  BY DEF Handlers, Tags
<1> HIDE DEF e
<1>4. IF client.stage = "connecting" THEN done' = Append(q, e) /\ QueuedOne(q, e, done') ELSE done' = q
  <2>1. q \o <<e>> = Append(q, e) /\ q \o <<>> = q
    BY <1>2, <1>3
  <2> QED BY <1>1, <1>2, <1>3, <2>1, QueueAppend
<1>5. PICK m \in BOOLEAN, st \in {"none", "resolving"} :
        /\ client' = [client EXCEPT !.socket = FALSE, !.connected = FALSE, !.reading = FALSE,
                       !.inflight = 0, !.stage = st]
        /\ heard' = [heard EXCEPT !.missed = m]
        /\ st = "resolving" <=> client.stage = "resolving"
  <2>1. PICK m \in BOOLEAN : m = (heard.missed \/ client.stage = "resolving" \/ \E k \in 1 .. Len(done) : done[k].do = "resolving")
    BY DEF ClientTypeOK
  <2>2. PICK st \in {"none", "resolving"} : st = IF client.stage = "connecting" THEN "none" ELSE client.stage
    BY DEF ClientTypeOK
  <2> QED BY <2>1, <2>2 DEF ClientCloseOnIoThread
<1>6. done' \in Seq(Handlers)
  BY <1>2, <1>4 DEF QueuedOne
<1>7. ClientTypeOK'
  BY <1>5, <1>6 DEF ClientTypeOK
<1>8. KeepsLife /\ KeepsClosed
  BY <1>5 DEF ClientTypeOK, KeepsLife, KeepsClosed
<1>9. /\ ~client'.socket /\ ~client'.connected /\ ~client'.reading /\ client'.inflight = 0 /\ client'.stage = st
      /\ UNCHANGED <<client.pending, client.thread, client.spent, heard.connects, heard.refused, heard.reads,
                     heard.taken, heard.wire>>
  BY <1>5 DEF ClientTypeOK
<1>10. Head(done).do \notin Chain /\ Head(done).do \notin Streaming /\ Head(done).do \notin Writes
       /\ e.do \in Chain /\ e.do \notin Streaming /\ e.do \notin Writes
  BY <1>1, <1>3, TagClasses DEF Tags
<1>11. /\ Lone(done', Chain)
       /\ Queued(done', Chain) <=> Queued(done, Chain) \/ client.stage = "connecting"
       /\ Queued(done', Streaming) <=> Queued(done, Streaming)
       /\ QueueKeeps(Writes)
  <2>1. CASE client.stage = "connecting"
    <3>1. ~Queued(done, Chain) /\ ~Queued(q, Chain) /\ Lone(q, Chain) /\ Lone(q, Writes)
      BY <1>2, <2>1 DEF OneChain, ClientStream, CalledOne
    <3> QED BY <1>2, <1>4, <1>10, <2>1, <3>1 DEF CalledOne, QueuedOne, QueueKeeps
  <2>2. CASE client.stage # "connecting"
    <3>1. Lone(done, Chain) /\ Lone(done, Writes)
      BY DEF OneChain, ClientStream
    <3> QED BY <1>2, <1>4, <1>10, <2>2, <3>1 DEF CalledOne, QueueKeeps
  <2> QED BY <2>1, <2>2
<1>12. WritesKept
  <2>1. e.do # "write"
    BY <1>3
  <2>2. CASE client.stage = "connecting"
    BY <1>2, <1>4, <2>1, <2>2 DEF CalledOne, QueuedOne, WritesKept
  <2>3. CASE client.stage # "connecting"
    BY <1>2, <1>4, <2>3 DEF CalledOne, WritesKept
  <2> QED BY <2>2, <2>3
<1>13. ClientLife' /\ ClosedOnce'
  BY <1>8, ClientFrames
<1>14. OneChain'
  BY <1>1, <1>5, <1>9, <1>11 DEF OneChain
<1>15. NothingBefore'
  BY <1>9, <1>11 DEF NothingBefore
<1>16. ClientStream'
  <2>1. 0 <= Len(client.pending)
    BY DEF ClientTypeOK
  <2> QED BY <1>9, <1>11, <1>12, <2>1 DEF ClientStream, QueueKeeps, WritesKept
<1> QED BY <1>7, <1>13, <1>14, <1>15, <1>16
-------------------------------------------------------------------------------
\* No step of the client breaks the invariant.
LEMMA ClientNextIInv == ClientIInv /\ [ClientNext]_clientVars => ClientIInv'
<1> SUFFICES ASSUME ClientIInv, [ClientNext]_clientVars PROVE ClientIInv'
  OBVIOUS
<1>1. CASE ClientIo
  BY <1>1, ClientThreadStep, OnResolveStep, HandleConnectStep, ClientHandleReadStep, ClientAppendWriteStep,
     ClientHandleWriteStep, ClientCloseOnIoThreadStep DEF ClientIo
<1>2. CASE Connect \/ ClientSend \/ ClientClose \/ ClientStop \/ ClientStopJoin
  BY <1>2, ConnectStep, ClientSendStep, ClientCloseStep, ClientThreadStep
<1>3. CASE \/ \E ok \in BOOLEAN : StageEnds(ok)
           \/ \E res \in {0, 1} : ClientReadReady(res)
           \/ \E n \in 0 .. MaxSends : ClientWriteReady(n)
  BY <1>3, StageEndsStep, ClientReadReadyStep, ClientWriteReadyStep
<1>4. CASE UNCHANGED clientVars
  BY <1>4, ClientThreadStep
<1> QED BY <1>1, <1>2, <1>3, <1>4 DEF ClientNext

\* The invariant holds of every behaviour of CTcpClient.
THEOREM ClientInductive == ClientSpec => []ClientIInv
BY ClientInitIInv, ClientNextIInv, PTL DEF ClientSpec

\* What the inductive invariant says in the words of the property.
LEMMA ClientIInvInv == ClientIInv => ClientInv
<1> SUFFICES ASSUME ClientIInv PROVE ClientInv
  OBVIOUS
<1> USE DEF ClientIInv
<1>1. heard.connects + heard.refused <= 1 /\ heard.closes <= 1
  BY DEF ClientTypeOK, OneChain, ClosedOnce
<1>2. heard.refused = 1 => heard.closes = 1 /\ heard.reads = 0
  BY DEF OneChain, ClosedOnce, NothingBefore, ClientTypeOK
<1>3. client.connected => heard.connects = 1
  BY DEF NothingBefore, OneChain, ClientTypeOK
<1>4. heard.calls = 1 => client.notified = (heard.closes = 1)
  <2>1. client.notified \in BOOLEAN
    BY DEF ClientTypeOK
  <2> QED BY <2>1 DEF ClosedOnce
<1>5. heard.calls = 2 /\ client.running => client.spent \/ client.thread = "terminated"
  BY DEF ClientLife
<1>6. /\ 0 \notin Range(heard.wire) => IsPrefix(heard.wire, heard.taken)
      /\ IsSuffix(client.pending, heard.taken)
      /\ Len(heard.taken) <= Len(heard.wire) + Len(client.pending)
  <2>1. PICK pe \in Seq(Nat), ta \in Seq(Nat), wi \in Seq(Nat) : pe = client.pending /\ ta = heard.taken /\ wi = heard.wire
    BY DEF ClientTypeOK
  <2>2. PICK w \in Nat : StreamAt(pe, ta, wi, w)
    <3>1. CASE ~Queued(done, Writes)
      BY <2>1, <3>1 DEF ClientStream
    <3>2. CASE Queued(done, Writes)
      <4>1. PICK k \in 1 .. Len(done) : done[k].do = "write"
        BY <3>2 DEF Queued, Writes
      <4>2. done[k].arg \in Nat
        <5>1. done \in Seq(Handlers)
          BY DEF ClientTypeOK
        <5>2. done[k] \in Handlers
          BY <4>1, <5>1
        <5> QED BY <5>2 DEF Handlers
      <4> QED BY <2>1, <4>1, <4>2 DEF ClientStream
    <3> QED BY <3>1, <3>2
  <2> QED BY <2>1, <2>2, StreamIsInOrder
<1>7. client.socket /\ client.pending # <<>> /\ ~client.notified /\ heard.calls = 1 =>
         client.inflight > 0 \/ \E k \in 1 .. Len(done) : done[k].do = "write"
  BY DEF ClientStream, Queued, Writes
<1> QED BY <1>1, <1>2, <1>3, <1>4, <1>5, <1>6, <1>7 DEF ClientInv

\* ClientInv of every CTcpClient and any number of sends and reads: one connect
\* result and one close callback per Connect(), a stream in order and complete
\* unless a write was moved, and no second connection of the object.
THEOREM ClientInvHolds == ClientSpec => []ClientInv
BY ClientInductive, ClientIInvInv, PTL
(***************************************************************************)
(* The server.  ServerInv is not inductive: that an id hears of its close  *)
(* at most twice, and of data at most twice after that, needs to know what *)
(* is queued for a connection that has left the table (LateAt); that the   *)
(* loops go on, that each has one completion out or queued, and one only   *)
(* (ReadAt, WriteAt, AcceptAt); and that a write never takes more than was *)
(* sent, the order in which payloads pass through the queue (SendsAt).     *)
(***************************************************************************)
Subjects == {"read", "write", "append", "closeio", "send", "close"}
Posted == [do : Subjects \cup {"accept", "idle", "tick", "shutdown"}, id : Nat, arg : Nat]

Is(t, what, id) == t.do = what /\ t.id = id
Has(q, what, id) == \E k \in 1 .. Len(q) : Is(q[k], what, id)
Single(q, what, id) == \A j, k \in 1 .. Len(q) : Is(q[j], what, id) /\ Is(q[k], what, id) => j = k

ServerRecs == [running : BOOLEAN, thread : {"none", "start", "run", "ended"}, stopping : BOOLEAN,
               acceptor : BOOLEAN, accepting : BOOLEAN, idle : BOOLEAN, timer : {"null", "waiting", "set"},
               map : SUBSET Ids, peers : SUBSET Ids, count : Nat, totalAccepted : Nat, totalClosed : Nat,
               nextId : Nat, max : Nat, straggler : BOOLEAN]
ConnRecs == [life : {"none", "open", "closed"}, reading : BOOLEAN, inflight : Nat, writing : BOOLEAN,
             pending : Seq(Nat), moved : BOOLEAN, sent : Seq(Nat), wire : Seq(Nat)]
ToldRecs == [accepts : Nat, closes : Nat, datas : Nat, late : Nat]

ServerTypes ==
    /\ server \in ServerRecs /\ conn \in [Ids -> ConnRecs] /\ ready \in Seq(Posted)
    /\ events \in 0 .. MaxEvents /\ told \in [Ids -> ToldRecs]

\* The ids given, what became of them, and the counters.
Reported == {id \in Ids : told[id].closes > 0}
Ledger ==
    /\ server.nextId \in 1 .. MaxConns + 1
    /\ \A id \in Ids : /\ conn[id].life # "none" <=> id < server.nextId
                       /\ told[id].accepts > 0 <=> id < server.nextId
                       /\ id >= server.nextId => told[id].closes = 0
                       /\ told[id].closes <= 2 /\ (Open(id) => told[id].closes <= 1)
    /\ server.map = {id \in Ids : id < server.nextId /\ told[id].closes = 0} /\ server.peers = server.map
    /\ server.totalAccepted = server.nextId - 1
    /\ server.totalClosed = Cardinality(Reported) + Cardinality(Twice)
    /\ server.count <= Cardinality(server.map)
    /\ Cardinality(server.map) <= server.count + Cardinality(Twice)
    /\ server.thread = "ended" => server.map = {} /\ \A id \in Ids : ~Open(id)

\* The accept loop has one completion, out or queued, while the server runs.
AcceptAt(q, s) ==
    /\ Single(q, "accept", 0)
    /\ s.accepting => ~Has(q, "accept", 0)
    /\ s.thread \in {"none", "start"} => ~s.accepting /\ ~Has(q, "accept", 0) /\ s.nextId = 1
    /\ s.running => s.acceptor /\ s.thread \in {"start", "run"} /\ ~Has(q, "shutdown", 0) /\ ~s.stopping
    /\ s.running /\ s.thread = "run" => s.accepting \/ Has(q, "accept", 0)
    /\ \A k \in 1 .. Len(q) : q[k].do = "accept" /\ q[k].arg # 0 => s.nextId <= MaxConns

\* What is queued for a connection is for one that has been accepted.
IdsAt(q, n) ==
    \A k \in 1 .. Len(q) : IF q[k].do \in Subjects THEN q[k].id \in Ids /\ q[k].id < n ELSE q[k].id = 0

\* So has the read loop of a connection that is open.
ReadAt(q, id, c) ==
    /\ Single(q, "read", id)
    /\ c.reading => c.life = "open" /\ ~Has(q, "read", id)
    /\ c.life = "open" => c.reading \/ Has(q, "read", id)

\* And the write loop, of one with output.
WriteAt(q, id, c) ==
    /\ Single(q, "write", id)
    /\ c.inflight > 0 => c.life = "open" /\ ~Has(q, "write", id)
    /\ c.inflight <= Len(c.pending)
    /\ c.life = "open" => /\ c.writing <=> c.pending # <<>>
                          /\ c.writing <=> c.inflight > 0 \/ Has(q, "write", id)
    /\ ~Has(q, "write", id) => StreamAt(c.pending, c.sent, c.wire, 0)
    /\ \A k \in 1 .. Len(q) : Is(q[k], "write", id) => StreamAt(c.pending, c.sent, c.wire, q[k].arg)

\* Data after the close callback: while the connection is open its close is
\* queued, behind at most one read that was ready before it; once it is closed,
\* at most one read is left.
LateAt(q, id, c, t) ==
    /\ t.closes = 0 => t.late = 0
    /\ c.life = "open" /\ t.closes > 0 =>
         \E k \in 1 .. Len(q) : /\ Is(q[k], "closeio", id) /\ t.late <= 1
                                /\ t.late = 1 => \A j \in 1 .. k - 1 : ~Is(q[j], "read", id)
    /\ c.life # "open" => t.late <= 1 \/ (t.late = 2 /\ ~Has(q, "read", id))

ConnAt(q, id, c, t) == ReadAt(q, id, c) /\ WriteAt(q, id, c) /\ LateAt(q, id, c, t)

\* Payloads are numbered by the events: those queued for AppendWrite come before
\* those queued for Send, each in order, and after all that has been taken.
IsPayload(t) == t.do \in {"send", "append"}
SendsAt(q, C, e) ==
    /\ \A id \in Ids : Len(C[id].sent) <= e
    /\ \A k \in 1 .. Len(q) : IsPayload(q[k]) => q[k].arg <= e /\ Len(C[q[k].id].sent) < q[k].arg
    /\ \A j, k \in 1 .. Len(q) :
         /\ IsPayload(q[j]) /\ IsPayload(q[k])
         /\ (q[j].do = q[k].do /\ j < k) \/ (q[j].do = "append" /\ q[k].do = "send")
         => q[j].arg < q[k].arg

ServerIInv ==
    /\ ServerTypes /\ Ledger /\ AcceptAt(ready, server) /\ IdsAt(ready, server.nextId)
    /\ \A id \in Ids : ConnAt(ready, id, conn[id], told[id])
    /\ SendsAt(ready, conn, events)

\* Of CNetworkModule: where StartTcpServer and Stop() are, and that the metric
\* is that of the server or zero.
NetIInv ==
    /\ ServerIInv /\ ConnectionResources
    /\ moduleOp \in {"idle", "starting", "stopping"} /\ pServer \in BOOLEAN
    /\ gauge = 0 \/ gauge = server.count
    /\ pServer => moduleOp = "idle" /\ server.running
    /\ moduleOp = "starting" => server.running
    /\ moduleOp = "idle" /\ ~pServer => server.thread \in {"none", "ended"} /\ ~server.running
-------------------------------------------------------------------------------
\* What becomes of what is queued when the tasks of r join the queue q.
Joined(q, r, s) ==
    /\ s \in Seq(Posted)
    /\ \A what, id :
          /\ Has(s, what, id) <=> Has(q, what, id) \/ Has(r, what, id)
          /\ Single(q, what, id) /\ ~Has(r, what, id) => Single(s, what, id)
          /\ Single(r, what, id) /\ ~Has(q, what, id) => Single(s, what, id)
    /\ Len(s) = Len(q) + Len(r)
    /\ \A k \in 1 .. Len(q) : k \in 1 .. Len(s) /\ s[k] = q[k]
    /\ \A k \in 1 .. Len(r) : Len(q) + k \in 1 .. Len(s) /\ s[Len(q) + k] = r[k]
    /\ \A k \in 1 .. Len(s) : \/ k \in 1 .. Len(q)
                              \/ k > Len(q) /\ k - Len(q) \in 1 .. Len(r) /\ s[k] = r[k - Len(q)]

\* And when the first task of q is called and the others, s, are left.
Popped(q, s) ==
    /\ s \in Seq(Posted) /\ Head(q) \in Posted /\ 1 \in 1 .. Len(q) /\ Head(q) = q[1]
    /\ \A what, id :
          /\ Has(s, what, id) => Has(q, what, id)
          /\ ~Is(Head(q), what, id) => (Has(q, what, id) <=> Has(s, what, id))
          /\ Is(Head(q), what, id) => Has(q, what, id)
          /\ Single(q, what, id) => Single(s, what, id) /\ (Is(Head(q), what, id) => ~Has(s, what, id))
    /\ Len(s) = Len(q) - 1
    /\ \A k \in 1 .. Len(s) : k + 1 \in 1 .. Len(q) /\ s[k] = q[k + 1]
    /\ \A k \in 1 .. Len(q) : k = 1 \/ (k - 1 \in 1 .. Len(s) /\ s[k - 1] = q[k])

\* Tasks are queued behind those that are there.
LEMMA QueueJoined ==
  ASSUME NEW q \in Seq(Posted), NEW r \in Seq(Posted)
  PROVE Joined(q, r, q \o r)
<1> DEFINE s == q \o r
<1>1. /\ s \in Seq(Posted) /\ Len(s) = Len(q) + Len(r) /\ Len(q) \in Nat /\ Len(r) \in Nat
      /\ \A k \in 1 .. Len(s) : s[k] = IF k <= Len(q) THEN q[k] ELSE r[k - Len(q)]
  OBVIOUS
<1> HIDE DEF s
<1>2. PICK m \in Nat, n \in Nat : m = Len(q) /\ n = Len(r)
  BY <1>1
<1>3. \A k \in 1 .. Len(q) : k \in 1 .. Len(s) /\ s[k] = q[k]
  BY <1>1, <1>2
<1>4. \A k \in 1 .. Len(r) : Len(q) + k \in 1 .. Len(s) /\ s[Len(q) + k] = r[k]
  <2> SUFFICES ASSUME NEW k \in 1 .. n PROVE m + k \in 1 .. (m + n) /\ s[m + k] = r[k]
    BY <1>1, <1>2
  <2>1. m + k \in 1 .. (m + n) /\ ~(m + k <= m) /\ (m + k) - m = k
    OBVIOUS
  <2> QED BY <1>1, <1>2, <2>1
<1>5. \A k \in 1 .. Len(s) : \/ k \in 1 .. Len(q)
                             \/ k > Len(q) /\ k - Len(q) \in 1 .. Len(r) /\ s[k] = r[k - Len(q)]
  BY <1>1, <1>2
<1>6. ASSUME NEW what, NEW id
      PROVE /\ Has(s, what, id) <=> Has(q, what, id) \/ Has(r, what, id)
            /\ Single(q, what, id) /\ ~Has(r, what, id) => Single(s, what, id)
            /\ Single(r, what, id) /\ ~Has(q, what, id) => Single(s, what, id)
  <2>1. Has(q, what, id) => Has(s, what, id)
    BY <1>3 DEF Has
  <2>2. Has(r, what, id) => Has(s, what, id)
    BY <1>4 DEF Has
  <2>3. Has(s, what, id) => Has(q, what, id) \/ Has(r, what, id)
    <3> SUFFICES ASSUME NEW k \in 1 .. Len(s), Is(s[k], what, id), ~Has(q, what, id) PROVE Has(r, what, id)
      BY DEF Has
    <3> QED BY <1>3, <1>5 DEF Has
  <2>4. ASSUME Single(q, what, id), ~Has(r, what, id) PROVE Single(s, what, id)
    <3>1. \A k \in 1 .. Len(s) : Is(s[k], what, id) => k \in 1 .. Len(q) /\ Is(q[k], what, id)
      BY <1>3, <1>5, <2>4 DEF Has
    <3> QED BY <2>4, <3>1 DEF Single
  <2>5. ASSUME Single(r, what, id), ~Has(q, what, id) PROVE Single(s, what, id)
    <3>1. \A k \in 1 .. Len(s) : Is(s[k], what, id) =>
             k > Len(q) /\ k - Len(q) \in 1 .. Len(r) /\ Is(r[k - Len(q)], what, id)
      BY <1>3, <1>5, <2>5 DEF Has
    <3> SUFFICES ASSUME NEW j \in 1 .. Len(s), NEW k \in 1 .. Len(s), Is(s[j], what, id), Is(s[k], what, id)
                 PROVE j = k
      BY DEF Single
    <3>2. /\ j - m \in 1 .. Len(r) /\ Is(r[j - m], what, id) /\ k - m \in 1 .. Len(r) /\ Is(r[k - m], what, id)
          /\ j \in Nat /\ k \in Nat
      BY <1>2, <3>1
    <3>3. j - m = k - m
      BY <2>5, <3>2 DEF Single
    <3> QED BY <3>2, <3>3
  <2> QED BY <2>1, <2>2, <2>3, <2>4, <2>5
<1> QED BY <1>1, <1>3, <1>4, <1>5, <1>6 DEF Joined, s

\* The first task is called.
LEMMA QueuePopped ==
  ASSUME NEW q \in Seq(Posted), q # <<>>
  PROVE Popped(q, Tail(q))
<1> DEFINE s == Tail(q)
<1>1. /\ s \in Seq(Posted) /\ Len(s) = Len(q) - 1 /\ (\A k \in 1 .. Len(s) : s[k] = q[k + 1])
      /\ Head(q) = q[1] /\ Len(q) \in Nat \ {0} /\ Head(q) \in Posted
  OBVIOUS
<1> HIDE DEF s
<1>2. PICK n \in Nat : Len(q) = n + 1 /\ Len(s) = n
  <2>1. PICK l \in Nat \ {0} : l = Len(q)
    BY <1>1
  <2>2. l - 1 \in Nat
    OBVIOUS
  <2> QED BY <1>1, <2>1, <2>2
<1>3. \A k \in 1 .. Len(s) : k + 1 \in 1 .. Len(q) /\ s[k] = q[k + 1]
  BY <1>1, <1>2
<1>4. \A k \in 1 .. Len(q) : k = 1 \/ (k - 1 \in 1 .. Len(s) /\ s[k - 1] = q[k])
  <2> SUFFICES ASSUME NEW k \in 1 .. (n + 1), k # 1 PROVE k - 1 \in 1 .. n /\ s[k - 1] = q[k]
    BY <1>2
  <2>1. k - 1 \in 1 .. n /\ (k - 1) + 1 = k
    OBVIOUS
  <2> QED BY <1>2, <1>3, <2>1
<1>5. 1 \in 1 .. Len(q)
  BY <1>2
<1>6. ASSUME NEW what, NEW id
      PROVE /\ Has(s, what, id) => Has(q, what, id)
            /\ ~Is(Head(q), what, id) => (Has(q, what, id) <=> Has(s, what, id))
            /\ Is(Head(q), what, id) => Has(q, what, id)
            /\ Single(q, what, id) => Single(s, what, id) /\ (Is(Head(q), what, id) => ~Has(s, what, id))
  <2>1. Has(s, what, id) => Has(q, what, id)
    BY <1>3 DEF Has
  <2>2. ASSUME ~Is(Head(q), what, id), Has(q, what, id) PROVE Has(s, what, id)
    BY <1>1, <1>4, <2>2 DEF Has
  <2>3. Is(Head(q), what, id) => Has(q, what, id)
    BY <1>1, <1>5 DEF Has
  <2>4. ASSUME Single(q, what, id) PROVE Single(s, what, id) /\ (Is(Head(q), what, id) => ~Has(s, what, id))
    <3>1. Single(s, what, id)
      <4> SUFFICES ASSUME NEW i \in 1 .. n, NEW j \in 1 .. n, Is(s[i], what, id), Is(s[j], what, id) PROVE i = j
        BY <1>2 DEF Single
      <4>1. i + 1 = j + 1
        BY <1>2, <1>3, <2>4 DEF Single
      <4> QED BY <4>1
    <3>2. ASSUME Is(Head(q), what, id), NEW k \in 1 .. n, Is(s[k], what, id) PROVE FALSE
      <4>1. k + 1 = 1
        BY <1>1, <1>2, <1>3, <1>5, <2>4, <3>2 DEF Single
      <4> QED BY <4>1
    <3> QED BY <1>2, <3>1, <3>2 DEF Has
  <2> QED BY <2>1, <2>2, <2>3, <2>4
<1> QED BY <1>1, <1>3, <1>4, <1>5, <1>6 DEF Popped, s
\* Tasks that join the queue, but no completion of the connection, leave its parts
\* of the invariant alone.
LEMMA PartsJoin ==
  ASSUME NEW q \in Seq(Posted), NEW r \in Seq(Posted), NEW id, NEW c, NEW t
  PROVE /\ ReadAt(q, id, c) /\ ~Has(r, "read", id) => ReadAt(q \o r, id, c)
        /\ WriteAt(q, id, c) /\ ~Has(r, "write", id) => WriteAt(q \o r, id, c)
        /\ LateAt(q, id, c, t) /\ (c.life = "open" \/ ~Has(r, "read", id)) => LateAt(q \o r, id, c, t)
<1> DEFINE s == q \o r
<1>1. Joined(q, r, s)
  BY QueueJoined
<1> HIDE DEF s
<1>2. ReadAt(q, id, c) /\ ~Has(r, "read", id) => ReadAt(s, id, c)
  BY <1>1 DEF ReadAt, Joined
<1>3. ASSUME WriteAt(q, id, c), ~Has(r, "write", id) PROVE WriteAt(s, id, c)
  <2>1. Single(s, "write", id) /\ (Has(s, "write", id) <=> Has(q, "write", id))
    BY <1>1, <1>3 DEF WriteAt, Joined
  <2>2. \A k \in 1 .. Len(s) : Is(s[k], "write", id) => k \in 1 .. Len(q) /\ s[k] = q[k]
    BY <1>1, <1>3 DEF Joined, Has
  <2> QED BY <1>3, <2>1, <2>2 DEF WriteAt
<1>4. ASSUME LateAt(q, id, c, t), c.life = "open" \/ ~Has(r, "read", id) PROVE LateAt(s, id, c, t)
  <2>1. ASSUME c.life = "open", t.closes > 0
        PROVE \E k \in 1 .. Len(s) : /\ Is(s[k], "closeio", id) /\ t.late <= 1
                                     /\ t.late = 1 => \A j \in 1 .. k - 1 : ~Is(s[j], "read", id)
    <3>1. PICK k \in 1 .. Len(q) : /\ Is(q[k], "closeio", id) /\ t.late <= 1
                                   /\ t.late = 1 => \A j \in 1 .. k - 1 : ~Is(q[j], "read", id)
      BY <1>4, <2>1 DEF LateAt
    <3>2. k \in 1 .. Len(s) /\ s[k] = q[k]
      BY <1>1 DEF Joined
    <3>3. Len(q) \in Nat
      OBVIOUS
    <3>4. \A j \in 1 .. k - 1 : j \in 1 .. Len(q) /\ s[j] = q[j]
      <4>1. \A j \in 1 .. k - 1 : j \in 1 .. Len(q)
        BY <3>3
      <4> QED BY <4>1, <1>1 DEF Joined
    <3> QED BY <3>1, <3>2, <3>4
  <2>2. ASSUME c.life # "open" PROVE t.late <= 1 \/ (t.late = 2 /\ ~Has(s, "read", id))
    BY <1>1, <1>4, <2>2 DEF LateAt, Joined
  <2>3. t.closes = 0 => t.late = 0
    BY <1>4 DEF LateAt
  <2> QED BY <2>1, <2>2, <2>3 DEF LateAt
<1> QED BY <1>2, <1>3, <1>4 DEF s

\* Nor does a task that is called, if it is not a completion of the connection.
LEMMA PartsPop ==
  ASSUME NEW q \in Seq(Posted), q # <<>>, NEW id, NEW c, NEW t
  PROVE /\ ReadAt(q, id, c) /\ ~Is(Head(q), "read", id) => ReadAt(Tail(q), id, c)
        /\ WriteAt(q, id, c) /\ ~Is(Head(q), "write", id) => WriteAt(Tail(q), id, c)
        /\ LateAt(q, id, c, t) /\ ~Is(Head(q), "closeio", id) => LateAt(Tail(q), id, c, t)
<1> DEFINE s == Tail(q)
<1>1. Popped(q, s)
  BY QueuePopped
<1> HIDE DEF s
<1>2. ReadAt(q, id, c) /\ ~Is(Head(q), "read", id) => ReadAt(s, id, c)
  BY <1>1 DEF ReadAt, Popped
<1>3. ASSUME WriteAt(q, id, c), ~Is(Head(q), "write", id) PROVE WriteAt(s, id, c)
  <2>1. Single(s, "write", id) /\ (Has(s, "write", id) <=> Has(q, "write", id))
    BY <1>1, <1>3 DEF WriteAt, Popped
  <2>2. \A k \in 1 .. Len(s) : \E j \in 1 .. Len(q) : s[k] = q[j]
    BY <1>1 DEF Popped
  <2> QED BY <1>3, <2>1, <2>2 DEF WriteAt
<1>4. ASSUME LateAt(q, id, c, t), ~Is(Head(q), "closeio", id) PROVE LateAt(s, id, c, t)
  <2>1. ASSUME c.life = "open", t.closes > 0
        PROVE \E k \in 1 .. Len(s) : /\ Is(s[k], "closeio", id) /\ t.late <= 1
                                     /\ t.late = 1 => \A j \in 1 .. k - 1 : ~Is(s[j], "read", id)
    <3>1. PICK k \in 1 .. Len(q) : /\ Is(q[k], "closeio", id) /\ t.late <= 1
                                   /\ t.late = 1 => \A j \in 1 .. k - 1 : ~Is(q[j], "read", id)
      BY <1>4, <2>1 DEF LateAt
    <3>2. k # 1 /\ k - 1 \in 1 .. Len(s) /\ s[k - 1] = q[k]
      BY <1>1, <1>4, <3>1 DEF Popped
    <3>3. k \in Nat /\ Len(q) \in Nat /\ Len(s) = Len(q) - 1
      BY <1>1 DEF Popped
    <3>4. \A j \in 1 .. (k - 1) - 1 : j + 1 \in 1 .. k - 1 /\ s[j] = q[j + 1]
      <4>1. \A j \in 1 .. (k - 1) - 1 : j + 1 \in 1 .. k - 1 /\ j \in 1 .. Len(s)
        BY <3>3
      <4> QED BY <4>1, <1>1 DEF Popped
    <3>5. t.late = 1 => \A j \in 1 .. (k - 1) - 1 : ~Is(s[j], "read", id)
      BY <3>1, <3>4
    <3>6. Is(s[k - 1], "closeio", id) /\ t.late <= 1
      BY <3>1, <3>2
    <3> QED BY <3>2, <3>5, <3>6
  <2>2. ASSUME c.life # "open" PROVE t.late <= 1 \/ (t.late = 2 /\ ~Has(s, "read", id))
    BY <1>1, <1>4, <2>2 DEF LateAt, Popped
  <2>3. t.closes = 0 => t.late = 0
    BY <1>4 DEF LateAt
  <2> QED BY <2>1, <2>2, <2>3 DEF LateAt
<1> QED BY <1>2, <1>3, <1>4 DEF s

\* What each part depends on.
SameOutput(c, d) ==
    /\ d.life = c.life /\ d.inflight = c.inflight /\ (d.writing <=> c.writing)
    /\ d.pending = c.pending /\ d.sent = c.sent /\ d.wire = c.wire

\* A part that depends on nothing that changes is kept.
LEMMA PartsKeep ==
  ASSUME NEW q, NEW id, NEW c \in ConnRecs, NEW d \in ConnRecs, NEW t, NEW u
  PROVE /\ ReadAt(q, id, c) /\ (d.reading <=> c.reading) /\ d.life = c.life => ReadAt(q, id, d)
        /\ WriteAt(q, id, c) /\ SameOutput(c, d) => WriteAt(q, id, d)
        /\ LateAt(q, id, c, t) /\ d.life = c.life /\ u.closes = t.closes /\ u.late = t.late => LateAt(q, id, d, u)
<1>1. ReadAt(q, id, c) /\ (d.reading <=> c.reading) /\ d.life = c.life => ReadAt(q, id, d)
  BY DEF ReadAt
<1>2. ASSUME WriteAt(q, id, c), SameOutput(c, d) PROVE WriteAt(q, id, d)
  <2> USE DEF SameOutput
  <2>1. d.writing \in BOOLEAN /\ (d.writing <=> c.writing)
    BY <1>2 DEF ConnRecs
  <2>2. c.life = "open" => /\ d.writing <=> c.pending # <<>>
                           /\ d.writing <=> c.inflight > 0 \/ Has(q, "write", id)
    BY <1>2, <2>1 DEF WriteAt
  <2>3. /\ ~Has(q, "write", id) => StreamAt(c.pending, c.sent, c.wire, 0)
        /\ \A k \in 1 .. Len(q) : Is(q[k], "write", id) => StreamAt(c.pending, c.sent, c.wire, q[k].arg)
        /\ Single(q, "write", id) /\ (c.inflight > 0 => c.life = "open" /\ ~Has(q, "write", id))
        /\ c.inflight <= Len(c.pending)
    BY <1>2 DEF WriteAt
  <2> QED BY <1>2, <2>2, <2>3 DEF WriteAt
<1>3. LateAt(q, id, c, t) /\ d.life = c.life /\ u.closes = t.closes /\ u.late = t.late => LateAt(q, id, d, u)
  BY DEF LateAt
<1> QED BY <1>1, <1>2, <1>3

\* The socket is closed: nothing is out any more, and what is queued has no effect.
LEMMA PartsClosed ==
  ASSUME NEW q \in Seq(Posted), NEW id, NEW c \in ConnRecs, NEW t \in ToldRecs, NEW u \in ToldRecs
  PROVE /\ ReadAt(q, id, c) => ReadAt(q, id, Closed(c))
        /\ WriteAt(q, id, c) => WriteAt(q, id, Closed(c))
        /\ LateAt(q, id, c, t) /\ c.life = "open" /\ u.closes >= t.closes /\ u.late = t.late => LateAt(q, id, Closed(c), u)
        /\ Closed(c) \in ConnRecs /\ Closed(c).life = "closed" /\ Closed(c).sent = c.sent
<1> DEFINE d == Closed(c)
<1>1. /\ d.life = "closed" /\ d.reading = FALSE /\ d.inflight = 0 /\ d.pending = c.pending /\ d.sent = c.sent
      /\ d.wire = c.wire /\ d \in ConnRecs
  BY DEF Closed, ConnRecs
<1>2. 0 <= Len(c.pending)
  BY DEF ConnRecs
<1> HIDE DEF d
<1>3. ReadAt(q, id, c) => ReadAt(q, id, d)
  BY <1>1 DEF ReadAt
<1>4. WriteAt(q, id, c) => WriteAt(q, id, d)
  BY <1>1, <1>2 DEF WriteAt
<1>5. ASSUME LateAt(q, id, c, t), c.life = "open", u.closes >= t.closes, u.late = t.late PROVE LateAt(q, id, d, u)
  <2>1. t.late <= 1 /\ (t.closes = 0 => t.late = 0) /\ t.closes \in Nat /\ u.closes \in Nat
    BY <1>5 DEF LateAt, ToldRecs
  <2>2. u.closes = 0 => u.late = 0
    BY <1>5, <2>1
  <2> QED BY <1>1, <1>5, <2>1, <2>2 DEF LateAt
<1> QED BY <1>1, <1>3, <1>4, <1>5 DEF d
\* The accept loop, when no handler of accept or of the shutdown comes or goes.
SameLoop(s, z) ==
    /\ z.accepting <=> s.accepting
    /\ z.running <=> s.running
    /\ z.acceptor <=> s.acceptor
    /\ z.stopping => s.stopping
    /\ z.thread = s.thread /\ z.nextId = s.nextId

\* What AcceptAt says of the accept loop is kept.
LEMMA AcceptFrames ==
  ASSUME NEW q \in Seq(Posted), NEW r \in Seq(Posted), NEW s, NEW z
  PROVE /\ AcceptAt(q, s) /\ ~Has(r, "shutdown", 0) /\ (\A k \in 1 .. Len(r) : r[k].do # "accept") => AcceptAt(q \o r, s)
        /\ AcceptAt(q, s) /\ q # <<>> /\ Head(q).do # "accept" => AcceptAt(Tail(q), s)
        /\ AcceptAt(q, s) /\ SameLoop(s, z) => AcceptAt(q, z)
<1>1. ASSUME AcceptAt(q, s), ~Has(r, "shutdown", 0), \A k \in 1 .. Len(r) : r[k].do # "accept" PROVE AcceptAt(q \o r, s)
  <2> DEFINE w == q \o r
  <2>1. Joined(q, r, w)
    BY QueueJoined
  <2> HIDE DEF w
  <2>2. ~Has(r, "accept", 0)
    BY <1>1 DEF Has, Is
  <2>3. \A k \in 1 .. Len(w) : w[k].do = "accept" => k \in 1 .. Len(q) /\ w[k] = q[k]
    BY <1>1, <2>1 DEF Joined
  <2>4. /\ Single(w, "accept", 0) /\ (Has(w, "accept", 0) <=> Has(q, "accept", 0))
        /\ Has(w, "shutdown", 0) <=> Has(q, "shutdown", 0)
    BY <1>1, <2>1, <2>2 DEF Joined, AcceptAt
  <2>5. AcceptAt(w, s)
    BY <1>1, <2>3, <2>4 DEF AcceptAt
  <2> QED BY <2>5 DEF w
<1>2. ASSUME AcceptAt(q, s), q # <<>>, Head(q).do # "accept" PROVE AcceptAt(Tail(q), s)
  <2> DEFINE w == Tail(q)
  <2>1. Popped(q, w)
    BY <1>2, QueuePopped
  <2> HIDE DEF w
  <2>2. ~Is(Head(q), "accept", 0)
    BY <1>2 DEF Is
  <2>3. \A k \in 1 .. Len(w) : \E j \in 1 .. Len(q) : w[k] = q[j]
    BY <2>1 DEF Popped
  <2>4. /\ Single(w, "accept", 0) /\ (Has(w, "accept", 0) <=> Has(q, "accept", 0))
        /\ Has(w, "shutdown", 0) => Has(q, "shutdown", 0)
    BY <1>2, <2>1, <2>2 DEF Popped, AcceptAt
  <2>5. AcceptAt(w, s)
    BY <1>2, <2>3, <2>4 DEF AcceptAt
  <2> QED BY <2>5 DEF w
<1>3. AcceptAt(q, s) /\ SameLoop(s, z) => AcceptAt(q, z)
  BY DEF AcceptAt, SameLoop
<1> QED BY <1>1, <1>2, <1>3

\* Ids in the queue stay ids of connections that have been accepted.
LEMMA IdsFrames ==
  ASSUME NEW q \in Seq(Posted), NEW r \in Seq(Posted), NEW n \in Nat, NEW m \in Nat
  PROVE /\ IdsAt(q, n) /\ IdsAt(r, n) => IdsAt(q \o r, n)
        /\ IdsAt(q, n) /\ q # <<>> => IdsAt(Tail(q), n) /\ IdsAt(<<Head(q)>>, n)
        /\ IdsAt(q, n) /\ n <= m => IdsAt(q, m)
<1>1. ASSUME IdsAt(q, n), IdsAt(r, n) PROVE IdsAt(q \o r, n)
  <2> DEFINE w == q \o r
  <2>1. Joined(q, r, w)
    BY QueueJoined
  <2> HIDE DEF w
  <2>2. \A k \in 1 .. Len(w) : (\E j \in 1 .. Len(q) : w[k] = q[j]) \/ (\E j \in 1 .. Len(r) : w[k] = r[j])
    BY <2>1 DEF Joined
  <2>3. IdsAt(w, n)
    BY <1>1, <2>2 DEF IdsAt
  <2> QED BY <2>3 DEF w
<1>2. ASSUME IdsAt(q, n), q # <<>> PROVE IdsAt(Tail(q), n) /\ IdsAt(<<Head(q)>>, n)
  <2> DEFINE w == Tail(q)
  <2>1. Popped(q, w)
    BY <1>2, QueuePopped
  <2> HIDE DEF w
  <2>2. \A k \in 1 .. Len(w) : \E j \in 1 .. Len(q) : w[k] = q[j]
    BY <2>1 DEF Popped
  <2>3. IdsAt(w, n)
    BY <1>2, <2>2 DEF IdsAt
  <2>4. IF q[1].do \in Subjects THEN q[1].id \in Ids /\ q[1].id < n ELSE q[1].id = 0
    BY <1>2, <2>1 DEF IdsAt, Popped
  <2>5. IdsAt(<<Head(q)>>, n)
    BY <2>1, <2>4 DEF IdsAt, Popped
  <2> QED BY <2>3, <2>5 DEF w
<1>3. ASSUME IdsAt(q, n), n <= m PROVE IdsAt(q, m)
  <2>1. \A i \in Ids : i < n => i < m
    BY <1>3, ServerAssumption DEF Ids
  <2> QED BY <1>3, <2>1 DEF IdsAt
<1> QED BY <1>1, <1>2, <1>3

\* The order of the payloads in the queue is kept.
LEMMA SendsFrames ==
  ASSUME NEW q \in Seq(Posted), NEW r \in Seq(Posted), NEW C \in [Ids -> ConnRecs], NEW D \in [Ids -> ConnRecs],
         NEW e \in Nat, NEW f \in Nat, NEW n \in Nat
  PROVE /\ SendsAt(q, C, e) /\ (\A k \in 1 .. Len(r) : ~IsPayload(r[k])) => SendsAt(q \o r, C, e)
        /\ SendsAt(q, C, e) /\ q # <<>> => SendsAt(Tail(q), C, e)
        /\ SendsAt(q, C, e) /\ IdsAt(q, n) /\ e <= f /\ (\A id \in Ids : D[id].sent = C[id].sent) => SendsAt(q, D, f)
<1>1. ASSUME SendsAt(q, C, e), \A k \in 1 .. Len(r) : ~IsPayload(r[k]) PROVE SendsAt(q \o r, C, e)
  <2> DEFINE w == q \o r
  <2>1. Joined(q, r, w)
    BY QueueJoined
  <2> HIDE DEF w
  <2>2. \A k \in 1 .. Len(w) : IsPayload(w[k]) => k \in 1 .. Len(q) /\ w[k] = q[k]
    BY <1>1, <2>1 DEF Joined
  <2>3. SendsAt(w, C, e)
    BY <1>1, <2>2 DEF SendsAt
  <2> QED BY <2>3 DEF w
<1>2. ASSUME SendsAt(q, C, e), q # <<>> PROVE SendsAt(Tail(q), C, e)
  <2> DEFINE w == Tail(q)
  <2>1. Popped(q, w)
    BY <1>2, QueuePopped
  <2> HIDE DEF w
  <2>2. \A k \in 1 .. Len(w) : k + 1 \in 1 .. Len(q) /\ w[k] = q[k + 1]
    BY <2>1 DEF Popped
  <2>3. \A j, k \in 1 .. Len(w) : j < k => j + 1 < k + 1
    BY <2>1 DEF Popped
  <2>4. \A k \in 1 .. Len(w) : IsPayload(w[k]) => w[k].arg <= e /\ Len(C[w[k].id].sent) < w[k].arg
    BY <1>2, <2>2 DEF SendsAt
  <2>5. ASSUME NEW j \in 1 .. Len(w), NEW k \in 1 .. Len(w), IsPayload(w[j]), IsPayload(w[k]),
               (w[j].do = w[k].do /\ j < k) \/ (w[j].do = "append" /\ w[k].do = "send")
        PROVE w[j].arg < w[k].arg
    BY <1>2, <2>2, <2>3, <2>5 DEF SendsAt
  <2>6. \A id \in Ids : Len(C[id].sent) <= e
    BY <1>2 DEF SendsAt
  <2>7. SendsAt(w, C, e)
    BY <2>4, <2>5, <2>6 DEF SendsAt
  <2> QED BY <2>7 DEF w
<1>3. ASSUME SendsAt(q, C, e), IdsAt(q, n), e <= f, \A id \in Ids : D[id].sent = C[id].sent PROVE SendsAt(q, D, f)
  <2>1. \A k \in 1 .. Len(q) : q[k] \in Posted
    OBVIOUS
  <2>2. \A k \in 1 .. Len(q) : q[k].arg \in Nat /\ (IsPayload(q[k]) => q[k].id \in Ids)
    BY <1>3, <2>1 DEF Posted, IdsAt, IsPayload, Subjects
  <2>3. \A id \in Ids : Len(C[id].sent) \in Nat
    BY DEF ConnRecs
  <2>4. \A id \in Ids : Len(D[id].sent) <= f
    BY <1>3, <2>3 DEF SendsAt
  <2>5. \A k \in 1 .. Len(q) : IsPayload(q[k]) => q[k].arg <= f /\ Len(D[q[k].id].sent) < q[k].arg
    BY <1>3, <2>2 DEF SendsAt
  <2> QED BY <1>3, <2>4, <2>5 DEF SendsAt
<1> QED BY <1>1, <1>2, <1>3
\* The queue after a step that calls a handler, or none, and makes r ready: b is
\* what the call has left.
Left(b) == b = ready \/ (ready # <<>> /\ b = Tail(ready))
Plain(r) ==
    /\ r \in Seq(Posted) /\ IdsAt(r, server.nextId)
    /\ \A k \in 1 .. Len(r) : r[k].do \notin {"accept", "read", "write", "shutdown", "send", "append"}

QueueHolds(b, s) ==
    /\ s \in Seq(Posted) /\ IdsAt(s, server.nextId) /\ SendsAt(s, conn, events)
    /\ b = ready \/ Head(ready).do # "accept" => AcceptAt(s, server)
    /\ \A id \in Ids :
         /\ b = ready \/ ~Is(Head(ready), "read", id) => ReadAt(s, id, conn[id])
         /\ b = ready \/ ~Is(Head(ready), "write", id) => WriteAt(s, id, conn[id])
         /\ b = ready \/ ~Is(Head(ready), "closeio", id) => LateAt(s, id, conn[id], told[id])

\* What the parts of the invariant say of the queue still holds of what is left.
LEMMA QueueLeft ==
  ASSUME ServerIInv, NEW b, Left(b)
  PROVE QueueHolds(b, b)
<1> USE DEF ServerIInv
<1>1. ready \in Seq(Posted)
  BY DEF ServerTypes
<1>2. CASE b = ready
  BY <1>1, <1>2 DEF QueueHolds, ConnAt
<1>3. CASE b # ready
  <2>1. ready # <<>> /\ b = Tail(ready) /\ b \in Seq(Posted)
    BY <1>1, <1>3 DEF Left
  <2>2. server.nextId \in Nat /\ conn \in [Ids -> ConnRecs] /\ events \in Nat
    BY ServerAssumption DEF ServerTypes, ServerRecs
  <2>3. IdsAt(b, server.nextId)
    BY <1>1, <2>1, <2>2, IdsFrames
  <2>4. SendsAt(b, conn, events)
    BY <1>1, <2>1, <2>2, SendsFrames
  <2>5. Head(ready).do # "accept" => AcceptAt(b, server)
    BY <1>1, <2>1, AcceptFrames
  <2>6. ASSUME NEW id \in Ids
        PROVE /\ ~Is(Head(ready), "read", id) => ReadAt(b, id, conn[id])
              /\ ~Is(Head(ready), "write", id) => WriteAt(b, id, conn[id])
              /\ ~Is(Head(ready), "closeio", id) => LateAt(b, id, conn[id], told[id])
    <3>1. ReadAt(ready, id, conn[id]) /\ WriteAt(ready, id, conn[id]) /\ LateAt(ready, id, conn[id], told[id])
      BY DEF ConnAt
    <3> QED BY <1>1, <2>1, <3>1, PartsPop
  <2> QED BY <1>3, <2>1, <2>3, <2>4, <2>5, <2>6 DEF QueueHolds
<1> QED BY <1>2, <1>3

\* And of the queue when handlers that are no completions have joined.
LEMMA QueuePlain ==
  ASSUME ServerIInv, NEW b, Left(b), NEW r, Plain(r)
  PROVE QueueHolds(b, b \o r) /\ Joined(b, r, b \o r)
<1> DEFINE s == b \o r
<1>1. QueueHolds(b, b)
  BY QueueLeft
<1>2. b \in Seq(Posted) /\ r \in Seq(Posted) /\ server.nextId \in Nat /\ conn \in [Ids -> ConnRecs] /\ events \in Nat
  BY <1>1, ServerAssumption DEF QueueHolds, Plain, ServerIInv, ServerTypes, ServerRecs
<1>3. /\ \A k \in 1 .. Len(r) : r[k].do # "accept" /\ ~IsPayload(r[k])
      /\ ~Has(r, "shutdown", 0) /\ \A id : ~Has(r, "read", id) /\ ~Has(r, "write", id)
  BY DEF Plain, IsPayload, Has, Is
<1>4. IdsAt(s, server.nextId)
  BY <1>1, <1>2, IdsFrames DEF Plain, QueueHolds
<1>5. SendsAt(s, conn, events)
  BY <1>1, <1>2, <1>3, SendsFrames DEF QueueHolds
<1>6. b = ready \/ Head(ready).do # "accept" => AcceptAt(s, server)
  BY <1>1, <1>2, <1>3, AcceptFrames DEF QueueHolds
<1>7. Joined(b, r, s)
  BY <1>2, QueueJoined
<1>8. ASSUME NEW id \in Ids
      PROVE /\ b = ready \/ ~Is(Head(ready), "read", id) => ReadAt(s, id, conn[id])
            /\ b = ready \/ ~Is(Head(ready), "write", id) => WriteAt(s, id, conn[id])
            /\ b = ready \/ ~Is(Head(ready), "closeio", id) => LateAt(s, id, conn[id], told[id])
  <2>1. /\ b = ready \/ ~Is(Head(ready), "read", id) => ReadAt(b, id, conn[id])
        /\ b = ready \/ ~Is(Head(ready), "write", id) => WriteAt(b, id, conn[id])
        /\ b = ready \/ ~Is(Head(ready), "closeio", id) => LateAt(b, id, conn[id], told[id])
    BY <1>1 DEF QueueHolds
  <2> QED BY <1>2, <1>3, <2>1, PartsJoin
<1>9. s \in Seq(Posted)
  BY <1>7 DEF Joined
<1> HIDE DEF s
<1>10. QueueHolds(b, s)
  BY <1>4, <1>5, <1>6, <1>8, <1>9 DEF QueueHolds
<1> QED BY <1>7, <1>10 DEF s

\* What the ledger depends on.
KeepsLedger ==
    /\ UNCHANGED <<server.nextId, server.map, server.peers, server.count, server.totalAccepted, server.totalClosed>>
    /\ server'.thread = "ended" => server.thread = "ended"
    /\ \A id \in Ids : /\ told'[id].accepts = told[id].accepts /\ told'[id].closes = told[id].closes
                       /\ conn'[id].life = conn[id].life \/ (conn[id].life = "open" /\ conn'[id].life = "closed")

\* A step that keeps what the ledger depends on preserves it.
LEMMA LedgerKept == Ledger /\ KeepsLedger => Ledger'
<1> SUFFICES ASSUME Ledger, KeepsLedger PROVE Ledger'
  OBVIOUS
<1>1. Reported' = Reported /\ Twice' = Twice
  BY DEF Reported, Twice, KeepsLedger
<1>2. Cardinality(Reported)' = Cardinality(Reported) /\ Cardinality(Twice)' = Cardinality(Twice)
  BY <1>1
<1>3. \A id \in Ids : /\ conn'[id].life # "none" <=> id < server'.nextId
                      /\ told'[id].accepts > 0 <=> id < server'.nextId
                      /\ id >= server'.nextId => told'[id].closes = 0
                      /\ told'[id].closes <= 2 /\ (Open(id)' => told'[id].closes <= 1)
  BY DEF Ledger, KeepsLedger, Open
<1>4. server'.map = {id \in Ids : id < server'.nextId /\ told'[id].closes = 0} /\ server'.peers = server'.map
  BY DEF Ledger, KeepsLedger
<1>5. /\ server'.nextId \in 1 .. MaxConns + 1 /\ server'.totalAccepted = server'.nextId - 1
      /\ server'.totalClosed = Cardinality(Reported)' + Cardinality(Twice)'
      /\ server'.count <= Cardinality(server'.map)
      /\ Cardinality(server'.map) <= server'.count + Cardinality(Twice)'
  BY <1>2 DEF Ledger, KeepsLedger
<1>6. server'.thread = "ended" => server'.map = {} /\ \A id \in Ids : ~Open(id)'
  BY DEF Ledger, KeepsLedger, Open
<1> QED BY <1>3, <1>4, <1>5, <1>6 DEF Ledger
\* A step that leaves the connections, the callbacks, the table and the accept loop
\* as they are, and calls or queues no completion.
LEMMA QuietStep ==
  ASSUME ServerIInv, NEW b, Left(b), NEW r, Plain(r), ready' = b \o r,
         b = ready \/ Head(ready).do \notin {"accept", "read", "write", "closeio"},
         conn' = conn, told' = told, events' \in events .. MaxEvents, server' \in ServerRecs,
         SameLoop(server, server'),
         UNCHANGED <<server.map, server.peers, server.count, server.totalAccepted, server.totalClosed>>
  PROVE ServerIInv'
<1>1. QueueHolds(b, ready')
  BY QueuePlain
<1>2. server'.nextId = server.nextId /\ server'.thread = server.thread
  BY DEF SameLoop
<1>3. Ledger'
  <2>1. KeepsLedger
    BY <1>2 DEF KeepsLedger
  <2> QED BY <2>1, LedgerKept DEF ServerIInv
<1>4. conn \in [Ids -> ConnRecs] /\ told \in [Ids -> ToldRecs] /\ events \in Nat /\ events' \in Nat /\ server.nextId \in Nat
      /\ events <= events'
  BY ServerAssumption DEF ServerIInv, ServerTypes, ServerRecs
<1>5. ServerTypes'
  <2>1. events' \in 0 .. MaxEvents
    BY <1>4, ServerAssumption
  <2> QED BY <1>1, <1>4, <2>1 DEF ServerTypes, QueueHolds
<1>6. AcceptAt(ready', server')
  BY <1>1, <1>2, AcceptFrames DEF QueueHolds
<1>7. IdsAt(ready', server'.nextId)
  BY <1>1, <1>2 DEF QueueHolds
<1>8. SendsAt(ready', conn', events')
  BY <1>1, <1>4, SendsFrames DEF QueueHolds
<1>9. \A id \in Ids : ConnAt(ready', id, conn'[id], told'[id])
  BY <1>1 DEF QueueHolds, ConnAt, Is
<1> QED BY <1>3, <1>5, <1>6, <1>7, <1>8, <1>9 DEF ServerIInv

\* One handler behind the others, or none.
LEMMA OneMore ==
  ASSUME ServerIInv, NEW t
  PROVE /\ Append(ready, t) = ready \o <<t>> /\ ready \o <<>> = ready /\ Left(ready)
        /\ ready # <<>> => Left(Tail(ready)) /\ Tail(ready) \o <<>> = Tail(ready)
        /\ t \in Posted /\ t.do \notin {"accept", "read", "write", "shutdown", "send", "append"} /\ IdsAt(<<t>>, server.nextId)
             => Plain(<<t>>)
        /\ Plain(<<>>)
<1>1. ready \in Seq(Posted)
  BY DEF ServerIInv, ServerTypes
<1>2. Append(ready, t) = ready \o <<t>> /\ ready \o <<>> = ready /\ Left(ready)
  BY <1>1 DEF Left
<1>3. ready # <<>> => Left(Tail(ready)) /\ Tail(ready) \o <<>> = Tail(ready)
  BY <1>1 DEF Left
<1>4. ASSUME t \in Posted, t.do \notin {"accept", "read", "write", "shutdown", "send", "append"}, IdsAt(<<t>>, server.nextId)
      PROVE Plain(<<t>>)
  <2>1. <<t>> \in Seq(Posted) /\ Len(<<t>>) = 1 /\ <<t>>[1] = t
    BY <1>4
  <2> QED BY <1>4, <2>1 DEF Plain
<1>5. Plain(<<>>)
  BY DEF Plain, IdsAt
<1> QED BY <1>2, <1>3, <1>4, <1>5

\* A handler for a connection that is known, or for none.
LEMMA OneTask ==
  ASSUME ServerIInv, NEW what \in Subjects \cup {"accept", "idle", "tick", "shutdown"}, NEW id, NEW arg \in Nat,
         what \in Subjects => id \in Ids /\ id < server.nextId, what \notin Subjects => id = 0
  PROVE /\ Task(what, id, arg) \in Posted /\ IdsAt(<<Task(what, id, arg)>>, server.nextId)
        /\ Task(what, id, arg).do = what /\ Task(what, id, arg).id = id /\ Task(what, id, arg).arg = arg
        /\ <<Task(what, id, arg)>> \in Seq(Posted)
<1> DEFINE t == Task(what, id, arg)
<1>1. t.do = what /\ t.id = id /\ t.arg = arg
  BY DEF Task
<1>2. id \in Nat
  BY DEF Ids
<1>3. t \in Posted
  BY <1>2 DEF Task, Posted
<1> HIDE DEF t
<1>4. IdsAt(<<t>>, server.nextId)
  BY <1>1 DEF IdsAt
<1> QED BY <1>1, <1>3, <1>4 DEF t

\* InOrder lists exactly the numbers of a finite set, counting up.
LEMMA InOrderLists ==
    ASSUME NEW S \in SUBSET Nat, IsFiniteSet(S)
    PROVE  /\ InOrder(S) \in Seq(S) /\ Len(InOrder(S)) = Cardinality(S)
           /\ \A j, k \in 1 .. Len(InOrder(S)) : j < k => InOrder(S)[j] < InOrder(S)[k]
           /\ \A i \in S : \E k \in 1 .. Len(InOrder(S)) : InOrder(S)[k] = i
<1> DEFINE Below(i) == {j \in S : j <= i}
           r == [i \in S |-> Cardinality(Below(i))]
           n == Cardinality(S)
<1>1. n \in Nat
  BY FS_CardinalityType
<1>2. ASSUME NEW i \in S PROVE IsFiniteSet(Below(i)) /\ Cardinality(Below(i)) \in 1 .. n
  <2>1. IsFiniteSet(Below(i)) /\ Cardinality(Below(i)) <= n
    BY FS_Subset, Below(i) \subseteq S
  <2>2. Cardinality(Below(i)) \in Nat /\ (Cardinality(Below(i)) = 0 <=> Below(i) = {})
    BY <2>1, FS_CardinalityType, FS_EmptySet
  <2>3. i \in Below(i)
    OBVIOUS
  <2> HIDE DEF Below
  <2> QED BY <2>1, <2>2, <2>3, <1>1
<1>3. ASSUME NEW i \in S, NEW j \in S, i < j
      PROVE  Cardinality(Below(i)) < Cardinality(Below(j))
  <2>1. Below(i) \subseteq Below(j) /\ j \in Below(j) /\ j \notin Below(i)
    <3>1. i \in Nat /\ j \in Nat /\ i < j /\ \A k \in S : k \in Nat
      BY <1>3
    <3>2. \A k \in S : k <= i => k <= j
      BY <3>1
    <3>3. j <= j /\ ~(j <= i)
      BY <3>1
    <3> QED BY <3>2, <3>3
  <2>2. /\ Cardinality(Below(i)) <= Cardinality(Below(j))
        /\ Cardinality(Below(j)) = Cardinality(Below(i)) => Below(j) = Below(i)
    BY <1>2, <2>1, FS_Subset
  <2>3. Cardinality(Below(i)) \in 1 .. n /\ Cardinality(Below(j)) \in 1 .. n
    BY <1>2
  <2> HIDE DEF Below
  <2> QED BY <1>1, <2>1, <2>2, <2>3
<1> HIDE DEF Below
<1>4. r \in [S -> 1 .. n]
  BY <1>2
<1>5. \A i, j \in S : i # j => r[i] # r[j]
  BY <1>1, <1>2, <1>3
<1>6. r \in Injection(S, 1 .. n)
  BY <1>4, <1>5 DEF Injection, IsInjective
<1>7. IsFiniteSet(1 .. n) /\ Cardinality(1 .. n) = n
  <2>1. 1 \in Int /\ n \in Int
    BY <1>1
  <2> QED BY <1>1, <2>1, FS_Interval
<1>8. r \in Surjection(S, 1 .. n)
  BY <1>6, <1>7, FS_Injection
<1>9. ASSUME NEW k \in 1 .. n PROVE InOrder(S)[k] \in S /\ Cardinality(Below(InOrder(S)[k])) = k
  <2>1. PICK i \in S : r[i] = k
    BY <1>8 DEF Surjection
  <2>2. Cardinality({j \in S : j <= i}) = k
    BY <2>1 DEF Below
  <2>3. InOrder(S)[k] = CHOOSE m \in S : Cardinality({j \in S : j <= m}) = k
    BY DEF InOrder
  <2> QED BY <2>2, <2>3 DEF Below
<1>10. InOrder(S) \in [1 .. n -> S]
  BY <1>9 DEF InOrder
<1>11. InOrder(S) \in Seq(S) /\ Len(InOrder(S)) = n
  BY <1>1, <1>10
<1>12. ASSUME NEW j \in 1 .. n, NEW k \in 1 .. n, j < k PROVE InOrder(S)[j] < InOrder(S)[k]
  <2>1. PICK a \in S, b \in S : /\ a = InOrder(S)[j] /\ b = InOrder(S)[k]
                               /\ Cardinality(Below(a)) = j /\ Cardinality(Below(b)) = k
    BY <1>9
  <2>2. a \in Nat /\ b \in Nat
    OBVIOUS
  <2>3. ~(b < a) /\ b # a
    BY <1>1, <1>3, <1>12, <2>1
  <2> QED BY <2>1, <2>2, <2>3
<1>13. ASSUME NEW i \in S PROVE \E k \in 1 .. n : InOrder(S)[k] = i
  <2>1. r[i] \in 1 .. n /\ r[i] = Cardinality(Below(i))
    BY <1>4
  <2>2. InOrder(S)[r[i]] \in S /\ r[InOrder(S)[r[i]]] = r[i]
    BY <1>9, <2>1
  <2> QED BY <1>5, <2>1, <2>2
<1> QED BY <1>11, <1>12, <1>13

\* Posts lists a handler for each id of a set.
LEMMA PostsLists ==
  ASSUME ServerIInv, NEW S \in SUBSET Ids, \A id \in S : id < server.nextId, NEW what \in {"close", "closeio"}
  PROVE Plain(Posts(what, S)) /\ \A id \in S : Has(Posts(what, S), what, id)
<1> DEFINE p == Posts(what, S)  f == InOrder(S)
<1>1. S \in SUBSET Nat /\ IsFiniteSet(S) /\ Cardinality(S) \in Nat
  <2>1. IsFiniteSet(Ids)
    BY ServerAssumption, FS_Interval DEF Ids
  <2>2. IsFiniteSet(S)
    BY <2>1, FS_Subset
  <2> QED BY <2>2, ServerAssumption, FS_CardinalityType DEF Ids
<1>2. /\ f \in Seq(S) /\ Len(f) = Cardinality(S)
      /\ \A i \in S : \E k \in 1 .. Len(f) : f[k] = i
  BY <1>1, InOrderLists
<1>3. p = [k \in 1 .. Cardinality(S) |-> Task(what, f[k], 0)]
  BY DEF Posts
<1> HIDE DEF f, p
<1>4. ASSUME NEW k \in 1 .. Cardinality(S) PROVE p[k] = Task(what, f[k], 0) /\ f[k] \in S
  BY <1>2, <1>3
<1>5. what \in Subjects /\ what \notin {"accept", "read", "write", "shutdown", "send", "append"}
  BY DEF Subjects
<1>6. ASSUME NEW k \in 1 .. Cardinality(S)
      PROVE p[k] \in Posted /\ p[k].do = what /\ p[k].id = f[k] /\ p[k].id \in Ids /\ p[k].id < server.nextId
  <2>1. PICK i \in S : i = f[k]
    BY <1>4
  <2>2. p[k] = Task(what, i, 0) /\ i \in Ids /\ i < server.nextId
    BY <1>4, <2>1
  <2>3. i \in Nat
    BY <2>2 DEF Ids
  <2>4. /\ Task(what, i, 0) \in Posted /\ Task(what, i, 0).do = what /\ Task(what, i, 0).id = i
    BY <1>5, <2>3 DEF Task, Posted
  <2> QED BY <2>1, <2>2, <2>4
<1>7. p \in Seq(Posted) /\ Len(p) = Cardinality(S)
  BY <1>1, <1>3, <1>6
<1>8. Plain(p)
  BY <1>5, <1>6, <1>7 DEF Plain, IdsAt
<1>9. \A id \in S : Has(p, what, id)
  BY <1>2, <1>6, <1>7 DEF Has, Is
<1> QED BY <1>8, <1>9 DEF p
\* What the head of the queue is.
LEMMA HeadTask ==
  ASSUME ServerIInv, ready # <<>>
  PROVE /\ Head(ready) \in Posted /\ Arg \in Nat /\ Id \in Nat
        /\ Head(ready).do \in Subjects => Id \in Ids /\ Id < server.nextId
        /\ Left(Tail(ready)) /\ Popped(ready, Tail(ready))
<1>1. ready \in Seq(Posted) /\ IdsAt(ready, server.nextId)
  BY DEF ServerIInv, ServerTypes
<1>2. Popped(ready, Tail(ready))
  BY <1>1, QueuePopped
<1>3. Head(ready) \in Posted /\ Head(ready) = ready[1] /\ 1 \in 1 .. Len(ready)
  BY <1>2 DEF Popped
<1>4. Head(ready).do \in Subjects => Id \in Ids /\ Id < server.nextId
  BY <1>1, <1>3 DEF IdsAt, Id
<1>5. Arg \in Nat /\ Id \in Nat
  BY <1>3 DEF Posted, Arg, Id
<1> QED BY <1>2, <1>3, <1>4, <1>5 DEF Left

\* The calls that only post, and the setting of the limit.
LEMMA CallerQuiet ==
  ASSUME ServerIInv,
         \/ \E id \in Announced : ServerClose(id)
         \/ \E on \in BOOLEAN : SetIdleTimeout(on)
         \/ \E n \in Limits : SetMaxConnections(n)
  PROVE ServerIInv'
<1>1. server \in ServerRecs /\ events \in Nat /\ events \in 0 .. MaxEvents /\ MaxEvents \in Nat
  BY ServerAssumption DEF ServerIInv, ServerTypes
<1>2. ASSUME NEW id \in Announced, ServerClose(id) PROVE ServerIInv'
  <2> DEFINE t == Task("close", id, 0)
  <2>1. id \in Ids /\ id < server.nextId
    BY <1>2 DEF Announced, ServerIInv, Ledger
  <2>2. t \in Posted /\ t.do = "close" /\ IdsAt(<<t>>, server.nextId)
    BY <2>1, OneTask DEF Subjects
  <2>3. ready' = Append(ready, t) /\ events' \in events .. MaxEvents /\ UNCHANGED <<server, conn, told>>
    BY <1>1, <1>2 DEF ServerClose, Event
  <2> HIDE DEF t
  <2>4. Plain(<<t>>) /\ ready' = ready \o <<t>> /\ Left(ready)
    BY <2>2, <2>3, OneMore
  <2> QED BY <1>1, <2>3, <2>4, QuietStep DEF SameLoop
<1>3. ASSUME SetIdleTimeout(TRUE) PROVE ServerIInv'
  <2> DEFINE t == Task("idle", 0, 0)
  <2>2. t \in Posted /\ t.do = "idle" /\ IdsAt(<<t>>, server.nextId)
    BY OneTask DEF Subjects
  <2>3. /\ ready' = Append(ready, t) /\ events' \in events .. MaxEvents /\ UNCHANGED <<conn, told>>
        /\ server' = [server EXCEPT !.idle = TRUE]
    BY <1>1, <1>3 DEF SetIdleTimeout, Event
  <2> HIDE DEF t
  <2>4. Plain(<<t>>) /\ ready' = ready \o <<t>> /\ Left(ready)
    BY <2>2, <2>3, OneMore
  <2>5. /\ server' \in ServerRecs /\ SameLoop(server, server')
        /\ UNCHANGED <<server.map, server.peers, server.count, server.totalAccepted, server.totalClosed>>
    BY <1>1, <2>3 DEF SameLoop, ServerRecs
  <2> QED BY <1>1, <2>3, <2>4, <2>5, QuietStep
<1>4. ASSUME SetIdleTimeout(FALSE) PROVE ServerIInv'
  <2>1. ready' = ready /\ events' \in events .. MaxEvents /\ UNCHANGED <<conn, told>> /\ server' = [server EXCEPT !.idle = FALSE]
    BY <1>1, <1>4 DEF SetIdleTimeout
  <2>2. Plain(<<>>) /\ ready' = ready \o <<>> /\ Left(ready)
    BY <2>1, OneMore
  <2>3. /\ server' \in ServerRecs /\ SameLoop(server, server')
        /\ UNCHANGED <<server.map, server.peers, server.count, server.totalAccepted, server.totalClosed>>
    BY <1>1, <2>1 DEF SameLoop, ServerRecs
  <2> QED BY <2>1, <2>2, <2>3, QuietStep
<1>5. ASSUME NEW n \in Limits, SetMaxConnections(n) PROVE ServerIInv'
  <2>1. n \in Nat
    BY ServerAssumption
  <2>2. ready' = ready /\ events' \in events .. MaxEvents /\ UNCHANGED <<conn, told>> /\ server' = [server EXCEPT !.max = n]
    BY <1>1, <1>5 DEF SetMaxConnections
  <2>3. Plain(<<>>) /\ ready' = ready \o <<>> /\ Left(ready)
    BY <2>2, OneMore
  <2>4. /\ server' \in ServerRecs /\ SameLoop(server, server')
        /\ UNCHANGED <<server.map, server.peers, server.count, server.totalAccepted, server.totalClosed>>
    BY <1>1, <2>1, <2>2 DEF SameLoop, ServerRecs
  <2> QED BY <2>2, <2>3, <2>4, QuietStep
<1>6. CASE \E on \in BOOLEAN : SetIdleTimeout(on)
  BY <1>3, <1>4, <1>6
<1> QED BY <1>2, <1>5, <1>6

\* The idle timer: it starts, its wait is over, its scan closes connections; and
\* Stop() has joined the thread, or nothing happens.
LEMMA TimerQuiet ==
  ASSUME ServerIInv,
         \/ OnIdleStart \/ IdleTimerExpires \/ ServerStopJoin \/ UNCHANGED serverVars
         \/ \E idle \in SUBSET server.map : OnTick(idle)
  PROVE ServerIInv'
<1>1. server \in ServerRecs /\ events \in Nat /\ events \in 0 .. MaxEvents /\ MaxEvents \in Nat
  BY ServerAssumption DEF ServerIInv, ServerTypes
<1>2. /\ conn' = conn /\ told' = told /\ events' \in events .. MaxEvents
      /\ \/ server' = server
         \/ server' = [server EXCEPT !.timer = "waiting"]
         \/ server' = [server EXCEPT !.timer = "set"]
         \/ server' = [server EXCEPT !.stopping = FALSE]
  <2>1. CASE OnIdleStart
    BY <1>1, <2>1 DEF OnIdleStart, StartIdleTimer, ServerRecs
  <2>2. CASE IdleTimerExpires
    BY <1>1, <2>2 DEF IdleTimerExpires, Event
  <2>3. CASE ServerStopJoin \/ UNCHANGED serverVars
    BY <1>1, <2>3 DEF ServerStopJoin, serverVars
  <2>4. ASSUME NEW idle \in SUBSET server.map, OnTick(idle)
        PROVE conn' = conn /\ told' = told /\ events' \in events .. MaxEvents
              /\ (server' = server \/ server' = [server EXCEPT !.timer = "waiting"])
    BY <1>1, <2>4 DEF OnTick, StartIdleTimer, ServerRecs
  <2> QED BY <2>1, <2>2, <2>3, <2>4
<1>3. /\ server' \in ServerRecs /\ SameLoop(server, server')
      /\ UNCHANGED <<server.map, server.peers, server.count, server.totalAccepted, server.totalClosed>>
  <2>1. CASE server' = server
    BY <1>1, <2>1 DEF SameLoop
  <2>2. CASE server' = [server EXCEPT !.timer = "waiting"] \/ server' = [server EXCEPT !.timer = "set"]
    BY <1>1, <2>2 DEF SameLoop, ServerRecs
  <2>3. CASE server' = [server EXCEPT !.stopping = FALSE]
    BY <1>1, <2>3 DEF SameLoop, ServerRecs
  <2> QED BY <1>2, <2>1, <2>2, <2>3
<1>4. PICK b, r : /\ Left(b) /\ Plain(r) /\ ready' = b \o r
                  /\ b = ready \/ Head(ready).do \notin {"accept", "read", "write", "closeio"}
  <2>1. CASE OnIdleStart
    <3>1. ready # <<>> /\ Head(ready).do = "idle" /\ ready' = Tail(ready) \o <<>>
      BY <2>1 DEF OnIdleStart, Handle, Handled
    <3> QED BY <3>1, OneMore
  <2>2. CASE IdleTimerExpires
    <3> DEFINE t == Task("tick", 0, 0)
    <3>1. t \in Posted /\ t.do = "tick" /\ IdsAt(<<t>>, server.nextId)
      BY OneTask DEF Subjects
    <3>2. ready' = Append(ready, t)
      BY <2>2 DEF IdleTimerExpires, Event
    <3> HIDE DEF t
    <3> QED BY <3>1, <3>2, OneMore
  <2>3. CASE ServerStopJoin \/ UNCHANGED serverVars
    <3>1. ready' = ready
      BY <2>3 DEF ServerStopJoin, serverVars
    <3> QED BY <3>1, OneMore
  <2>4. ASSUME NEW idle \in SUBSET server.map, OnTick(idle)
        PROVE \E b, r : /\ Left(b) /\ Plain(r) /\ ready' = b \o r
                        /\ b = ready \/ Head(ready).do \notin {"accept", "read", "write", "closeio"}
    <3>1. ready # <<>> /\ Head(ready).do = "tick" /\ ready' = Tail(ready) \o Posts("close", idle)
      BY <2>4 DEF OnTick, Handle, Handled
    <3>2. idle \in SUBSET Ids /\ \A id \in idle : id < server.nextId
      BY DEF ServerIInv, Ledger
    <3>3. Plain(Posts("close", idle))
      BY <3>2, PostsLists
    <3> QED BY <3>1, <3>3, OneMore
  <2> QED BY <2>1, <2>2, <2>3, <2>4
<1> QED BY <1>2, <1>3, <1>4, QuietStep
\* A payload joins the others: behind all that were sent, or, when AppendWrite is
\* posted, behind those posted before and ahead of those still to be sent.
LEMMA SendsJoin ==
  ASSUME NEW q \in Seq(Posted), NEW C \in [Ids -> ConnRecs], NEW e \in Nat, NEW f \in Nat, NEW t \in Posted,
         SendsAt(q, C, e), IsPayload(t), e <= f, t.arg <= f, Len(C[t.id].sent) < t.arg,
         \A k \in 1 .. Len(q) : /\ q[k].do = "append" => q[k].arg < t.arg
                                /\ q[k].do = "send" => IF t.do = "send" THEN q[k].arg < t.arg ELSE t.arg < q[k].arg
  PROVE SendsAt(q \o <<t>>, C, f)
<1> DEFINE r == <<t>>  w == q \o r
<1>1. r \in Seq(Posted) /\ Len(r) = 1 /\ r[1] = t
  OBVIOUS
<1>2. Joined(q, r, w)
  BY <1>1, QueueJoined
<1> HIDE DEF r, w
<1>3. PICK n \in Nat : n = Len(q)
  OBVIOUS
<1>4. Len(w) = n + 1 /\ w[n + 1] = t /\ \A k \in 1 .. n : w[k] = q[k] /\ k \in 1 .. n + 1
  BY <1>1, <1>2, <1>3, SMTT(40) DEF Joined
<1>5. \A k \in 1 .. Len(w) : k = n + 1 \/ (k \in 1 .. n /\ k < n + 1)
  BY <1>4
<1>6. \A k \in 1 .. n : q[k].arg \in Nat
  <2>1. \A k \in 1 .. n : q[k] \in Posted
    BY <1>3
  <2> QED BY <2>1 DEF Posted
<1>7. t.arg \in Nat
  BY DEF Posted
<1>8. \A id \in Ids : Len(C[id].sent) \in Nat /\ Len(C[id].sent) <= f
  <2>1. \A id \in Ids : Len(C[id].sent) \in Nat
    BY DEF ConnRecs
  <2> QED BY <2>1 DEF SendsAt
<1>9. ASSUME NEW k \in 1 .. Len(w), IsPayload(w[k]) PROVE w[k].arg <= f /\ Len(C[w[k].id].sent) < w[k].arg
  <2>1. CASE k = n + 1
    BY <1>4, <2>1
  <2>2. CASE k \in 1 .. n
    BY <1>3, <1>4, <1>6, <1>9, <2>2 DEF SendsAt
  <2> QED BY <1>5, <2>1, <2>2
<1>10. ASSUME NEW j \in 1 .. Len(w), NEW k \in 1 .. Len(w), IsPayload(w[j]), IsPayload(w[k]),
              (w[j].do = w[k].do /\ j < k) \/ (w[j].do = "append" /\ w[k].do = "send")
       PROVE w[j].arg < w[k].arg
  <2>1. CASE j \in 1 .. n /\ k \in 1 .. n
    BY <1>3, <1>4, <1>10, <2>1 DEF SendsAt
  <2>2. CASE j \in 1 .. n /\ k = n + 1
    BY <1>3, <1>4, <1>10, <2>2 DEF IsPayload
  <2>3. CASE j = n + 1 /\ k \in 1 .. n
    <3>1. ~(j < k)
      BY <2>3
    <3> QED BY <1>3, <1>4, <1>10, <2>3, <3>1 DEF IsPayload
  <2>4. CASE j = n + 1 /\ k = n + 1
    <3>1. ~(j < k)
      BY <2>4
    <3> QED BY <1>4, <1>10, <2>4, <3>1
  <2> QED BY <1>5, <2>1, <2>2, <2>3, <2>4
<1>11. SendsAt(w, C, f)
  BY <1>8, <1>9, <1>10 DEF SendsAt
<1> QED BY <1>11 DEF r, w

\* What is queued for the loops is not touched by a payload.
LEMMA QueuePayload ==
  ASSUME ServerIInv, NEW b, Left(b), NEW t \in Posted, IsPayload(t), IdsAt(<<t>>, server.nextId),
         b = ready \/ Head(ready).do \notin {"accept", "read", "write", "closeio"}
  PROVE LET s == b \o <<t>>
        IN  /\ s \in Seq(Posted) /\ IdsAt(s, server.nextId) /\ AcceptAt(s, server)
            /\ \A id \in Ids : ConnAt(s, id, conn[id], told[id])
<1> DEFINE r == <<t>>  s == b \o r
<1>1. r \in Seq(Posted) /\ Len(r) = 1 /\ r[1] = t
  OBVIOUS
<1>2. QueueHolds(b, b)
  BY QueueLeft
<1>3. b \in Seq(Posted) /\ server.nextId \in Nat
  BY <1>2 DEF QueueHolds, ServerIInv, ServerTypes, ServerRecs
<1>4. IdsAt(r, server.nextId)
  OBVIOUS
<1> HIDE DEF r
<1>5. /\ \A k \in 1 .. Len(r) : r[k].do # "accept"
      /\ ~Has(r, "shutdown", 0) /\ \A id : ~Has(r, "read", id) /\ ~Has(r, "write", id)
  BY <1>1 DEF IsPayload, Has, Is
<1>6. IdsAt(s, server.nextId)
  BY <1>1, <1>2, <1>3, <1>4, IdsFrames DEF QueueHolds
<1>7. AcceptAt(s, server)
  BY <1>1, <1>2, <1>3, <1>5, AcceptFrames DEF QueueHolds
<1>8. ASSUME NEW id \in Ids PROVE ConnAt(s, id, conn[id], told[id])
  <2>1. ReadAt(b, id, conn[id]) /\ WriteAt(b, id, conn[id]) /\ LateAt(b, id, conn[id], told[id])
    BY <1>2 DEF QueueHolds, Is
  <2>2. ReadAt(s, id, conn[id]) /\ WriteAt(s, id, conn[id]) /\ LateAt(s, id, conn[id], told[id])
    BY <1>1, <1>3, <1>5, <2>1, PartsJoin
  <2> QED BY <2>2 DEF ConnAt
<1>9. s \in Seq(Posted)
  BY <1>1, <1>3, QueueJoined DEF Joined
<1> QED BY <1>6, <1>7, <1>8, <1>9 DEF r

\* A step that does nothing but queue, or hand on, a payload.
LEMMA PayloadStep ==
  ASSUME ServerIInv, NEW b, Left(b), NEW t \in Posted, IsPayload(t), IdsAt(<<t>>, server.nextId),
         b = ready \/ Head(ready).do \notin {"accept", "read", "write", "closeio"},
         ready' = b \o <<t>>, SendsAt(b \o <<t>>, conn, events'), events' \in events .. MaxEvents,
         UNCHANGED <<server, conn, told>>
  PROVE ServerIInv'
<1>1. /\ ready' \in Seq(Posted) /\ IdsAt(ready', server.nextId) /\ AcceptAt(ready', server)
      /\ \A id \in Ids : ConnAt(ready', id, conn[id], told[id])
  BY QueuePayload
<1>2. Ledger'
  <2>1. KeepsLedger
    BY DEF KeepsLedger
  <2> QED BY <2>1, LedgerKept DEF ServerIInv
<1>3. ServerTypes'
  <2>1. events' \in 0 .. MaxEvents
    BY ServerAssumption DEF ServerIInv, ServerTypes
  <2> QED BY <1>1, <2>1 DEF ServerIInv, ServerTypes
<1> QED BY <1>1, <1>2, <1>3 DEF ServerIInv

\* Send posts the payload.
LEMMA ServerSendStep == ASSUME ServerIInv, NEW id \in Announced, ServerSend(id) PROVE ServerIInv'
<1>1. id \in Ids /\ id < server.nextId
  BY DEF Announced, ServerIInv, Ledger
<1>2. ready \in Seq(Posted) /\ conn \in [Ids -> ConnRecs] /\ events \in Nat /\ SendsAt(ready, conn, events)
  BY ServerAssumption DEF ServerIInv, ServerTypes
<1>3. PICK e \in Nat, f \in Nat : e = events /\ f = events + 1
  BY <1>2
<1> DEFINE t == Task("send", id, f)
<1>4. t \in Posted /\ t.do = "send" /\ t.id = id /\ t.arg = f /\ IdsAt(<<t>>, server.nextId)
  BY <1>1, OneTask DEF Subjects
<1>5. ready' = Append(ready, t) /\ events' = f /\ events < MaxEvents /\ UNCHANGED <<server, conn, told>>
  BY <1>3 DEF ServerSend, Event
<1> HIDE DEF t
<1>6. ready' = ready \o <<t>> /\ Left(ready)
  BY <1>5, OneMore
<1>7. SendsAt(ready \o <<t>>, conn, f)
  <2>1. \A k \in 1 .. Len(ready) : IsPayload(ready[k]) => ready[k].arg < f
    <3>1. \A k \in 1 .. Len(ready) : ready[k] \in Posted
      BY <1>2
    <3>2. \A k \in 1 .. Len(ready) : ready[k].arg \in Nat
      BY <3>1 DEF Posted
    <3> QED BY <1>2, <1>3, <3>2 DEF SendsAt
  <2>2. Len(conn[id].sent) < f
    <3>1. Len(conn[id].sent) \in Nat
      BY <1>1, <1>2 DEF ConnRecs
    <3> QED BY <1>1, <1>2, <1>3, <3>1 DEF SendsAt
  <2>3. \A k \in 1 .. Len(ready) : /\ ready[k].do = "append" => ready[k].arg < t.arg
                                   /\ ready[k].do = "send" => ready[k].arg < t.arg
    BY <1>4, <2>1 DEF IsPayload
  <2>4. e <= f /\ t.arg <= f /\ Len(conn[t.id].sent) < t.arg /\ IsPayload(t) /\ SendsAt(ready, conn, e)
    BY <1>2, <1>3, <1>4, <2>2 DEF IsPayload
  <2> QED BY <1>2, <1>4, <2>3, <2>4, SendsJoin
<1>8. events' \in events .. MaxEvents
  BY <1>3, <1>5, ServerAssumption
<1> QED BY <1>4, <1>5, <1>6, <1>7, <1>8, PayloadStep DEF IsPayload

\* The lambda of Send finds the connection and posts AppendWrite, or drops the payload.
LEMMA OnSendStep == ASSUME ServerIInv, OnSend PROVE ServerIInv'
<1>1. /\ ready # <<>> /\ Head(ready).do = "send" /\ UNCHANGED <<server, conn, events, told>>
      /\ ready' = Tail(ready) \o (IF Id \in server.map /\ Open(Id) THEN <<Task("append", Id, Arg)>> ELSE <<>>)
  BY DEF OnSend, Handle, Handled
<1>2. /\ Id \in Ids /\ Id < server.nextId /\ Arg \in Nat /\ Left(Tail(ready)) /\ Popped(ready, Tail(ready))
      /\ Head(ready) \in Posted
  BY <1>1, HeadTask DEF Subjects
<1>3. /\ ready \in Seq(Posted) /\ conn \in [Ids -> ConnRecs] /\ events \in Nat /\ SendsAt(ready, conn, events)
      /\ events \in events .. MaxEvents
  BY ServerAssumption DEF ServerIInv, ServerTypes
<1>4. CASE ready' = Tail(ready) \o <<>>
  <2>1. Plain(<<>>) /\ SameLoop(server, server') /\ server' \in ServerRecs
    BY <1>1, OneMore DEF SameLoop, ServerIInv, ServerTypes
  <2> QED BY <1>1, <1>2, <1>3, <1>4, <2>1, QuietStep
<1>5. CASE ready' = Tail(ready) \o <<Task("append", Id, Arg)>>
  <2>1. PICK i \in Ids, a \in Nat : i = Id /\ a = Arg /\ i < server.nextId
    BY <1>2
  <2> DEFINE t == Task("append", i, a)
  <2>2. t \in Posted /\ t.do = "append" /\ t.id = i /\ t.arg = a /\ IdsAt(<<t>>, server.nextId)
    BY <2>1, OneTask DEF Subjects
  <2>3. ready' = Tail(ready) \o <<t>>
    BY <1>5, <2>1
  <2> HIDE DEF t
  <2>4. PICK b \in Seq(Posted) : b = Tail(ready) /\ SendsAt(b, conn, events)
    <3>1. QueueHolds(Tail(ready), Tail(ready))
      BY <1>2, QueueLeft
    <3> QED BY <3>1 DEF QueueHolds
  <2>5. \A k \in 1 .. Len(b) : k + 1 \in 1 .. Len(ready) /\ b[k] = ready[k + 1] /\ 1 < k + 1
    BY <1>2, <2>4 DEF Popped
  <2>6. 1 \in 1 .. Len(ready) /\ ready[1].do = "send" /\ ready[1].id = i /\ ready[1].arg = a
    BY <1>1, <1>2, <2>1 DEF Popped, Id, Arg
  <2>7. \A k \in 1 .. Len(b) : /\ b[k].do = "append" => b[k].arg < a
                               /\ b[k].do = "send" => a < b[k].arg
    BY <1>3, <2>5, <2>6 DEF SendsAt, IsPayload
  <2>8. a <= events /\ Len(conn[i].sent) < a
    BY <1>3, <2>6 DEF SendsAt, IsPayload
  <2>9. \A k \in 1 .. Len(b) : /\ b[k].do = "append" => b[k].arg < t.arg
                               /\ b[k].do = "send" => IF t.do = "send" THEN b[k].arg < t.arg ELSE t.arg < b[k].arg
    BY <2>2, <2>7
  <2>10. t.arg <= events /\ Len(conn[t.id].sent) < t.arg /\ events <= events /\ IsPayload(t)
    BY <1>3, <2>2, <2>8 DEF IsPayload
  <2>11. SendsAt(b \o <<t>>, conn, events)
    BY <1>3, <2>2, <2>4, <2>9, <2>10, SendsJoin
  <2> QED BY <1>1, <1>2, <1>3, <2>2, <2>3, <2>4, <2>10, <2>11, PayloadStep
<1> QED BY <1>1, <1>4, <1>5
\* A step that changes one connection and what has been heard of it, once the
\* ledger and what is queued are known to be right.
LEMMA OneConnStep ==
  ASSUME ServerIInv, NEW i \in Ids, NEW d \in ConnRecs, NEW u \in ToldRecs,
         conn' = [conn EXCEPT ![i] = d], told' = [told EXCEPT ![i] = u],
         events' \in events .. MaxEvents, server' \in ServerRecs, SameLoop(server, server'), Ledger',
         ready' \in Seq(Posted), IdsAt(ready', server.nextId), AcceptAt(ready', server),
         SendsAt(ready', conn', events'), ConnAt(ready', i, d, u),
         \A id \in Ids \ {i} : ConnAt(ready', id, conn[id], told[id])
  PROVE ServerIInv'
<1>1. conn \in [Ids -> ConnRecs] /\ told \in [Ids -> ToldRecs] /\ events \in Nat
  BY ServerAssumption DEF ServerIInv, ServerTypes
<1>2. ServerTypes'
  <2>1. events' \in 0 .. MaxEvents
    BY <1>1, ServerAssumption
  <2> QED BY <1>1, <2>1 DEF ServerTypes
<1>3. AcceptAt(ready', server')
  BY AcceptFrames
<1>4. IdsAt(ready', server'.nextId)
  BY DEF SameLoop
<1>5. \A id \in Ids : ConnAt(ready', id, conn'[id], told'[id])
  BY <1>1
<1> QED BY <1>2, <1>3, <1>4, <1>5 DEF ServerIInv

\* When nothing is heard of the connection, and its life is the same or over.
LEMMA OneConnSame ==
  ASSUME ServerIInv, NEW i \in Ids, NEW d \in ConnRecs,
         conn' = [conn EXCEPT ![i] = d], d.life = conn[i].life \/ (conn[i].life = "open" /\ d.life = "closed"),
         UNCHANGED <<server, told>>
  PROVE Ledger' /\ server' \in ServerRecs /\ SameLoop(server, server') /\ told' = [told EXCEPT ![i] = told[i]] /\ told[i] \in ToldRecs
<1>1. conn \in [Ids -> ConnRecs] /\ told \in [Ids -> ToldRecs] /\ server \in ServerRecs
  BY DEF ServerIInv, ServerTypes
<1>2. KeepsLedger
  BY <1>1 DEF KeepsLedger
<1>3. Ledger'
  BY <1>2, LedgerKept DEF ServerIInv
<1> QED BY <1>1, <1>3 DEF SameLoop

\* The payloads taken stay the same.
LEMMA SameSent ==
  ASSUME ServerIInv, NEW q \in Seq(Posted), NEW i \in Ids, NEW d \in ConnRecs, conn' = [conn EXCEPT ![i] = d],
         d.sent = conn[i].sent, IdsAt(q, server.nextId), SendsAt(q, conn, events), events' \in events .. MaxEvents
  PROVE SendsAt(q, conn', events')
<1>1. conn \in [Ids -> ConnRecs] /\ events \in Nat /\ events' \in Nat /\ events <= events' /\ server.nextId \in Nat
  BY ServerAssumption DEF ServerIInv, ServerTypes, ServerRecs
<1>2. conn' \in [Ids -> ConnRecs] /\ \A id \in Ids : conn'[id].sent = conn[id].sent
  BY <1>1
<1> QED BY <1>1, <1>2, SendsFrames

\* The first payload pending starts a write, the others wait for its handler.
LEMMA AppendedConn ==
  ASSUME NEW q \in Seq(Posted), NEW i, NEW c \in ConnRecs, c.life = "open", WriteAt(q, i, c), NEW a \in Nat, NEW moves \in BOOLEAN
  PROVE LET d == IF c.writing THEN Appended(c, a, moves) ELSE DoWrite(Appended(c, a, moves))
        IN  /\ d \in ConnRecs /\ d.life = c.life /\ (d.reading <=> c.reading) /\ d.sent = Append(c.sent, a)
            /\ WriteAt(q, i, d)
<1> DEFINE d == IF c.writing THEN Appended(c, a, moves) ELSE DoWrite(Appended(c, a, moves))
<1>1. PICK pe \in Seq(Nat), se \in Seq(Nat), wi \in Seq(Nat) : pe = c.pending /\ se = c.sent /\ wi = c.wire
  BY DEF ConnRecs
<1>2. PICK p \in Seq(Nat), s \in Seq(Nat) : p = Append(pe, a) /\ s = Append(se, a)
  <2>1. Append(pe, a) \in Seq(Nat) /\ Append(se, a) \in Seq(Nat)
    OBVIOUS
  <2> QED BY <2>1
<1>3. Len(p) = Len(pe) + 1 /\ Len(pe) \in Nat /\ p # <<>> /\ Len(p) \in Nat /\ Len(p) > 0
  <2>1. Len(p) = Len(pe) + 1 /\ Len(pe) \in Nat
    BY <1>2
  <2> QED BY <2>1
<1>4. PICK m \in BOOLEAN : m = (c.moved \/ (c.inflight > 0 /\ moves))
  BY DEF ConnRecs
<1>5. Appended(c, a, moves) = [c EXCEPT !.pending = p, !.sent = s, !.moved = m]
  BY <1>1, <1>2, <1>4 DEF Appended
<1> DEFINE e == [c EXCEPT !.pending = p, !.sent = s, !.moved = m]
<1>6. /\ e \in ConnRecs /\ e.pending = p /\ e.sent = s /\ e.wire = wi /\ e.life = c.life /\ e.inflight = c.inflight
      /\ (e.writing <=> c.writing) /\ (e.reading <=> c.reading)
  BY <1>1 DEF ConnRecs
<1>7. DoWrite(e) = [e EXCEPT !.writing = TRUE, !.inflight = Len(p), !.moved = FALSE]
  BY <1>6 DEF DoWrite
<1> HIDE DEF e
<1>8. /\ d \in ConnRecs /\ d.pending = p /\ d.sent = s /\ d.wire = wi /\ d.life = c.life /\ d.writing
      /\ (d.reading <=> c.reading) /\ d.inflight = IF c.writing THEN c.inflight ELSE Len(p)
  <2>1. CASE c.writing
    <3>1. d = e
      BY <1>5, <2>1 DEF e
    <3> QED BY <1>6, <2>1, <3>1
  <2>2. CASE ~c.writing
    <3>1. d = [e EXCEPT !.writing = TRUE, !.inflight = Len(p), !.moved = FALSE]
      BY <1>5, <1>7, <2>2 DEF e
    <3> QED BY <1>3, <1>6, <2>2, <3>1 DEF ConnRecs
  <2> QED BY <2>1, <2>2
<1> HIDE DEF d
<1>9. \A w \in Nat : StreamAt(pe, se, wi, w) => StreamAt(p, s, wi, w)
  BY <1>2, StreamAppended
<1>10. \A k \in 1 .. Len(q) : q[k].arg \in Nat
  <2>1. \A k \in 1 .. Len(q) : q[k] \in Posted
    OBVIOUS
  <2> QED BY <2>1 DEF Posted
<1>11. /\ Single(q, "write", i) /\ (c.inflight > 0 => ~Has(q, "write", i)) /\ c.inflight <= Len(pe)
       /\ c.writing <=> c.inflight > 0 \/ Has(q, "write", i)
       /\ ~Has(q, "write", i) => StreamAt(pe, se, wi, 0)
       /\ \A k \in 1 .. Len(q) : Is(q[k], "write", i) => StreamAt(pe, se, wi, q[k].arg)
       /\ c.inflight \in Nat
  BY <1>1 DEF WriteAt, ConnRecs
<1>12. d.inflight > 0 => ~Has(q, "write", i)
  BY <1>8, <1>11
<1>13. d.inflight <= Len(p) /\ (d.inflight > 0 \/ Has(q, "write", i))
  BY <1>3, <1>8, <1>11
<1>14. /\ ~Has(q, "write", i) => StreamAt(p, s, wi, 0)
       /\ \A k \in 1 .. Len(q) : Is(q[k], "write", i) => StreamAt(p, s, wi, q[k].arg)
  BY <1>9, <1>10, <1>11
<1>15. WriteAt(q, i, d)
  BY <1>3, <1>8, <1>11, <1>12, <1>13, <1>14 DEF WriteAt
<1> QED BY <1>1, <1>2, <1>8, <1>15 DEF d

\* AppendWrite.
LEMMA OnAppendWriteStep == ASSUME ServerIInv, NEW moves \in BOOLEAN, OnAppendWrite(moves) PROVE ServerIInv'
<1>1. ready # <<>> /\ Head(ready).do = "append" /\ UNCHANGED <<server, events, told>> /\ ready' = Tail(ready) \o <<>>
  BY DEF OnAppendWrite, Handle, Handled
<1>2. /\ Id \in Ids /\ Id < server.nextId /\ Arg \in Nat /\ Left(Tail(ready)) /\ Popped(ready, Tail(ready))
      /\ ready' = Tail(ready)
  BY <1>1, HeadTask, OneMore DEF Subjects
<1>3. /\ ready \in Seq(Posted) /\ conn \in [Ids -> ConnRecs] /\ events \in Nat /\ SendsAt(ready, conn, events)
      /\ events \in events .. MaxEvents /\ server \in ServerRecs
  BY ServerAssumption DEF ServerIInv, ServerTypes
<1>4. CASE ~Open(Id)
  <2>1. conn' = conn /\ Plain(<<>>) /\ SameLoop(server, server')
    BY <1>1, <1>4, OneMore DEF OnAppendWrite, SameLoop
  <2> QED BY <1>1, <1>2, <1>3, <2>1, QuietStep
<1>5. CASE Open(Id)
  <2>1. PICK i \in Ids, a \in Nat, c \in ConnRecs : i = Id /\ a = Arg /\ c = conn[i]
    BY <1>2, <1>3
  <2>2. PICK b \in Seq(Posted) : b = Tail(ready) /\ QueueHolds(b, b)
    <3>1. QueueHolds(Tail(ready), Tail(ready))
      BY <1>2, QueueLeft
    <3> QED BY <3>1 DEF QueueHolds
  <2>3. /\ ReadAt(b, i, c) /\ WriteAt(b, i, c) /\ LateAt(b, i, c, told[i]) /\ c.life = "open"
        /\ IdsAt(b, server.nextId) /\ AcceptAt(b, server) /\ SendsAt(b, conn, events)
        /\ \A id \in Ids \ {i} : ConnAt(b, id, conn[id], told[id])
    BY <1>1, <1>5, <2>1, <2>2 DEF QueueHolds, ConnAt, Is, Open
  <2>4. PICK d \in ConnRecs : /\ d = IF c.writing THEN Appended(c, a, moves) ELSE DoWrite(Appended(c, a, moves))
                              /\ d.life = c.life /\ (d.reading <=> c.reading) /\ d.sent = Append(c.sent, a)
                              /\ WriteAt(b, i, d)
    BY <2>3, AppendedConn
  <2>5. conn' = [conn EXCEPT ![i] = d]
    BY <1>5, <2>1, <2>4 DEF OnAppendWrite
  <2>6. ConnAt(b, i, d, told[i])
    BY <2>3, <2>4, PartsKeep DEF ConnAt
  <2>7. SendsAt(b, conn', events)
    <3>1. \A k \in 1 .. Len(b) : k + 1 \in 1 .. Len(ready) /\ b[k] = ready[k + 1] /\ 1 < k + 1
      BY <1>2, <2>2 DEF Popped
    <3>2. 1 \in 1 .. Len(ready) /\ ready[1].do = "append" /\ ready[1].id = i /\ ready[1].arg = a
      BY <1>1, <1>2, <2>1 DEF Popped, Id, Arg
    <3>3. \A k \in 1 .. Len(b) : IsPayload(b[k]) => a < b[k].arg
      BY <1>3, <3>1, <3>2 DEF SendsAt, IsPayload
    <3>4. a <= events /\ Len(c.sent) < a /\ Len(c.sent) \in Nat
      BY <1>3, <2>1, <3>2 DEF SendsAt, IsPayload, ConnRecs
    <3>5. Len(d.sent) = Len(c.sent) + 1
      BY <2>4 DEF ConnRecs
    <3>6. Len(d.sent) <= events /\ Len(d.sent) <= a
      BY <1>3, <3>4, <3>5
    <3>7. \A id \in Ids : conn'[id] = IF id = i THEN d ELSE conn[id]
      BY <1>3, <2>5
    <3>8. \A id \in Ids : Len(conn'[id].sent) <= events
      BY <2>3, <3>6, <3>7 DEF SendsAt
    <3>9. \A k \in 1 .. Len(b) : IsPayload(b[k]) => b[k].id \in Ids
      BY <2>3 DEF IdsAt, IsPayload, Subjects
    <3>10. \A k \in 1 .. Len(b) : b[k].arg \in Nat
      <4>1. \A k \in 1 .. Len(b) : b[k] \in Posted
        OBVIOUS
      <4> QED BY <4>1 DEF Posted
    <3>11. Len(d.sent) \in Nat
      BY DEF ConnRecs
    <3>12. ASSUME NEW k \in 1 .. Len(b), IsPayload(b[k]) PROVE b[k].arg <= events /\ Len(conn'[b[k].id].sent) < b[k].arg
      <4>1. b[k].arg <= events /\ Len(conn[b[k].id].sent) < b[k].arg /\ a < b[k].arg
        BY <2>3, <3>3, <3>12 DEF SendsAt
      <4>2. Len(d.sent) < b[k].arg
        BY <3>6, <3>10, <3>11, <4>1
      <4> QED BY <3>7, <3>9, <3>12, <4>1, <4>2
    <3> QED BY <2>3, <3>8, <3>12 DEF SendsAt
  <2>8. Ledger' /\ server' \in ServerRecs /\ SameLoop(server, server') /\ told' = [told EXCEPT ![i] = told[i]] /\ told[i] \in ToldRecs
    BY <1>1, <2>1, <2>4, <2>5, OneConnSame
  <2>9. /\ ready' = b /\ SendsAt(ready', conn', events') /\ ready' \in Seq(Posted) /\ AcceptAt(ready', server)
        /\ events' \in events .. MaxEvents
    BY <1>1, <1>2, <1>3, <2>2, <2>3, <2>7
  <2> QED BY <2>3, <2>5, <2>6, <2>8, <2>9, OneConnStep
<1> QED BY <1>4, <1>5
\* A completion of connection i is queued: the other loops do not notice.
LEMMA QueueCompletion ==
  ASSUME ServerIInv, NEW i \in Ids, i < server.nextId, NEW t \in Posted, t.id = i, t.do \in {"read", "write"}
  PROVE LET s == ready \o <<t>>
        IN  /\ s \in Seq(Posted) /\ IdsAt(s, server.nextId) /\ AcceptAt(s, server) /\ SendsAt(s, conn, events)
            /\ \A id \in Ids \ {i} : ConnAt(s, id, conn[id], told[id])
            /\ t.do = "read" => WriteAt(s, i, conn[i])
            /\ t.do = "write" => ReadAt(s, i, conn[i])
            /\ t.do = "write" \/ conn[i].life = "open" => LateAt(s, i, conn[i], told[i])
            /\ Has(s, t.do, i)
            /\ ~Has(ready, t.do, i) => Single(s, t.do, i) /\ \A k \in 1 .. Len(s) : Is(s[k], t.do, i) => s[k] = t
<1> DEFINE r == <<t>>  s == ready \o r
<1>1. r \in Seq(Posted) /\ Len(r) = 1 /\ r[1] = t
  OBVIOUS
<1>2. /\ ready \in Seq(Posted) /\ server.nextId \in Nat /\ conn \in [Ids -> ConnRecs] /\ events \in Nat
      /\ IdsAt(ready, server.nextId) /\ AcceptAt(ready, server) /\ SendsAt(ready, conn, events)
      /\ \A id \in Ids : ConnAt(ready, id, conn[id], told[id])
  BY ServerAssumption DEF ServerIInv, ServerTypes, ServerRecs
<1> HIDE DEF r
<1>3. IdsAt(r, server.nextId)
  BY <1>1 DEF IdsAt, Subjects
<1>4. /\ \A k \in 1 .. Len(r) : r[k].do # "accept" /\ ~IsPayload(r[k])
      /\ ~Has(r, "shutdown", 0)
  BY <1>1 DEF IsPayload, Has, Is
<1>5. Joined(ready, r, s)
  BY <1>1, <1>2, QueueJoined
<1>6. s \in Seq(Posted) /\ IdsAt(s, server.nextId) /\ AcceptAt(s, server) /\ SendsAt(s, conn, events)
  BY <1>1, <1>2, <1>3, <1>4, <1>5, IdsFrames, AcceptFrames, SendsFrames DEF Joined
<1>7. ASSUME NEW id \in Ids \ {i} PROVE ConnAt(s, id, conn[id], told[id])
  <2>1. ~Has(r, "read", id) /\ ~Has(r, "write", id)
    BY <1>1 DEF Has, Is
  <2>2. ReadAt(ready, id, conn[id]) /\ WriteAt(ready, id, conn[id]) /\ LateAt(ready, id, conn[id], told[id])
    BY <1>2 DEF ConnAt
  <2> QED BY <1>1, <1>2, <2>1, <2>2, PartsJoin DEF ConnAt
<1>8. ReadAt(ready, i, conn[i]) /\ WriteAt(ready, i, conn[i]) /\ LateAt(ready, i, conn[i], told[i])
  BY <1>2 DEF ConnAt
<1>9. t.do = "read" => WriteAt(s, i, conn[i])
  <2>1. t.do = "read" => ~Has(r, "write", i)
    BY <1>1 DEF Has, Is
  <2> QED BY <1>1, <1>2, <1>8, <2>1, PartsJoin
<1>10. t.do = "write" => ReadAt(s, i, conn[i]) /\ LateAt(s, i, conn[i], told[i])
  <2>1. t.do = "write" => ~Has(r, "read", i)
    BY <1>1 DEF Has, Is
  <2> QED BY <1>1, <1>2, <1>8, <2>1, PartsJoin
<1>11. conn[i].life = "open" => LateAt(s, i, conn[i], told[i])
  BY <1>1, <1>2, <1>8, PartsJoin
<1>12. Has(r, t.do, i) /\ Single(r, t.do, i)
  <2>1. 1 \in 1 .. Len(r) /\ Is(r[1], t.do, i) /\ \A j, k \in 1 .. Len(r) : j = k
    BY <1>1 DEF Is
  <2> QED BY <2>1 DEF Has, Single
<1>13. Has(s, t.do, i)
  BY <1>5, <1>12 DEF Joined
<1>14. ASSUME ~Has(ready, t.do, i) PROVE Single(s, t.do, i) /\ \A k \in 1 .. Len(s) : Is(s[k], t.do, i) => s[k] = t
  <2>1. Single(s, t.do, i)
    BY <1>5, <1>12, <1>14 DEF Joined
  <2>2. ASSUME NEW k \in 1 .. Len(s), Is(s[k], t.do, i) PROVE s[k] = t
    <3>1. ~(k \in 1 .. Len(ready))
      BY <1>5, <1>14, <2>2 DEF Joined, Has
    <3> QED BY <1>1, <1>5, <3>1 DEF Joined
  <2> QED BY <2>1, <2>2
<1> QED BY <1>6, <1>7, <1>9, <1>10, <1>11, <1>13, <1>14 DEF r

\* A read completes.
LEMMA ReadReadyStep == ASSUME ServerIInv, NEW i \in Ids, NEW res \in {1, Failed}, ReadReady(i, res) PROVE ServerIInv'
<1>1. /\ ready \in Seq(Posted) /\ conn \in [Ids -> ConnRecs] /\ events \in 0 .. MaxEvents /\ events \in Nat
      /\ MaxEvents \in Nat /\ ConnAt(ready, i, conn[i], told[i])
  BY ServerAssumption DEF ServerIInv, ServerTypes
<1>2. PICK c \in ConnRecs : c = conn[i]
  BY <1>1
<1> DEFINE t == Task("read", i, res)
<1>3. /\ c.reading /\ ready' = Append(ready, t) /\ events' \in events .. MaxEvents /\ UNCHANGED <<server, told>>
      /\ conn' = [conn EXCEPT ![i].reading = FALSE]
  BY <1>1, <1>2 DEF ReadReady, Event
<1>4. c.life = "open" /\ ~Has(ready, "read", i)
  BY <1>1, <1>2, <1>3 DEF ConnAt, ReadAt
<1>5. i < server.nextId
  BY <1>2, <1>4 DEF ServerIInv, Ledger
<1>6. t \in Posted /\ t.do = "read" /\ t.id = i
  <2>1. i \in Nat /\ res \in Nat
    BY DEF Ids, Failed
  <2> QED BY <2>1 DEF Task, Posted, Subjects
<1> HIDE DEF t
<1>7. PICK s \in Seq(Posted) : s = ready \o <<t>>
  BY <1>5, <1>6, QueueCompletion
<1>8. /\ IdsAt(s, server.nextId) /\ AcceptAt(s, server) /\ SendsAt(s, conn, events)
      /\ \A id \in Ids \ {i} : ConnAt(s, id, conn[id], told[id])
      /\ WriteAt(s, i, c) /\ LateAt(s, i, c, told[i]) /\ Has(s, "read", i) /\ Single(s, "read", i)
  BY <1>2, <1>4, <1>5, <1>6, <1>7, QueueCompletion
<1>9. PICK d \in ConnRecs : d = [c EXCEPT !.reading = FALSE]
  BY DEF ConnRecs
<1>10. /\ conn' = [conn EXCEPT ![i] = d] /\ ~d.reading /\ d.life = c.life /\ d.inflight = c.inflight /\ (d.writing <=> c.writing)
       /\ d.pending = c.pending /\ d.sent = c.sent /\ d.wire = c.wire
  BY <1>1, <1>2, <1>3, <1>9 DEF ConnRecs
<1>11. WriteAt(s, i, d) /\ LateAt(s, i, d, told[i])
  BY <1>8, <1>10, PartsKeep DEF SameOutput
<1>12. ReadAt(s, i, d)
  BY <1>8, <1>10 DEF ReadAt
<1>13. ready' = s
  BY <1>3, <1>7, OneMore
<1>14. SendsAt(s, conn', events')
  BY <1>2, <1>3, <1>8, <1>10, SameSent
<1>15. Ledger' /\ server' \in ServerRecs /\ SameLoop(server, server') /\ told' = [told EXCEPT ![i] = told[i]] /\ told[i] \in ToldRecs
  BY <1>2, <1>3, <1>10, OneConnSame
<1>16. /\ SendsAt(ready', conn', events') /\ ready' \in Seq(Posted) /\ AcceptAt(ready', server) /\ IdsAt(ready', server.nextId)
       /\ ConnAt(ready', i, d, told[i]) /\ \A id \in Ids \ {i} : ConnAt(ready', id, conn[id], told[id])
  BY <1>8, <1>11, <1>12, <1>13, <1>14 DEF ConnAt
<1> QED BY <1>3, <1>10, <1>14, <1>15, <1>16, OneConnStep

\* A write completes, with n payloads taken, or none when it fails.
LEMMA WriteOutStep ==
  ASSUME ServerIInv, NEW i \in Ids, NEW n \in Nat, NEW w \in Seq(Nat), conn[i].inflight > 0,
         StreamAt(conn[i].pending, conn[i].sent, w, n),
         conn' = [conn EXCEPT ![i] = [conn[i] EXCEPT !.inflight = 0, !.wire = w]],
         ready' = Append(ready, Task("write", i, n)), UNCHANGED <<server, events, told>>
  PROVE ServerIInv'
<1>1. /\ ready \in Seq(Posted) /\ conn \in [Ids -> ConnRecs] /\ events \in 0 .. MaxEvents /\ events \in Nat
      /\ MaxEvents \in Nat /\ ConnAt(ready, i, conn[i], told[i])
  BY ServerAssumption DEF ServerIInv, ServerTypes
<1>2. PICK c \in ConnRecs : c = conn[i]
  BY <1>1
<1>3. c.life = "open" /\ ~Has(ready, "write", i) /\ c.pending # <<>> /\ c.writing
  BY <1>1, <1>2 DEF ConnAt, WriteAt
<1>4. i < server.nextId
  BY <1>2, <1>3 DEF ServerIInv, Ledger
<1> DEFINE t == Task("write", i, n)
<1>5. t \in Posted /\ t.do = "write" /\ t.id = i /\ t.arg = n
  <2>1. i \in Nat
    BY DEF Ids
  <2> QED BY <2>1 DEF Task, Posted, Subjects
<1>6. ready' = Append(ready, t)
  OBVIOUS
<1> HIDE DEF t
<1>7. PICK s \in Seq(Posted) : s = ready \o <<t>>
  BY <1>4, <1>5, QueueCompletion
<1>8. /\ IdsAt(s, server.nextId) /\ AcceptAt(s, server) /\ SendsAt(s, conn, events)
      /\ \A id \in Ids \ {i} : ConnAt(s, id, conn[id], told[id])
      /\ ReadAt(s, i, c) /\ LateAt(s, i, c, told[i]) /\ Has(s, "write", i) /\ Single(s, "write", i)
      /\ \A k \in 1 .. Len(s) : Is(s[k], "write", i) => s[k] = t
  BY <1>2, <1>3, <1>4, <1>5, <1>7, QueueCompletion
<1>9. PICK d \in ConnRecs : d = [c EXCEPT !.inflight = 0, !.wire = w]
  BY DEF ConnRecs
<1>10. /\ conn' = [conn EXCEPT ![i] = d] /\ (d.reading <=> c.reading) /\ d.life = c.life /\ d.inflight = 0 /\ (d.writing <=> c.writing)
       /\ d.pending = c.pending /\ d.sent = c.sent /\ d.wire = w
  BY <1>1, <1>2, <1>9 DEF ConnRecs
<1>11. ReadAt(s, i, d) /\ LateAt(s, i, d, told[i])
  BY <1>8, <1>10, PartsKeep
<1>12. WriteAt(s, i, d)
  <2>1. 0 <= Len(d.pending)
    BY DEF ConnRecs
  <2> QED BY <1>2, <1>3, <1>5, <1>8, <1>10, <2>1 DEF WriteAt
<1>13. ready' = s
  BY <1>6, <1>7, OneMore
<1>14. SendsAt(s, conn', events') /\ events' \in events .. MaxEvents
  <2>1. events' \in events .. MaxEvents
    BY <1>1
  <2> QED BY <1>2, <1>8, <1>10, <2>1, SameSent
<1>15. Ledger' /\ server' \in ServerRecs /\ SameLoop(server, server') /\ told' = [told EXCEPT ![i] = told[i]] /\ told[i] \in ToldRecs
  BY <1>2, <1>10, OneConnSame
<1>16. /\ SendsAt(ready', conn', events') /\ ready' \in Seq(Posted) /\ AcceptAt(ready', server) /\ IdsAt(ready', server.nextId)
       /\ ConnAt(ready', i, d, told[i]) /\ \A id \in Ids \ {i} : ConnAt(ready', id, conn[id], told[id])
  BY <1>8, <1>11, <1>12, <1>13, <1>14 DEF ConnAt
<1> QED BY <1>10, <1>14, <1>15, <1>16, OneConnStep

\* The socket takes the first n payloads of the outstanding write, or fails.
LEMMA WriteReadyStep ==
  ASSUME ServerIInv, NEW i \in Ids, (\E n \in 1 .. MaxEvents : WriteProgress(i, n)) \/ WriteFails(i) PROVE ServerIInv'
<1>1. conn \in [Ids -> ConnRecs] /\ ConnAt(ready, i, conn[i], told[i]) /\ MaxEvents \in Nat
  BY ServerAssumption DEF ServerIInv, ServerTypes
<1>2. PICK c \in ConnRecs, pe \in Seq(Nat), se \in Seq(Nat), wi \in Seq(Nat), mo \in BOOLEAN :
        c = conn[i] /\ pe = c.pending /\ se = c.sent /\ wi = c.wire /\ mo = c.moved
  BY <1>1 DEF ConnRecs
<1>3. c.inflight > 0 => StreamAt(pe, se, wi, 0) /\ c.inflight <= Len(pe)
  BY <1>1, <1>2 DEF ConnAt, WriteAt
<1>4. ASSUME NEW n \in 1 .. MaxEvents, WriteProgress(i, n) PROVE ServerIInv'
  <2>1. c.inflight >= n /\ n \in Nat /\ c.inflight > 0 /\ n <= Len(pe)
    <3>1. n \in Nat /\ n > 0
      BY <1>1
    <3>2. c.inflight >= n /\ c.inflight \in Nat /\ Len(pe) \in Nat
      BY <1>2, <1>4 DEF WriteProgress, ConnRecs
    <3>3. c.inflight > 0
      BY <3>1, <3>2
    <3> QED BY <1>3, <3>1, <3>2, <3>3
  <2>2. PICK w \in Seq(Nat) : /\ w = wi \o IF mo THEN [k \in 1 .. n |-> 0] ELSE SubSeq(pe, 1, n)
                              /\ StreamAt(pe, se, w, n)
    BY <1>3, <2>1, StreamWritten
  <2>3. wi \o Taken(c, n) = w
    BY <1>2, <2>2 DEF Taken, Garbage
  <2>4. /\ conn' = [conn EXCEPT ![i] = [c EXCEPT !.inflight = 0, !.wire = w]]
        /\ ready' = Append(ready, Task("write", i, n)) /\ UNCHANGED <<server, events, told>>
    BY <1>1, <1>2, <1>4, <2>3 DEF WriteProgress, ConnRecs
  <2> QED BY <1>2, <2>1, <2>2, <2>4, WriteOutStep
<1>5. CASE WriteFails(i)
  <2>1. /\ conn' = [conn EXCEPT ![i].inflight = 0] /\ c.inflight > 0
        /\ ready' = Append(ready, Task("write", i, 0)) /\ UNCHANGED <<server, events, told>>
    BY <1>2, <1>5 DEF WriteFails, Failed
  <2>2. conn' = [conn EXCEPT ![i] = [c EXCEPT !.inflight = 0, !.wire = wi]]
    <3>1. [c EXCEPT !.inflight = 0] = [c EXCEPT !.inflight = 0, !.wire = wi]
      BY <1>2 DEF ConnRecs
    <3> QED BY <1>1, <1>2, <2>1, <3>1
  <2> QED BY <1>2, <1>3, <2>1, <2>2, WriteOutStep
<1> QED BY <1>4, <1>5
\* An id of which it is heard once more that its connection is closed: the first
\* time it leaves the table, the second time only the counters move.
LEMMA LedgerClose ==
  ASSUME ServerIInv, NEW i \in Ids, i < server.nextId, HandleClose(i), server.thread # "ended",
         told[i].closes = 0 \/ (told[i].closes = 1 /\ conn'[i].life # "open"),
         \A id \in Ids : conn'[id].life = conn[id].life \/ (conn[id].life = "open" /\ conn'[id].life = "closed")
  PROVE /\ Ledger' /\ server' \in ServerRecs /\ SameLoop(server, server')
        /\ \E n \in Nat : n = told[i].closes + 1 /\ told' = [told EXCEPT ![i] = [told[i] EXCEPT !.closes = n]]
<1>1. told \in [Ids -> ToldRecs] /\ server \in ServerRecs /\ Ledger
  BY DEF ServerIInv, ServerTypes
<1>2. PICK n \in Nat : n = told[i].closes + 1
  BY <1>1 DEF ToldRecs
<1>3. told' = [told EXCEPT ![i] = [told[i] EXCEPT !.closes = n]]
  <2>1. told' = [id \in Ids |-> IF id = i THEN [told[id] EXCEPT !.closes = n] ELSE told[id]]
    BY <1>2 DEF HandleClose, ToldClose
  <2> QED BY <1>1, <2>1
<1>4. /\ told'[i].closes = n /\ told'[i].accepts = told[i].accepts
      /\ \A id \in Ids \ {i} : told'[id] = told[id]
  BY <1>1, <1>3 DEF ToldRecs
<1>5. PICK cn \in Nat, tc \in Nat : cn = Uncount(server.count) /\ tc = server.totalClosed + 1
  BY <1>1 DEF Uncount, ServerRecs
<1>6. server' = [server EXCEPT !.map = server.map \ {i}, !.peers = server.peers \ {i}, !.count = cn, !.totalClosed = tc]
  BY <1>5 DEF HandleClose
<1>7. server' \in ServerRecs /\ SameLoop(server, server')
  BY <1>1, <1>6 DEF ServerRecs, SameLoop
<1>8. /\ server'.map = server.map \ {i} /\ server'.peers = server.peers \ {i} /\ server'.count = cn /\ server'.totalClosed = tc
      /\ server'.nextId = server.nextId /\ server'.totalAccepted = server.totalAccepted /\ server'.thread = server.thread
  BY <1>1, <1>6 DEF ServerRecs
<1>9. \A id \in Ids : /\ conn'[id].life # "none" <=> id < server'.nextId
                      /\ told'[id].accepts > 0 <=> id < server'.nextId
                      /\ id >= server'.nextId => told'[id].closes = 0
                      /\ told'[id].closes <= 2 /\ (Open(id)' => told'[id].closes <= 1)
  <2> SUFFICES ASSUME NEW id \in Ids
               PROVE /\ conn'[id].life # "none" <=> id < server'.nextId
                     /\ told'[id].accepts > 0 <=> id < server'.nextId
                     /\ id >= server'.nextId => told'[id].closes = 0
                     /\ told'[id].closes <= 2 /\ (Open(id)' => told'[id].closes <= 1)
    OBVIOUS
  <2>1. conn'[id].life # "none" <=> id < server'.nextId
    BY <1>1, <1>8 DEF Ledger
  <2>2. CASE id # i
    <3>1. told'[id] = told[id]
      BY <1>4, <2>2
    <3> QED BY <1>1, <1>8, <2>1, <3>1 DEF Ledger, Open
  <2>3. CASE id = i
    <3>1. i < server.nextId /\ i \in Nat /\ server.nextId \in Nat
      BY <1>1 DEF Ids, ServerRecs
    <3>2. ~(i >= server.nextId) /\ n <= 2 /\ (conn'[i].life = "open" => n <= 1)
      BY <1>2, <3>1
    <3> QED BY <1>1, <1>4, <1>8, <2>1, <2>3, <3>1, <3>2 DEF Ledger, Open
  <2> QED BY <2>2, <2>3
<1>10. server'.map = {id \in Ids : id < server'.nextId /\ told'[id].closes = 0} /\ server'.peers = server'.map
  <2>1. \A id \in Ids : told'[id].closes = 0 <=> told[id].closes = 0 /\ id # i
    BY <1>2, <1>4
  <2> QED BY <1>1, <1>8, <2>1 DEF Ledger
<1>11. IsFiniteSet(Ids)
  BY ServerAssumption, FS_Interval DEF Ids
<1>12. PICK M \in SUBSET Ids, R \in SUBSET Ids, T \in SUBSET Ids : M = server.map /\ R = Reported /\ T = Twice
  BY <1>1 DEF ServerRecs, Reported, Twice
<1>13. /\ IsFiniteSet(M) /\ IsFiniteSet(R) /\ IsFiniteSet(T)
       /\ Cardinality(M) \in Nat /\ Cardinality(R) \in Nat /\ Cardinality(T) \in Nat
  BY <1>11, FS_Subset, FS_CardinalityType
<1>14. PICK m \in Nat, r \in Nat, t \in Nat : m = Cardinality(M) /\ r = Cardinality(R) /\ t = Cardinality(T)
  BY <1>13
<1>15. server.count <= m /\ m <= server.count + t /\ server.totalClosed = r + t /\ server.count \in Nat
  BY <1>1, <1>12, <1>14 DEF Ledger, ServerRecs
<1>16. tc = Cardinality(Reported)' + Cardinality(Twice)' /\ cn <= Cardinality(server'.map)
       /\ Cardinality(server'.map) <= cn + Cardinality(Twice)'
  <2>1. CASE told[i].closes = 0
    <3>1. Reported' = R \cup {i} /\ i \notin R /\ Twice' = T /\ i \in M /\ server'.map = M \ {i}
      <4>1. i \notin Reported /\ i \in server.map /\ n = 1
        BY <1>1, <1>2, <2>1 DEF Reported, Ledger
      <4>2. Reported' = Reported \cup {i}
        BY <1>4, <2>1, <4>1 DEF Reported
      <4>3. Twice' = Twice
        BY <1>4, <2>1, <4>1 DEF Twice
      <4> QED BY <1>8, <1>12, <4>1, <4>2, <4>3
    <3>2. Cardinality(R \cup {i}) = r + 1 /\ Cardinality(M \ {i}) = m - 1
      BY <1>13, <1>14, <3>1, FS_AddElement, FS_RemoveElement
    <3>3. cn <= m - 1 /\ m - 1 <= cn + t /\ tc = (r + 1) + t
      <4>1. CASE server.count > 0
        BY <1>5, <1>15, <4>1 DEF Uncount
      <4>2. CASE server.count = 0
        <5>1. m > 0
          <6>1. M # {}
            BY <3>1
          <6>2. m # 0
            BY <1>13, <1>14, <6>1, FS_EmptySet
          <6> QED BY <6>2
        <5> QED BY <1>5, <1>15, <4>2, <5>1 DEF Uncount
      <4> QED BY <1>15, <4>1, <4>2
    <3> QED BY <1>14, <3>1, <3>2, <3>3
  <2>2. CASE told[i].closes = 1
    <3>1. Reported' = R /\ Twice' = T \cup {i} /\ i \notin T /\ server'.map = M
      <4>1. i \notin Twice /\ i \in Reported /\ i \notin server.map /\ n = 2
        BY <1>1, <1>2, <2>2 DEF Reported, Twice, Ledger
      <4>2. Reported' = Reported
        BY <1>4, <4>1 DEF Reported
      <4>3. Twice' = Twice \cup {i}
        BY <1>4, <4>1 DEF Twice
      <4> QED BY <1>8, <1>12, <4>1, <4>2, <4>3
    <3>2. Cardinality(T \cup {i}) = t + 1
      BY <1>13, <1>14, <3>1, FS_AddElement
    <3>3. cn <= m /\ m <= cn + (t + 1) /\ tc = r + (t + 1)
      BY <1>5, <1>15 DEF Uncount
    <3> QED BY <1>14, <3>1, <3>2, <3>3
  <2> QED BY <2>1, <2>2
<1>17. server'.nextId \in 1 .. MaxConns + 1 /\ server'.totalAccepted = server'.nextId - 1 /\ server'.thread # "ended"
  BY <1>1, <1>8 DEF Ledger
<1>18. Ledger'
  BY <1>8, <1>9, <1>10, <1>16, <1>17 DEF Ledger
<1> QED BY <1>2, <1>3, <1>7, <1>18
\* When a handler of a connection is called, the others do not notice.
LEMMA HeadOthers ==
  ASSUME ServerIInv, ready # <<>>, Head(ready).do \in Subjects
  PROVE LET b == Tail(ready)
        IN  /\ b \in Seq(Posted) /\ IdsAt(b, server.nextId) /\ SendsAt(b, conn, events) /\ AcceptAt(b, server)
            /\ \A id \in Ids \ {Id} : ConnAt(b, id, conn[id], told[id])
            /\ Id \in Ids /\ Id < server.nextId /\ Arg \in Nat /\ Popped(ready, b) /\ 1 \in 1 .. Len(ready)
            /\ Is(ready[1], Head(ready).do, Id) /\ ready[1].arg = Arg
            /\ Head(ready).do # "closeio" => LateAt(b, Id, conn[Id], told[Id])
            /\ Head(ready).do # "read" => ReadAt(b, Id, conn[Id])
            /\ Head(ready).do # "write" => WriteAt(b, Id, conn[Id])
<1>1. /\ Id \in Ids /\ Id < server.nextId /\ Arg \in Nat /\ Left(Tail(ready)) /\ Popped(ready, Tail(ready))
  BY HeadTask
<1>2. QueueHolds(Tail(ready), Tail(ready))
  BY <1>1, QueueLeft
<1>3. Head(ready).do # "accept"
  BY DEF Subjects
<1> DEFINE b == Tail(ready)
<1>4. b \in Seq(Posted) /\ IdsAt(b, server.nextId) /\ SendsAt(b, conn, events) /\ AcceptAt(b, server)
  BY <1>2, <1>3 DEF QueueHolds
<1>5. ASSUME NEW id \in Ids \ {Id} PROVE ConnAt(b, id, conn[id], told[id])
  <2>1. \A what : ~Is(Head(ready), what, id)
    BY DEF Is, Id
  <2> QED BY <1>2, <2>1 DEF QueueHolds, ConnAt
<1>6. 1 \in 1 .. Len(ready) /\ Is(ready[1], Head(ready).do, Id) /\ ready[1].arg = Arg
  BY <1>1 DEF Popped, Is, Id, Arg
<1>7. /\ Head(ready).do # "closeio" => LateAt(b, Id, conn[Id], told[Id])
      /\ Head(ready).do # "read" => ReadAt(b, Id, conn[Id])
      /\ Head(ready).do # "write" => WriteAt(b, Id, conn[Id])
  BY <1>1, <1>2 DEF QueueHolds, Is
<1> QED BY <1>1, <1>4, <1>5, <1>6, <1>7

\* The completion of a read that is called was the only one.
LEMMA HeadRead ==
  ASSUME ServerIInv, ready # <<>>, Head(ready).do = "read"
  PROVE LET b == Tail(ready)
        IN  Single(b, "read", Id) /\ ~Has(b, "read", Id) /\ ~conn[Id].reading /\ Has(ready, "read", Id)
<1>1. Head(ready).do \in Subjects
  BY DEF Subjects
<1>2. /\ Id \in Ids /\ Popped(ready, Tail(ready)) /\ 1 \in 1 .. Len(ready) /\ Is(ready[1], "read", Id)
      /\ Head(ready) = ready[1]
  BY <1>1, HeadOthers DEF Popped
<1>3. ReadAt(ready, Id, conn[Id]) /\ Has(ready, "read", Id)
  BY <1>2 DEF ServerIInv, ConnAt, Has
<1> QED BY <1>2, <1>3 DEF ReadAt, Popped

\* So was that of a write; and what it took is on the wire.
LEMMA HeadWrite ==
  ASSUME ServerIInv, ready # <<>>, Head(ready).do = "write"
  PROVE LET b == Tail(ready)
        IN  /\ Single(b, "write", Id) /\ ~Has(b, "write", Id) /\ conn[Id].inflight = 0
            /\ StreamAt(conn[Id].pending, conn[Id].sent, conn[Id].wire, Arg)
<1>1. Head(ready).do \in Subjects
  BY DEF Subjects
<1>2. /\ Id \in Ids /\ Popped(ready, Tail(ready)) /\ 1 \in 1 .. Len(ready) /\ Is(ready[1], "write", Id) /\ ready[1].arg = Arg
      /\ Head(ready) = ready[1]
  BY <1>1, HeadOthers DEF Popped
<1>3. WriteAt(ready, Id, conn[Id]) /\ Has(ready, "write", Id) /\ conn[Id].inflight \in Nat
  BY <1>2 DEF ServerIInv, ConnAt, Has, ServerTypes, ConnRecs
<1>4. Single(Tail(ready), "write", Id) /\ ~Has(Tail(ready), "write", Id)
  BY <1>2, <1>3 DEF WriteAt, Popped
<1>5. conn[Id].inflight = 0 /\ StreamAt(conn[Id].pending, conn[Id].sent, conn[Id].wire, Arg)
  BY <1>2, <1>3 DEF WriteAt
<1> QED BY <1>4, <1>5

\* A step that calls a handler of connection i and changes that connection only.
LEMMA HandlerStep ==
  ASSUME ServerIInv, ready # <<>>, Head(ready).do \in Subjects, NEW i, i = Id, NEW d \in ConnRecs, NEW u \in ToldRecs,
         NEW b, b = Tail(ready), ready' = b,
         conn' = [conn EXCEPT ![i] = d], told' = [told EXCEPT ![i] = u], d.sent = conn[i].sent, events' = events,
         server' \in ServerRecs, SameLoop(server, server'), Ledger', ConnAt(b, i, d, u)
  PROVE ServerIInv'
<1>1. /\ b \in Seq(Posted) /\ IdsAt(b, server.nextId) /\ SendsAt(b, conn, events) /\ AcceptAt(b, server)
      /\ i \in Ids /\ \A id \in Ids \ {i} : ConnAt(b, id, conn[id], told[id])
  BY HeadOthers
<1>2. events' \in events .. MaxEvents
  BY ServerAssumption DEF ServerIInv, ServerTypes
<1>3. SendsAt(b, conn', events')
  BY <1>1, <1>2, SameSent
<1>4. /\ SendsAt(ready', conn', events') /\ ready' \in Seq(Posted) /\ AcceptAt(ready', server) /\ IdsAt(ready', server.nextId)
      /\ ConnAt(ready', i, d, u) /\ \A id \in Ids \ {i} : ConnAt(ready', id, conn[id], told[id])
  BY <1>1, <1>3
<1> QED BY <1>1, <1>2, <1>4, OneConnStep

\* HandleError: the connection closes and the callback is made, unless the
\* connection is closed already.
LEMMA HandleErrorStep ==
  ASSUME ServerIInv, server.thread = "run", ready # <<>>, Head(ready).do \in {"read", "write"}, Arg = Failed,
         HandleError(Id), events' = events
  PROVE ServerIInv'
<1>1. Head(ready).do \in Subjects
  BY DEF Subjects
<1>2. /\ ready \in Seq(Posted) /\ conn \in [Ids -> ConnRecs] /\ told \in [Ids -> ToldRecs] /\ server \in ServerRecs
      /\ \A id \in Ids : ConnAt(ready, id, conn[id], told[id])
  BY DEF ServerIInv, ServerTypes
<1>3. Id \in Ids /\ Id < server.nextId
  BY <1>1, HeadOthers
<1>4. PICK i \in Ids, b \in Seq(Posted), c \in ConnRecs, t \in ToldRecs : i = Id /\ b = Tail(ready) /\ c = conn[i] /\ t = told[i]
  <2>1. Tail(ready) \in Seq(Posted)
    BY <1>1, HeadOthers
  <2> QED BY <1>2, <1>3, <2>1
<1>5. b \in Seq(Posted) /\ LateAt(b, i, c, t)
  BY <1>1, <1>4, HeadOthers
<1>6. i < server.nextId /\ ready' = b
  <2>1. ready' = Tail(ready) \o <<>>
    BY DEF HandleError, Handled
  <2> QED BY <1>3, <1>4, <2>1, OneMore
<1>7. /\ Single(b, "read", i)
      /\ Head(ready).do = "read" => ~c.reading
      /\ Head(ready).do # "read" => ReadAt(b, i, c)
  <2>1. CASE Head(ready).do = "read"
    BY <1>4, <2>1, HeadRead
  <2>2. CASE Head(ready).do # "read"
    BY <1>1, <1>4, <2>2, HeadOthers DEF ReadAt
  <2> QED BY <2>1, <2>2
<1>8. /\ Single(b, "write", i) /\ c.inflight <= Len(c.pending)
      /\ ~Has(b, "write", i) => StreamAt(c.pending, c.sent, c.wire, 0)
      /\ \A k \in 1 .. Len(b) : Is(b[k], "write", i) => StreamAt(c.pending, c.sent, c.wire, b[k].arg)
      /\ Head(ready).do = "write" => c.inflight = 0
      /\ Head(ready).do # "write" => WriteAt(b, i, c)
  <2>1. CASE Head(ready).do = "write"
    <3>1. /\ Single(b, "write", i) /\ ~Has(b, "write", i) /\ c.inflight = 0
          /\ StreamAt(c.pending, c.sent, c.wire, 0)
      BY <1>4, <2>1, HeadWrite DEF Failed
    <3>2. 0 <= Len(c.pending)
      BY DEF ConnRecs
    <3> QED BY <2>1, <3>1, <3>2 DEF Has
  <2>2. CASE Head(ready).do # "write"
    BY <1>1, <1>4, <2>2, HeadOthers DEF WriteAt
  <2> QED BY <2>1, <2>2
<1>9. CASE ~Open(i)
  <2>1. UNCHANGED <<server, conn, told>> /\ c.life # "open"
    BY <1>4, <1>9 DEF HandleError, Open
  <2>2. ReadAt(b, i, c)
    BY <1>7, <2>1 DEF ReadAt
  <2>3. WriteAt(b, i, c)
    BY <1>8, <2>1 DEF WriteAt
  <2>4. ConnAt(b, i, c, t)
    BY <1>5, <2>2, <2>3 DEF ConnAt
  <2>5. conn' = [conn EXCEPT ![i] = c] /\ told' = [told EXCEPT ![i] = t]
    BY <1>2, <1>4, <2>1
  <2>6. Ledger' /\ server' \in ServerRecs /\ SameLoop(server, server')
    BY <1>4, <2>1, <2>5, OneConnSame
  <2> QED BY <1>1, <1>4, <1>6, <2>4, <2>5, <2>6, HandlerStep
<1>10. CASE Open(i)
  <2>1. conn' = [conn EXCEPT ![i] = Closed(c)] /\ HandleClose(i) /\ c.life = "open"
    BY <1>4, <1>10 DEF HandleError, Open
  <2>2. PICK d \in ConnRecs : d = Closed(c) /\ d.life = "closed" /\ d.sent = c.sent /\ ~d.reading /\ d.inflight = 0
                              /\ d.pending = c.pending /\ d.wire = c.wire
    <3>1. /\ Closed(c) \in ConnRecs /\ Closed(c).life = "closed" /\ Closed(c).sent = c.sent
          /\ ~Closed(c).reading /\ Closed(c).inflight = 0 /\ Closed(c).pending = c.pending /\ Closed(c).wire = c.wire
      BY DEF Closed, ConnRecs
    <3> QED BY <3>1
  <2>3. \A id \in Ids : conn'[id].life = conn[id].life \/ (conn[id].life = "open" /\ conn'[id].life = "closed")
    BY <1>2, <1>4, <2>1, <2>2
  <2>4. t.closes = 0 \/ (t.closes = 1 /\ conn'[i].life # "open")
    <3>1. t.closes <= 1 /\ t.closes \in Nat
      BY <1>4, <1>10 DEF ServerIInv, Ledger, ToldRecs
    <3>2. conn'[i].life = "closed"
      BY <1>2, <2>1, <2>2
    <3> QED BY <3>1, <3>2
  <2>5. PICK n \in Nat : n = t.closes + 1 /\ told' = [told EXCEPT ![i] = [t EXCEPT !.closes = n]]
    BY <1>4, <1>6, <2>1, <2>3, <2>4, LedgerClose
  <2>6. Ledger' /\ server' \in ServerRecs /\ SameLoop(server, server')
    BY <1>4, <1>6, <2>1, <2>3, <2>4, LedgerClose
  <2>7. PICK u \in ToldRecs : u = [t EXCEPT !.closes = n] /\ u.closes = n /\ u.late = t.late
    <3> DEFINE v == [t EXCEPT !.closes = n]
    <3>1. v \in ToldRecs /\ v.closes = n /\ v.late = t.late
      BY DEF ToldRecs
    <3> HIDE DEF v
    <3> QED BY <3>1 DEF v
  <2>8. ReadAt(b, i, d)
    BY <1>7, <2>2 DEF ReadAt
  <2>9. WriteAt(b, i, d)
    <3>1. 0 <= Len(d.pending)
      BY DEF ConnRecs
    <3> QED BY <1>8, <2>2, <3>1 DEF WriteAt
  <2>10. LateAt(b, i, d, u)
    <3>1. n >= t.closes /\ t \in ToldRecs /\ u \in ToldRecs
      BY <2>4, <2>5
    <3> QED BY <1>5, <2>1, <2>2, <2>7, <3>1, PartsClosed
  <2>11. ConnAt(b, i, d, u) /\ d.sent = conn[i].sent
    BY <1>4, <2>2, <2>8, <2>9, <2>10 DEF ConnAt
  <2>12. conn' = [conn EXCEPT ![i] = d] /\ told' = [told EXCEPT ![i] = u]
    BY <2>1, <2>2, <2>5, <2>7
  <2> QED BY <1>1, <1>4, <1>6, <2>6, <2>11, <2>12, HandlerStep
<1> QED BY <1>9, <1>10
\* Data that is handed on after the close callback came from the one read that
\* was ready before it.
LEMMA LateRead ==
  ASSUME ServerIInv, ready # <<>>, Head(ready).do = "read", NEW i, i = Id, NEW b, b = Tail(ready),
         NEW c \in ConnRecs, c = conn[i], NEW t \in ToldRecs, t = told[i],
         NEW d \in ConnRecs, d.life = c.life, NEW u \in ToldRecs, u.closes = t.closes, t.closes > 0, u.late = t.late + 1
  PROVE LateAt(b, i, d, u)
<1>1. Head(ready).do \in Subjects
  BY DEF Subjects
<1>2. /\ Popped(ready, b) /\ 1 \in 1 .. Len(ready) /\ Is(ready[1], "read", i) /\ i \in Ids
  BY <1>1, HeadOthers
<1>3. ~Has(b, "read", i) /\ Has(ready, "read", i)
  BY HeadRead
<1>4. LateAt(ready, i, c, t)
  BY <1>2 DEF ServerIInv, ConnAt
<1>5. t.late \in Nat /\ u.late \in Nat
  BY DEF ToldRecs
<1>6. ASSUME c.life = "open" PROVE LateAt(b, i, d, u)
  <2>1. PICK k \in 1 .. Len(ready) : /\ Is(ready[k], "closeio", i) /\ t.late <= 1
                                     /\ t.late = 1 => \A j \in 1 .. k - 1 : ~Is(ready[j], "read", i)
    BY <1>4, <1>6 DEF LateAt
  <2>2. k # 1
    BY <1>2, <2>1 DEF Is
  <2>3. 1 \in 1 .. k - 1
    BY <2>2
  <2>4. u.late = 1
    BY <1>2, <1>5, <2>1, <2>3
  <2>5. k - 1 \in 1 .. Len(b) /\ b[k - 1] = ready[k] /\ Len(b) \in Nat
    BY <1>2, <2>2 DEF Popped
  <2>6. \A j \in 1 .. (k - 1) - 1 : ~Is(b[j], "read", i)
    <3>1. \A j \in 1 .. (k - 1) - 1 : j \in 1 .. Len(b)
      BY <2>5
    <3> QED BY <1>3, <3>1 DEF Has
  <2> QED BY <1>6, <2>1, <2>4, <2>5, <2>6 DEF LateAt
<1>7. ASSUME c.life # "open" PROVE LateAt(b, i, d, u)
  <2>1. t.late <= 1
    BY <1>3, <1>4, <1>7 DEF LateAt
  <2>2. u.late <= 1 \/ u.late = 2
    BY <1>5, <2>1
  <2>3. u.closes # 0
    BY DEF ToldRecs
  <2> QED BY <1>3, <1>7, <2>2, <2>3 DEF LateAt
<1> QED BY <1>6, <1>7

\* HandleRead.
LEMMA OnReadStep == ASSUME ServerIInv, OnRead PROVE ServerIInv'
<1>1. server.thread = "run" /\ ready # <<>> /\ Head(ready).do = "read" /\ events' = events
  BY DEF OnRead, Handle
<1>2. Head(ready).do \in Subjects
  BY <1>1 DEF Subjects
<1>3. CASE Arg = Failed
  <2>1. HandleError(Id)
    BY <1>3 DEF OnRead
  <2> QED BY <1>1, <1>3, <2>1, HandleErrorStep
<1>4. CASE Arg # Failed
  <2>1. /\ ready \in Seq(Posted) /\ conn \in [Ids -> ConnRecs] /\ told \in [Ids -> ToldRecs] /\ server \in ServerRecs
    BY DEF ServerIInv, ServerTypes
  <2>2. Id \in Ids /\ Id < server.nextId /\ Tail(ready) \in Seq(Posted)
    BY <1>1, <1>2, HeadOthers
  <2>3. PICK i \in Ids, b \in Seq(Posted), c \in ConnRecs, t \in ToldRecs : i = Id /\ b = Tail(ready) /\ c = conn[i] /\ t = told[i]
    BY <2>1, <2>2
  <2>4. /\ told' = [told EXCEPT ![i].datas = @ + 1, ![i].late = IF t.closes > 0 THEN @ + 1 ELSE @]
        /\ conn' = [conn EXCEPT ![i].reading = Open(i)]
        /\ ready' = Tail(ready) \o <<>> /\ UNCHANGED server
    BY <1>4, <2>3 DEF OnRead, Handled
  <2>5. ready' = b
    BY <1>1, <2>3, <2>4, OneMore
  <2>6. PICK m \in Nat, l \in Nat : m = t.datas + 1 /\ l = IF t.closes > 0 THEN t.late + 1 ELSE t.late
    BY DEF ToldRecs
  <2>7. PICK u \in ToldRecs : /\ u = [t EXCEPT !.datas = m, !.late = l]
                              /\ u.closes = t.closes /\ u.late = l /\ u.accepts = t.accepts
    <3> DEFINE v == [t EXCEPT !.datas = m, !.late = l]
    <3>1. v \in ToldRecs /\ v.closes = t.closes /\ v.late = l /\ v.accepts = t.accepts
      BY DEF ToldRecs
    <3> HIDE DEF v
    <3> QED BY <3>1 DEF v
  <2>8. told' = [told EXCEPT ![i] = u]
    BY <2>1, <2>3, <2>4, <2>6, <2>7
  <2>9. PICK d \in ConnRecs : /\ d = [c EXCEPT !.reading = (c.life = "open")] /\ d.life = c.life /\ SameOutput(c, d)
                              /\ d.reading => c.life = "open"
                              /\ c.life = "open" => d.reading
    <3> DEFINE v == [c EXCEPT !.reading = (c.life = "open")]
    <3>1. /\ v \in ConnRecs /\ v.life = c.life /\ v.inflight = c.inflight /\ v.writing = c.writing
          /\ v.pending = c.pending /\ v.sent = c.sent /\ v.wire = c.wire
      BY DEF ConnRecs
    <3>2. v.reading = (c.life = "open")
      BY DEF ConnRecs
    <3>3. SameOutput(c, v)
      BY <3>1 DEF SameOutput
    <3>4. (v.reading => c.life = "open") /\ (c.life = "open" => v.reading)
      BY <3>2
    <3> HIDE DEF v
    <3> QED BY <3>1, <3>3, <3>4 DEF v
  <2>10. conn' = [conn EXCEPT ![i] = d]
    BY <2>1, <2>3, <2>4, <2>9 DEF Open
  <2>11. Single(b, "read", i) /\ ~Has(b, "read", i)
    BY <1>1, <2>3, HeadRead
  <2>12. ReadAt(b, i, d)
    BY <2>9, <2>11 DEF ReadAt
  <2>13. WriteAt(b, i, c) /\ LateAt(b, i, c, t)
    BY <1>1, <1>2, <2>3, HeadOthers
  <2>14. WriteAt(b, i, d)
    BY <2>9, <2>13, PartsKeep
  <2>15. LateAt(b, i, d, u)
    <3>1. CASE t.closes > 0
      BY <1>1, <2>3, <2>6, <2>7, <2>9, <3>1, LateRead, ZenonT(40)
    <3>2. CASE ~(t.closes > 0)
      <4>1. u.late = t.late
        BY <2>6, <2>7, <3>2
      <4>2. d.life = c.life /\ u.closes = t.closes /\ LateAt(b, i, c, t)
        BY <2>7, <2>9, <2>13
      <4> QED BY <4>1, <4>2 DEF LateAt
    <3> QED BY <3>1, <3>2
  <2>16. ConnAt(b, i, d, u) /\ d.sent = conn[i].sent
    BY <2>3, <2>9, <2>12, <2>14, <2>15 DEF ConnAt, SameOutput
  <2>17. KeepsLedger
    BY <2>1, <2>3, <2>4, <2>7, <2>8, <2>9, <2>10 DEF KeepsLedger
  <2>18. Ledger' /\ server' \in ServerRecs /\ SameLoop(server, server')
    BY <2>1, <2>4, <2>17, LedgerKept DEF ServerIInv, SameLoop
  <2> QED BY <1>1, <1>2, <2>3, <2>5, <2>8, <2>10, <2>16, <2>18, HandlerStep
<1> QED BY <1>3, <1>4
\* HandleWrite drops what the socket has taken and starts the next write, unless
\* nothing is left or the connection is closed.
LEMMA AfterWriteConn ==
  ASSUME NEW q \in Seq(Posted), NEW i, NEW c \in ConnRecs, NEW n \in Nat, c.inflight = 0,
         StreamAt(c.pending, c.sent, c.wire, n), Single(q, "write", i), ~Has(q, "write", i)
  PROVE LET d == AfterWrite(c, n)
        IN  /\ d \in ConnRecs /\ d.life = c.life /\ (d.reading <=> c.reading) /\ d.sent = c.sent
            /\ WriteAt(q, i, d)
<1>1. PICK pe \in Seq(Nat), se \in Seq(Nat), wi \in Seq(Nat) : pe = c.pending /\ se = c.sent /\ wi = c.wire
  BY DEF ConnRecs
<1>2. PICK p \in Seq(Nat) : p = SubSeq(pe, n + 1, Len(pe)) /\ StreamAt(p, se, wi, 0)
  <2>1. SubSeq(pe, n + 1, Len(pe)) \in Seq(Nat) /\ StreamAt(SubSeq(pe, n + 1, Len(pe)), se, wi, 0)
    BY <1>1, StreamHandled
  <2> QED BY <2>1
<1>3. Len(p) \in Nat /\ (p # <<>> => Len(p) > 0)
  OBVIOUS
<1>4. PICK e \in ConnRecs : /\ e = [c EXCEPT !.pending = p] /\ e.pending = p /\ e.sent = se /\ e.wire = wi /\ e.life = c.life
                            /\ e.inflight = 0 /\ (e.reading <=> c.reading)
  <2> DEFINE v == [c EXCEPT !.pending = p]
  <2>1. /\ v \in ConnRecs /\ v.pending = p /\ v.sent = se /\ v.wire = wi /\ v.life = c.life
        /\ v.inflight = 0 /\ (v.reading <=> c.reading)
    BY <1>1 DEF ConnRecs
  <2> HIDE DEF v
  <2> QED BY <2>1 DEF v
<1>5. AfterWrite(c, n) = IF e.pending = <<>> THEN [e EXCEPT !.writing = FALSE]
                         ELSE IF c.life = "open" THEN DoWrite(e) ELSE e
  <2>1. e = [c EXCEPT !.pending = SubSeq(@, n + 1, Len(@))]
    BY <1>1, <1>2, <1>4
  <2> QED BY <2>1 DEF AfterWrite
<1>6. CASE p = <<>>
  <2>1. PICK d : d = [e EXCEPT !.writing = FALSE] /\ d = AfterWrite(c, n)
    BY <1>4, <1>5, <1>6
  <2>2. /\ d \in ConnRecs /\ d.life = c.life /\ (d.reading <=> c.reading) /\ d.sent = c.sent
        /\ d.pending = p /\ d.wire = wi /\ d.inflight = 0 /\ ~d.writing /\ d.sent = se
    BY <1>1, <1>4, <2>1 DEF ConnRecs
  <2>3. WriteAt(q, i, d)
    <3>1. d.inflight <= Len(d.pending) /\ ~(d.inflight > 0)
      BY <1>3, <2>2
    <3>2. StreamAt(d.pending, d.sent, d.wire, 0)
      BY <1>2, <2>2
    <3>3. d.pending = <<>> /\ \A k \in 1 .. Len(q) : ~Is(q[k], "write", i)
      BY <1>6, <2>2 DEF Has
    <3> QED BY <2>2, <3>1, <3>2, <3>3 DEF WriteAt
  <2> QED BY <2>1, <2>2, <2>3
<1>7. CASE p # <<>> /\ c.life = "open"
  <2>1. PICK d : d = [e EXCEPT !.writing = TRUE, !.inflight = Len(p), !.moved = FALSE] /\ d = AfterWrite(c, n)
    BY <1>4, <1>5, <1>7 DEF DoWrite
  <2>2. /\ d \in ConnRecs /\ d.life = c.life /\ (d.reading <=> c.reading) /\ d.sent = c.sent
        /\ d.pending = p /\ d.wire = wi /\ d.inflight = Len(p) /\ d.writing /\ d.sent = se
    BY <1>1, <1>3, <1>4, <2>1 DEF ConnRecs
  <2>3. WriteAt(q, i, d)
    BY <1>2, <1>3, <1>7, <2>2 DEF WriteAt, Has
  <2> QED BY <2>1, <2>2, <2>3
<1>8. CASE p # <<>> /\ c.life # "open"
  <2>1. AfterWrite(c, n) = e
    BY <1>4, <1>5, <1>8
  <2>2. WriteAt(q, i, e)
    BY <1>2, <1>3, <1>4, <1>8, SMTT(40) DEF WriteAt, Has
  <2> QED BY <1>1, <1>4, <2>1, <2>2
<1> QED BY <1>6, <1>7, <1>8

\* HandleWrite.
LEMMA OnWriteStep == ASSUME ServerIInv, OnWrite PROVE ServerIInv'
<1>1. server.thread = "run" /\ ready # <<>> /\ Head(ready).do = "write" /\ events' = events
  BY DEF OnWrite, Handle
<1>2. Head(ready).do \in Subjects
  BY <1>1 DEF Subjects
<1>3. CASE Arg = Failed
  <2>1. HandleError(Id)
    BY <1>3 DEF OnWrite
  <2> QED BY <1>1, <1>3, <2>1, HandleErrorStep
<1>4. CASE Arg # Failed
  <2>1. ready \in Seq(Posted) /\ conn \in [Ids -> ConnRecs] /\ told \in [Ids -> ToldRecs] /\ server \in ServerRecs
    BY DEF ServerIInv, ServerTypes
  <2>2. Id \in Ids /\ Id < server.nextId /\ Tail(ready) \in Seq(Posted) /\ Arg \in Nat
    BY <1>1, <1>2, HeadOthers
  <2>3. PICK i \in Ids, n \in Nat, b \in Seq(Posted), c \in ConnRecs :
          i = Id /\ n = Arg /\ b = Tail(ready) /\ c = conn[i]
    BY <2>1, <2>2
  <2>4. conn' = [conn EXCEPT ![i] = AfterWrite(c, n)] /\ ready' = Tail(ready) \o <<>> /\ UNCHANGED <<server, told>>
    BY <1>4, <2>1, <2>3 DEF OnWrite, Handled
  <2>5. ready' = b
    BY <1>1, <2>3, <2>4, OneMore
  <2>6. /\ Single(b, "write", i) /\ ~Has(b, "write", i) /\ c.inflight = 0
        /\ StreamAt(c.pending, c.sent, c.wire, n)
    BY <1>1, <2>3, HeadWrite
  <2>7. PICK d \in ConnRecs : /\ d = AfterWrite(c, n) /\ d.life = c.life /\ (d.reading <=> c.reading) /\ d.sent = c.sent
                              /\ WriteAt(b, i, d)
    BY <2>6, AfterWriteConn
  <2>8. ReadAt(b, i, c) /\ LateAt(b, i, c, told[i])
    BY <1>1, <1>2, <2>3, HeadOthers
  <2>9. ReadAt(b, i, d) /\ LateAt(b, i, d, told[i])
    BY <2>7, <2>8 DEF ReadAt, LateAt
  <2>10. ConnAt(b, i, d, told[i]) /\ d.sent = conn[i].sent /\ conn' = [conn EXCEPT ![i] = d]
    BY <2>3, <2>4, <2>7, <2>9 DEF ConnAt
  <2>11. Ledger' /\ server' \in ServerRecs /\ SameLoop(server, server') /\ told' = [told EXCEPT ![i] = told[i]] /\ told[i] \in ToldRecs
    BY <2>3, <2>4, <2>7, <2>10, OneConnSame
  <2> QED BY <1>1, <1>2, <2>3, <2>5, <2>10, <2>11, HandlerStep
<1> QED BY <1>3, <1>4

\* CloseOnIoThread.
LEMMA OnCloseOnIoThreadStep == ASSUME ServerIInv, OnCloseOnIoThread PROVE ServerIInv'
<1>1. /\ ready # <<>> /\ Head(ready).do = "closeio" /\ events' = events /\ UNCHANGED <<server, told>>
      /\ ready' = Tail(ready) \o <<>> /\ conn' = IF Open(Id) THEN [conn EXCEPT ![Id] = Closed(@)] ELSE conn
  BY DEF OnCloseOnIoThread, Handle, Handled
<1>2. Head(ready).do \in Subjects
  BY <1>1 DEF Subjects
<1>3. ready \in Seq(Posted) /\ conn \in [Ids -> ConnRecs] /\ told \in [Ids -> ToldRecs]
  BY DEF ServerIInv, ServerTypes
<1>4. Id \in Ids /\ Tail(ready) \in Seq(Posted)
  BY <1>1, <1>2, HeadOthers
<1>5. PICK i \in Ids, b \in Seq(Posted), c \in ConnRecs, t \in ToldRecs : i = Id /\ b = Tail(ready) /\ c = conn[i] /\ t = told[i]
  BY <1>3, <1>4
<1>6. ready' = b /\ Popped(ready, b) /\ ReadAt(b, i, c) /\ WriteAt(b, i, c)
  BY <1>1, <1>2, <1>5, OneMore, HeadOthers
<1>7. LateAt(ready, i, c, t)
  BY <1>5 DEF ServerIInv, ConnAt
<1>8. PICK d \in ConnRecs : /\ d = (IF c.life = "open" THEN Closed(c) ELSE c) /\ d.sent = c.sent /\ d.life # "open"
                            /\ d.life = c.life \/ (c.life = "open" /\ d.life = "closed")
                            /\ ReadAt(b, i, d) /\ WriteAt(b, i, d)
  <2>1. CASE c.life = "open"
    <3>1. /\ ReadAt(b, i, Closed(c)) /\ WriteAt(b, i, Closed(c))
          /\ Closed(c) \in ConnRecs /\ Closed(c).life = "closed" /\ Closed(c).sent = c.sent
      BY <1>6, PartsClosed
    <3> QED BY <2>1, <3>1
  <2>2. CASE c.life # "open"
    BY <1>6, <2>2
  <2> QED BY <2>1, <2>2
<1>9. conn' = [conn EXCEPT ![i] = d]
  BY <1>1, <1>3, <1>5, <1>8 DEF Open
<1>10. LateAt(b, i, d, t)
  <2>1. t.closes \in Nat /\ t.late \in Nat /\ (t.closes = 0 => t.late = 0)
    BY <1>7 DEF LateAt, ToldRecs
  <2>2. CASE c.life = "open"
    <3>1. t.late <= 1
      BY <1>7, <2>1, <2>2 DEF LateAt
    <3> QED BY <1>8, <2>1, <3>1 DEF LateAt
  <2>3. CASE c.life # "open"
    BY <1>6, <1>7, <1>8, <2>3 DEF LateAt, Popped
  <2> QED BY <2>2, <2>3
<1>11. ConnAt(b, i, d, t) /\ d.sent = conn[i].sent
  BY <1>5, <1>6, <1>8, <1>10 DEF ConnAt
<1>12. Ledger' /\ server' \in ServerRecs /\ SameLoop(server, server') /\ told' = [told EXCEPT ![i] = t]
  BY <1>1, <1>5, <1>8, <1>9, OneConnSame
<1> QED BY <1>1, <1>2, <1>5, <1>6, <1>9, <1>11, <1>12, HandlerStep
\* The lambda of Close: the callback is made at once, and the socket is closed later.
LEMMA OnCloseStep == ASSUME ServerIInv, OnClose PROVE ServerIInv'
<1>1. server.thread = "run" /\ ready # <<>> /\ Head(ready).do = "close" /\ UNCHANGED <<conn, events>>
  BY DEF OnClose, Handle
<1>2. Head(ready).do \in Subjects
  BY <1>1 DEF Subjects
<1>3. /\ ready \in Seq(Posted) /\ conn \in [Ids -> ConnRecs] /\ told \in [Ids -> ToldRecs] /\ server \in ServerRecs
      /\ events' \in events .. MaxEvents
  BY <1>1, ServerAssumption DEF ServerIInv, ServerTypes
<1>4. Id \in Ids /\ Id < server.nextId /\ Left(Tail(ready))
  BY <1>1, <1>2, HeadTask
<1>5. CASE Id \notin server.map
  <2>1. ready' = Tail(ready) \o <<>> /\ UNCHANGED <<server, told>>
    BY <1>5 DEF OnClose, Handled
  <2>2. Plain(<<>>) /\ SameLoop(server, server') /\ server' \in ServerRecs
    BY <1>3, <2>1, OneMore DEF SameLoop
  <2> QED BY <1>1, <1>3, <1>4, <2>1, <2>2, QuietStep
<1>6. CASE Id \in server.map
  <2>1. PICK i \in Ids, c \in ConnRecs, t \in ToldRecs : i = Id /\ c = conn[i] /\ t = told[i]
    BY <1>3, <1>4
  <2>2. /\ HandleClose(i) /\ i < server.nextId /\ t.closes = 0 /\ t.late = 0
        /\ ready' = Tail(ready) \o (IF Open(i) THEN <<Task("closeio", i, 0)>> ELSE <<>>)
    <3>1. HandleClose(i) /\ ready' = Tail(ready) \o (IF Open(i) THEN <<Task("closeio", i, 0)>> ELSE <<>>)
      BY <1>6, <2>1 DEF OnClose, Handled
    <3>2. i < server.nextId /\ t.closes = 0
      BY <1>6, <2>1 DEF ServerIInv, Ledger
    <3>3. LateAt(ready, i, c, t)
      BY <2>1 DEF ServerIInv, ConnAt
    <3> QED BY <3>1, <3>2, <3>3 DEF LateAt
  <2>3. PICK r : /\ r = (IF Open(i) THEN <<Task("closeio", i, 0)>> ELSE <<>>) /\ Plain(r)
                 /\ c.life = "open" => Has(r, "closeio", i)
    <3>1. CASE c.life = "open"
      <4> DEFINE x == Task("closeio", i, 0)
      <4>1. x \in Posted /\ x.do = "closeio" /\ x.id = i /\ IdsAt(<<x>>, server.nextId)
        BY <2>2, OneTask DEF Subjects
      <4> HIDE DEF x
      <4>2. Plain(<<x>>)
        BY <4>1, OneMore
      <4>3. Has(<<x>>, "closeio", i)
        <5>1. 1 \in 1 .. Len(<<x>>) /\ <<x>>[1] = x
          OBVIOUS
        <5> QED BY <4>1, <5>1 DEF Has, Is
      <4> QED BY <2>1, <3>1, <4>2, <4>3 DEF Open, x
    <3>2. CASE c.life # "open"
      BY <2>1, <3>2, OneMore DEF Open
    <3> QED BY <3>1, <3>2
  <2>4. ready' = Tail(ready) \o r
    BY <2>2, <2>3
  <2>5. QueueHolds(Tail(ready), ready') /\ Joined(Tail(ready), r, ready')
    BY <1>4, <2>3, <2>4, QueuePlain
  <2>6. /\ ready' \in Seq(Posted) /\ IdsAt(ready', server.nextId) /\ AcceptAt(ready', server)
        /\ SendsAt(ready', conn, events) /\ \A id \in Ids : ConnAt(ready', id, conn[id], told[id])
    BY <1>1, <2>5 DEF QueueHolds, ConnAt, Is
  <2>7. /\ Ledger' /\ server' \in ServerRecs /\ SameLoop(server, server')
        /\ \E n \in Nat : n = told[i].closes + 1 /\ told' = [told EXCEPT ![i] = [told[i] EXCEPT !.closes = n]]
    BY <1>1, <2>1, <2>2, LedgerClose
  <2>8. told' = [told EXCEPT ![i] = [t EXCEPT !.closes = 1]]
    <3>1. PICK n \in Nat : n = told[i].closes + 1 /\ told' = [told EXCEPT ![i] = [told[i] EXCEPT !.closes = n]]
      BY <2>7
    <3>2. n = 1
      BY <2>1, <2>2, <3>1
    <3> QED BY <2>1, <3>1, <3>2
  <2>9. PICK u \in ToldRecs : u = [t EXCEPT !.closes = 1] /\ u.closes = 1 /\ u.late = 0
    <3> DEFINE v == [t EXCEPT !.closes = 1]
    <3>1. v \in ToldRecs /\ v.closes = 1 /\ v.late = 0
      BY <2>2 DEF ToldRecs
    <3> HIDE DEF v
    <3> QED BY <3>1 DEF v
  <2>10. LateAt(ready', i, c, u)
    <3>1. ASSUME c.life = "open" PROVE Has(ready', "closeio", i)
      BY <2>3, <2>5, <3>1 DEF Joined
    <3> QED BY <2>9, <3>1 DEF LateAt, Has
  <2>11. ConnAt(ready', i, c, u)
    BY <2>1, <2>6, <2>10 DEF ConnAt
  <2>12. conn' = [conn EXCEPT ![i] = c] /\ told' = [told EXCEPT ![i] = u] /\ SendsAt(ready', conn', events')
    BY <1>1, <1>3, <2>1, <2>6, <2>8, <2>9
  <2>13. \A id \in Ids \ {i} : ConnAt(ready', id, conn[id], told[id])
    BY <2>6
  <2> QED BY <1>3, <2>6, <2>7, <2>11, <2>12, <2>13, OneConnStep
<1> QED BY <1>5, <1>6

\* A step that leaves the connections and the callbacks as they are, once the accept
\* loop and what is queued are known to be right.
LEMMA StillStep ==
  ASSUME ServerIInv, conn' = conn, told' = told, events' \in events .. MaxEvents, server' \in ServerRecs,
         UNCHANGED <<server.nextId, server.map, server.peers, server.count, server.totalAccepted, server.totalClosed>>,
         server'.thread = "ended" => server.thread = "ended",
         ready' \in Seq(Posted), IdsAt(ready', server.nextId), AcceptAt(ready', server'), SendsAt(ready', conn, events),
         \A id \in Ids : ConnAt(ready', id, conn[id], told[id])
  PROVE ServerIInv'
<1>1. KeepsLedger
  BY DEF KeepsLedger
<1>2. Ledger'
  BY <1>1, LedgerKept DEF ServerIInv
<1>3. /\ conn \in [Ids -> ConnRecs] /\ told \in [Ids -> ToldRecs] /\ events \in Nat /\ events' \in Nat /\ events <= events'
      /\ server.nextId \in Nat
  BY ServerAssumption DEF ServerIInv, ServerTypes, ServerRecs
<1>4. ServerTypes'
  <2>1. events' \in 0 .. MaxEvents
    BY <1>3, ServerAssumption
  <2> QED BY <1>3, <2>1 DEF ServerTypes
<1>5. SendsAt(ready', conn', events')
  BY <1>3, SendsFrames
<1>6. IdsAt(ready', server'.nextId) /\ \A id \in Ids : ConnAt(ready', id, conn'[id], told'[id])
  OBVIOUS
<1> QED BY <1>2, <1>4, <1>5, <1>6 DEF ServerIInv

\* A handler for no connection is queued.
LEMMA QueueServer ==
  ASSUME ServerIInv, NEW t \in Posted, t.do \in {"accept", "shutdown"}, t.id = 0
  PROVE LET s == ready \o <<t>>
        IN  /\ s \in Seq(Posted) /\ IdsAt(s, server.nextId) /\ SendsAt(s, conn, events)
            /\ \A id \in Ids : ConnAt(s, id, conn[id], told[id])
            /\ Joined(ready, <<t>>, s) /\ Has(<<t>>, t.do, 0) /\ Single(<<t>>, t.do, 0)
            /\ \A what : what # t.do => ~Has(<<t>>, what, 0)
            /\ Len(<<t>>) = 1 /\ <<t>>[1] = t
<1> DEFINE r == <<t>>  s == ready \o r
<1>1. r \in Seq(Posted) /\ Len(r) = 1 /\ r[1] = t
  OBVIOUS
<1>2. /\ ready \in Seq(Posted) /\ server.nextId \in Nat /\ conn \in [Ids -> ConnRecs] /\ events \in Nat
      /\ IdsAt(ready, server.nextId) /\ SendsAt(ready, conn, events)
      /\ \A id \in Ids : ConnAt(ready, id, conn[id], told[id])
  BY ServerAssumption DEF ServerIInv, ServerTypes, ServerRecs
<1> HIDE DEF r
<1>3. IdsAt(r, server.nextId)
  BY <1>1 DEF IdsAt, Subjects
<1>4. \A k \in 1 .. Len(r) : ~IsPayload(r[k])
  BY <1>1 DEF IsPayload
<1>5. Joined(ready, r, s)
  BY <1>1, <1>2, QueueJoined
<1>6. s \in Seq(Posted) /\ IdsAt(s, server.nextId) /\ SendsAt(s, conn, events)
  BY <1>1, <1>2, <1>3, <1>4, <1>5, IdsFrames, SendsFrames DEF Joined
<1>7. ASSUME NEW id \in Ids PROVE ConnAt(s, id, conn[id], told[id])
  <2>1. ~Has(r, "read", id) /\ ~Has(r, "write", id)
    BY <1>1 DEF Has, Is
  <2>2. ReadAt(ready, id, conn[id]) /\ WriteAt(ready, id, conn[id]) /\ LateAt(ready, id, conn[id], told[id])
    BY <1>2 DEF ConnAt
  <2> QED BY <1>1, <1>2, <2>1, <2>2, PartsJoin DEF ConnAt
<1>8. Has(r, t.do, 0) /\ Single(r, t.do, 0) /\ \A what : what # t.do => ~Has(r, what, 0)
  <2>1. 1 \in 1 .. Len(r) /\ Is(r[1], t.do, 0) /\ \A j, k \in 1 .. Len(r) : j = k
    BY <1>1 DEF Is
  <2>2. \A what : what # t.do => \A k \in 1 .. Len(r) : ~Is(r[k], what, 0)
    BY <1>1 DEF Is
  <2> QED BY <2>1, <2>2 DEF Has, Single
<1> QED BY <1>1, <1>5, <1>6, <1>7, <1>8 DEF r

\* An accept completes.
LEMMA AcceptReadyStep == ASSUME ServerIInv, NEW ok \in BOOLEAN, AcceptReady(ok) PROVE ServerIInv'
<1>1. server \in ServerRecs /\ events \in Nat /\ MaxEvents \in Nat /\ AcceptAt(ready, server) /\ ready \in Seq(Posted)
  BY ServerAssumption DEF ServerIInv, ServerTypes
<1>2. PICK a \in Nat : a = (IF ok THEN 1 ELSE Failed) /\ (a # 0 => ok)
  BY DEF Failed
<1> DEFINE t == Task("accept", 0, a)
<1>3. t \in Posted /\ t.do = "accept" /\ t.id = 0 /\ t.arg = a
  BY DEF Task, Posted
<1>4. /\ server.thread = "run" /\ server.accepting /\ ready' = Append(ready, t) /\ events' \in events .. MaxEvents
      /\ server' = [server EXCEPT !.accepting = FALSE] /\ UNCHANGED <<conn, told>>
      /\ ok => server.nextId <= MaxConns
  BY <1>1, <1>2 DEF AcceptReady, Event
<1> HIDE DEF t
<1>5. PICK s : s = ready \o <<t>> /\ s = ready'
  BY <1>4, OneMore
<1>6. /\ s \in Seq(Posted) /\ IdsAt(s, server.nextId) /\ SendsAt(s, conn, events)
      /\ \A id \in Ids : ConnAt(s, id, conn[id], told[id])
      /\ Joined(ready, <<t>>, s) /\ Has(<<t>>, "accept", 0) /\ Single(<<t>>, "accept", 0) /\ ~Has(<<t>>, "shutdown", 0)
      /\ Len(<<t>>) = 1 /\ <<t>>[1] = t
  BY <1>3, <1>5, QueueServer
<1>7. PICK z \in ServerRecs : z = server' /\ ~z.accepting /\ (z.running <=> server.running) /\ (z.acceptor <=> server.acceptor)
                              /\ (z.stopping <=> server.stopping) /\ z.thread = "run" /\ z.nextId = server.nextId
  <2> DEFINE y == [server EXCEPT !.accepting = FALSE]
  <2>1. /\ y \in ServerRecs /\ ~y.accepting /\ (y.running <=> server.running) /\ (y.acceptor <=> server.acceptor)
        /\ (y.stopping <=> server.stopping) /\ y.thread = "run" /\ y.nextId = server.nextId
    BY <1>1, <1>4 DEF ServerRecs
  <2>2. y = server'
    BY <1>4
  <2> HIDE DEF y
  <2> QED BY <2>1, <2>2
<1>8. ~Has(ready, "accept", 0)
  BY <1>1, <1>4 DEF AcceptAt
<1>9. /\ Single(s, "accept", 0) /\ Has(s, "accept", 0) /\ (Has(s, "shutdown", 0) => Has(ready, "shutdown", 0))
  BY <1>6, <1>8 DEF Joined
<1>10. \A k \in 1 .. Len(s) : s[k].do = "accept" /\ s[k].arg # 0 => server.nextId <= MaxConns
  <2> SUFFICES ASSUME NEW k \in 1 .. Len(s), s[k].do = "accept", s[k].arg # 0 PROVE server.nextId <= MaxConns
    OBVIOUS
  <2>1. (k \in 1 .. Len(ready) /\ s[k] = ready[k]) \/ s[k] = t
    BY <1>6 DEF Joined
  <2>2. CASE s[k] = t
    BY <1>2, <1>3, <1>4, <2>2
  <2>3. CASE k \in 1 .. Len(ready) /\ s[k] = ready[k]
    BY <1>1, <2>3 DEF AcceptAt
  <2> QED BY <2>1, <2>2, <2>3
<1>11. AcceptAt(s, z)
  BY <1>1, <1>7, <1>9, <1>10 DEF AcceptAt
<1>12. UNCHANGED <<server.nextId, server.map, server.peers, server.count, server.totalAccepted, server.totalClosed>>
  BY <1>1, <1>4 DEF ServerRecs
<1>13. /\ ready' \in Seq(Posted) /\ IdsAt(ready', server.nextId) /\ AcceptAt(ready', server') /\ SendsAt(ready', conn, events)
       /\ \A id \in Ids : ConnAt(ready', id, conn[id], told[id])
  BY <1>5, <1>6, <1>7, <1>11
<1>14. server' \in ServerRecs /\ server'.thread = "run"
  BY <1>7
<1> QED BY <1>4, <1>12, <1>13, <1>14, StillStep
\* Stop() clears the flag and posts the shutdown.
LEMMA ServerStopStep == ASSUME ServerIInv, ServerStop PROVE ServerIInv'
<1>1. server \in ServerRecs /\ AcceptAt(ready, server) /\ events' \in events .. MaxEvents
  BY ServerAssumption DEF ServerIInv, ServerTypes, ServerStop
<1> DEFINE t == Task("shutdown", 0, 0)
<1>2. t \in Posted /\ t.do = "shutdown" /\ t.id = 0
  BY DEF Task, Posted
<1>3. /\ ready' = Append(ready, t) /\ server' = [server EXCEPT !.running = FALSE, !.stopping = TRUE]
      /\ UNCHANGED <<conn, events, told>>
  BY DEF ServerStop
<1> HIDE DEF t
<1>4. PICK s : s = ready \o <<t>> /\ s = ready'
  BY <1>3, OneMore
<1>5. /\ s \in Seq(Posted) /\ IdsAt(s, server.nextId) /\ SendsAt(s, conn, events)
      /\ \A id \in Ids : ConnAt(s, id, conn[id], told[id])
      /\ Joined(ready, <<t>>, s) /\ ~Has(<<t>>, "accept", 0)
      /\ Len(<<t>>) = 1 /\ <<t>>[1] = t
  BY <1>2, <1>4, QueueServer
<1>6. PICK z \in ServerRecs : z = server' /\ ~z.running /\ (z.accepting <=> server.accepting)
                              /\ z.thread = server.thread /\ z.nextId = server.nextId
  <2> DEFINE y == [server EXCEPT !.running = FALSE, !.stopping = TRUE]
  <2>1. /\ y \in ServerRecs /\ ~y.running /\ (y.accepting <=> server.accepting)
        /\ y.thread = server.thread /\ y.nextId = server.nextId
    BY <1>1 DEF ServerRecs
  <2>2. y = server'
    BY <1>3
  <2> HIDE DEF y
  <2> QED BY <2>1, <2>2
<1>7. Single(s, "accept", 0) /\ (Has(s, "accept", 0) <=> Has(ready, "accept", 0))
  BY <1>1, <1>5 DEF Joined, AcceptAt
<1>8. \A k \in 1 .. Len(s) : s[k].do = "accept" /\ s[k].arg # 0 => server.nextId <= MaxConns
  <2> SUFFICES ASSUME NEW k \in 1 .. Len(s), s[k].do = "accept", s[k].arg # 0 PROVE server.nextId <= MaxConns
    OBVIOUS
  <2>1. (k \in 1 .. Len(ready) /\ s[k] = ready[k]) \/ s[k] = t
    BY <1>5 DEF Joined
  <2>2. s[k] # t
    BY <1>2
  <2> QED BY <1>1, <2>1, <2>2 DEF AcceptAt
<1>9. AcceptAt(s, z)
  BY <1>1, <1>6, <1>7, <1>8 DEF AcceptAt
<1>10. UNCHANGED <<server.nextId, server.map, server.peers, server.count, server.totalAccepted, server.totalClosed>>
  BY <1>1, <1>3 DEF ServerRecs
<1>11. /\ ready' \in Seq(Posted) /\ IdsAt(ready', server.nextId) /\ AcceptAt(ready', server') /\ SendsAt(ready', conn, events)
       /\ \A id \in Ids : ConnAt(ready', id, conn[id], told[id])
  BY <1>4, <1>5, <1>6, <1>9
<1>12. server' \in ServerRecs /\ server'.thread = server.thread
  BY <1>6
<1> QED BY <1>1, <1>3, <1>10, <1>11, <1>12, StillStep

\* The io thread starts the accept loop and runs.
LEMMA ThreadMainStep == ASSUME ServerIInv, ThreadMain PROVE ServerIInv'
<1>1. /\ server \in ServerRecs /\ AcceptAt(ready, server) /\ events' \in events .. MaxEvents
      /\ ready \in Seq(Posted) /\ IdsAt(ready, server.nextId) /\ SendsAt(ready, conn, events)
      /\ \A id \in Ids : ConnAt(ready, id, conn[id], told[id])
  BY ServerAssumption DEF ServerIInv, ServerTypes, ThreadMain
<1>2. server.thread = "start" /\ UNCHANGED <<conn, ready, events, told>>
      /\ server' = [server EXCEPT !.accepting = server.acceptor, !.thread = "run"]
  BY <1>1 DEF ThreadMain, StartAccept, ServerRecs
<1>3. PICK z \in ServerRecs : z = server' /\ (z.running <=> server.running) /\ (z.acceptor <=> server.acceptor)
                              /\ (z.accepting <=> server.acceptor) /\ (z.stopping <=> server.stopping)
                              /\ z.thread = "run" /\ z.nextId = server.nextId
  <2> DEFINE y == [server EXCEPT !.accepting = server.acceptor, !.thread = "run"]
  <2>1. /\ y \in ServerRecs /\ (y.running <=> server.running) /\ (y.acceptor <=> server.acceptor)
        /\ (y.accepting <=> server.acceptor) /\ (y.stopping <=> server.stopping)
        /\ y.thread = "run" /\ y.nextId = server.nextId
    BY <1>1 DEF ServerRecs
  <2>2. y = server'
    BY <1>2
  <2> HIDE DEF y
  <2> QED BY <2>1, <2>2
<1>4. AcceptAt(ready, z)
  BY <1>1, <1>2, <1>3 DEF AcceptAt
<1>5. UNCHANGED <<server.nextId, server.map, server.peers, server.count, server.totalAccepted, server.totalClosed>>
  BY <1>1, <1>2 DEF ServerRecs
<1>6. /\ ready' \in Seq(Posted) /\ IdsAt(ready', server.nextId) /\ AcceptAt(ready', server') /\ SendsAt(ready', conn, events)
      /\ \A id \in Ids : ConnAt(ready', id, conn[id], told[id])
  BY <1>1, <1>2, <1>3, <1>4
<1>7. server' \in ServerRecs /\ server'.thread = "run"
  BY <1>3
<1> QED BY <1>1, <1>2, <1>5, <1>6, <1>7, StillStep

\* The handler of an accept has been called: no other is queued, and the loop goes
\* on as long as there is an acceptor.
LEMMA AcceptHandled ==
  ASSUME ServerIInv, server.thread = "run", ready # <<>>, Head(ready).do = "accept",
         NEW z \in ServerRecs, z.running <=> server.running, z.acceptor <=> server.acceptor,
         z.accepting <=> server.acceptor, z.stopping <=> server.stopping, z.thread = "run"
  PROVE LET b == Tail(ready)
        IN  /\ AcceptAt(b, z) /\ b \in Seq(Posted) /\ IdsAt(b, server.nextId) /\ SendsAt(b, conn, events)
            /\ \A id \in Ids : ConnAt(b, id, conn[id], told[id])
            /\ Arg # Failed => server.nextId <= MaxConns
<1>1. Left(Tail(ready)) /\ Popped(ready, Tail(ready)) /\ Head(ready) = ready[1] /\ 1 \in 1 .. Len(ready)
  BY HeadTask DEF Popped
<1>2. PICK b : b = Tail(ready) /\ QueueHolds(b, b)
  BY <1>1, QueueLeft
<1>3. \A id : ~Is(Head(ready), "read", id) /\ ~Is(Head(ready), "write", id) /\ ~Is(Head(ready), "closeio", id)
  BY DEF Is
<1>4. /\ b \in Seq(Posted) /\ IdsAt(b, server.nextId) /\ SendsAt(b, conn, events)
      /\ \A id \in Ids : ConnAt(b, id, conn[id], told[id])
  BY <1>2, <1>3 DEF QueueHolds, ConnAt
<1>5. AcceptAt(ready, server) /\ IdsAt(ready, server.nextId) /\ server.nextId \in Nat
  BY DEF ServerIInv, ServerTypes, ServerRecs
<1>6. Is(Head(ready), "accept", 0)
  <2>1. "accept" \notin Subjects
    BY DEF Subjects
  <2> QED BY <1>1, <1>5, <2>1 DEF IdsAt, Is
<1>7. Single(b, "accept", 0) /\ ~Has(b, "accept", 0) /\ (Has(b, "shutdown", 0) => Has(ready, "shutdown", 0))
  BY <1>1, <1>2, <1>5, <1>6 DEF Popped, AcceptAt
<1>8. \A k \in 1 .. Len(b) : b[k].do # "accept"
  <2> SUFFICES ASSUME NEW k \in 1 .. Len(b), b[k].do = "accept" PROVE FALSE
    OBVIOUS
  <2>1. b[k].id = 0
    BY <1>4 DEF IdsAt, Subjects
  <2> QED BY <1>7, <2>1 DEF Has, Is
<1>9. AcceptAt(b, z)
  BY <1>5, <1>7, <1>8 DEF AcceptAt
<1>10. Arg # Failed => server.nextId <= MaxConns
  BY <1>1, <1>5 DEF AcceptAt, Arg, Failed
<1> QED BY <1>2, <1>4, <1>9, <1>10
\* The connection that is registered gets the next id and an entry in the table.
LEMMA LedgerAccept ==
  ASSUME ServerIInv, NEW n \in Ids, n = server.nextId, server.thread = "run",
         NEW co \in Nat, co = server.count + 1, NEW ta \in Nat, ta = server.totalAccepted + 1, NEW ni \in Nat, ni = n + 1,
         server'.map = server.map \cup {n}, server'.peers = server.peers \cup {n}, server'.count = co,
         server'.totalAccepted = ta, server'.nextId = ni, server'.totalClosed = server.totalClosed, server'.thread = "run",
         conn'[n].life = "open", \A id \in Ids \ {n} : conn'[id] = conn[id],
         told'[n].accepts > 0, told'[n].closes = told[n].closes, \A id \in Ids \ {n} : told'[id] = told[id]
  PROVE Ledger'
<1>1. told \in [Ids -> ToldRecs] /\ server \in ServerRecs /\ Ledger
  BY DEF ServerIInv, ServerTypes
<1>2. \A id \in Ids : told'[id].closes = told[id].closes
  OBVIOUS
<1>3. Reported' = Reported /\ Twice' = Twice
  BY <1>2 DEF Reported, Twice
<1>4. n \in Nat /\ n >= server.nextId /\ told[n].closes = 0 /\ n \notin server.map /\ n <= MaxConns /\ MaxConns \in Nat
      /\ ~(n < server.nextId)
  BY <1>1, ServerAssumption DEF Ledger, Ids
<1>5. \A id \in Ids : (id < ni <=> id < server.nextId \/ id = n) /\ (id >= ni => id >= server.nextId)
  BY <1>4 DEF Ids
<1>6. \A id \in Ids : /\ conn'[id].life # "none" <=> id < server'.nextId
                      /\ told'[id].accepts > 0 <=> id < server'.nextId
                      /\ id >= server'.nextId => told'[id].closes = 0
                      /\ told'[id].closes <= 2 /\ (Open(id)' => told'[id].closes <= 1)
  <2> SUFFICES ASSUME NEW id \in Ids
               PROVE /\ conn'[id].life # "none" <=> id < server'.nextId
                     /\ told'[id].accepts > 0 <=> id < server'.nextId
                     /\ id >= server'.nextId => told'[id].closes = 0
                     /\ told'[id].closes <= 2 /\ (Open(id)' => told'[id].closes <= 1)
    OBVIOUS
  <2>1. CASE id = n
    BY <1>2, <1>4, <1>5, <2>1
  <2>2. CASE id # n
    BY <1>1, <1>5, <2>2 DEF Ledger, Open
  <2> QED BY <2>1, <2>2
<1>7. server'.map = {id \in Ids : id < server'.nextId /\ told'[id].closes = 0} /\ server'.peers = server'.map
  BY <1>1, <1>2, <1>4, <1>5 DEF Ledger
<1>8. IsFiniteSet(Ids)
  BY ServerAssumption, FS_Interval DEF Ids
<1>9. PICK M \in SUBSET Ids, T \in SUBSET Ids : M = server.map /\ T = Twice
  BY <1>1 DEF ServerRecs, Twice
<1>10. IsFiniteSet(M) /\ Cardinality(M) \in Nat /\ IsFiniteSet(T) /\ Cardinality(T) \in Nat
  BY <1>8, FS_Subset, FS_CardinalityType
<1>11. Cardinality(M \cup {n}) = Cardinality(M) + 1
  BY <1>4, <1>9, <1>10, FS_AddElement
<1>12. server'.count <= Cardinality(server'.map) /\ Cardinality(server'.map) <= server'.count + Cardinality(Twice)'
  <2>1. server.count <= Cardinality(M) /\ Cardinality(M) <= server.count + Cardinality(T) /\ server.count \in Nat
    BY <1>1, <1>9 DEF Ledger, ServerRecs
  <2>2. co <= Cardinality(M) + 1 /\ Cardinality(M) + 1 <= co + Cardinality(T)
    BY <1>10, <2>1
  <2> QED BY <1>3, <1>9, <1>11, <2>2
<1>13. server'.nextId \in 1 .. MaxConns + 1 /\ server'.totalAccepted = server'.nextId - 1
  BY <1>1, <1>4 DEF Ledger
<1>14. server'.totalClosed = Cardinality(Reported)' + Cardinality(Twice)'
  BY <1>1, <1>3 DEF Ledger
<1> QED BY <1>6, <1>7, <1>12, <1>13, <1>14 DEF Ledger

\* A connection with no output and nothing queued.
LEMMA NewConn ==
  ASSUME NEW q \in Seq(Posted), NEW n \in Nat, IdsAt(q, n), NEW i, ~(i \in Ids /\ i < n),
         NEW t, t.late = 0, t.closes = 0,
         NEW d \in ConnRecs, d.inflight = 0, ~d.writing, d.pending = <<>>, d.sent = <<>>, d.wire = <<>>,
         d.reading <=> d.life = "open"
  PROVE ConnAt(q, i, d, t)
<1>1. \A what \in Subjects : ~Has(q, what, i)
  BY DEF IdsAt, Has, Is
<1>2. ~Has(q, "read", i) /\ ~Has(q, "write", i)
  BY <1>1 DEF Subjects
<1>3. Single(q, "read", i) /\ Single(q, "write", i) /\ \A k \in 1 .. Len(q) : ~Is(q[k], "write", i)
  BY <1>2 DEF Has, Single
<1>4. ReadAt(q, i, d)
  BY <1>2, <1>3 DEF ReadAt
<1>5. StreamAt(d.pending, d.sent, d.wire, 0) /\ d.inflight <= Len(d.pending) /\ ~(d.inflight > 0)
  BY DEF StreamAt
<1>6. WriteAt(q, i, d)
  BY <1>2, <1>3, <1>5 DEF WriteAt
<1>7. LateAt(q, i, d, t)
  BY DEF LateAt
<1> QED BY <1>4, <1>6, <1>7 DEF ConnAt

\* The accept handler.
LEMMA OnAcceptStep == ASSUME ServerIInv, OnAccept PROVE ServerIInv'
<1>1. server.thread = "run" /\ ready # <<>> /\ Head(ready).do = "accept" /\ ready' = Tail(ready) \o <<>> /\ events' = events
  BY DEF OnAccept, Handle, Handled
<1>2. /\ server \in ServerRecs /\ conn \in [Ids -> ConnRecs] /\ told \in [Ids -> ToldRecs] /\ Ledger
      /\ events' \in events .. MaxEvents /\ events \in Nat /\ ready' = Tail(ready) /\ ready \in Seq(Posted)
  BY <1>1, OneMore, ServerAssumption DEF ServerIInv, ServerTypes
<1>3. CASE server' = StartAccept(server) /\ UNCHANGED <<conn, told>>
  <2>1. server' = [server EXCEPT !.accepting = server.acceptor]
    BY <1>3 DEF StartAccept
  <2>2. PICK z \in ServerRecs : z = server' /\ (z.running <=> server.running) /\ (z.acceptor <=> server.acceptor)
                                /\ (z.accepting <=> server.acceptor) /\ (z.stopping <=> server.stopping) /\ z.thread = "run"
    <3> DEFINE y == [server EXCEPT !.accepting = server.acceptor]
    <3>1. /\ y \in ServerRecs /\ (y.running <=> server.running) /\ (y.acceptor <=> server.acceptor)
          /\ (y.accepting <=> server.acceptor) /\ (y.stopping <=> server.stopping) /\ y.thread = "run"
      BY <1>1, <1>2 DEF ServerRecs
    <3>2. y = server'
      BY <2>1
    <3> HIDE DEF y
    <3> QED BY <3>1, <3>2
  <2>3. /\ AcceptAt(ready', server') /\ ready' \in Seq(Posted) /\ IdsAt(ready', server.nextId) /\ SendsAt(ready', conn, events)
        /\ \A id \in Ids : ConnAt(ready', id, conn[id], told[id])
    BY <1>1, <1>2, <2>2, AcceptHandled
  <2>4. UNCHANGED <<server.nextId, server.map, server.peers, server.count, server.totalAccepted, server.totalClosed>>
    BY <1>2, <2>1 DEF ServerRecs
  <2>5. server' \in ServerRecs /\ server'.thread = "run"
    BY <2>2
  <2> QED BY <1>2, <1>3, <2>3, <2>4, <2>5, StillStep
<1>4. CASE ~(Arg = Failed \/ (server.max > 0 /\ server.count >= server.max))
  <2>1. PICK co \in Nat, ta \in Nat, ni \in Nat, st \in BOOLEAN :
          /\ co = server.count + 1 /\ ta = server.totalAccepted + 1 /\ ni = server.nextId + 1
          /\ st = (server.straggler \/ ~server.acceptor)
    <3>1. /\ server.count + 1 \in Nat /\ server.totalAccepted + 1 \in Nat /\ server.nextId + 1 \in Nat
      BY <1>2 DEF ServerRecs
    <3>2. (server.straggler \/ ~server.acceptor) \in BOOLEAN
      OBVIOUS
    <3> QED BY <3>1, <3>2
  <2>2. server.nextId <= MaxConns
    <3>1. AcceptAt(ready, server)
      BY DEF ServerIInv
    <3>2. Head(ready) = ready[1] /\ 1 \in 1 .. Len(ready)
      BY <1>1, HeadTask DEF Popped
    <3> QED BY <1>1, <1>4, <3>1, <3>2 DEF AcceptAt, Arg, Failed
  <2>3. PICK n \in Ids : n = server.nextId
    BY <1>2, <2>2, ServerAssumption DEF Ledger, Ids
  <2>4. PICK z \in ServerRecs :
          /\ z = [server EXCEPT !.map = server.map \cup {n}, !.peers = server.peers \cup {n}, !.count = co,
                                !.totalAccepted = ta, !.nextId = ni, !.straggler = st, !.accepting = server.acceptor]
          /\ z.map = server.map \cup {n} /\ z.peers = server.peers \cup {n} /\ z.count = co
          /\ z.totalAccepted = ta /\ z.nextId = ni /\ z.totalClosed = server.totalClosed /\ z.thread = "run"
          /\ z.running <=> server.running
          /\ z.acceptor <=> server.acceptor
          /\ z.accepting <=> server.acceptor
          /\ z.stopping <=> server.stopping
    <3> DEFINE y == [server EXCEPT !.map = server.map \cup {n}, !.peers = server.peers \cup {n}, !.count = co,
                                   !.totalAccepted = ta, !.nextId = ni, !.straggler = st, !.accepting = server.acceptor]
    <3>1. /\ y \in ServerRecs /\ y.map = server.map \cup {n} /\ y.peers = server.peers \cup {n} /\ y.count = co
          /\ y.totalAccepted = ta /\ y.nextId = ni /\ y.totalClosed = server.totalClosed /\ y.thread = "run"
          /\ y.running <=> server.running
          /\ y.acceptor <=> server.acceptor
          /\ y.accepting <=> server.acceptor
          /\ y.stopping <=> server.stopping
      BY <1>1, <1>2 DEF ServerRecs
    <3> HIDE DEF y
    <3> QED BY <3>1 DEF y
  <2>5. server' = z
    <3>1. server' = StartAccept(Registered(server))
      BY <1>4 DEF OnAccept
    <3>2. Registered(server) = [server EXCEPT !.map = server.map \cup {n}, !.peers = server.peers \cup {n}, !.count = co,
                                             !.totalAccepted = ta, !.nextId = ni, !.straggler = st]
      BY <2>1, <2>3 DEF Registered
    <3> QED BY <1>2, <2>4, <3>1, <3>2 DEF StartAccept, ServerRecs
  <2>6. PICK d \in ConnRecs : /\ d = [NoConn EXCEPT !.life = "open", !.reading = TRUE]
                              /\ d.life = "open" /\ d.reading /\ d.inflight = 0 /\ ~d.writing
                              /\ d.pending = <<>> /\ d.sent = <<>> /\ d.wire = <<>>
    <3> DEFINE v == [NoConn EXCEPT !.life = "open", !.reading = TRUE]
    <3>1. <<>> \in Seq(Nat)
      OBVIOUS
    <3>2. /\ v \in ConnRecs /\ v.life = "open" /\ v.reading /\ v.inflight = 0 /\ ~v.writing
          /\ v.pending = <<>> /\ v.sent = <<>> /\ v.wire = <<>>
      BY <3>1 DEF NoConn, ConnRecs
    <3> HIDE DEF v
    <3> QED BY <3>2 DEF v
  <2>7. PICK a \in Nat : a = told[n].accepts + 1 /\ a > 0
    BY <1>2 DEF ToldRecs
  <2>8. PICK u \in ToldRecs : /\ u = [told[n] EXCEPT !.accepts = a] /\ u.accepts = a
                              /\ u.closes = told[n].closes /\ u.late = told[n].late
    <3> DEFINE v == [told[n] EXCEPT !.accepts = a]
    <3>1. v \in ToldRecs /\ v.accepts = a /\ v.closes = told[n].closes /\ v.late = told[n].late
      BY <1>2 DEF ToldRecs
    <3> HIDE DEF v
    <3> QED BY <3>1 DEF v
  <2>9. conn' = [conn EXCEPT ![n] = d] /\ told' = [told EXCEPT ![n] = u]
    BY <1>2, <1>4, <2>3, <2>6, <2>7, <2>8 DEF OnAccept
  <2>10. /\ conn' \in [Ids -> ConnRecs] /\ told' \in [Ids -> ToldRecs] /\ conn'[n] = d /\ told'[n] = u
         /\ \A id \in Ids \ {n} : conn'[id] = conn[id] /\ told'[id] = told[id]
    BY <1>2, <2>9
  <2>11. PICK b : b = Tail(ready) /\ b = ready'
    BY <1>2
  <2>12. /\ AcceptAt(b, z) /\ b \in Seq(Posted) /\ IdsAt(b, server.nextId) /\ SendsAt(b, conn, events)
         /\ \A id \in Ids : ConnAt(b, id, conn[id], told[id])
    BY <1>1, <2>4, <2>11, AcceptHandled
  <2>13. Ledger'
    <3>1. /\ server'.map = server.map \cup {n} /\ server'.peers = server.peers \cup {n} /\ server'.count = co
          /\ server'.totalAccepted = ta /\ server'.nextId = ni /\ server'.totalClosed = server.totalClosed
          /\ server'.thread = "run" /\ co = server.count + 1 /\ ta = server.totalAccepted + 1 /\ ni = n + 1
      BY <2>1, <2>3, <2>4, <2>5
    <3>2. /\ conn'[n].life = "open" /\ \A id \in Ids \ {n} : conn'[id] = conn[id]
          /\ told'[n].accepts > 0 /\ told'[n].closes = told[n].closes /\ \A id \in Ids \ {n} : told'[id] = told[id]
      BY <2>6, <2>7, <2>8, <2>10
    <3> QED BY <1>1, <2>3, <3>1, <3>2, LedgerAccept
  <2>14. ServerTypes'
    BY <1>1, <2>4, <2>5, <2>10, <2>11, <2>12 DEF ServerIInv, ServerTypes
  <2>15. server.nextId \in Nat /\ ni \in Nat /\ server.nextId <= ni
    <3>1. server.nextId \in Nat
      BY <1>2 DEF ServerRecs
    <3> QED BY <2>1, <3>1
  <2>16. IdsAt(b, ni)
    BY <2>12, <2>15, IdsFrames
  <2>17. told[n].closes = 0 /\ told[n].late = 0
    <3>1. told[n].closes = 0
      BY <1>2, <2>3 DEF Ledger
    <3>2. LateAt(b, n, conn[n], told[n])
      BY <2>12 DEF ConnAt
    <3> QED BY <3>1, <3>2 DEF LateAt
  <2>18. ConnAt(b, n, d, u)
    <3>1. ~(n \in Ids /\ n < server.nextId)
      BY <2>3, <2>15
    <3>2. u.late = 0 /\ u.closes = 0
      BY <2>8, <2>17
    <3> QED BY <2>6, <2>12, <2>15, <3>1, <3>2, NewConn
  <2>19. \A id \in Ids : ConnAt(b, id, conn'[id], told'[id])
    BY <2>10, <2>12, <2>18
  <2>20. SendsAt(b, conn', events)
    <3>1. \A k \in 1 .. Len(b) : IsPayload(b[k]) => b[k].id \in Ids \ {n}
      BY <2>3, <2>12, <2>15 DEF IdsAt, IsPayload, Subjects
    <3>2. Len(conn'[n].sent) = 0
      BY <2>6, <2>10
    <3>3. \A id \in Ids : Len(conn'[id].sent) <= events
      BY <1>2, <2>10, <2>12, <3>2 DEF SendsAt
    <3>4. \A k \in 1 .. Len(b) : IsPayload(b[k]) => b[k].arg <= events /\ Len(conn'[b[k].id].sent) < b[k].arg
      BY <2>10, <2>12, <3>1 DEF SendsAt
    <3> QED BY <2>12, <3>3, <3>4 DEF SendsAt
  <2>21. AcceptAt(ready', server') /\ IdsAt(ready', server'.nextId) /\ SendsAt(ready', conn', events')
         /\ \A id \in Ids : ConnAt(ready', id, conn'[id], told'[id])
    BY <1>1, <2>4, <2>5, <2>11, <2>12, <2>16, <2>19, <2>20
  <2> QED BY <2>13, <2>14, <2>21 DEF ServerIInv
<1> QED BY <1>3, <1>4 DEF OnAccept
\* ShutdownOnIoThread reports each connection of the table, and the table and the
\* count are empty.
LEMMA LedgerShutdown ==
  ASSUME ServerIInv, NEW M \in SUBSET Ids, M = server.map, NEW tc \in Nat, tc = server.totalClosed + Cardinality(M),
         server'.map = {}, server'.peers = {}, server'.count = 0, server'.totalClosed = tc,
         server'.nextId = server.nextId, server'.totalAccepted = server.totalAccepted,
         conn' = conn, told' = ToldClose(told, M),
         server'.thread = "ended" => \A id \in Ids : ~Open(id)
  PROVE /\ Ledger'
        /\ told' \in [Ids -> ToldRecs]
        /\ \A id \in Ids : id \notin M => told'[id] = told[id]
        /\ \A id \in M : told'[id].closes = 1 /\ told'[id].late = 0 /\ told'[id].accepts = told[id].accepts
<1>1. told \in [Ids -> ToldRecs] /\ server \in ServerRecs /\ Ledger /\ MaxConns \in Nat
  BY ServerAssumption DEF ServerIInv, ServerTypes
<1>2. \A id \in M : id < server.nextId /\ told[id].closes = 0
  BY <1>1 DEF Ledger
<1>3. \A id \in M : told[id].late = 0
  BY <1>2 DEF ServerIInv, ConnAt, LateAt
<1>4. told' = [id \in Ids |-> IF id \in M THEN [told[id] EXCEPT !.closes = @ + 1] ELSE told[id]]
  BY DEF ToldClose
<1>5. \A id \in Ids : id \notin M => told'[id] = told[id] /\ told'[id] \in ToldRecs
  BY <1>1, <1>4
<1>6. ASSUME NEW id \in M
      PROVE /\ told'[id] \in ToldRecs /\ told'[id].closes = 1 /\ told'[id].late = 0
            /\ told'[id].accepts = told[id].accepts
  <2>1. told'[id] = [told[id] EXCEPT !.closes = 1]
    BY <1>2, <1>4
  <2> QED BY <1>1, <1>3, <2>1 DEF ToldRecs
<1>7. told' \in [Ids -> ToldRecs]
  BY <1>4, <1>5, <1>6
<1>8. \A id \in Ids : /\ conn'[id].life # "none" <=> id < server'.nextId
                      /\ told'[id].accepts > 0 <=> id < server'.nextId
                      /\ id >= server'.nextId => told'[id].closes = 0
                      /\ told'[id].closes <= 2 /\ (Open(id)' => told'[id].closes <= 1)
  <2> SUFFICES ASSUME NEW id \in Ids
               PROVE /\ conn'[id].life # "none" <=> id < server'.nextId
                     /\ told'[id].accepts > 0 <=> id < server'.nextId
                     /\ id >= server'.nextId => told'[id].closes = 0
                     /\ told'[id].closes <= 2 /\ (Open(id)' => told'[id].closes <= 1)
    OBVIOUS
  <2>1. CASE id \in M
    <3>1. server.nextId \in Nat /\ id \in Nat /\ id < server.nextId
      BY <1>1, <1>2, <2>1 DEF Ids, ServerRecs
    <3>2. ~(id >= server.nextId)
      BY <3>1
    <3> QED BY <1>1, <1>6, <2>1, <3>1, <3>2 DEF Ledger
  <2>2. CASE id \notin M
    BY <1>1, <1>5, <2>2 DEF Ledger, Open
  <2> QED BY <2>1, <2>2
<1>9. server'.map = {id \in Ids : id < server'.nextId /\ told'[id].closes = 0} /\ server'.peers = server'.map
  <2>1. \A id \in Ids : id < server'.nextId => told'[id].closes # 0
    BY <1>1, <1>5, <1>6 DEF Ledger
  <2> QED BY <2>1
<1>10. Reported' = Reported \cup M /\ Reported \cap M = {} /\ Twice' = Twice
  <2>1. \A id \in Ids : told'[id].closes > 0 <=> told[id].closes > 0 \/ id \in M
    BY <1>5, <1>6
  <2>2. \A id \in Ids : told'[id].closes = 2 <=> told[id].closes = 2
    BY <1>2, <1>5, <1>6
  <2> QED BY <1>2, <2>1, <2>2 DEF Reported, Twice
<1>11. IsFiniteSet(Ids)
  BY ServerAssumption, FS_Interval DEF Ids
<1>12. PICK R \in SUBSET Ids, T \in SUBSET Ids : R = Reported /\ T = Twice
  BY DEF Reported, Twice
<1>13. /\ IsFiniteSet(M) /\ IsFiniteSet(R) /\ IsFiniteSet(T) /\ R \cap M = {}
       /\ Cardinality(M) \in Nat /\ Cardinality(R) \in Nat /\ Cardinality(T) \in Nat
  BY <1>10, <1>11, <1>12, FS_Subset, FS_CardinalityType
<1>14. Cardinality(R \cup M) = Cardinality(R) + Cardinality(M)
  <2>1. Cardinality(R \cup M) = Cardinality(R) + Cardinality(M) - Cardinality(R \cap M)
    BY <1>13, FS_Union
  <2>2. Cardinality(R \cap M) = 0
    BY <1>13, FS_EmptySet
  <2> QED BY <1>13, <2>1, <2>2
<1>15. server'.totalClosed = Cardinality(Reported)' + Cardinality(Twice)'
  <2>1. server.totalClosed = Cardinality(R) + Cardinality(T)
    BY <1>1, <1>12 DEF Ledger
  <2>2. tc = (Cardinality(R) + Cardinality(M)) + Cardinality(T)
    BY <1>13, <2>1
  <2> QED BY <1>10, <1>12, <1>14, <2>2
<1>16. server'.count <= Cardinality(server'.map) /\ Cardinality(server'.map) <= server'.count + Cardinality(Twice)'
  <2>1. Cardinality(server'.map) = 0
    BY FS_EmptySet
  <2> QED BY <1>10, <1>12, <1>13, <2>1
<1>17. server'.nextId \in 1 .. MaxConns + 1 /\ server'.totalAccepted = server'.nextId - 1
  BY <1>1 DEF Ledger
<1>18. server'.thread = "ended" => server'.map = {} /\ \A id \in Ids : ~Open(id)'
  BY DEF Open
<1> QED BY <1>5, <1>6, <1>7, <1>8, <1>9, <1>15, <1>16, <1>17, <1>18 DEF Ledger

\* ShutdownOnIoThread, as the handler posted by Stop() or when run() has returned.
LEMMA ShutdownStep ==
  ASSUME ServerIInv, NEW b, Left(b), b = ready \/ Head(ready).do \notin {"accept", "read", "write", "closeio"},
         NEW thread \in {"run", "ended"}, ShutdownOnIoThread(thread, b), UNCHANGED <<conn, events>>,
         ~server.running, thread = "ended" => \A id \in Ids : ~Open(id)
  PROVE ServerIInv'
<1>1. /\ server \in ServerRecs /\ conn \in [Ids -> ConnRecs] /\ Ledger /\ server.nextId \in Nat /\ events \in 0 .. MaxEvents
  BY DEF ServerIInv, ServerTypes, ServerRecs
<1>2. PICK M \in SUBSET Ids : M = server.map
  BY <1>1 DEF ServerRecs
<1>3. Cardinality(M) \in Nat
  <2>1. IsFiniteSet(M)
    <3>1. IsFiniteSet(Ids)
      BY ServerAssumption, FS_Interval DEF Ids
    <3> QED BY <3>1, FS_Subset
  <2> QED BY <2>1, FS_CardinalityType
<1>4. PICK tc \in Nat : tc = server.totalClosed + Cardinality(M)
  BY <1>1, <1>3 DEF ServerRecs
<1>5. PICK z \in ServerRecs :
        /\ z = server' /\ z.map = {} /\ z.peers = {} /\ z.count = 0 /\ z.totalClosed = tc /\ z.nextId = server.nextId
        /\ z.totalAccepted = server.totalAccepted /\ z.thread = thread /\ ~z.running /\ ~z.accepting
  <2> DEFINE y == [server EXCEPT !.timer = "null", !.acceptor = FALSE, !.accepting = FALSE, !.map = {}, !.peers = {},
                                 !.count = 0, !.totalClosed = tc, !.thread = thread]
  <2>1. /\ y \in ServerRecs /\ y.map = {} /\ y.peers = {} /\ y.count = 0 /\ y.totalClosed = tc /\ y.nextId = server.nextId
        /\ y.totalAccepted = server.totalAccepted /\ y.thread = thread /\ ~y.running /\ ~y.accepting
    BY <1>1 DEF ServerRecs
  <2>2. y = server'
    BY <1>1, <1>2, <1>4 DEF ShutdownOnIoThread, Shutdown, ServerRecs
  <2> HIDE DEF y
  <2> QED BY <2>1, <2>2
<1>6. told' = ToldClose(told, M) /\ ready' = b \o Posts("closeio", {id \in M : Open(id)})
  BY <1>2 DEF ShutdownOnIoThread
<1>7. PICK r : /\ r = Posts("closeio", {id \in M : Open(id)}) /\ Plain(r)
               /\ \A id \in M : Open(id) => Has(r, "closeio", id)
  <2>1. \A id \in M : id < server.nextId
    BY <1>1, <1>2 DEF Ledger
  <2>2. PICK S \in SUBSET Ids : S = {id \in M : Open(id)}
    OBVIOUS
  <2>3. Plain(Posts("closeio", S)) /\ \A id \in S : Has(Posts("closeio", S), "closeio", id)
    BY <2>1, <2>2, PostsLists
  <2> QED BY <2>2, <2>3
<1>8. ready' = b \o r /\ QueueHolds(b, ready') /\ Joined(b, r, ready')
  BY <1>6, <1>7, QueuePlain
<1>9. /\ ready' \in Seq(Posted) /\ IdsAt(ready', server.nextId) /\ AcceptAt(ready', server) /\ SendsAt(ready', conn, events)
      /\ \A id \in Ids : ConnAt(ready', id, conn[id], told[id])
  BY <1>8 DEF QueueHolds, ConnAt, Is
<1>10. /\ Ledger' /\ told' \in [Ids -> ToldRecs]
       /\ \A id \in Ids : id \notin M => told'[id] = told[id]
       /\ \A id \in M : told'[id].closes = 1 /\ told'[id].late = 0
  BY <1>2, <1>4, <1>5, <1>6, LedgerShutdown
<1>11. ASSUME NEW id \in Ids PROVE ConnAt(ready', id, conn'[id], told'[id])
  <2>1. CASE id \notin M
    BY <1>9, <1>10, <2>1
  <2>2. CASE id \in M
    <3>1. told'[id].closes = 1 /\ told'[id].late = 0 /\ conn'[id] = conn[id]
      BY <1>10, <2>2
    <3>2. conn[id].life = "open" => Has(ready', "closeio", id)
      BY <1>7, <1>8, <2>2 DEF Joined, Open
    <3>3. LateAt(ready', id, conn[id], told'[id])
      BY <3>1, <3>2 DEF LateAt, Has
    <3> QED BY <1>9, <3>1, <3>3 DEF ConnAt
  <2> QED BY <2>1, <2>2
<1>12. AcceptAt(ready', z)
  BY <1>5, <1>9 DEF AcceptAt
<1>13. ServerTypes'
  BY <1>1, <1>5, <1>9, <1>10 DEF ServerTypes
<1>14. AcceptAt(ready', server') /\ IdsAt(ready', server'.nextId) /\ SendsAt(ready', conn', events')
  BY <1>5, <1>9, <1>12
<1> QED BY <1>10, <1>11, <1>13, <1>14 DEF ServerIInv

\* The two uses of it.
LEMMA ShutdownSteps == ASSUME ServerIInv, OnShutdown \/ RunReturns PROVE ServerIInv'
<1>1. AcceptAt(ready, server) /\ ready \in Seq(Posted) /\ conn \in [Ids -> ConnRecs]
  BY DEF ServerIInv, ServerTypes
<1>2. CASE OnShutdown
  <2>1. /\ ready # <<>> /\ Head(ready).do = "shutdown" /\ ShutdownOnIoThread("run", Tail(ready)) /\ UNCHANGED <<conn, events>>
    BY <1>2 DEF OnShutdown, Handle
  <2>2. Left(Tail(ready)) /\ Head(ready) = ready[1] /\ 1 \in 1 .. Len(ready)
    BY <2>1, HeadTask DEF Popped
  <2>3. Has(ready, "shutdown", 0)
    <3>1. ready[1].id = 0
      BY <2>1, <2>2 DEF ServerIInv, IdsAt, Subjects
    <3> QED BY <2>1, <2>2, <3>1 DEF Has, Is
  <2>4. ~server.running
    BY <1>1, <2>3 DEF AcceptAt
  <2> QED BY <2>1, <2>2, <2>4, ShutdownStep
<1>3. CASE RunReturns
  <2>1. /\ server.thread = "run" /\ OutOfWork /\ ShutdownOnIoThread("ended", ready) /\ UNCHANGED <<conn, events>>
    BY <1>3 DEF RunReturns
  <2>2. ready = <<>> /\ ~server.accepting /\ (\A what, id : ~Has(ready, what, id)) /\ \A id \in Ids : ~conn[id].reading
    BY <2>1 DEF OutOfWork, Has
  <2>3. ~server.running
    BY <1>1, <2>1, <2>2 DEF AcceptAt
  <2>4. \A id \in Ids : ~Open(id)
    <3>1. \A id \in Ids : ReadAt(ready, id, conn[id])
      BY DEF ServerIInv, ConnAt
    <3> QED BY <2>2, <3>1 DEF ReadAt, Open
  <2>5. Left(ready)
    BY DEF Left
  <2> QED BY <2>1, <2>3, <2>4, <2>5, ShutdownStep
<1> QED BY <1>2, <1>3
\* A CTcpServer that has not been started, or just now.
Fresh ==
    /\ server \in ServerRecs /\ server.nextId = 1 /\ server.map = {} /\ server.peers = {} /\ server.count = 0
    /\ server.totalAccepted = 0 /\ server.totalClosed = 0 /\ ~server.accepting /\ server.thread \in {"none", "start"}
    /\ server.running => server.acceptor /\ server.thread = "start" /\ ~server.stopping
    /\ conn = [id \in Ids |-> NoConn] /\ told = [id \in Ids |-> NotTold] /\ events \in 0 .. MaxEvents
    /\ ready \in Seq(Posted) /\ IdsAt(ready, 1) /\ \A k \in 1 .. Len(ready) : ready[k].do = "idle"

\* It satisfies the invariant.
LEMMA FreshServer == Fresh => ServerIInv
<1> SUFFICES ASSUME Fresh PROVE ServerIInv
  OBVIOUS
<1>1. <<>> \in Seq(Nat)
  OBVIOUS
<1>2. NoConn \in ConnRecs /\ NotTold \in ToldRecs
  BY <1>1 DEF NoConn, NotTold, ConnRecs, ToldRecs
<1>3. /\ NoConn.life = "none" /\ NoConn.inflight = 0 /\ ~NoConn.writing /\ NoConn.pending = <<>> /\ NoConn.sent = <<>>
      /\ NoConn.wire = <<>> /\ ~NoConn.reading /\ NotTold.accepts = 0 /\ NotTold.closes = 0 /\ NotTold.late = 0
  BY DEF NoConn, NotTold
<1>4. \A id \in Ids : conn[id] = NoConn /\ told[id] = NotTold /\ ~(id < 1) /\ id >= 1
  BY ServerAssumption DEF Fresh, Ids
<1>5. ServerTypes
  BY <1>2 DEF Fresh, ServerTypes
<1>6. Reported = {} /\ Twice = {}
  BY <1>3, <1>4 DEF Reported, Twice
<1>7. Cardinality({}) = 0
  BY FS_EmptySet
<1>8. Ledger
  <2>1. \A id \in Ids : /\ conn[id].life # "none" <=> id < server.nextId
                        /\ told[id].accepts > 0 <=> id < server.nextId
                        /\ id >= server.nextId => told[id].closes = 0
                        /\ told[id].closes <= 2 /\ (Open(id) => told[id].closes <= 1)
    BY <1>3, <1>4 DEF Fresh
  <2>2. server.map = {id \in Ids : id < server.nextId /\ told[id].closes = 0} /\ server.peers = server.map
    BY <1>4 DEF Fresh
  <2>3. /\ server.nextId \in 1 .. MaxConns + 1 /\ server.totalAccepted = server.nextId - 1
        /\ server.totalClosed = Cardinality(Reported) + Cardinality(Twice)
        /\ server.count <= Cardinality(server.map)
        /\ Cardinality(server.map) <= server.count + Cardinality(Twice)
    BY <1>6, <1>7, ServerAssumption DEF Fresh
  <2>4. server.thread # "ended"
    BY DEF Fresh
  <2> QED BY <2>1, <2>2, <2>3, <2>4 DEF Ledger
<1>9. AcceptAt(ready, server)
  <2>1. ~Has(ready, "accept", 0) /\ ~Has(ready, "shutdown", 0) /\ Single(ready, "accept", 0)
    BY DEF Fresh, Has, Is, Single
  <2>2. \A k \in 1 .. Len(ready) : ready[k].do # "accept"
    BY DEF Fresh
  <2>3. /\ ~server.accepting /\ server.thread \in {"none", "start"} /\ server.nextId = 1
        /\ server.running => server.acceptor /\ server.thread = "start" /\ ~server.stopping
    BY DEF Fresh
  <2> QED BY <2>1, <2>2, <2>3 DEF AcceptAt
<1>10. IdsAt(ready, server.nextId)
  BY DEF Fresh
<1>11. \A id \in Ids : ConnAt(ready, id, conn[id], told[id])
  <2> SUFFICES ASSUME NEW id \in Ids PROVE ConnAt(ready, id, conn[id], told[id])
    OBVIOUS
  <2>1. ready \in Seq(Posted) /\ IdsAt(ready, 1) /\ ~(id < 1)
    BY <1>4 DEF Fresh
  <2>2. ConnAt(ready, id, NoConn, NotTold)
    BY <1>2, <1>3, <2>1, NewConn
  <2> QED BY <1>4, <2>2
<1>12. SendsAt(ready, conn, events)
  <2>1. \A k \in 1 .. Len(ready) : ~IsPayload(ready[k])
    BY DEF Fresh, IsPayload
  <2>2. \A id \in Ids : Len(conn[id].sent) <= events
    <3>1. \A id \in Ids : Len(conn[id].sent) = 0
      BY <1>3, <1>4
    <3> QED BY <3>1, ServerAssumption DEF Fresh
  <2> QED BY <2>1, <2>2 DEF SendsAt
<1> QED BY <1>5, <1>8, <1>9, <1>10, <1>11, <1>12 DEF ServerIInv

\* The first state, and the new CTcpServer of every start.
LEMMA ServerFirst == ServerInit => Fresh
<1> SUFFICES ASSUME ServerInit PROVE Fresh
  OBVIOUS
<1>1. NewServer \in ServerRecs
  BY ServerAssumption DEF NewServer, ServerRecs
<1>2. /\ server = NewServer /\ conn = [id \in Ids |-> NoConn] /\ ready = <<>> /\ events = 0
      /\ told = [id \in Ids |-> NotTold]
  BY DEF ServerInit
<1>3. ready \in Seq(Posted) /\ IdsAt(ready, 1) /\ \A k \in 1 .. Len(ready) : ready[k].do = "idle"
  BY <1>2 DEF IdsAt
<1>4. /\ server.nextId = 1 /\ server.map = {} /\ server.peers = {} /\ server.count = 0
      /\ server.totalAccepted = 0 /\ server.totalClosed = 0 /\ ~server.accepting /\ server.thread = "none"
      /\ ~server.running
  BY <1>2 DEF NewServer
<1>5. events \in 0 .. MaxEvents
  BY <1>2, ServerAssumption
<1> QED BY <1>1, <1>2, <1>3, <1>4, <1>5 DEF Fresh

\* Whatever the old server was, the new one is as it has just been started.
LEMMA ServerStartStep == ASSUME events \in 0 .. MaxEvents, ServerStart PROVE Fresh' /\ ServerIInv'
<1>1. /\ server' = [NewServer EXCEPT !.running = TRUE, !.acceptor = TRUE, !.thread = "start"]
      /\ conn' = [id \in Ids |-> NoConn] /\ ready' = <<Task("idle", 0, 0)>> /\ told' = [id \in Ids |-> NotTold]
      /\ events' = events
  BY DEF ServerStart
<1>2. /\ server' \in ServerRecs
      /\ server'.nextId = 1 /\ server'.map = {} /\ server'.peers = {} /\ server'.count = 0
      /\ server'.totalAccepted = 0 /\ server'.totalClosed = 0 /\ ~server'.accepting /\ server'.thread = "start"
      /\ server'.running /\ server'.acceptor /\ ~server'.stopping
  BY <1>1, ServerAssumption DEF NewServer, ServerRecs
<1> DEFINE t == Task("idle", 0, 0)
<1>3. t \in Posted /\ t.do = "idle" /\ t.id = 0 /\ "idle" \notin Subjects
  BY DEF Task, Posted, Subjects
<1>4. ready' = <<t>>
  BY <1>1
<1> HIDE DEF t
<1>5. ready' \in Seq(Posted) /\ Len(ready') = 1 /\ ready'[1] = t
  BY <1>3, <1>4
<1>6. IdsAt(ready', 1) /\ \A k \in 1 .. Len(ready') : ready'[k].do = "idle"
  BY <1>3, <1>5 DEF IdsAt
<1>7. Fresh'
  BY <1>1, <1>2, <1>5, <1>6 DEF Fresh
<1>8. (Fresh => ServerIInv)'
  BY FreshServer, PTL
<1> QED BY <1>7, <1>8

\* Every step of the server.
LEMMA ServerStep ==
  ASSUME ServerIInv, IoThread \/ Peer \/ IdleTimerExpires \/ Caller \/ ServerStop \/ ServerStopJoin \/ UNCHANGED serverVars
  PROVE ServerIInv'
<1>1. CASE ThreadMain
  BY <1>1, ThreadMainStep
<1>2. CASE RunReturns \/ OnShutdown
  BY <1>2, ShutdownSteps
<1>3. CASE OnAccept
  BY <1>3, OnAcceptStep
<1>4. CASE OnSend
  BY <1>4, OnSendStep
<1>5. CASE OnClose
  BY <1>5, OnCloseStep
<1>6. CASE OnIdleStart \/ IdleTimerExpires \/ ServerStopJoin \/ UNCHANGED serverVars
  BY <1>6, TimerQuiet
<1>7. CASE OnRead
  BY <1>7, OnReadStep
<1>8. CASE OnWrite
  BY <1>8, OnWriteStep
<1>9. CASE OnCloseOnIoThread
  BY <1>9, OnCloseOnIoThreadStep
<1>10. CASE \E moves \in BOOLEAN : OnAppendWrite(moves)
  BY <1>10, OnAppendWriteStep
<1>11. CASE \E idle \in SUBSET server.map : OnTick(idle)
  BY <1>11, TimerQuiet
<1>12. CASE Peer
  <2>1. CASE \E ok \in BOOLEAN : AcceptReady(ok)
    BY <2>1, AcceptReadyStep
  <2>2. ASSUME NEW id \in Ids, \E res \in {1, Failed} : ReadReady(id, res) PROVE ServerIInv'
    BY <2>2, ReadReadyStep
  <2>3. ASSUME NEW id \in Ids, (\E n \in 1 .. MaxEvents : WriteProgress(id, n)) \/ WriteFails(id) PROVE ServerIInv'
    BY <2>3, WriteReadyStep
  <2> QED BY <1>12, <2>1, <2>2, <2>3 DEF Peer
<1>13. CASE Caller
  <2>1. ASSUME NEW id \in Announced, ServerSend(id) PROVE ServerIInv'
    BY <2>1, ServerSendStep
  <2>2. CASE \/ \E id \in Announced : ServerClose(id)
             \/ \E on \in BOOLEAN : SetIdleTimeout(on)
             \/ \E n \in Limits : SetMaxConnections(n)
    BY <2>2, CallerQuiet
  <2> QED BY <1>13, <2>1, <2>2 DEF Caller
<1>14. CASE ServerStop
  BY <1>14, ServerStopStep
<1> QED BY <1>1, <1>2, <1>3, <1>4, <1>5, <1>6, <1>7, <1>8, <1>9, <1>10, <1>11, <1>12, <1>13, <1>14 DEF IoThread, Handler
\* The invariant says of the table, the loops and the streams what ServerInv says.
LEMMA ServerIInvTypes == ServerIInv => ServerTypeOK
<1> SUFFICES ASSUME ServerIInv PROVE ServerTypeOK
  OBVIOUS
<1>1. server \in ServerRecs /\ conn \in [Ids -> ConnRecs] /\ events \in 0 .. MaxEvents /\ Ledger /\ MaxEvents \in Nat /\ MaxConns \in Nat
  BY ServerAssumption DEF ServerIInv, ServerTypes
<1>2. server.count \in 0 .. MaxConns
  <2>1. IsFiniteSet(Ids) /\ Cardinality(Ids) = MaxConns
    <3>1. IsFiniteSet(1 .. MaxConns) /\ Cardinality(1 .. MaxConns) = IF 1 > MaxConns THEN 0 ELSE MaxConns - 1 + 1
      BY <1>1, FS_Interval
    <3> QED BY <1>1, <3>1 DEF Ids
  <2>2. PICK M \in SUBSET Ids : M = server.map
    BY <1>1 DEF ServerRecs
  <2>3. Cardinality(M) <= MaxConns /\ Cardinality(M) \in Nat
    <3>1. IsFiniteSet(M) /\ Cardinality(M) <= Cardinality(Ids)
      BY <2>1, FS_Subset
    <3> QED BY <2>1, <3>1, FS_CardinalityType
  <2>4. server.count <= Cardinality(M) /\ server.count \in Nat
    BY <1>1, <2>2 DEF Ledger, ServerRecs
  <2> QED BY <1>1, <2>3, <2>4
<1>3. ASSUME NEW id \in Ids PROVE conn[id].life \in {"none", "open", "closed"} /\ conn[id].inflight \in 0 .. MaxEvents
  <2>1. PICK c \in ConnRecs, pe \in Seq(Nat), se \in Seq(Nat), wi \in Seq(Nat) :
          c = conn[id] /\ pe = c.pending /\ se = c.sent /\ wi = c.wire
    BY <1>1 DEF ConnRecs
  <2>2. WriteAt(ready, id, c) /\ SendsAt(ready, conn, events) /\ ready \in Seq(Posted)
    BY <2>1 DEF ServerIInv, ConnAt, ServerTypes
  <2>3. PICK w \in Nat : StreamAt(pe, se, wi, w)
    <3>1. \A k \in 1 .. Len(ready) : ready[k].arg \in Nat
      <4>1. \A k \in 1 .. Len(ready) : ready[k] \in Posted
        BY <2>2
      <4> QED BY <4>1 DEF Posted
    <3>2. CASE Has(ready, "write", id)
      BY <2>1, <2>2, <3>1, <3>2 DEF WriteAt, Has
    <3>3. CASE ~Has(ready, "write", id)
      BY <2>1, <2>2, <3>3 DEF WriteAt
    <3> QED BY <3>2, <3>3
  <2>4. Len(pe) <= Len(se) /\ Len(pe) \in Nat /\ Len(se) \in Nat
    <3>1. w <= Len(wi) /\ Len(se) + w = Len(wi) + Len(pe)
      BY <2>3 DEF StreamAt
    <3>2. Len(pe) \in Nat /\ Len(se) \in Nat /\ Len(wi) \in Nat
      OBVIOUS
    <3> QED BY <3>1, <3>2
  <2>5. c.inflight <= Len(pe) /\ c.inflight \in Nat
    BY <2>1, <2>2 DEF WriteAt, ConnRecs
  <2>6. Len(se) <= events
    BY <2>1, <2>2 DEF SendsAt
  <2>7. c.inflight \in 0 .. MaxEvents
    BY <1>1, <2>4, <2>5, <2>6
  <2> QED BY <2>1, <2>7 DEF ConnRecs
<1>4. server.thread \in {"none", "start", "run", "ended"} /\ server.timer \in {"null", "waiting", "set"} /\ server.map \subseteq Ids
  BY <1>1 DEF ServerRecs
<1>5. server.nextId \in 1 .. MaxConns + 1
  BY <1>1 DEF Ledger
<1> QED BY <1>1, <1>2, <1>3, <1>4, <1>5 DEF ServerTypeOK

\* The rest of it.
LEMMA ServerIInvImplies == ServerIInv => ServerInv
<1> SUFFICES ASSUME ServerIInv PROVE ServerInv
  OBVIOUS
<1>1. /\ server \in ServerRecs /\ conn \in [Ids -> ConnRecs] /\ told \in [Ids -> ToldRecs] /\ ready \in Seq(Posted) /\ Ledger
      /\ MaxConns \in Nat /\ AcceptAt(ready, server) /\ \A id \in Ids : ConnAt(ready, id, conn[id], told[id])
  BY ServerAssumption DEF ServerIInv, ServerTypes
<1>2. ServerTypeOK
  BY ServerIInvTypes
<1>3. TableMatchesCallbacks
  <2>1. Announced = {id \in Ids : id < server.nextId}
    BY <1>1 DEF Announced, Ledger
  <2>2. server.map = {id \in Announced : told[id].closes = 0} /\ server.peers = server.map
    BY <1>1, <2>1 DEF Ledger
  <2>3. ASSUME NEW id \in Ids PROVE told[id].closes <= 2 /\ told[id].late <= 2
    <3>1. LateAt(ready, id, conn[id], told[id]) /\ told[id].closes \in Nat /\ told[id].late \in Nat
      BY <1>1 DEF ConnAt, ToldRecs
    <3>2. told[id].closes = 0 \/ told[id].closes > 0
      BY <3>1
    <3>3. told[id].late = 0 \/ told[id].late <= 1 \/ told[id].late = 2
      BY <3>1, <3>2 DEF LateAt
    <3> QED BY <1>1, <3>1, <3>3 DEF Ledger
  <2>4. server.totalAccepted = Cardinality(Announced)
    <3>1. PICK n \in Nat : n + 1 = server.nextId /\ n <= MaxConns
      <4>1. server.nextId \in 1 .. MaxConns + 1
        BY <1>1 DEF Ledger
      <4>2. PICK m \in 1 .. MaxConns + 1 : m = server.nextId
        BY <4>1
      <4>3. m - 1 \in Nat /\ (m - 1) + 1 = m /\ m - 1 <= MaxConns
        BY <1>1
      <4> QED BY <4>2, <4>3
    <3>2. Announced = 1 .. n
      BY <1>1, <2>1, <3>1 DEF Ids
    <3>3. Cardinality(1 .. n) = n
      BY FS_Interval
    <3>4. server.totalAccepted = n
      BY <1>1, <3>1 DEF Ledger
    <3> QED BY <3>2, <3>3, <3>4
  <2>5. /\ server.totalClosed = Cardinality({id \in Ids : told[id].closes > 0}) + Cardinality(Twice)
        /\ server.count <= Cardinality(server.map)
        /\ Cardinality(server.map) <= server.count + Cardinality(Twice)
    BY <1>1 DEF Ledger, Reported
  <2> QED BY <2>2, <2>3, <2>4, <2>5 DEF TableMatchesCallbacks
<1>4. LoopsAlive
  <2>1. ASSUME server.running, server.thread # "start" PROVE server.thread = "run" /\ (server.accepting \/ Waiting("accept", 0))
    BY <1>1, <2>1 DEF AcceptAt, Waiting, Has, Is
  <2>2. ASSUME NEW id \in Ids, Open(id)
        PROVE /\ conn[id].reading \/ Waiting("read", id)
              /\ conn[id].pending # <<>> => conn[id].inflight > 0 \/ Waiting("write", id)
    <3>1. ReadAt(ready, id, conn[id]) /\ WriteAt(ready, id, conn[id]) /\ conn[id].life = "open"
      BY <1>1, <2>2 DEF ConnAt, Open
    <3>2. conn[id].reading \/ Has(ready, "read", id)
      BY <3>1 DEF ReadAt
    <3>3. conn[id].pending # <<>> => conn[id].inflight > 0 \/ Has(ready, "write", id)
      BY <3>1 DEF WriteAt
    <3> QED BY <3>2, <3>3 DEF Waiting, Has, Is
  <2> QED BY <2>1, <2>2 DEF LoopsAlive
<1>5. StreamInOrder
  <2> SUFFICES ASSUME NEW id \in Ids, NEW c, c = conn[id]
               PROVE /\ Garbage \notin Range(c.wire) => IsPrefix(c.wire, c.sent)
                     /\ IsSuffix(c.pending, c.sent)
                     /\ Len(c.wire) <= Len(c.sent) /\ Len(c.sent) <= Len(c.wire) + Len(c.pending)
    BY DEF StreamInOrder
  <2>1. PICK pe \in Seq(Nat), se \in Seq(Nat), wi \in Seq(Nat) : pe = c.pending /\ se = c.sent /\ wi = c.wire
    BY <1>1 DEF ConnRecs
  <2>2. WriteAt(ready, id, c)
    BY <1>1 DEF ConnAt
  <2>3. PICK w \in Nat : StreamAt(pe, se, wi, w)
    <3>1. \A k \in 1 .. Len(ready) : ready[k].arg \in Nat
      <4>1. \A k \in 1 .. Len(ready) : ready[k] \in Posted
        BY <1>1
      <4> QED BY <4>1 DEF Posted
    <3>2. CASE Has(ready, "write", id)
      BY <2>1, <2>2, <3>1, <3>2 DEF WriteAt, Has
    <3>3. CASE ~Has(ready, "write", id)
      BY <2>1, <2>2, <3>3 DEF WriteAt
    <3> QED BY <3>2, <3>3
  <2>4. /\ 0 \notin Range(wi) => IsPrefix(wi, se)
        /\ IsSuffix(pe, se)
        /\ Len(wi) <= Len(se) /\ Len(se) <= Len(wi) + Len(pe)
    BY <2>3, StreamIsInOrder
  <2> QED BY <2>1, <2>4 DEF Garbage
<1>6. EndedIsClosed
  BY <1>1 DEF Ledger, EndedIsClosed, Open
<1> QED BY <1>2, <1>3, <1>4, <1>5, <1>6 DEF ServerInv
-------------------------------------------------------------------------------
(***************************************************************************)
(* CNetworkModule: what a step of the io thread does to the table is what  *)
(* the callbacks of that step tell the handler.                            *)
(***************************************************************************)
Moves ==
    /\ server.thread \in {"start", "run"}
    /\ server'.map = (server.map \cup Rose("accepts")) \ Rose("closes")
    /\ Rose("datas") \subseteq server'.map \cup Rose("late")
    /\ server'.count = server.count \/ Rose("accepts") \cup Rose("closes") # {}
    /\ server'.running <=> server.running

\* Nothing is heard.
LEMMA MovesQuiet ==
  ASSUME ServerIInv, told' = told, server.thread \in {"start", "run"}, server'.map = server.map,
         server'.count = server.count, server'.running <=> server.running
  PROVE Moves
<1>1. told \in [Ids -> ToldRecs]
  BY DEF ServerIInv, ServerTypes
<1>2. \A id \in Ids : /\ ~(told'[id]["accepts"] > told[id]["accepts"]) /\ ~(told'[id]["closes"] > told[id]["closes"])
                      /\ ~(told'[id]["datas"] > told[id]["datas"])
  BY <1>1 DEF ToldRecs
<1>3. Rose("accepts") = {} /\ Rose("closes") = {} /\ Rose("datas") = {}
  BY <1>2 DEF Rose
<1> QED BY <1>3 DEF Moves

\* One connection is heard of.
LEMMA RoseOne ==
  ASSUME ServerIInv, NEW i \in Ids, NEW u \in ToldRecs, told' = [told EXCEPT ![i] = u], NEW f \in {"accepts", "closes", "datas", "late"}
  PROVE Rose(f) = IF u[f] > told[i][f] THEN {i} ELSE {}
<1>1. told \in [Ids -> ToldRecs]
  BY DEF ServerIInv, ServerTypes
<1>2. told'[i] = u /\ \A id \in Ids \ {i} : told'[id] = told[id]
  BY <1>1
<1>3. \A id \in Ids : told[id][f] \in Nat
  BY <1>1 DEF ToldRecs
<1>4. \A id \in Ids \ {i} : ~(told'[id][f] > told[id][f])
  BY <1>2, <1>3
<1> QED BY <1>2, <1>4 DEF Rose

\* A close callback.
LEMMA MovesClose ==
  ASSUME ServerIInv, NEW i \in Ids, HandleClose(i), server.thread = "run"
  PROVE Moves
<1>1. told \in [Ids -> ToldRecs] /\ server \in ServerRecs
  BY DEF ServerIInv, ServerTypes
<1>2. PICK n \in Nat : n = told[i].closes + 1 /\ n > told[i].closes
  BY <1>1 DEF ToldRecs
<1>3. PICK u \in ToldRecs : /\ u = [told[i] EXCEPT !.closes = n] /\ u.closes = n
                            /\ u.accepts = told[i].accepts /\ u.datas = told[i].datas /\ u.late = told[i].late
  <2> DEFINE v == [told[i] EXCEPT !.closes = n]
  <2>1. /\ v \in ToldRecs /\ v.closes = n /\ v.accepts = told[i].accepts /\ v.datas = told[i].datas /\ v.late = told[i].late
    BY <1>1 DEF ToldRecs
  <2> HIDE DEF v
  <2> QED BY <2>1 DEF v
<1>4. told' = [told EXCEPT ![i] = u]
  <2>1. told' = [id \in Ids |-> IF id = i THEN [told[id] EXCEPT !.closes = n] ELSE told[id]]
    BY <1>2 DEF HandleClose, ToldClose
  <2> QED BY <1>1, <1>3, <2>1
<1>5. ~(told[i].accepts > told[i].accepts) /\ ~(told[i].datas > told[i].datas)
  BY <1>1 DEF ToldRecs
<1>6. Rose("accepts") = {} /\ Rose("closes") = {i} /\ Rose("datas") = {}
  BY <1>2, <1>3, <1>4, <1>5, RoseOne
<1>7. server'.map = server.map \ {i} /\ (server'.running <=> server.running)
  BY <1>1 DEF HandleClose, ServerRecs
<1> QED BY <1>6, <1>7 DEF Moves

\* Data is handed on.
LEMMA MovesRead ==
  ASSUME ServerIInv, OnRead
  PROVE Moves
<1>1. server.thread = "run" /\ ready # <<>> /\ Head(ready).do = "read"
  BY DEF OnRead, Handle
<1>2. told \in [Ids -> ToldRecs] /\ server \in ServerRecs /\ Ledger
  BY DEF ServerIInv, ServerTypes
<1>3. PICK i \in Ids : i = Id /\ i < server.nextId
  <2>1. Head(ready).do \in Subjects
    BY <1>1 DEF Subjects
  <2> QED BY <1>1, <2>1, HeadTask
<1>4. CASE Arg = Failed
  <2>1. HandleError(i)
    BY <1>3, <1>4 DEF OnRead
  <2>2. CASE ~Open(i)
    BY <1>1, <2>1, <2>2, MovesQuiet DEF HandleError
  <2>3. CASE Open(i)
    BY <1>1, <2>1, <2>3, MovesClose DEF HandleError
  <2> QED BY <2>2, <2>3
<1>5. CASE Arg # Failed
  <2>1. PICK m \in Nat, l \in Nat : /\ m = told[i].datas + 1 /\ l = IF told[i].closes > 0 THEN told[i].late + 1 ELSE told[i].late
                                    /\ m > told[i].datas /\ (told[i].closes > 0 => l > told[i].late)
    BY <1>2 DEF ToldRecs
  <2>2. PICK u \in ToldRecs : /\ u = [told[i] EXCEPT !.datas = m, !.late = l] /\ u.datas = m /\ u.late = l
                              /\ u.accepts = told[i].accepts /\ u.closes = told[i].closes
    <3> DEFINE v == [told[i] EXCEPT !.datas = m, !.late = l]
    <3>1. /\ v \in ToldRecs /\ v.datas = m /\ v.late = l /\ v.accepts = told[i].accepts /\ v.closes = told[i].closes
      BY <1>2 DEF ToldRecs
    <3> HIDE DEF v
    <3> QED BY <3>1 DEF v
  <2>3. told' = [told EXCEPT ![i] = u] /\ server' = server
    BY <1>2, <1>3, <1>5, <2>1, <2>2 DEF OnRead
  <2>4. ~(told[i].accepts > told[i].accepts) /\ ~(told[i].closes > told[i].closes)
    BY <1>2 DEF ToldRecs
  <2>5. Rose("accepts") = {} /\ Rose("closes") = {} /\ Rose("datas") = {i} /\ Rose("late") = IF l > told[i].late THEN {i} ELSE {}
    BY <2>1, <2>2, <2>3, <2>4, RoseOne
  <2>6. i \in server.map \/ told[i].closes > 0
    BY <1>2, <1>3 DEF Ledger, ToldRecs
  <2>7. i \in server.map \cup Rose("late")
    BY <2>1, <2>5, <2>6
  <2> QED BY <1>1, <2>3, <2>5, <2>7 DEF Moves
<1> QED BY <1>4, <1>5

\* A connection is registered.
LEMMA MovesAccept ==
  ASSUME ServerIInv, OnAccept
  PROVE Moves
<1>1. server.thread = "run" /\ ready # <<>> /\ Head(ready).do = "accept"
  BY DEF OnAccept, Handle
<1>2. told \in [Ids -> ToldRecs] /\ server \in ServerRecs /\ Ledger
  BY DEF ServerIInv, ServerTypes
<1>3. CASE server' = StartAccept(server) /\ UNCHANGED told
  <2>1. server'.map = server.map /\ server'.count = server.count /\ (server'.running <=> server.running)
    BY <1>2, <1>3 DEF StartAccept, ServerRecs
  <2> QED BY <1>1, <1>3, <2>1, MovesQuiet
<1>4. CASE /\ server' = StartAccept(Registered(server)) /\ Arg # Failed
           /\ told' = [told EXCEPT ![server.nextId].accepts = @ + 1]
  <2>1. server.nextId <= MaxConns
    <3>1. AcceptAt(ready, server)
      BY DEF ServerIInv
    <3>2. Head(ready) = ready[1] /\ 1 \in 1 .. Len(ready)
      BY <1>1, HeadTask DEF Popped
    <3> QED BY <1>1, <1>4, <3>1, <3>2 DEF AcceptAt, Arg, Failed
  <2>2. PICK i \in Ids : i = server.nextId /\ i \notin server.map
    <3>1. server.nextId \in Ids
      BY <1>2, <2>1, ServerAssumption DEF Ledger, Ids
    <3>2. server.nextId \notin server.map
      BY <1>2 DEF Ledger, ServerRecs
    <3> QED BY <3>1, <3>2
  <2>3. PICK n \in Nat : n = told[i].accepts + 1 /\ n > told[i].accepts
    BY <1>2 DEF ToldRecs
  <2>4. PICK u \in ToldRecs : /\ u = [told[i] EXCEPT !.accepts = n] /\ u.accepts = n
                              /\ u.closes = told[i].closes /\ u.datas = told[i].datas
    <3> DEFINE v == [told[i] EXCEPT !.accepts = n]
    <3>1. v \in ToldRecs /\ v.accepts = n /\ v.closes = told[i].closes /\ v.datas = told[i].datas
      BY <1>2 DEF ToldRecs
    <3> HIDE DEF v
    <3> QED BY <3>1 DEF v
  <2>5. told' = [told EXCEPT ![i] = u]
    BY <1>2, <1>4, <2>2, <2>3, <2>4
  <2>6. ~(told[i].closes > told[i].closes) /\ ~(told[i].datas > told[i].datas)
    BY <1>2 DEF ToldRecs
  <2>7. Rose("accepts") = {i} /\ Rose("closes") = {} /\ Rose("datas") = {}
    BY <2>3, <2>4, <2>5, <2>6, RoseOne
  <2>8. server'.map = server.map \cup {i} /\ (server'.running <=> server.running)
    BY <1>2, <1>4, <2>2 DEF StartAccept, Registered, ServerRecs
  <2> QED BY <1>1, <2>7, <2>8 DEF Moves
<1> QED BY <1>3, <1>4 DEF OnAccept

\* The shutdown.
LEMMA MovesShutdown ==
  ASSUME ServerIInv, OnShutdown \/ RunReturns
  PROVE Moves
<1>1. server.thread = "run" /\ \E thread, b : ShutdownOnIoThread(thread, b)
  BY DEF OnShutdown, RunReturns, Handle
<1>2. told \in [Ids -> ToldRecs] /\ server \in ServerRecs /\ Ledger
  BY DEF ServerIInv, ServerTypes
<1>3. PICK M \in SUBSET Ids : M = server.map
  BY <1>2 DEF ServerRecs
<1>4. told' = [id \in Ids |-> IF id \in M THEN [told[id] EXCEPT !.closes = @ + 1] ELSE told[id]]
  BY <1>1, <1>3 DEF ShutdownOnIoThread, ToldClose
<1>5. ASSUME NEW id \in Ids
      PROVE /\ told'[id].closes > told[id].closes <=> id \in M
            /\ ~(told'[id].accepts > told[id].accepts) /\ ~(told'[id].datas > told[id].datas)
  <2>1. told[id] \in ToldRecs
    BY <1>2
  <2>2. CASE id \in M
    <3>1. PICK n \in Nat : n = told[id].closes + 1 /\ n > told[id].closes
      BY <2>1 DEF ToldRecs
    <3>2. told'[id] = [told[id] EXCEPT !.closes = n]
      BY <1>4, <2>2, <3>1
    <3> QED BY <2>1, <2>2, <3>1, <3>2 DEF ToldRecs
  <2>3. CASE id \notin M
    BY <1>4, <2>1, <2>3 DEF ToldRecs
  <2> QED BY <2>2, <2>3
<1>6. Rose("closes") = M /\ Rose("accepts") = {} /\ Rose("datas") = {}
  BY <1>5 DEF Rose
<1>7. server'.map = {} /\ server'.count = 0 /\ (server'.running <=> server.running)
  BY <1>1, <1>2 DEF ShutdownOnIoThread, Shutdown, ServerRecs
<1>8. M = {} => server.count = 0
  <2>1. server.count <= Cardinality(M) /\ server.count \in Nat
    BY <1>2, <1>3 DEF Ledger, ServerRecs
  <2>2. Cardinality({}) = 0
    BY FS_EmptySet
  <2> QED BY <2>1, <2>2
<1> QED BY <1>1, <1>3, <1>6, <1>7, <1>8 DEF Moves

\* Each step of the io thread, of the peers and of the timer.
LEMMA ServerMoves ==
  ASSUME ServerIInv, IoThread \/ Peer \/ IdleTimerExpires
  PROVE Moves
<1>1. server \in ServerRecs
  BY DEF ServerIInv, ServerTypes
<1>2. CASE ThreadMain
  <2>1. server'.map = server.map /\ server'.count = server.count /\ (server'.running <=> server.running)
    BY <1>1, <1>2 DEF ThreadMain, StartAccept, ServerRecs
  <2> QED BY <1>2, <2>1, MovesQuiet DEF ThreadMain
<1>3. CASE OnAccept
  BY <1>3, MovesAccept
<1>4. CASE OnShutdown \/ RunReturns
  BY <1>4, MovesShutdown
<1>5. CASE OnRead
  BY <1>5, MovesRead
<1>6. CASE OnWrite
  <2>1. server.thread = "run" /\ ready # <<>> /\ Head(ready).do = "write"
    BY <1>6 DEF OnWrite, Handle
  <2>2. PICK i \in Ids : i = Id
    <3>1. Head(ready).do \in Subjects
      BY <2>1 DEF Subjects
    <3> QED BY <2>1, <3>1, HeadTask
  <2>3. UNCHANGED <<server, told>> \/ (Open(i) /\ HandleClose(i))
    BY <1>6, <2>2 DEF OnWrite, HandleError
  <2>4. CASE UNCHANGED <<server, told>>
    BY <2>1, <2>4, MovesQuiet
  <2> QED BY <2>1, <2>3, <2>4, MovesClose
<1>7. CASE OnClose
  <2>1. server.thread = "run" /\ ready # <<>> /\ Head(ready).do = "close"
    BY <1>7 DEF OnClose, Handle
  <2>2. PICK i \in Ids : i = Id
    <3>1. Head(ready).do \in Subjects
      BY <2>1 DEF Subjects
    <3> QED BY <2>1, <3>1, HeadTask
  <2>3. UNCHANGED <<server, told>> \/ HandleClose(i)
    BY <1>7, <2>2 DEF OnClose
  <2>4. CASE UNCHANGED <<server, told>>
    BY <2>1, <2>4, MovesQuiet
  <2> QED BY <2>1, <2>3, <2>4, MovesClose
<1>8. CASE \/ OnSend \/ OnCloseOnIoThread \/ OnIdleStart
           \/ \E moves \in BOOLEAN : OnAppendWrite(moves)
           \/ \E idle \in SUBSET server.map : OnTick(idle)
           \/ Peer \/ IdleTimerExpires
  <2>1. server.thread = "run" /\ told' = told
    BY <1>8 DEF OnSend, OnCloseOnIoThread, OnIdleStart, OnAppendWrite, OnTick, Peer, IdleTimerExpires, Handle,
                AcceptReady, ReadReady, WriteProgress, WriteFails
  <2>2. \/ server' = server \/ server' = [server EXCEPT !.timer = "waiting"] \/ server' = [server EXCEPT !.timer = "set"]
        \/ server' = [server EXCEPT !.accepting = FALSE]
    <3>1. StartIdleTimer(server) \in {server, [server EXCEPT !.timer = "waiting"]}
      BY <1>1 DEF StartIdleTimer, ServerRecs
    <3> QED BY <1>8, <3>1 DEF OnSend, OnCloseOnIoThread, OnIdleStart, OnAppendWrite, OnTick, Peer, IdleTimerExpires,
                AcceptReady, ReadReady, WriteProgress, WriteFails
  <2>3. server'.map = server.map /\ server'.count = server.count /\ (server'.running <=> server.running)
    BY <1>1, <2>2 DEF ServerRecs
  <2> QED BY <2>1, <2>3, MovesQuiet
<1> QED BY <1>2, <1>3, <1>4, <1>5, <1>6, <1>7, <1>8 DEF IoThread, Handler
\* What the callbacks do to the contexts, the partial messages and the metric.
LEMMA CallbacksKeep ==
  ASSUME NetIInv, Moves, ServerIInv', NEW rest \in BOOLEAN, Callbacks(rest)
  PROVE NetIInv'
<1>1. /\ server.thread \in {"start", "run"} /\ (server'.running <=> server.running)
      /\ server'.map = (server.map \cup Rose("accepts")) \ Rose("closes")
      /\ Rose("datas") \subseteq server'.map \cup Rose("late")
      /\ server'.count = server.count \/ Rose("accepts") \cup Rose("closes") # {}
  BY DEF Moves
<1>2. /\ ctx = server.map /\ partial \subseteq server.map \cup late /\ pHandler
      /\ announced = "started" => pServer /\ (server.running \/ server.thread = "ended")
      /\ ~(moduleOp = "idle" /\ ~pServer)
  BY <1>1 DEF NetIInv, ConnectionResources
<1>3. /\ ctx' = (ctx \cup Rose("accepts")) \ Rose("closes")
      /\ partial' \subseteq (partial \cup Rose("datas")) \ Rose("closes")
      /\ late' = late \cup Rose("late")
      /\ gauge' = IF Rose("accepts") \cup Rose("closes") = {} THEN gauge ELSE IF pServer THEN server'.count ELSE 0
      /\ UNCHANGED <<pServer, pHandler, announced, moduleOp, opens>>
  BY DEF Callbacks, ServiceOnClose, ServiceOnAccept, ServiceOnData, Detach, Attach, ReportConns
<1>4. ctx' = server'.map
  BY <1>1, <1>2, <1>3
<1>5. partial' \subseteq server'.map \cup late'
  BY <1>1, <1>2, <1>3
<1>6. gauge' = 0 \/ gauge' = server'.count
  BY <1>1, <1>3 DEF NetIInv
<1>7. announced' = "started" => pServer' /\ server'.running
  <2>1. server.thread # "ended"
    BY <1>1
  <2> QED BY <1>1, <1>2, <1>3, <2>1
<1>8. ConnectionResources'
  BY <1>2, <1>3, <1>4, <1>5, <1>7 DEF ConnectionResources
<1>9. /\ moduleOp' \in {"idle", "starting", "stopping"} /\ pServer' \in BOOLEAN
      /\ pServer' => moduleOp' = "idle" /\ server'.running
      /\ moduleOp' = "starting" => server'.running
      /\ ~(moduleOp' = "idle" /\ ~pServer')
  BY <1>1, <1>2, <1>3 DEF NetIInv
<1> QED BY <1>6, <1>8, <1>9 DEF NetIInv

\* A call of the application changes neither the table nor the thread.
LEMMA CallerKeeps ==
  ASSUME ServerIInv, Caller
  PROVE /\ UNCHANGED <<server.map, server.count, server.thread>>
        /\ server'.running <=> server.running
<1>1. server \in ServerRecs
  BY DEF ServerIInv, ServerTypes
<1>2. \/ server' = server \/ \E on \in BOOLEAN : server' = [server EXCEPT !.idle = on]
      \/ \E n \in Limits : server' = [server EXCEPT !.max = n]
  BY DEF Caller, ServerSend, ServerClose, SetIdleTimeout, SetMaxConnections
<1> QED BY <1>1, <1>2 DEF ServerRecs

\* While no CTcpServer works, no connection is counted.
LEMMA NobodyCounted ==
  ASSUME ServerIInv, server.thread \in {"none", "ended"}
  PROVE server.map = {} /\ server.count = 0
<1>1. server \in ServerRecs /\ Ledger /\ AcceptAt(ready, server)
  BY DEF ServerIInv, ServerTypes
<1>2. server.map = {}
  <2>1. CASE server.thread = "ended"
    BY <1>1, <2>1 DEF Ledger
  <2>2. CASE server.thread = "none"
    <3>1. server.nextId = 1
      BY <1>1, <2>2 DEF AcceptAt
    <3>2. \A id \in Ids : ~(id < 1)
      BY ServerAssumption DEF Ids
    <3> QED BY <1>1, <3>1, <3>2 DEF Ledger
  <2> QED BY <2>1, <2>2
<1>3. Cardinality({}) = 0
  BY FS_EmptySet
<1>4. server.count <= Cardinality(server.map) /\ server.count \in Nat
  BY <1>1 DEF Ledger, ServerRecs
<1>5. server.count <= 0
  BY <1>2, <1>3, <1>4
<1> QED BY <1>2, <1>4, <1>5

\* StartTcpServer and Stop(), step by step.
LEMMA NetControl ==
  ASSUME NetIInv, StartTcpServer \/ StartFails \/ SwapServer \/ StopRelease \/ StopServer \/ StopJoin
  PROVE NetIInv'
<1> USE DEF NetIInv, ConnectionResources
<1>1. server \in ServerRecs /\ AcceptAt(ready, server) /\ events \in 0 .. MaxEvents
  BY DEF ServerIInv, ServerTypes
<1>2. CASE StartTcpServer
  <2>1. /\ moduleOp = "idle" /\ ~pServer /\ moduleOp' = "starting" /\ pHandler' = TRUE /\ ServerStart
        /\ UNCHANGED <<pServer, ctx, partial, late, gauge, announced>>
    BY <1>2 DEF StartTcpServer
  <2>2. Fresh' /\ ServerIInv'
    BY <1>1, <2>1, ServerStartStep
  <2>3. server'.map = {} /\ server'.running
    <3>1. server'.map = {}
      BY <2>2 DEF Fresh
    <3>2. server' = [NewServer EXCEPT !.running = TRUE, !.acceptor = TRUE, !.thread = "start"]
      BY <2>1 DEF ServerStart
    <3> QED BY <3>1, <3>2 DEF NewServer
  <2>4. ctx = {} /\ gauge = 0 /\ server.map = {} /\ announced # "started"
    BY <2>1
  <2>5. ConnectionResources'
    BY <2>1, <2>3, <2>4
  <2> QED BY <2>1, <2>2, <2>3, <2>4, <2>5
<1>3. CASE StartFails
  <2>1. moduleOp = "idle" /\ ~pServer /\ UNCHANGED <<serverVars, pServer, ctx, partial, late, gauge, announced, moduleOp>>
    BY <1>3 DEF StartFails
  <2>2. ServerIInv'
    BY <2>1, TimerQuiet
  <2>3. UNCHANGED server /\ server.thread \in {"none", "ended"}
    BY <2>1 DEF serverVars
  <2> QED BY <2>1, <2>2, <2>3
<1>4. CASE SwapServer
  <2>1. moduleOp = "starting" /\ moduleOp' = "idle" /\ pServer' = TRUE /\ UNCHANGED <<serverVars, pHandler, ctx, partial, late, gauge>>
    BY <1>4 DEF SwapServer
  <2>2. ServerIInv'
    BY <2>1, TimerQuiet
  <2>3. UNCHANGED server /\ server.running
    BY <2>1 DEF serverVars
  <2> QED BY <2>1, <2>2, <2>3
<1>5. CASE StopRelease
  <2>1. /\ moduleOp' = "stopping" /\ pServer' = FALSE /\ announced' = "stopped"
        /\ UNCHANGED <<serverVars, pHandler, ctx, partial, late, gauge>>
    BY <1>5 DEF StopRelease
  <2>2. ServerIInv'
    BY <2>1, TimerQuiet
  <2>3. UNCHANGED server
    BY <2>1 DEF serverVars
  <2> QED BY <2>1, <2>2, <2>3
<1>6. CASE StopServer
  <2>1. moduleOp = "stopping" /\ ServerStop /\ UNCHANGED <<pServer, pHandler, ctx, partial, late, gauge, announced, moduleOp, opens>>
    BY <1>6 DEF StopServer, moduleVars
  <2>2. ServerIInv'
    BY <2>1, ServerStopStep
  <2>3. UNCHANGED <<server.map, server.count, server.thread>>
    BY <1>1, <2>1 DEF ServerStop, ServerRecs
  <2>4. ~pServer /\ announced # "started"
    BY <2>1
  <2> QED BY <2>1, <2>2, <2>3, <2>4
<1>7. CASE StopJoin
  <2>1. /\ moduleOp' = "idle" /\ ServerStopJoin /\ moduleOp = "stopping"
        /\ UNCHANGED <<pServer, ctx, partial, late, gauge, announced>>
    BY <1>7 DEF StopJoin
  <2>2. ServerIInv'
    BY <2>1, TimerQuiet
  <2>3. /\ UNCHANGED <<server.map, server.count, server.thread>> /\ (server'.running <=> server.running)
        /\ server.stopping /\ server.thread \in {"none", "ended"}
    BY <1>1, <2>1 DEF ServerStopJoin, ServerRecs
  <2>4. ~server.running
    BY <1>1, <2>3 DEF AcceptAt
  <2>5. server.map = {} /\ server.count = 0
    BY <2>3, NobodyCounted
  <2>6. ~pServer /\ announced # "started" /\ gauge = 0
    BY <2>1, <2>5
  <2> QED BY <2>1, <2>2, <2>3, <2>4, <2>5, <2>6
<1> QED BY <1>2, <1>3, <1>4, <1>5, <1>6, <1>7

\* The invariant of the server and of the network module is inductive, for every
\* number of connections, events, starts and limit.
THEOREM NetInductive == NetSpec => []NetIInv
<1>1. NetInit => NetIInv
  <2> SUFFICES ASSUME NetInit PROVE NetIInv
    OBVIOUS
  <2>1. /\ ServerInit /\ pServer = FALSE /\ ctx = {} /\ partial = {} /\ gauge = 0 /\ announced = "none" /\ moduleOp = "idle"
    BY DEF NetInit
  <2>2. ServerIInv
    BY <2>1, ServerFirst, FreshServer
  <2>3. server.map = {} /\ server.thread = "none" /\ ~server.running
    BY <2>1 DEF ServerInit, NewServer
  <2> QED BY <2>1, <2>2, <2>3 DEF NetIInv, ConnectionResources
<1>2. NetIInv /\ [NetNext]_netVars => NetIInv'
  <2> SUFFICES ASSUME NetIInv, [NetNext]_netVars PROVE NetIInv'
    OBVIOUS
  <2>1. ServerIInv
    BY DEF NetIInv
  <2>2. CASE ServerSteps
    <3>1. PICK rest \in BOOLEAN : Callbacks(rest)
      BY <2>2 DEF ServerSteps
    <3>2. ServerIInv' /\ Moves
      BY <2>1, <2>2, ServerStep, ServerMoves DEF ServerSteps
    <3> QED BY <3>1, <3>2, CallbacksKeep
  <2>3. CASE Through
    <3>1. Caller /\ UNCHANGED moduleVars
      BY <2>3 DEF Through
    <3>2. ServerIInv' /\ UNCHANGED <<server.map, server.count, server.thread>> /\ (server'.running <=> server.running)
      BY <2>1, <3>1, ServerStep, CallerKeeps
    <3> QED BY <3>1, <3>2 DEF NetIInv, ConnectionResources, moduleVars
  <2>4. CASE StartTcpServer \/ StartFails \/ SwapServer \/ StopRelease \/ StopServer \/ StopJoin
    BY <2>4, NetControl
  <2>5. CASE UNCHANGED netVars
    <3>1. UNCHANGED serverVars /\ UNCHANGED moduleVars
      BY <2>5 DEF netVars
    <3>2. ServerIInv'
      BY <2>1, <3>1, TimerQuiet
    <3> QED BY <3>1, <3>2 DEF NetIInv, ConnectionResources, moduleVars, serverVars
  <2> QED BY <2>2, <2>3, <2>4, <2>5 DEF NetNext
<1> QED BY <1>1, <1>2, PTL DEF NetSpec

\* The server's bookkeeping is right in every reachable state: the table, the
\* counters and HasConnection() agree with the callbacks whoever closes a
\* connection and however often, the accept, read and write loops go on, the socket
\* is given the output in order, and the io thread leaves nothing open.
THEOREM ServerInvHolds == NetSpec => []ServerInv
<1>1. NetIInv => ServerInv
  BY ServerIInvImplies DEF NetIInv
<1> QED BY <1>1, NetInductive, PTL

\* The context of a connection lives exactly as long as its entry in the table, a
\* partial message outlives it only with data handed on after OnClose, the metric
\* ends at zero, the handler is held while the io thread can call it, and the last
\* event published is true.
THEOREM ConnectionResourcesHolds == NetSpec => []ConnectionResources
<1>1. NetIInv => ConnectionResources
  BY DEF NetIInv
<1> QED BY <1>1, NetInductive, PTL
=============================================================================

---------------------------- MODULE MessageRouter ----------------------------
(***************************************************************************)
(* CMessageRouter (ServerCore/Message) with the protocol and the handlers  *)
(* of the example server: OnData cuts the byte stream of a connection into *)
(* packets and dispatches them on the io thread, while other threads       *)
(* register and unregister handlers; the handlers of CExampleService post  *)
(* their reply to the executor.                                            *)
(*                                                                         *)
(* A byte is a digit below Base, a packet a length of HeaderSize digits,   *)
(* most significant first, then as many bytes, of which the first is the   *)
(* command.  (kHeaderSize is 4 and kMaxPacketSize 1 MiB in the code.)      *)
(***************************************************************************)
EXTENDS HandlerTable, FiniteSets, Folds

CONSTANTS
    Base, HeaderSize, MaxPacketSize,
    Connections,
    CmdEcho, CmdPing, CmdPong,  \* commands
    Pong,                       \* the payload "pong"
    MaxBytes,                   \* bound on the bytes of one run
    MaxHandlers                 \* bound on RegisterHandler

ASSUME RouterAssumption ==
    /\ {HeaderSize, MaxPacketSize, MaxBytes, MaxHandlers} \subseteq Nat /\ Base \in Nat \ {0}
    /\ MaxPacketSize < Base ^ HeaderSize

VARIABLES
    table,     \* m_mapHandlers and m_mapByType
    buffers,   \* m_mapBuffers: <<>> is no entry
    feed,      \* the OnData in progress
    replies,   \* replies posted to the executor: [id, packet]
    executorUp,
    bytesIn,   \* bytes received so far, on all connections
    sent,      \* packets handed to INetwork::Send, by connection
    stream,    \* history: the bytes of the connection since it was opened, or since
               \* the last invalid length
    seen       \* history: messages dispatched since then

routerVars == <<table, buffers, feed, replies, executorUp, bytesIn, sent, stream, seen>>

Byte == 0 .. Base - 1
NoFeed == [on |-> FALSE, id |-> CHOOSE c \in Connections : TRUE, data |-> <<>>, targets |-> <<>>,
           msg |-> [command |-> Base, payload |-> <<>>]]
Drop(s, n) == SubSeq(s, n + 1, Len(s))

(***************************************************************************)
(* CExampleProtocol.                                                       *)
(***************************************************************************)
\* htonl and ntohl with the memcpy of the field.
Encode(n) == [k \in 1 .. HeaderSize |-> (n \div Base ^ (HeaderSize - k)) % Base]
Decode(s) == FoldSeq(LAMBDA d, n : n * Base + d, 0, Reverse(SubSeq(s, 1, HeaderSize)))

BuildPacket(command, payload) == Encode(1 + Len(payload)) \o <<command>> \o payload

NeedMore == [result |-> "kNeedMore", step |-> 0, msg |-> NoFeed.msg]
Invalid == [NeedMore EXCEPT !.result = "kInvalid"]

\* ParsePacket.
ParsePacket(data) ==
    IF Len(data) < HeaderSize THEN NeedMore
    ELSE LET len == Decode(data) IN
         IF len < 1 \/ len > MaxPacketSize THEN Invalid
         ELSE IF Len(data) < HeaderSize + len THEN NeedMore
         ELSE [result |-> "kOk", step |-> HeaderSize + len,
               msg |-> [command |-> data[HeaderSize + 1], payload |-> SubSeq(data, HeaderSize + 2, HeaderSize + len)]]

\* The lambda of MakeMessageExtractor: its payload is the bytes it borrows.
Extractor(data) ==
    LET complete == Len(data) >= HeaderSize
        len == IF complete THEN Decode(data) ELSE 0
        total == HeaderSize + len
    IN  CASE ~complete -> NeedMore
          [] complete /\ (len < 1 \/ len > MaxPacketSize) -> Invalid
          [] complete /\ len \in 1 .. MaxPacketSize /\ Len(data) < total -> NeedMore
          [] OTHER -> [result |-> "kOk", step |-> total,
                       msg |-> [command |-> data[HeaderSize + 1],
                                payload |-> [k \in 1 .. len - 1 |-> data[HeaderSize + 1 + k]]]]

(***************************************************************************)
(* CMessageRouter.                                                         *)
(***************************************************************************)
RegisterHandler(command) ==
    /\ table.nextId <= MaxHandlers
    /\ table' = Added(table, command)
    /\ UNCHANGED <<buffers, feed, replies, executorUp, bytesIn, sent, stream, seen>>

UnregisterHandler(id) ==
    /\ Known(table, id)
    /\ table' = Removed(table, id)
    /\ UNCHANGED <<buffers, feed, replies, executorUp, bytesIn, sent, stream, seen>>

\* OnData up to the loop: the buffer is taken out of the map.
OnData(c, chunk) ==
    /\ ~feed.on
    /\ bytesIn + Len(chunk) <= MaxBytes /\ bytesIn' = bytesIn + Len(chunk)
    /\ feed' = [NoFeed EXCEPT !.on = TRUE, !.id = c, !.data = buffers[c] \o chunk]
    /\ buffers' = [buffers EXCEPT ![c] = <<>>]
    /\ stream' = [stream EXCEPT ![c] = @ \o chunk]
    /\ UNCHANGED <<table, replies, executorUp, sent, seen>>

\* One turn of the loop: a message and its targets.
ExtractNext ==
    /\ feed.on /\ feed.data # <<>> /\ feed.targets = <<>>
    /\ LET x == Extractor(feed.data) IN
       /\ x.result = "kOk"
       /\ feed' = [feed EXCEPT !.data = Drop(@, x.step), !.msg = x.msg, !.targets = Targets(table, x.msg.command)]
       /\ seen' = [seen EXCEPT ![feed.id] = Append(@, x.msg)]
    /\ UNCHANGED <<table, buffers, replies, executorUp, bytesIn, sent, stream>>

\* An invalid length: what is left of the buffer is dropped, and the connection
\* stays: its next bytes are read as the beginning of a packet.
ExtractInvalid ==
    /\ feed.on /\ feed.data # <<>> /\ feed.targets = <<>>
    /\ Extractor(feed.data).result = "kInvalid"
    /\ feed' = [feed EXCEPT !.data = <<>>]
    /\ stream' = [stream EXCEPT ![feed.id] = <<>>] /\ seen' = [seen EXCEPT ![feed.id] = <<>>]
    /\ UNCHANGED <<table, buffers, replies, executorUp, bytesIn, sent>>

\* Mutant: one message is taken out, not all of them.
PutBackAfterOne ==
    /\ feed.on /\ feed.targets = <<>>
    /\ feed.data # <<>> => feed.msg # NoFeed.msg \/ Extractor(feed.data).result = "kNeedMore"
    /\ buffers' = [buffers EXCEPT ![feed.id] = feed.data]
    /\ feed' = NoFeed
    /\ UNCHANGED <<table, replies, executorUp, bytesIn, sent, stream, seen>>

\* The remainder goes back into the map.
PutBack ==
    /\ feed.on /\ feed.targets = <<>>
    /\ feed.data # <<>> => Extractor(feed.data).result = "kNeedMore"
    /\ buffers' = [buffers EXCEPT ![feed.id] = feed.data]
    /\ feed' = NoFeed
    /\ UNCHANGED <<table, replies, executorUp, bytesIn, sent, stream, seen>>

\* The connection closes, on the io thread; its id comes again with a new server.
RouterOnClose(c) ==
    /\ ~feed.on
    /\ buffers' = [buffers EXCEPT ![c] = <<>>]
    /\ stream' = [stream EXCEPT ![c] = <<>>] /\ seen' = [seen EXCEPT ![c] = <<>>]
    /\ sent' = [sent EXCEPT ![c] = <<>>]
    /\ UNCHANGED <<table, feed, replies, executorUp, bytesIn>>

(***************************************************************************)
(* CExampleService: a handler posts its reply, or does nothing if refused. *)
(***************************************************************************)
Reply(msg) == IF msg.command = CmdEcho THEN BuildPacket(CmdEcho, msg.payload) ELSE BuildPacket(CmdPong, Pong)

CallTarget ==
    /\ feed.on /\ feed.targets # <<>>
    /\ feed' = [feed EXCEPT !.targets = Tail(@)]
    /\ replies' = IF executorUp THEN Append(replies, [id |-> feed.id, packet |-> Reply(feed.msg)]) ELSE replies
    /\ UNCHANGED <<table, buffers, executorUp, bytesIn, sent, stream, seen>>

\* The posted lambda; write tasks run one at a time, in order.
SendReply ==
    /\ replies # <<>>
    /\ sent' = [sent EXCEPT ![Head(replies).id] = Append(@, Head(replies).packet)]
    /\ replies' = Tail(replies)
    /\ UNCHANGED <<table, buffers, feed, executorUp, bytesIn, stream, seen>>

RouterExecutorStops ==
    /\ executorUp
    /\ executorUp' = FALSE
    /\ UNCHANGED <<table, buffers, feed, replies, bytesIn, sent, stream, seen>>

\* CExampleService::Initialize has set the extractor and registered two handlers.
RouterInit ==
    /\ table = Added(Added(EmptyTable(Byte), CmdPing), CmdEcho)
    /\ buffers = [c \in Connections |-> <<>>] /\ feed = NoFeed
    /\ replies = <<>> /\ executorUp = TRUE /\ bytesIn = 0
    /\ sent = [c \in Connections |-> <<>>]
    /\ stream = [c \in Connections |-> <<>>] /\ seen = [c \in Connections |-> <<>>]

RouterNext ==
    \/ \E command \in {CmdEcho} : RegisterHandler(command)
    \/ \E id \in DOMAIN table.typeOf : UnregisterHandler(id)
    \/ \E c \in Connections : RouterOnClose(c) \/ \E n \in 1 .. MaxBytes - bytesIn : \E chunk \in [1 .. n -> Byte] : OnData(c, chunk)
    \/ ExtractNext \/ ExtractInvalid \/ PutBack \/ CallTarget \/ SendReply \/ RouterExecutorStops

RouterSpec == RouterInit /\ [][RouterNext]_routerVars

(***************************************************************************)
(* Properties.                                                             *)
(***************************************************************************)
\* The messages of a whole stream, cut without regard to how it arrived.
Cut[s \in Seq(Byte)] ==
    LET x == ParsePacket(s) IN
    IF x.result # "kOk" THEN <<>> ELSE <<x.msg>> \o Cut[Drop(s, x.step)]

\* How the stream is divided into OnData calls makes no difference, whether a packet
\* comes in pieces or several come at once: the messages dispatched are, in order,
\* the first ones of the whole stream, and between two calls all of them; what is
\* buffered is less than one packet.  An invalid length ends the stream with the
\* call that brought it, and what the next call brings is a stream of its own.
ChunkingIrrelevant ==
    \A c \in Connections :
        /\ IsPrefix(seen[c], Cut[stream[c]])
        /\ (feed.on /\ feed.id = c => Extractor(feed.data).result # "kOk") => seen[c] = Cut[stream[c]]
        /\ Len(buffers[c]) < HeaderSize + MaxPacketSize
        /\ feed.on => buffers[feed.id] = <<>>

\* MakeMessageExtractor and ParsePacket, two codings of one format, agree on
\* every buffer, and a reply that was sent reads back as a packet of its command.
CodecsAgree ==
    /\ \A c \in Connections : Extractor(buffers[c]) = ParsePacket(buffers[c])
    /\ Extractor(feed.data) = ParsePacket(feed.data)
    /\ \A c \in Connections : \A k \in 1 .. Len(sent[c]) :
         LET x == ParsePacket(sent[c][k]) IN
         x.result = "kOk" /\ x.step = Len(sent[c][k]) /\ BuildPacket(x.msg.command, x.msg.payload) = sent[c][k]

\* Router and protocol.
RouterInv == ChunkingIrrelevant /\ CodecsAgree
=============================================================================

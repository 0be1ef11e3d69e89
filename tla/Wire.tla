-------------------------------- MODULE Wire --------------------------------
(***************************************************************************)
(* CBuffer (Common/Network) and CBinaryWriter / CBinaryReader              *)
(* (Common/Serialization).  A buffer is its vector and two indexes; the    *)
(* bytes appended are numbered, so that a byte lost, repeated or moved is  *)
(* seen.  A message is written field by field, any prefix of it may arrive, *)
(* and the reader takes the fields in the order of the writer or otherwise. *)
(* A byte takes Radix values: 256 in the code.                             *)
(***************************************************************************)
EXTENDS Integers, Sequences, FiniteSetsExt

CONSTANTS
    Capacities,   \* initial sizes a CBuffer is made with
    MaxAppended,  \* bound: bytes appended to a buffer
    Radix,        \* values of a byte
    FieldsOf,     \* kind of field -> values written: "u8", "u16", "u32", "u64", "bool", "bytes"
    MaxFields     \* bound: fields of a message, and reads of it

ASSUME WireAssumption ==
    /\ Capacities \subseteq Nat \ {0} /\ MaxAppended \in Nat /\ MaxFields \in Nat
    /\ Radix \in Nat \ {0, 1}

VARIABLES
    buffer,    \* data (m_vecData), read and write (m_nReadIndex, m_nWriteIndex)
    unread,    \* history: the bytes appended and not retrieved
    appended,  \* bytes appended so far
    message,   \* m_buffer of the writer, and the fields written
    reader,    \* data, pos, failed of the reader; made: the constructor ran
    got        \* history: what each read asked for, what it returned, and the position
               \* before and after it

wireVars == <<buffer, unread, appended, message, reader, got>>

-------------------------------------------------------------------------------
Readable(b) == b.write - b.read
Writable(b) == Len(b.data) - b.write
BufferText(b) == SubSeq(b.data, b.read + 1, b.write)

\* The size after doubling until nLen bytes fit behind the write index.
Grown(b, nLen) ==
    CHOOSE n \in {Len(b.data) * 2 ^ k : k \in 1..(nLen + b.write + 1)} :
      /\ n - b.write >= nLen
      /\ n = 2 * Len(b.data) \/ n \div 2 - b.write < nLen

\* The readable bytes at the front of a vector of n bytes.
MovedTo(b, n) ==
    [data |-> [i \in 1..n |-> IF i <= Readable(b) THEN b.data[b.read + i] ELSE 0],
     read |-> 0, write |-> Readable(b)]

\* Mutant: consumed space is reclaimed whether it suffices or not.
EnsureWritableCompacts(b, nLen) ==
    IF Writable(b) >= nLen THEN b
    ELSE IF b.read > 0 THEN MovedTo(b, Len(b.data))
    ELSE MovedTo(b, Grown(b, nLen))

EnsureWritable(b, nLen) ==
    IF Writable(b) >= nLen THEN b
    ELSE IF b.read + Writable(b) >= nLen THEN MovedTo(b, Len(b.data))
    ELSE MovedTo(b, Grown(b, nLen))

Append_(b, bytes) ==
    LET e == EnsureWritable(b, Len(bytes))
        end == e.write + Len(bytes) IN
      [e EXCEPT !.data = [i \in DOMAIN e.data |->
                            IF i \in (e.write + 1)..end THEN bytes[i - e.write] ELSE e.data[i]],
                !.write = end]

RetrieveAll(b) == [b EXCEPT !.read = 0, !.write = 0]

Retrieve(b, nLen) == IF nLen >= Readable(b) THEN RetrieveAll(b) ELSE [b EXCEPT !.read = @ + nLen]

BufferAppend(n) ==
    LET bytes == [i \in 1..n |-> appended + i] IN
      /\ appended + n <= MaxAppended
      /\ buffer' = Append_(buffer, bytes)
      /\ unread' = unread \o bytes
      /\ appended' = appended + n
      /\ UNCHANGED <<message, reader, got>>

BufferRetrieve(n) ==
    /\ buffer' = Retrieve(buffer, n)
    /\ unread' = SubSeq(unread, n + 1, Len(unread))
    /\ UNCHANGED <<appended, message, reader, got>>

-------------------------------------------------------------------------------
Width(kind) ==
    CASE kind \in {"u8", "bool"} -> 1 [] kind = "u16" -> 2
      [] kind \in {"u32", "bytes"} -> 4 [] kind = "u64" -> 8

\* The digits of a number, lowest first, and the number back.
LittleEndian(v, width) == [i \in 1..width |-> (v \div Radix ^ (i - 1)) % Radix]
Number(bytes) == MapThenSumSet(LAMBDA i : bytes[i] * Radix ^ (i - 1), DOMAIN bytes)

\* WriteU8 .. WriteU64, WriteBool, WriteBytes and WriteString.
Written(kind, v) ==
    CASE kind = "bool"  -> <<IF v THEN 1 ELSE 0>>
      [] kind = "bytes" -> LittleEndian(Len(v), 4) \o v
      [] OTHER          -> LittleEndian(v, Width(kind))

WriteField(kind, v) ==
    /\ ~reader.made /\ Len(message.fields) < MaxFields
    /\ message' = [buffer |-> message.buffer \o Written(kind, v), fields |-> Append(message.fields, <<kind, v>>)]
    /\ UNCHANGED <<buffer, unread, appended, reader, got>>

\* Take or Data, and a reader on the bytes that arrive.
OpenReader(n) ==
    /\ ~reader.made
    /\ reader' = [data |-> SubSeq(message.buffer, 1, n), pos |-> 0, failed |-> FALSE, made |-> TRUE]
    /\ UNCHANGED <<buffer, unread, appended, message, got>>

Left(r) == Len(r.data) - r.pos

\* What a read returns (ok, value) and leaves: ReadRaw, and the number in it.
ReadRaw(r, n) ==
    IF r.failed \/ Left(r) < n
      THEN [ok |-> FALSE, bytes |-> <<>>, r |-> [r EXCEPT !.failed = TRUE]]
      ELSE [ok |-> TRUE, bytes |-> SubSeq(r.data, r.pos + 1, r.pos + n), r |-> [r EXCEPT !.pos = @ + n]]

\* The length, then as many bytes: a length past the end fails with the length consumed.
ReadBytes(r) ==
    LET head == ReadRaw(r, 4) IN
      IF head.ok THEN ReadRaw(head.r, Number(head.bytes)) ELSE head

ReadField(kind) ==
    LET read == IF kind = "bytes" THEN ReadBytes(reader) ELSE ReadRaw(reader, Width(kind))
        value == CASE kind = "bytes" -> read.bytes
                   [] kind = "bool"  -> Number(read.bytes) # 0
                   [] OTHER          -> Number(read.bytes) IN
      /\ reader.made /\ Len(got) < MaxFields
      /\ reader' = read.r
      /\ got' = Append(got, [kind |-> kind, ok |-> read.ok, value |-> IF read.ok THEN <<value>> ELSE <<>>,
                              from |-> reader.pos, to |-> read.r.pos])
      /\ UNCHANGED <<buffer, unread, appended, message>>

\* A read into a null pointer of ReadU8 .. ReadU64: the reader fails, nothing is consumed.
ReadNull ==
    /\ reader.made /\ Len(got) < MaxFields
    /\ reader' = [reader EXCEPT !.failed = TRUE]
    /\ got' = Append(got, [kind |-> "null", ok |-> FALSE, value |-> <<>>, from |-> reader.pos, to |-> reader.pos])
    /\ UNCHANGED <<buffer, unread, appended, message>>

-------------------------------------------------------------------------------
WireInit ==
    /\ \E n \in Capacities : buffer = [data |-> [i \in 1..n |-> 0], read |-> 0, write |-> 0]
    /\ unread = <<>> /\ appended = 0 /\ got = <<>>
    /\ message = [buffer |-> <<>>, fields |-> <<>>]
    /\ reader = [data |-> <<>>, pos |-> 0, failed |-> FALSE, made |-> FALSE]

BufferNext == (\E n \in 0..MaxAppended : BufferAppend(n)) \/ (\E n \in 0..MaxAppended : BufferRetrieve(n))

CodecNext ==
    \/ \E kind \in DOMAIN FieldsOf : (\E v \in FieldsOf[kind] : WriteField(kind, v)) \/ ReadField(kind)
    \/ \E n \in 0..Len(message.buffer) : OpenReader(n)
    \/ ReadNull

WireSpec == WireInit /\ [][BufferNext \/ CodecNext]_wireVars

(***************************************************************************)
(* Properties.                                                             *)
(***************************************************************************)

\* However appends and retrievals alternate, and whether an append finds room,
\* compacts or grows, the buffer holds the bytes not yet retrieved, in order,
\* inside its vector.
BufferIsQueue ==
    /\ 0 <= buffer.read /\ buffer.read <= buffer.write /\ buffer.write <= Len(buffer.data)
    /\ BufferText(buffer) = unread

\* The kinds read so far are those written.
InWriterOrder == \A i \in DOMAIN got : i <= Len(message.fields) /\ got[i].kind = message.fields[i][1]

\* The bytes of the first k fields.
Extent(k) == MapThenSumSet(LAMBDA i : Len(Written(message.fields[i][1], message.fields[i][2])), 1..k)

\* The bytes read i takes away: a value its field; a failed read none, except the
\* length of a byte string that had arrived while the string had not.
Consumed(i) ==
    LET g == got[i]
        lengthOnly == g.kind = "bytes" /\ g.from + 4 <= Len(reader.data) /\ \A j \in 1..(i - 1) : got[j].ok
    IN  IF g.ok THEN IF g.kind = "bytes" THEN 4 + Len(g.value[1]) ELSE Width(g.kind)
        ELSE IF lengthOnly THEN 4 ELSE 0

\* A reader never passes its end; once failed nothing is read any more; the reads
\* take the bytes one after the other, none twice and none left out; and when
\* the fields are read in the order they were written, exactly those that arrived
\* complete are returned, with the values written.
ReaderExact ==
    /\ reader.pos <= Len(reader.data)
    /\ \A i \in DOMAIN got : (\E j \in 1..i : ~got[j].ok) => ~got[i].ok
    /\ \A i \in DOMAIN got :
         /\ got[i].from = IF i = 1 THEN 0 ELSE got[i - 1].to
         /\ got[i].to = got[i].from + Consumed(i)
    /\ InWriterOrder =>
         \A i \in DOMAIN got :
           /\ got[i].ok <=> Extent(i) <= Len(reader.data)
           /\ got[i].ok => got[i].value = <<message.fields[i][2]>>

\* The invariant of the buffer and of the codec.
WireInv == BufferIsQueue /\ ReaderExact
=============================================================================

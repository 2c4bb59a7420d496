----------------------------- MODULE ByteArray -----------------------------
(***************************************************************************)
(* ByteArray: a growing buffer kept as a list of nodes of one size, with a *)
(* position, a size, and m_cur, the node that the position is in.          *)
(*                                                                         *)
(* The chain of nodes is one sequence of bytes (mem) in which node k       *)
(* begins at byte (k - 1) * Base; walking along `next' is walking along    *)
(* mem.  Where the code reads and writes is decided by m_cur, never by the *)
(* position alone.  A byte has GroupBits + 1 bits; 7, 32 and 64 of the     *)
(* code are GroupBits, WordBits and LongBits here.  An integer that leaves *)
(* its type's range wraps, as compiled.                                    *)
(***************************************************************************)
EXTENDS Integers, Endian

CONSTANTS
    Base,           \* m_baseSize
    MaxCapacity,    \* no operation is tried that grows the buffer further
    Data,           \* bytes that are written (0 stands for uninitialised memory)
    MaxWrite,       \* bytes of one write, string or file
    GroupBits, WordBits, LongBits

Top == 2^GroupBits              \* 0x80
Radix == 2 * Top                \* a byte is 0 .. Radix - 1

ASSUME ByteArrayAssumption ==
    /\ Base \in Nat \ {0} /\ MaxCapacity \in Nat /\ MaxWrite \in Nat
    /\ {GroupBits, WordBits, LongBits} \subseteq Nat \ {0} /\ 2 <= WordBits /\ WordBits < LongBits
    /\ Data \subseteq 1 .. Radix - 1

VARIABLES
    ba,             \* the ByteArray
    ref             \* ghost: a flat buffer that goes by the position alone

vars == <<ba, ref>>

Null == 0                       \* nullptr, as a node
Thrown == <<-1, -1>>            \* no bytes: std::out_of_range
Undefined == <<-2, -2>>         \* no bytes: a null pointer was followed
Strings == UNION {[1 .. n -> Data] : n \in 0 .. MaxWrite}
Smaller(a, b) == IF a < b THEN a ELSE b
CeilDiv(a, b) == (a + b - 1) \div b

Fresh == [i \in 1 .. Base |-> 0]
Nodes(b) == Len(b.mem) \div Base
ReadSize(b) == b.size - b.pos
Offset(b) == b.pos % Base

\* A null pointer was followed: the process is gone.
Crash(b) == [b EXCEPT !.dead = TRUE]

Init ==
    /\ ba = [mem |-> Fresh, cur |-> 1, pos |-> 0, size |-> 0, endian |-> "big", dead |-> FALSE]
    /\ ref = [mem |-> Fresh, pos |-> 0, size |-> 0, stray |-> FALSE]

-----------------------------------------------------------------------------
(* Walking the chain                                                         *)

\* Bytes of mem before offset o of node c.
Ahead(c, o) == (c - 1) * Base + o

\* A loop that takes n bytes from offset o of node c meets no null pointer.
Room(b, c, o, n) == c # Null /\ Ahead(c, o) + n <= Len(b.mem)

\* m_cur after such a loop; it goes on to `next' as soon as a node is used up.
NodeAfter(b, n) ==
    LET k == (Ahead(b.cur, Offset(b)) + n) \div Base + 1 IN
    IF k > Nodes(b) THEN Null ELSE k

Bytes(b, c, o, n) == [i \in 1 .. n |-> b.mem[Ahead(c, o) + i]]

Stored(mem, a, data) ==
    [i \in DOMAIN mem |-> IF i \in a + 1 .. a + Len(data) THEN data[i - a] ELSE mem[i]]

-----------------------------------------------------------------------------
(* addCapacity, write, read, setPosition, clear                              *)

\* Mutant: the new nodes are counted without rounding up.
AddCapacityShort(b, n) ==
    LET cap == Len(b.mem) - b.size  num == (n - cap) \div Base IN
    IF n = 0 \/ cap >= n THEN b
    ELSE [b EXCEPT !.mem = @ \o [i \in 1 .. num * Base |-> 0],
                   !.cur = IF cap = 0 /\ num > 0 THEN Nodes(b) + 1 ELSE @]

\* What is missing is counted from the size, and if nothing was left m_cur becomes the
\* first new node, wherever the position is.
AddCapacity(b, n) ==
    LET cap == Len(b.mem) - b.size  num == CeilDiv(n - cap, Base) IN
    IF n = 0 \/ cap >= n THEN b
    ELSE [b EXCEPT !.mem = @ \o [i \in 1 .. num * Base |-> 0],
                   !.cur = IF cap = 0 THEN Nodes(b) + 1 ELSE @]

\* Mutant: m_cur stays at a node that has just been filled.
WriteNoAdvance(b, data) ==
    LET n == Len(data)  e == AddCapacity(b, n) IN
    IF n = 0 \/ b.dead THEN b
    ELSE IF ~Room(e, e.cur, Offset(b), n) THEN Crash(e)
    ELSE [e EXCEPT !.mem = Stored(@, Ahead(e.cur, Offset(b)), data),
                   !.cur = (Ahead(e.cur, Offset(b)) + n - 1) \div Base + 1,
                   !.pos = @ + n,
                   !.size = IF b.pos + n > @ THEN b.pos + n ELSE @]

Write(b, data) ==
    LET n == Len(data)  e == AddCapacity(b, n) IN
    IF n = 0 \/ b.dead THEN b
    ELSE IF ~Room(e, e.cur, Offset(b), n) THEN Crash(e)
    ELSE [e EXCEPT !.mem = Stored(@, Ahead(e.cur, Offset(b)), data),
                   !.cur = NodeAfter(e, n),
                   !.pos = @ + n,
                   !.size = IF b.pos + n > @ THEN b.pos + n ELSE @]

\* What a read gets, and the ByteArray it leaves behind.  m_cur is followed even for
\* a read of no bytes.
Read(b, n) ==
    IF n > ReadSize(b) THEN [got |-> Thrown, b |-> b]
    ELSE IF b.dead \/ ~Room(b, b.cur, Offset(b), n) THEN [got |-> Undefined, b |-> Crash(b)]
    ELSE [got |-> Bytes(b, b.cur, Offset(b), n),
          b |-> [b EXCEPT !.pos = @ + n, !.cur = NodeAfter(b, n)]]

\* read(buf, size, st): starts in the node of the position, at the offset of st.  The
\* test does not hold back an st beyond the size (m_size - st wraps).
ReadAt(b, n, st) ==
    IF st <= b.size /\ n > b.size - st THEN Thrown
    ELSE IF ~Room(b, b.cur, st % Base, n) THEN Undefined
    ELSE Bytes(b, b.cur, st % Base, n)

\* The walk from m_root stops in a node: at the very end there is none to stop in.
SetPosition(b, v) ==
    LET size == IF v > b.size THEN v ELSE b.size IN
    IF v > Len(b.mem) THEN b
    ELSE IF v = Len(b.mem) THEN Crash([b EXCEPT !.pos = v, !.size = size, !.cur = Null])
    ELSE [b EXCEPT !.pos = v, !.size = size, !.cur = v \div Base + 1]

\* The root node stays, with what is in it.
Clear(b) == [b EXCEPT !.mem = SubSeq(@, 1, Base), !.cur = 1, !.pos = 0, !.size = 0]

SetEndian(b, little) == [b EXCEPT !.endian = IF little THEN "little" ELSE "big"]

-----------------------------------------------------------------------------
(* Integers of fixed length; v is the integer's bytes, most significant first *)

\* Mutant: never swapped.
FixedHostOrder(b, v) == InMemory(v)

\* writeFint8 to writeFuint64: swapped if the array's order is not the machine's.
Fixed(b, v) == InMemory(IF b.endian # Host THEN byteswap(v) ELSE v)

WriteFixed(b, v) == Write(b, Fixed(b, v))

\* readFint8 to readFuint64
ReadFixed(b, w) ==
    LET r == Read(b, w)  v == InMemory(r.got) IN
    IF r.got \in {Thrown, Undefined} THEN r
    ELSE [r EXCEPT !.got = IF b.endian = Host THEN v ELSE byteswap(v)]

\* writeFloat, writeDouble: the bits of the value, as an unsigned integer.
WriteReal(b, bits) == WriteFixed(b, bits)

\* readFloat; readDouble copies eight bytes over a float.
ReadReal(b, w) ==
    LET r == ReadFixed(b, w) IN IF w = 8 THEN [r EXCEPT !.got = Undefined] ELSE r

\* An unsigned integer and its w bytes.
ToBytes(n, w) == [i \in 1 .. w |-> (n \div 2^((w - i) * (GroupBits + 1))) % Radix]
FromBytes(v) ==
    LET value[k \in 0 .. Len(v)] == IF k = 0 THEN 0 ELSE value[k - 1] * Radix + v[k]
    IN value[Len(v)]

-----------------------------------------------------------------------------
(* Integers of variable length                                               *)

\* An integer as an int32_t, which all readers return, of 64-bit integers too.
Int32(u) ==
    LET w == u % 2^WordBits IN IF w >= 2^(WordBits - 1) THEN w - 2^WordBits ELSE w

EncodeZigzag(v, bits) == (IF v < 0 THEN (-v) * 2 - 1 ELSE v * 2) % 2^bits

\* (v >> 1) ^ -(v & 1)
DecodeZigzag(u) == IF u % 2 = 1 THEN -(u \div 2) - 1 ELSE u \div 2

\* The loop of writeUint32 and writeUint64 ends before the last group is stored.
Varint[u \in Nat] ==
    IF u < Top THEN <<>> ELSE <<(u % Top) + Top>> \o Varint[u \div Top]

WriteUint(b, u) == Write(b, Varint[u])

\* writeInt32 and writeInt64: both end in writeUint32.
WriteInt(b, v, bits) == WriteUint(b, EncodeZigzag(v, bits) % 2^WordBits)

\* A round of readUint32 and readUint64: a byte gives the group of bits from i on.
ReadGroup(a, i, bits) ==
    LET r == Read(a.b, 1)  t == r.got[1] IN
    IF a.done THEN a
    ELSE IF r.got \in {Thrown, Undefined} THEN [got |-> r.got, b |-> r.b, done |-> TRUE]
    ELSE [got |-> <<(a.got[1] + (t % Top) * 2^i) % 2^bits>>, b |-> r.b, done |-> t < Top]

\* Rounds until a byte has its highest bit clear or the value is full.
ReadGroups(b, bits) ==
    LET rounds == CeilDiv(bits, GroupBits)
        after[k \in 0 .. rounds] ==
            IF k = 0 THEN [got |-> <<0>>, b |-> b, done |-> FALSE]
            ELSE ReadGroup(after[k - 1], (k - 1) * GroupBits, bits)
    IN after[rounds]

\* readUint32 and readUint64
ReadUint(b, bits) ==
    LET r == ReadGroups(b, bits) IN
    IF r.got \in {Thrown, Undefined} THEN r ELSE [r EXCEPT !.got = <<Int32(@[1])>>]

\* readInt32 and readInt64: the int32_t is made unsigned again, of the full width.
ReadInt(b, bits) ==
    LET r == ReadUint(b, bits) IN
    IF r.got \in {Thrown, Undefined} THEN r
    ELSE [r EXCEPT !.got = <<Int32(DecodeZigzag(@[1] % 2^bits))>>]

-----------------------------------------------------------------------------
(* Strings: their length as a fixed integer (w = 2, 4, 8), as a variable one   *)
(* (w = 0), then their bytes                                                   *)

WriteString(b, w, s) ==
    Write(IF w = 0 THEN WriteUint(b, Len(s)) ELSE WriteFixed(b, ToBytes(Len(s), w)), s)

ReadString(b, w) ==
    LET r == IF w = 0 THEN ReadUint(b, LongBits) ELSE ReadFixed(b, w)
        len == IF w = 0 THEN r.got[1] % 2^LongBits ELSE FromBytes(r.got)
    IN IF r.got \in {Thrown, Undefined} THEN [got |-> r.got, b |-> r.b] ELSE Read(r.b, len)

\* toString, toHexString
AsString(b) == IF ReadSize(b) = 0 THEN <<>> ELSE ReadAt(b, ReadSize(b), b.pos)

-----------------------------------------------------------------------------
(* Buffers for readv and writev, and files                                   *)

\* One iovec per node, from offset o of node c on.
Iovecs(c, o, len) ==
    [k \in 1 .. CeilDiv(o + len, Base) |->
        IF k = 1 THEN [at |-> Ahead(c, o), len |-> Smaller(len, Base - o)]
        ELSE [at |-> Ahead(c + k - 1, 0), len |-> Smaller(Base, o + len - (k - 1) * Base)]]

\* The bytes a list of iovecs names (their places in mem).
Places(iovs) == FlattenSeq([k \in DOMAIN iovs |-> [i \in 1 .. iovs[k].len |-> iovs[k].at + i]])

\* getReadBuffers(buffers, len)
GetReadBuffers(b, len) ==
    LET n == Smaller(len, ReadSize(b)) IN
    IF n = 0 THEN <<>>
    ELSE IF ~Room(b, b.cur, Offset(b), n) THEN Undefined
    ELSE Places(Iovecs(b.cur, Offset(b), n))

\* getReadBuffers(buffers, len, position): counted nodes, not m_cur, but len is cut
\* to what can be read from m_position.
GetReadBuffersAt(b, len, position) ==
    LET n == Smaller(len, ReadSize(b))  c == position \div Base + 1 IN
    IF n = 0 THEN <<>>
    ELSE IF ~Room(b, c, position % Base, n) THEN Undefined
    ELSE Places(Iovecs(c, position % Base, n))

\* getWriteBuffers: room first, then the iovecs
GetWriteBuffers(b, len) ==
    LET e == AddCapacity(b, len) IN
    IF len = 0 THEN [got |-> <<>>, b |-> b]
    ELSE IF ~Room(e, e.cur, Offset(e), len) THEN [got |-> Undefined, b |-> Crash(e)]
    ELSE [got |-> Places(Iovecs(e.cur, Offset(e), len)), b |-> e]

\* How an application receives: the kernel fills the iovecs, then the position moves on.
Receive(b, data) ==
    LET g == GetWriteBuffers(b, Len(data))
        filled == [g.b EXCEPT !.mem = [i \in DOMAIN @ |->
                     IF \E k \in DOMAIN data : g.got[k] = i
                     THEN data[CHOOSE k \in DOMAIN data : g.got[k] = i] ELSE @[i]]]
    IN IF g.b.dead THEN g.b ELSE SetPosition(filled, b.pos + Len(data))

\* One round of writeToFile's loop, in node c: the length of a chunk is the smaller of
\* a node and what is left, less the offset, and may be 0 or negative.
Dump(b, c, left) ==
    IF left.size <= 0 THEN left
    ELSE IF c > Nodes(b) \/ c = Null THEN [left EXCEPT !.dead = TRUE]
    ELSE LET diff == left.pos % Base  len == Smaller(left.size, Base) - diff IN
         [left EXCEPT !.out = @ \o Bytes(b, c, diff, IF len < 0 THEN 0 ELSE len),
                      !.pos = @ + len, !.size = @ - len]

\* writeToFile: what is in the file; the loop follows `next' once per round.
WriteToFile(b) ==
    LET left == [out |-> <<>>, pos |-> b.pos, size |-> ReadSize(b), dead |-> b.cur = Null /\ ReadSize(b) > 0]
        rounds == Nodes(b) + 2
        after[k \in 0 .. rounds] == IF k = 0 THEN left ELSE Dump(b, b.cur + k - 1, after[k - 1])
    IN IF after[rounds].dead THEN Undefined ELSE after[rounds].out

\* readFromFile: a write per Base bytes of the file.
Pieces(data) ==
    [k \in 1 .. CeilDiv(Len(data), Base) |-> SubSeq(data, (k - 1) * Base + 1, Smaller(k * Base, Len(data)))]

WriteAll(b, pieces) ==
    LET after[k \in 0 .. Len(pieces)] == IF k = 0 THEN b ELSE Write(after[k - 1], pieces[k])
    IN after[Len(pieces)]

ReadFromFile(b, data) == WriteAll(b, Pieces(data))

-----------------------------------------------------------------------------
(* What callers do, on the array and on the flat buffer                      *)

\* From here on m_cur is not where the position is: the flat buffer is given up.
Stray == [mem |-> <<>>, pos |-> 0, size |-> 0, stray |-> TRUE]

\* A full buffer that is written at an earlier position (addCapacity's comment says that
\* this is the case of a root node alone).
FullBehind(f) == f.pos < f.size /\ f.size = Len(f.mem)

FlatGrow(f, n) ==
    LET more == n - (Len(f.mem) - f.size) IN
    IF more <= 0 THEN f
    ELSE [f EXCEPT !.mem = @ \o [i \in 1 .. CeilDiv(more, Base) * Base |-> 0]]

FlatWrite(f, data) ==
    IF f.stray \/ data = <<>> THEN f
    ELSE IF FullBehind(f) THEN Stray
    ELSE [FlatGrow(f, Len(data)) EXCEPT
              !.mem = Stored(@, f.pos, data), !.pos = @ + Len(data),
              !.size = IF f.pos + Len(data) > @ THEN f.pos + Len(data) ELSE @]

FlatWriteAll(f, pieces) ==
    LET after[k \in 0 .. Len(pieces)] == IF k = 0 THEN f ELSE FlatWrite(after[k - 1], pieces[k])
    IN after[Len(pieces)]

\* A step that writes these pieces one after another.
Writes(next, pieces) ==
    /\ ~ba.dead /\ Len(next.mem) <= MaxCapacity
    /\ ba' = next
    /\ ref' = FlatWriteAll(ref, pieces)

DoWrite(s) == Writes(Write(ba, s), <<s>>)
DoWriteFixed(v) == Writes(WriteFixed(ba, v), <<Fixed(ba, v)>>)
DoWriteUint(u) == Writes(WriteUint(ba, u), <<Varint[u]>>)
DoWriteString(w, s) ==
    Writes(WriteString(ba, w, s),
           <<IF w = 0 THEN Varint[Len(s)] ELSE Fixed(ba, ToBytes(Len(s), w)), s>>)
DoReadFromFile(s) == Writes(ReadFromFile(ba, s), Pieces(s))

Reads(next) ==
    /\ ~ba.dead
    /\ ba' = next
    /\ ref' = IF ref.stray THEN ref ELSE [ref EXCEPT !.pos = next.pos]

DoRead(n) == Reads(Read(ba, n).b)
DoReadUint(bits) == Reads(ReadUint(ba, bits).b)
DoReadString(w) == Reads(ReadString(ba, w).b)

DoSetPosition(v) ==
    /\ ~ba.dead
    /\ ba' = SetPosition(ba, v)
    /\ ref' = IF ref.stray \/ v > Len(ref.mem) THEN ref
              ELSE [ref EXCEPT !.pos = v, !.size = IF v > @ THEN v ELSE @]

DoClear ==
    /\ ~ba.dead
    /\ ba' = Clear(ba)
    /\ ref' = [mem |-> SubSeq(ba.mem, 1, Base), pos |-> 0, size |-> 0, stray |-> FALSE]

DoReceive(s) ==
    /\ ~ba.dead /\ s # <<>> /\ Len(Receive(ba, s).mem) <= MaxCapacity
    /\ ba' = Receive(ba, s)
    /\ ref' = FlatWrite(ref, s)

DoSetEndian(little) ==
    /\ ~ba.dead
    /\ ba' = SetEndian(ba, little)
    /\ UNCHANGED ref

Next ==
    \/ \E s \in Strings : \/ DoWrite(s) \/ DoReadFromFile(s) \/ DoReceive(s)
                          \/ \E w \in {0, 2} : DoWriteString(w, s)
    \/ \E d \in Data : DoWriteFixed(<<d, 0>>) \/ DoWriteUint(Top + d)
    \/ \E n \in 0 .. MaxWrite : DoRead(n)
    \/ DoReadUint(WordBits)
    \/ \E w \in {0, 2} : DoReadString(w)
    \/ \E v \in 0 .. MaxCapacity : DoSetPosition(v)
    \/ DoClear
    \/ \E little \in BOOLEAN : DoSetEndian(little)

Spec == Init /\ [][Next]_vars

-----------------------------------------------------------------------------
(* Properties                                                                *)

Sound == ~ba.dead /\ ~ref.stray

TypeOK ==
    /\ ba.mem \in Seq(0 .. Radix - 1) /\ Len(ba.mem) % Base = 0
    /\ ba.cur \in 0 .. Nodes(ba) /\ ba.endian \in {"little", "big"}
    /\ 0 <= ba.pos /\ ba.pos <= ba.size /\ ba.size <= Len(ba.mem)

\* m_cur is the node of the position, and null only behind the last byte, after any
\* sequence of writes, reads, seeks, growth and clear; the one exception is a write into
\* a full buffer from an earlier position.
CursorFollows ==
    Sound => ba.cur = IF ba.pos = Len(ba.mem) THEN Null ELSE ba.pos \div Base + 1

\* Under the same condition the chain holds what a flat buffer would.
ContentKept ==
    Sound => ba.mem = ref.mem /\ ba.pos = ref.pos /\ ba.size = ref.size

\* No operation follows a null pointer unless it starts or ends behind the last byte of
\* the buffer, or a write has strayed before.
CrashesOnlyAtEdge ==
    [][ba'.dead => ref'.stray \/ ba'.pos = Len(ba'.mem)]_vars

\* Going back to where it was written, a fixed integer, a float or a string is read as it
\* was, in either byte order, wherever in a node it starts.  A string longer than its
\* length field can say is not, and neither is an empty string that ends the buffer:
\* reading its no bytes follows the null m_cur.
ReadsBack ==
    Sound /\ ~FullBehind(ref) =>
        LET Back(b) == SetPosition(b, ba.pos) IN
        /\ \A v \in {<<d, 0, 1, d>> : d \in Data} \cup {<<d, 0>> : d \in Data} :
              /\ ReadFixed(Back(WriteFixed(ba, v)), Len(v)).got = v
              /\ ReadReal(Back(WriteReal(ba, v)), Len(v)).got = v
        /\ \A w \in {2, 4}, s \in Strings :
              LET b == WriteString(ba, w, s) IN
              \/ ReadString(Back(b), w).got = s
              \/ b.dead
              \/ FullBehind(WriteFixed(ba, ToBytes(Len(s), w)))
              \/ s = <<>> /\ b.pos = Len(b.mem)
              \/ Len(s) >= 2^(w * (GroupBits + 1))

\* The variable-length form holds every group of an integer but the last.  With that one
\* appended, readInt32 gives back what writeInt32 got; an unsigned integer of either width
\* comes back exactly when it is below 2^31, since the readers return an int32_t; and of
\* writeInt64, which writes 32 bits, and readInt64, -2^30 .. 2^30 - 1 come back alone.
VarintLacksLastGroup ==
    Sound /\ ~FullBehind(ref) =>
        LET Rest(u) == u \div 2^(Len(Varint[u]) * GroupBits)
            Whole(b, u) == SetPosition(Write(b, <<Rest(u)>>), ba.pos)
        IN /\ \A bits \in {WordBits, LongBits} : \A u \in 0 .. 2^bits - 1 :
                 LET b == WriteUint(ba, u) IN
                 FullBehind(b) \/ (ReadUint(Whole(b, u), bits).got = <<u>> <=> u < 2^(WordBits - 1))
           /\ \A v \in -(2^(WordBits - 1)) .. 2^(WordBits - 1) - 1 :
                 LET b == WriteInt(ba, v, WordBits)  u == EncodeZigzag(v, WordBits) IN
                 FullBehind(b) \/ ReadInt(Whole(b, u), WordBits).got = <<v>>
           /\ \A v \in -(2^(LongBits - 1)) .. 2^(LongBits - 1) - 1 :
                 LET b == WriteInt(ba, v, LongBits)  u == EncodeZigzag(v, LongBits) % 2^WordBits IN
                 FullBehind(b) \/ (ReadInt(Whole(b, u), LongBits).got = <<v>> <=>
                                      v \in -(2^(WordBits - 2)) .. 2^(WordBits - 2) - 1)

\* The iovecs name, in order, exactly the bytes from the position (or from the position
\* asked for, if it is not beyond the array's own) on, and toString returns them.
BuffersExact ==
    Sound =>
        LET From(p, n) == [i \in 1 .. n |-> p + i] IN
        /\ \A len \in 0 .. MaxCapacity :
              LET n == Smaller(len, ReadSize(ba)) IN
              /\ GetReadBuffers(ba, len) = From(ba.pos, n)
              /\ \A p \in 0 .. ba.pos : GetReadBuffersAt(ba, len, p) = From(p, n)
              /\ ~FullBehind(ba) => GetWriteBuffers(ba, len).got = From(ba.pos, len)
        /\ AsString(ba) = SubSeq(ref.mem, ba.pos + 1, ba.size)

\* writeToFile writes what can be read, unless it starts inside a node with less than a
\* node to write: then the lengths of its chunks go wrong and it runs off the chain.
FileComplete ==
    Sound => WriteToFile(ba) = IF 0 < ReadSize(ba) /\ ReadSize(ba) < Base /\ Offset(ba) # 0
                               THEN Undefined ELSE SubSeq(ref.mem, ba.pos + 1, ba.size)

\* The chain of nodes implements a flat buffer: m_cur, m_position and m_size agree and the
\* bytes are those that were written.
BufferInv == TypeOK /\ CursorFollows /\ ContentKept

\* Whatever the buffer holds, what is written to it is read back, and iovecs, toString and
\* writeToFile give out exactly its bytes, each with the exceptions above.
CodingsExact == ReadsBack /\ VarintLacksLastGroup /\ BuffersExact /\ FileComplete
=============================================================================

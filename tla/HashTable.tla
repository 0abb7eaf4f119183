----------------------------- MODULE HashTable -----------------------------
(***************************************************************************)
(* GdbHashTable (hashtable.c, hashtable.h): the tagged tables the package *)
(* database keeps its entries in.  A table is eleven buckets, each a      *)
(* chain of items (key, type, size, data) newest first, with an item      *)
(* count per bucket (unsigned char) and in all (unsigned short).  It      *)
(* lives in one block of the database: htCreate makes a new dirty block,  *)
(* htAdd changes the table in memory and marks the block dirty,           *)
(* gdbWriteBlock serializes it with htWriteBlock when it is dirty and     *)
(* clears the mark, gdbDestroyBlock drops it, and htOpen reads it back    *)
(* with htReadBlock.                                                      *)
(*                                                                         *)
(* The block's bytes are a sequence of tokens: a byte, or the data of an  *)
(* item as one blob of its size (the data is never looked into).  Where   *)
(* the block's pages lie is BlockStore's; here the bytes a write stores    *)
(* are the first dataSize bytes of what htWriteBlock produced.  One table *)
(* is followed: the last one created.                                     *)
(***************************************************************************)
EXTENDS Integers, Sequences, SequencesExt

CONSTANTS
    Keys,       \* the tags added (tags.h); never 0
    Strings,    \* string contents passed to htAddString
    StrLens,    \* their strlen
    Longs,      \* values passed to htAddLong, below 2^31
    Offsets,    \* values passed to htAddOffset, below 2^31
    LongSize    \* sizeof(long): 8 on LP64

VARIABLES
    mem,      \* the table in memory (block->detail) while open
    dirty,    \* block->dirty
    disk,     \* the bytes of the table's block in the file, NoDisk if none
    phase,    \* "none" before htCreate, "open", or "closed" once destroyed
    overrun   \* ghost: htWriteBlock wrote past the buffer it allocated

vars == <<mem, dirty, disk, phase, overrun>>

GDB_HT_RAW == 0
GDB_HT_STRING == 1
GDB_HT_LONG == 3
GDB_HT_OFFSET == 4
GDB_HT_MAX_TYPE == 4

NoDisk == <<>>         \* the block was never written
NoItem == [type |-> -1, size |-> 0, data |-> 0]
(* What htReadBlock builds from bytes it misreads: the model does not     *)
(* follow the garbage further.                                            *)
Garbled == [bc |-> 0, ic |-> 0, counts |-> <<>>, buckets |-> <<>>]

(* typeSizes[]: -1 for the types that store their size.                   *)
TypeSize(t) == <<-1, -1, 1, LongSize, LongSize>>[t + 1]

(* htCreateBlock: 11 buckets (a prime), all empty.                         *)
EmptyTable == [bc |-> 11, ic |-> 0, counts |-> [i \in 0..10 |-> 0],
               buckets |-> [i \in 0..10 |-> <<>>]]

Hash(tab, k) == k % tab.bc

(* htGetData: the first item of k's bucket with key k.                     *)
Lookup(tab, k) ==
    LET ch == tab.buckets[Hash(tab, k)]
        j  == SelectInSeq(ch, LAMBDA it : it.key = k)
    IN IF j = 0 THEN NoItem
       ELSE [type |-> ch[j].type, size |-> ch[j].size, data |-> ch[j].data]

AddTo_keepSize(tab, k, ty, d, sz0) ==
    LET sz == IF TypeSize(ty) # -1 THEN TypeSize(ty) ELSE sz0
        i  == Hash(tab, k)
        j  == SelectInSeq(tab.buckets[i], LAMBDA it : it.key = k)
        it == [key |-> k, type |-> ty, size |-> sz, data |-> d]
    IN IF j # 0
       THEN [tab EXCEPT !.buckets[i][j].data = d, !.buckets[i][j].type = ty]
       ELSE [tab EXCEPT !.buckets[i] = <<it>> \o @,
                        !.counts[i] = (@ + 1) % 256, !.ic = (@ + 1) % 65536]

(* htAdd's change to the table: an item with key k in its bucket is       *)
(* updated in place; else a new item goes to the head of the chain and    *)
(* both counts grow (in their C widths).  Fixed-size types take the size  *)
(* of typeSizes.                                                           *)
AddTo(tab, k, ty, d, sz0) ==
    LET sz == IF TypeSize(ty) # -1 THEN TypeSize(ty) ELSE sz0
        i  == Hash(tab, k)
        j  == SelectInSeq(tab.buckets[i], LAMBDA it : it.key = k)
        it == [key |-> k, type |-> ty, size |-> sz, data |-> d]
    IN IF j # 0
       THEN [tab EXCEPT !.buckets[i][j] = it]
       ELSE [tab EXCEPT !.buckets[i] = <<it>> \o @,
                        !.counts[i] = (@ + 1) % 256, !.ic = (@ + 1) % 65536]

-----------------------------------------------------------------------------
(* The serialized form.  gdbPut16 stores htons(s): high byte first.        *)
Byte(b) == [k |-> "byte", v |-> b % 256, n |-> 1]
Blob(d, n) == [k |-> "blob", v |-> d, n |-> n]
Put8(v) == <<Byte(v)>>
Put16(v) == <<Byte(v \div 256), Byte(v)>>

Items(tab) == FlattenSeq([i \in 1..tab.bc |-> tab.buckets[i - 1]])

EncodeItem(it) ==
    Put16(it.key) \o Put8(it.type)
    \o (IF TypeSize(it.type) = -1 THEN Put16(it.size) ELSE <<>>)
    \o <<Blob(it.data, it.size)>>

(* htWriteBlock: header, then per bucket its count and its items.          *)
Encode(tab) ==
    Put8(tab.bc) \o Put16(tab.ic)
    \o FlattenSeq([i \in 1..tab.bc |->
          Put8(tab.counts[i - 1])
          \o FlattenSeq([j \in 1..Len(tab.buckets[i - 1]) |->
                           EncodeItem(tab.buckets[i - 1][j])])])

ByteLen(buf) == FoldLeft(LAMBDA a, t : a + t.n, 0, buf)

DataSize_noSizeField(tab) ==
    LET its == Items(tab)
    IN (tab.bc + tab.ic * 3
        + FoldLeft(LAMBDA a, it : a + it.size, 0, its)) % 65536

(* __getDataSize, summed in an unsigned short: one byte per bucket, three *)
(* per item by itemCount, two more for a stored size, and the data.       *)
DataSize(tab) ==
    LET its == Items(tab)
    IN (tab.bc + tab.ic * 3
        + FoldLeft(LAMBDA a, it : a + (IF TypeSize(it.type) = -1 THEN 2 ELSE 0)
                                    + it.size, 0, its)) % 65536

(* __getTableSize: the header's three bytes more, as an unsigned short.    *)
TableSize(tab) == (3 + DataSize(tab)) % 65536

(* The first n bytes of buf; a blob cut short is no longer its data.       *)
RECURSIVE Cut(_, _)
Cut(buf, n) ==
    IF buf = <<>> \/ n = 0 THEN <<>>
    ELSE IF Head(buf).n <= n THEN <<Head(buf)>> \o Cut(Tail(buf), n - Head(buf).n)
    ELSE <<Blob("cut", n)>>

(* htReadBlock, reading fields where htWriteBlock put them.  A field that *)
(* is not there (cut off, past the end, or a blob where a byte was        *)
(* written, or a type byte that indexes past typeSizes[]) is a misread.   *)
IsByteAt(buf, p) == p \in 1..Len(buf) /\ buf[p].k = "byte"
Get16(buf, p) == buf[p].v * 256 + buf[p + 1].v
Fail == [ok |-> FALSE]

ReadItem(buf, p) ==
    LET ty  == buf[p + 2].v
        var == TypeSize(ty) = -1
        q   == IF var THEN p + 5 ELSE p + 3
        sz  == IF var THEN Get16(buf, p + 3) ELSE TypeSize(ty)
    IN IF \E i \in 0..2 : ~IsByteAt(buf, p + i) THEN Fail
       ELSE IF ty > GDB_HT_MAX_TYPE THEN Fail
       ELSE IF var /\ \E i \in 3..4 : ~IsByteAt(buf, p + i) THEN Fail
       ELSE IF ~(q \in 1..Len(buf) /\ buf[q].k = "blob" /\ buf[q].n = sz) THEN Fail
       ELSE [ok |-> TRUE, p |-> q + 1,
             item |-> [key |-> Get16(buf, p), type |-> ty, size |-> sz,
                       data |-> buf[q].v]]

(* The cnt items of one bucket, in the order they were written, after    *)
(* those read so far (acc.items).                                         *)
RECURSIVE ReadChain(_, _, _, _)
ReadChain(buf, p, cnt, acc) ==
    IF cnt = 0 THEN [ok |-> TRUE, p |-> p, items |-> acc]
    ELSE LET it == ReadItem(buf, p)
         IN IF ~it.ok THEN Fail
            ELSE ReadChain(buf, it.p, cnt - 1, Append(acc, it.item))

(* n buckets, each its count (gdbGet8, a char stored back into an         *)
(* unsigned char: the byte written) then its items.                       *)
RECURSIVE ReadBuckets(_, _, _, _)
ReadBuckets(buf, p, n, acc) ==
    IF n = 0 THEN [acc EXCEPT !.p = p]
    ELSE IF ~IsByteAt(buf, p) THEN Fail
    ELSE LET c == ReadChain(buf, p + 1, buf[p].v, <<>>)
         IN IF ~c.ok THEN Fail
            ELSE ReadBuckets(buf, c.p, n - 1,
                             [acc EXCEPT !.counts = Append(@, buf[p].v),
                                         !.chains = Append(@, c.items)])

Decode(buf) ==
    LET bc == buf[1].v
        r  == ReadBuckets(buf, 4, bc,
                          [ok |-> TRUE, p |-> 4, counts |-> <<>>, chains |-> <<>>])
    IN IF \E i \in 1..3 : ~IsByteAt(buf, i) THEN Garbled
       ELSE IF ~r.ok THEN Garbled
       ELSE [bc |-> bc, ic |-> Get16(buf, 2),
             counts |-> [i \in 0..(bc - 1) |-> r.counts[i + 1]],
             buckets |-> [i \in 0..(bc - 1) |-> r.chains[i + 1]]]

-----------------------------------------------------------------------------
(* htCreate: gdbNewBlock makes a block, marks it dirty and htCreateBlock  *)
(* fills it in; it has no pages until it is first written.                *)
HtCreate ==
    /\ phase # "open"
    /\ mem' = EmptyTable
    /\ dirty' = TRUE
    /\ disk' = NoDisk
    /\ phase' = "open"
    /\ UNCHANGED overrun

(* htAdd(table, key, data, type, size): a zero key or size, or a type past *)
(* GDB_HT_MAX_TYPE, changes nothing; else GDB_SET_DIRTY and the change.   *)
HtAdd(k, ty, d, sz) ==
    /\ phase = "open"
    /\ mem # Garbled
    /\ k # 0 /\ sz # 0 /\ ty <= GDB_HT_MAX_TYPE
    /\ mem' = AddTo(mem, k, ty, d, sz)
    /\ dirty' = TRUE
    /\ UNCHANGED <<disk, phase, overrun>>

HtAddString_noWrap(k, s, len) == HtAdd(k, GDB_HT_STRING, s, len)

(* htAddString: the size is strlen(value) passed as an unsigned short.     *)
HtAddString(k, s, len) == HtAdd(k, GDB_HT_STRING, s, len % 65536)

(* htAddLong / htAddOffset: htonl(value) stored in a long; what ntohl     *)
(* gives back is the value's low 32 bits, which for the values enumerated *)
(* (all below 2^31) is the value.  A zero offset is not added.            *)
HtAddLong(k, v) == HtAdd(k, GDB_HT_LONG, v, LongSize)

HtAddOffset(k, o) == o # 0 /\ HtAdd(k, GDB_HT_OFFSET, o, LongSize)

(* gdbWriteBlock: a clean block is not written.  Else htWriteBlock        *)
(* mallocs __getTableSize bytes and serializes the table into them, the   *)
(* block's dataSize becomes that size and that many bytes are written;    *)
(* writing the header clears the dirty mark.                              *)
WrittenBytes == Cut(Encode(mem), TableSize(mem))

WriteBlock ==
    /\ phase = "open"
    /\ mem # Garbled
    /\ dirty
    /\ disk' = WrittenBytes
    /\ overrun' = (overrun \/ ByteLen(Encode(mem)) > TableSize(mem))
    /\ dirty' = FALSE
    /\ UNCHANGED <<mem, phase>>

(* gdbDestroyBlock: htDestroyBlock frees the table; a dirty block only    *)
(* draws a warning, its changes are lost.                                 *)
DestroyBlock ==
    /\ phase = "open"
    /\ phase' = "closed"
    /\ mem' = EmptyTable
    /\ dirty' = FALSE
    /\ UNCHANGED <<disk, overrun>>

(* htOpen: gdbReadBlock reads dataSize bytes of the block and             *)
(* htReadBlock builds the table from them, clean.  (The block's offset is *)
(* one gdbWriteBlock gave it, never below DB_HEADER_BLOCK_SIZE.)          *)
HtOpen ==
    /\ phase = "closed"
    /\ disk # NoDisk
    /\ mem' = Decode(disk)
    /\ dirty' = FALSE
    /\ phase' = "open"
    /\ UNCHANGED <<disk, overrun>>

Init ==
    /\ mem = EmptyTable
    /\ dirty = FALSE
    /\ disk = NoDisk
    /\ phase = "none"
    /\ overrun = FALSE

Next ==
    \/ HtCreate
    \/ \E k \in Keys :
          \/ \E s \in Strings, len \in StrLens : HtAddString(k, s, len)
          \/ \E v \in Longs : HtAddLong(k, v)
          \/ \E o \in Offsets : HtAddOffset(k, o)
    \/ WriteBlock
    \/ DestroyBlock
    \/ HtOpen

Spec == Init /\ [][Next]_vars

-----------------------------------------------------------------------------
HTTypeOK ==
    /\ phase \in {"none", "open", "closed"}
    /\ dirty \in BOOLEAN
    /\ overrun \in BOOLEAN
    /\ mem # Garbled =>
          /\ mem.ic \in 0..65535
          /\ \A i \in 0..(mem.bc - 1) :
                /\ mem.counts[i] \in 0..255
                /\ \A j \in 1..Len(mem.buckets[i]) :
                      /\ mem.buckets[i][j].type \in 0..GDB_HT_MAX_TYPE
                      /\ mem.buckets[i][j].size \in 1..65535

(* The dirty protocol and the block format together: an open table whose *)
(* block is clean is exactly the table its bytes on disk read back as.    *)
(* gdbWriteBlock skips clean blocks, so a change htAdd made without       *)
(* marking the block, a size __getTableSize got wrong, or a field         *)
(* htWriteBlock and htReadBlock lay out differently would each be lost    *)
(* the next time the entry is opened.                                     *)
TableReadBack ==
    phase = "open" /\ ~dirty => Decode(disk) = mem

-----------------------------------------------------------------------------
(* What TagStore's variables are for a state of the table: lookups are    *)
(* htGetData's; the saved table is what the block's bytes read back as.   *)
Misread == [type |-> -2, size |-> 0, data |-> 0]
NoTableMark == [k \in Keys |-> [type |-> -3, size |-> 0, data |-> 0]]

LookupAll(tab) ==
    IF tab = Garbled THEN [k \in Keys |-> Misread]
    ELSE [k \in Keys |-> Lookup(tab, k)]

HtVals ==
    {[type |-> GDB_HT_STRING, size |-> n % 65536, data |-> s] :
        s \in Strings, n \in {l \in StrLens : l % 65536 # 0}}
    \cup {[type |-> GDB_HT_LONG, size |-> LongSize, data |-> v] : v \in Longs}
    \cup {[type |-> GDB_HT_OFFSET, size |-> LongSize, data |-> o] :
            o \in Offsets \ {0}}

====

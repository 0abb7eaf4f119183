------------------------------ MODULE NodeCodec ------------------------------
(***************************************************************************)
(* The byte codec (db_utils.c) and the B+Tree node codec built on it      *)
(* (btree_node.c): big-endian integers, the prefix compression of each    *)
(* key against the one before it, and the node payload                    *)
(*   keyCount (1 byte), children[order], keySizes[order-1], key bytes.    *)
(*                                                                         *)
(* A string is the sequence of its bytes (0..255) including the closing   *)
(* NUL: keySizes[i] is strlen(keys[i]) + 1.  A NULL key is <<>>, size 0.  *)
(* The build's C types are constants: whether plain char is signed, and   *)
(* sizeof(unsigned long) and sizeof(offset_t).                             *)
(*                                                                         *)
(* The state is one page: the node last written to it by                  *)
(* btreeWriteNodeBlock, the bytes on it, and what btreeReadNodeBlock      *)
(* builds from them.  A page of files.idx may instead hold an offset-list *)
(* block (offsetlist.c), with the same three parts.                        *)
(***************************************************************************)
EXTENDS Integers, Sequences, SequencesExt

CONSTANTS
    Order,        \* the tree's order
    CharSigned,   \* plain char is signed (x86, gcc) or unsigned (ARM)
    LongBytes,    \* sizeof(unsigned long): the bytes gdbPut32 writes
    OffsetBytes,  \* sizeof(offset_t): what __getNodeSize counts a child as
    KeyStrings,   \* the keys a node may hold (strings with their NUL)
    Offsets,      \* the child offsets a node may hold
    ListOffsets,  \* the package offsets an offset list may hold (never 0)
    MaxList       \* the longest offset list checked

ASSUME Order \in 3..255 /\ CharSigned \in BOOLEAN
ASSUME LongBytes \in {4, 8} /\ OffsetBytes \in {4, 8}

VARIABLES
    written,  \* the node btreeWriteNodeBlock last serialised, or NoNode
    disk,     \* the payload bytes on the page
    mem,      \* the node btreeReadNodeBlock last built, or NoNode
    lwritten, \* the offset list olWriteBlock last serialised, or NoList
    ldisk,    \* the payload bytes of the list's block
    lmem      \* the list olReadBlock last built, or NoList

vars == <<written, disk, mem, lwritten, ldisk, lmem>>

NoNode == [kc |-> -1]
NoList == <<-1>>

UShort == 65536

(* A byte as a plain char holds it, and that char widened to unsigned     *)
(* short: sign-extended when char is signed.                              *)
CharOf(b) == IF CharSigned /\ b >= 128 THEN b - 256 ELSE b
UShortOfChar(b) == CharOf(b) % UShort

(* gdbPut8/16/32: big-endian (htons, htonl).  gdbPut32 copies all          *)
(* sizeof(unsigned long) bytes of the htonl'd value: on a little-endian   *)
(* host the four big-endian bytes, then zeros.                             *)
Put32_lowUnmasked(v) ==
    <<(v \div 2^24) % 256, (v \div 2^16) % 256, (v \div 256) % 256, v>>

Put8(v)  == <<v % 256>>
Put16(v) == <<(v \div 256) % 256, v % 256>>
Put32(v) == <<(v \div 2^24) % 256, (v \div 2^16) % 256, (v \div 256) % 256,
              v % 256>> \o [i \in 1..(LongBytes - 4) |-> 0]

(* gdbGet8/16/32 at 1-based position at.  gdbGet8 goes through a char and *)
(* returns unsigned char; gdbGet32 advances by sizeof(unsigned long).     *)
Get8(buf, at)  == CharOf(buf[at]) % 256
Get16(buf, at) == buf[at] * 256 + buf[at + 1]
Get32(buf, at) == ((buf[at] * 256 + buf[at + 1]) * 256 + buf[at + 2]) * 256
                  + buf[at + 3]

(* strncpy(dst, s, n): the bytes of s up to its NUL, then NULs up to n.   *)
StrNCpy(s, n) ==
    LET nul == SelectInSeq(s, LAMBDA c : c = 0)
    IN [i \in 1..n |-> IF i <= Len(s) /\ (nul = 0 \/ i <= nul) THEN s[i] ELSE 0]

(* The loop of gdbCompressString: bytes equal from the start, at most m.  *)
PrefixLen(a, b, m) ==
    LET d == SelectInSeq([i \in 1..m |-> a[i] # b[i]], LAMBDA x : x)
    IN IF d = 0 THEN m ELSE d - 1

(* gdbCompressString(base, baseLen, key, keyLen): the shared prefix, at   *)
(* most 255 bytes, counted into newKey[0], then the rest of key.  An      *)
(* empty argument returns leaving the output alone (NULL, size 0).        *)
CompressString(base, baseLen, key, keyLen) ==
    LET minLen == IF baseLen < keyLen THEN baseLen ELSE keyLen
        preLen == PrefixLen(base, key, IF minLen < 255 THEN minLen ELSE 255)
        newLen == (keyLen - preLen + 1) % UShort
    IN IF baseLen = 0 \/ keyLen = 0 THEN [key |-> <<>>, size |-> 0]
       ELSE [key  |-> Put8(preLen) \o
                      StrNCpy(SubSeq(key, preLen + 1, Len(key)), keyLen - preLen),
             size |-> newLen]

(* gdbUncompressString: preLen = key[0] read through a char; the first    *)
(* preLen bytes of base, then the stored rest, in a newLen-byte buffer    *)
(* (what strncpy writes past it is lost here).                            *)
UncompressString(base, baseLen, key, keyLen) ==
    LET preLen == UShortOfChar(key[1])
        newLen == (preLen + keyLen - 1) % UShort
        full   == StrNCpy(base, preLen) \o StrNCpy(Tail(key), keyLen - 1)
    IN IF baseLen = 0 \/ keyLen = 0 THEN [key |-> <<>>, size |-> 0]
       ELSE [key |-> SubSeq(full, 1, newLen), size |-> newLen]

-----------------------------------------------------------------------------
(* The node codec.  A node is [kc, children, keys, sizes]: children has   *)
(* Order entries, keys and sizes Order - 1 (btreeCreateNodeBlock).         *)

(* The slots newKeys / newKeySizes are memset to: NULL and 0.              *)
Cleared(n) ==
    [n EXCEPT !.keys  = [i \in 1..(Order - 1) |-> IF i <= n.kc THEN @[i] ELSE <<>>],
              !.sizes = [i \in 1..(Order - 1) |-> IF i <= n.kc THEN @[i] ELSE 0]]

(* __compressNode: keys[0] kept, each later key compressed against the    *)
(* uncompressed key before it (the loop runs down from keyCount - 1, but  *)
(* reads only node->keys, so its order does not matter).                  *)
CompressNode(n) ==
    LET c(i) == CompressString(n.keys[i - 1], n.sizes[i - 1], n.keys[i], n.sizes[i])
        z    == Cleared(n)
    IN [z EXCEPT !.keys  = [i \in 1..(Order - 1) |-> IF i \in 2..n.kc THEN c(i).key ELSE @[i]],
                 !.sizes = [i \in 1..(Order - 1) |-> IF i \in 2..n.kc THEN c(i).size ELSE @[i]]]

UncompressNode_storedBase(n) ==
    LET u(i) == UncompressString(n.keys[i - 1], n.sizes[i - 1], n.keys[i], n.sizes[i])
        z    == Cleared(n)
    IN [z EXCEPT !.keys  = [i \in 1..(Order - 1) |-> IF i \in 2..n.kc THEN u(i).key ELSE @[i]],
                 !.sizes = [i \in 1..(Order - 1) |-> IF i \in 2..n.kc THEN u(i).size ELSE @[i]]]

(* __uncompressNode: key i from the stored key i and key i - 1 as already *)
(* uncompressed, for i = 1 .. keyCount - 1 in turn.                        *)
RECURSIVE UncompressFrom(_, _)
UncompressFrom(n, i) ==
    IF i > n.kc THEN n
    ELSE LET u == UncompressString(n.keys[i - 1], n.sizes[i - 1], n.keys[i], n.sizes[i])
         IN UncompressFrom([n EXCEPT !.keys[i] = u.key, !.sizes[i] = u.size], i + 1)

UncompressNode(n) == UncompressFrom(Cleared(n), 2)

(* __getNodeSize(node, sizes).                                             *)
NodeSize(sizes) ==
    1 + Order * OffsetBytes + (Order - 1) * 2 + FoldLeft(+, 0, sizes)

EncodeNode_uncompressedSize(n) ==
    LET c == IF n.kc >= 2 THEN CompressNode(n) ELSE n
    IN [size  |-> NodeSize(n.sizes),
        bytes |-> Put8(n.kc)
                  \o FlattenSeq([i \in 1..Order |-> Put32(n.children[i])])
                  \o FlattenSeq([i \in 1..(Order - 1) |-> Put16(c.sizes[i])])
                  \o FlattenSeq([i \in 1..(Order - 1) |->
                                   IF c.sizes[i] > 0 THEN SubSeq(c.keys[i], 1, c.sizes[i])
                                   ELSE <<>>])]

(* btreeWriteNodeBlock: compress when keyCount >= 2, then keyCount,       *)
(* children, sizes, and each key of nonzero size.                          *)
EncodeNode(n) ==
    LET c == IF n.kc >= 2 THEN CompressNode(n) ELSE n
    IN [size  |-> NodeSize(c.sizes),
        bytes |-> Put8(n.kc)
                  \o FlattenSeq([i \in 1..Order |-> Put32(n.children[i])])
                  \o FlattenSeq([i \in 1..(Order - 1) |-> Put16(c.sizes[i])])
                  \o FlattenSeq([i \in 1..(Order - 1) |->
                                   IF c.sizes[i] > 0 THEN SubSeq(c.keys[i], 1, c.sizes[i])
                                   ELSE <<>>])]

(* btreeReadNodeBlock: the fields in the order written, each key of       *)
(* nonzero size copied from the running counter, then uncompressed when   *)
(* keyCount >= 2.                                                          *)
DecodeNode(buf) ==
    LET kc       == Get8(buf, 1)
        children == [i \in 1..Order |-> Get32(buf, 2 + LongBytes * (i - 1))]
        sizeAt   == 2 + LongBytes * Order
        sizes    == [i \in 1..(Order - 1) |-> Get16(buf, sizeAt + 2 * (i - 1))]
        keyAt(i) == sizeAt + 2 * (Order - 1) + FoldLeft(+, 0, SubSeq(sizes, 1, i - 1))
        keys     == [i \in 1..(Order - 1) |->
                       IF sizes[i] > 0 THEN SubSeq(buf, keyAt(i), keyAt(i) + sizes[i] - 1)
                       ELSE <<>>]
        n        == [kc |-> kc, children |-> children, keys |-> keys, sizes |-> sizes]
    IN IF kc >= 2 THEN UncompressNode(n) ELSE n

(* What gdbWriteBlock puts on the pages of a payload buffer e of e.size    *)
(* bytes: its first e.size bytes; bytes of the malloc'd buffer that the   *)
(* write hook never set are undefined, and read here as zeros.             *)
Stored(e) ==
    SubSeq(e.bytes, 1, IF e.size < Len(e.bytes) THEN e.size ELSE Len(e.bytes))
    \o [i \in 1..(e.size - Len(e.bytes)) |-> 0]

OLEncode_byteCount(l) ==
    [size  |-> 2 + Len(l) * OffsetBytes,
     bytes |-> Put8(Len(l)) \o FlattenSeq([i \in 1..Len(l) |-> Put32(l[i])])]

(* olWriteBlock: a payload of sizeof(short) + count * sizeof(offset_t)    *)
(* bytes, the count by gdbPut16, then each offset by gdbPut32.            *)
OLEncode(l) ==
    [size  |-> 2 + Len(l) * OffsetBytes,
     bytes |-> Put16(Len(l)) \o FlattenSeq([i \in 1..Len(l) |-> Put32(l[i])])]

(* olReadBlock: the count by gdbGet16, then count offsets by gdbGet32,    *)
(* each advancing sizeof(unsigned long).  Bytes past the block's data are *)
(* outside the buffer gdbReadBlock filled: undefined, read as zeros.      *)
OLDecode(buf) ==
    LET n   == Get16(buf, 1)
        pad == buf \o [i \in 1..(2 + n * LongBytes - Len(buf)) |-> 0]
    IN [i \in 1..n |-> Get32(pad, 3 + LongBytes * (i - 1))]

(* The lists __addPackageFiles writes: olAddOffset appends package       *)
(* offsets, never 0.                                                        *)
OffsetLists == UNION {[1..k -> ListOffsets] : k \in 0..MaxList}

-----------------------------------------------------------------------------
(* strcmp order: the first differing byte decides (the NULs end it).      *)
StrLess(a, b) ==
    LET d == SelectInSeq([i \in 1..(IF Len(a) < Len(b) THEN Len(a) ELSE Len(b)) |->
                            a[i] # b[i]], LAMBDA x : x)
    IN d # 0 /\ a[d] < b[d]

(* The nodes the tree builds: keyCount keys in strcmp order in the first  *)
(* slots, NULL and size 0 after them (every shift clears the slot it      *)
(* vacates), and any offsets as children.                                 *)
Nodes ==
    UNION {{[kc       |-> kc,
             children |-> ch,
             keys     |-> [i \in 1..(Order - 1) |-> IF i <= kc THEN ks[i] ELSE <<>>],
             sizes    |-> [i \in 1..(Order - 1) |-> IF i <= kc THEN Len(ks[i]) ELSE 0]]
            : ks \in {s \in [1..kc -> KeyStrings] :
                        \A i \in 1..(kc - 1) : StrLess(s[i], s[i + 1])},
              ch \in [1..Order -> Offsets]}
           : kc \in 0..(Order - 1)}

(* btreeWriteNode of a node the tree changed: the payload is serialised   *)
(* into a buffer of the size __getNodeSize gives, and that buffer is the  *)
(* page's data.  What a write puts on the page does not depend on what    *)
(* was there, so one write per page life loses no behaviour.              *)
WriteNode(n) ==
    LET e == EncodeNode(n)
    IN /\ written = NoNode
       /\ lwritten = NoList
       /\ written' = n
       /\ disk' = Stored(e)
       /\ UNCHANGED <<mem, lwritten, ldisk, lmem>>

(* btreeReadNode of the page: the payload decoded into a node.             *)
ReadNode ==
    /\ written # NoNode
    /\ mem = NoNode
    /\ mem' = DecodeNode(disk)
    /\ UNCHANGED <<written, disk, lwritten, ldisk, lmem>>

(* btreeDestroyNode, then btreeEraseNode: the node leaves memory and its  *)
(* page the tree.                                                          *)
EraseNode ==
    /\ written # NoNode
    /\ written' = NoNode
    /\ disk' = <<>>
    /\ mem' = NoNode
    /\ UNCHANGED <<lwritten, ldisk, lmem>>

(* The list block written by __addPackageFiles: olCreate or olOpen,       *)
(* olAddOffset, GDB_SET_DIRTY and gdbWriteBlock, then gdbDestroyBlock.    *)
(* Nothing frees a list block, so the page stays a list.                   *)
WriteList(l) ==
    /\ written = NoNode
    /\ lwritten' = l
    /\ ldisk' = Stored(OLEncode(l))
    /\ lmem' = NoList
    /\ UNCHANGED <<written, disk, mem>>

(* olOpen: gdbReadBlock of the list block, its payload read by            *)
(* olReadBlock.                                                             *)
ReadList ==
    /\ lwritten # NoList
    /\ lmem' = OLDecode(ldisk)
    /\ UNCHANGED <<written, disk, mem, lwritten, ldisk>>

(* olClose, or the gdbDestroyBlock after a write: the list leaves memory. *)
CloseList ==
    /\ lmem # NoList
    /\ lmem' = NoList
    /\ UNCHANGED <<written, disk, mem, lwritten, ldisk>>

Init ==
    /\ written = NoNode
    /\ disk = <<>>
    /\ mem = NoNode
    /\ lwritten = NoList
    /\ ldisk = <<>>
    /\ lmem = NoList

Next ==
    \/ \E n \in Nodes : WriteNode(n)
    \/ ReadNode
    \/ EraseNode
    \/ \E l \in OffsetLists : WriteList(l)
    \/ ReadList
    \/ CloseList

Spec == Init /\ [][Next]_vars

-----------------------------------------------------------------------------
(* Properties.                                                             *)

CodecTypeOK ==
    /\ written \in Nodes \cup {NoNode}
    /\ disk \in Seq(0..255)
    /\ mem = NoNode \/ mem.kc \in 0..255
    /\ lwritten \in OffsetLists \cup {NoList}

(* spec.md 4.1 and the round-trip requirement: uncompressString is the    *)
(* exact inverse of compressString, and a node read back from its page is *)
(* the node btreeWriteNodeBlock wrote: same keyCount, children, keys and  *)
(* key sizes, through the prefix compression of every key after the      *)
(* first and the per-field big-endian encoding.                            *)
NodeRoundTrip ==
    mem # NoNode => mem = written

(* btreeWriteNodeBlock mallocs __getNodeSize bytes and then writes every  *)
(* field into them: the size it computes from the compressed key sizes    *)
(* must be exactly what it writes (more overruns the buffer, less leaves  *)
(* uninitialised bytes in the page).                                       *)
EncodedSizeExact ==
    written # NoNode =>
        EncodeNode(written).size = Len(EncodeNode(written).bytes)

(* The offset-list block of files.idx: whatever package offsets an      *)
(* offset list holds, in whatever order olAddOffset appended them, the    *)
(* list olReadBlock builds from what olWriteBlock stored has the same     *)
(* count and the same offsets in the same order; the count's field width  *)
(* and each offset's stride have to agree between the two functions and   *)
(* with the size olWriteBlock gives the block.                             *)
ListRoundTrip ==
    lmem # NoList => lmem = lwritten

=============================================================================

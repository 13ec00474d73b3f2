------------------------------ MODULE Derutil -------------------------------
(***************************************************************************)
(* euicc/derutil.c: the BER-TLV reader and writer that every ES10 command  *)
(* and answer goes through, and the integer and bit string conversions.    *)
(* Each operation is an operator.                                          *)
(* A buffer is a sequence of bytes, a pointer into it an offset from 0.    *)
(***************************************************************************)
EXTENDS Integers, Sequences, FiniteSets, FiniteSetsExt, SequencesExt

CONSTANT SizeofLong \* bytes in a long

\* The largest length that matters: more than any buffer holds.
Huge == 2 ^ 30

\* The uint32_t that a loop of `length << 8 | byte` leaves: the last four bytes.
Uint32(digits) ==
    LET kept == [i \in 1 .. 4 |->
                    LET k == Len(digits) - 4 + i IN IF k < 1 THEN 0 ELSE digits[k]]
    IN IF kept[1] + kept[2] > 0 THEN Huge ELSE kept[3] * 256 + kept[4]

-----------------------------------------------------------------------------
(* Unpacking                                                               *)

NoNode == [ok |-> FALSE, tag |-> 0, ptr |-> 0, value |-> 0, length |-> 0]

\* The node at offset ptr, of which rlen bytes may be read, given whether the
\* value has to fit in what is left.
UnpackAt(buffer, ptr, rlen, fits(_, _)) ==
    LET byte(i) == buffer[ptr + i + 1]
        node(t, header, length) ==
            IF rlen >= header /\ fits(rlen - header, length)
            THEN [ok |-> TRUE, ptr |-> ptr, value |-> ptr + header, length |-> length,
                  tag |-> IF t = 2 THEN byte(0) * 256 + byte(1) ELSE byte(0)]
            ELSE NoNode
        long(t, lenlen) == node(t, t + 1 + lenlen, Uint32([i \in 1 .. lenlen |-> byte(t + i)]))
        tagged(t) == IF rlen < t + 1 THEN NoNode
                     ELSE IF byte(t) < 128 THEN node(t, t + 1, byte(t)) ELSE long(t, byte(t) - 128)
    IN IF rlen < 1 THEN NoNode ELSE tagged(IF byte(0) % 32 = 31 THEN 2 ELSE 1)

\* Mutant of UnpackFirst: the last byte of the value may be missing.
UnpackFirstShort(buffer, ptr, rlen) ==
    UnpackAt(buffer, ptr, rlen, LAMBDA left, length : left + 1 >= length)

UnpackFirst(buffer, ptr, rlen) ==
    UnpackAt(buffer, ptr, rlen, LAMBDA left, length : left >= length)

SelfEnd(node) == node.value + node.length

UnpackNext(prev, buffer) ==
    UnpackFirst(buffer, SelfEnd(prev), Len(buffer) - SelfEnd(prev))

\* The first node of the buffer that has one of the tags.
FindAliasTags(tags, buffer) ==
    LET find[ptr \in 0 .. Len(buffer)] ==
            LET node == UnpackNext([value |-> ptr, length |-> 0], buffer)
            IN IF ~node.ok \/ node.tag \in tags THEN node ELSE find[SelfEnd(node)]
    IN find[0]

FindTag(tag, buffer) == FindAliasTags({tag}, buffer)

-----------------------------------------------------------------------------
(* Packing: a node is a leaf with a value, or has children; a list of      *)
(* siblings is a sequence.                                                 *)

Leaf(tag, value) == [tag |-> tag, value |-> value, headless |-> FALSE, child |-> <<>>]
Headless(value) == [tag |-> 0, value |-> value, headless |-> TRUE, child |-> <<>>]
Parent(tag, child) == [tag |-> tag, value |-> <<>>, headless |-> FALSE, child |-> child]

TagSize(tag) == IF tag >= 256 THEN 2 ELSE 1

\* The bytes that `while (length) length >>= 8` counts.
LengthLen(length) == CHOOSE n \in 0 .. 4 :
                        length < 256 ^ n /\ (n > 0 => length >= 256 ^ (n - 1))

\* Mutant of SizeofSingle: a value of exactly 128 bytes is given a short length.
SizeofSingleShort(node, length) ==
    IF node.headless THEN length
    ELSE TagSize(node.tag) + 1 + length
         + (IF length <= 128 THEN 0 ELSE LengthLen(length))

\* self.length of a node, once the length of its value is known.
SizeofSingle(node, length) ==
    IF node.headless THEN length
    ELSE TagSize(node.tag) + 1 + length
         + (IF length < 128 THEN 0 ELSE LengthLen(length))

\* The length of a node's value, and the size of a list of siblings: the first
\* pass, over a tree of at most three levels.
RECURSIVE LengthOf(_), SizeOf(_)
LengthOf(node) == IF node.child = <<>> THEN Len(node.value) ELSE SizeOf(node.child)
SizeOf(nodes) == FoldLeft(LAMBDA sum, node : sum + SizeofSingle(node, LengthOf(node)),
                          0, nodes)

SelfLength(node) == SizeofSingle(node, LengthOf(node))

\* What the copy of one node writes, in order, from its pointer on.
Copydata(node) ==
    LET length == LengthOf(node)
        n      == LengthLen(length)
        tag    == IF node.tag >= 256 THEN <<node.tag \div 256, node.tag % 256>>
                                     ELSE <<node.tag>>
        len    == IF length < 128 THEN <<length>>
                  ELSE <<128 + n>> \o [i \in 1 .. n |-> (length \div 256 ^ (n - i)) % 256]
    IN IF node.headless THEN node.value ELSE tag \o len \o node.value

\* The second pass: where each node of a list is copied to.  A child starts
\* after its parent's header.
RECURSIVE Writes(_, _)
Writes(nodes, wptr) ==
    LET start(i) == wptr + SizeOf(SubSeq(nodes, 1, i - 1))
    IN UNION {{<<start(i), Copydata(nodes[i])>>}
              \cup Writes(nodes[i].child,
                          start(i) + SelfLength(nodes[i]) - LengthOf(nodes[i]))
                 : i \in 1 .. Len(nodes)}

\* The copies that touch byte k of the buffer.
Touching(writes, k) == {w \in writes : w[1] <= k /\ k < w[1] + Len(w[2])}

\* euicc_derutil_pack into a buffer of `room` bytes.
Pack(nodes, room) ==
    LET size == SizeOf(nodes)
        all  == {w \in Writes(nodes, 0) : w[2] # <<>>}
    IN IF room < size THEN [ret |-> -1, writes |-> {}, buffer |-> <<>>]
       ELSE [ret |-> 0, writes |-> all,
             buffer |-> [k \in 1 .. size |->
                 IF Touching(all, k - 1) = {} THEN -1     \* left as it was
                 ELSE LET w == CHOOSE w \in Touching(all, k - 1) : TRUE
                      IN w[2][k - w[1]]]]

-----------------------------------------------------------------------------
(* Integers and bit strings                                                *)

LongRange == 2 ^ (8 * SizeofLong)

Bin2Long(buffer) ==
    LET result == FoldLeft(LAMBDA r, b : (r % (LongRange \div 256)) * 256 + b, 0, buffer)
    IN IF result >= LongRange \div 2 THEN result - LongRange ELSE result

\* Mutant of RequiredLen: no room is made for the sign bit.
RequiredLenUnsigned(value) ==
    LET shifted(i) == value \div 256 ^ i
        stop == {i \in 1 .. SizeofLong - 1 : shifted(i) = 0}
    IN IF stop = {} THEN SizeofLong ELSE CHOOSE i \in stop : \A j \in stop : i <= j

\* The loop of long2bin: it stops at the first i for which nothing is left, and
\* adds a byte there when the top bit of a positive value would read as a sign.
RequiredLen(value) ==
    LET shifted(i) == value \div 256 ^ i
        stop == {i \in 1 .. SizeofLong - 1 : shifted(i) = 0}
        first == CHOOSE i \in stop : \A j \in stop : i <= j
    IN IF stop = {} THEN SizeofLong
       ELSE IF value > 0 /\ shifted(first - 1) % 256 >= 128 THEN first + 1 ELSE first

Long2Bin(value, room) ==
    LET n == RequiredLen(value)
    IN IF n > room THEN [ret |-> -1, buffer |-> <<>>]
       ELSE [ret |-> 0,
             buffer |-> [i \in 1 .. n |-> (value \div 256 ^ (n - i)) % 256]]

Bits2BinSizeof(bits) ==
    LET maxBit == IF bits = {} THEN 0 ELSE CHOOSE b \in bits : \A c \in bits : c <= b
    IN (maxBit + 8) \div 8 + 1

Bits2Bin(bits) ==
    [k \in 1 .. Bits2BinSizeof(bits) |->
        IF k = 1 THEN 0
        ELSE MapThenSumSet(LAMBDA b : 2 ^ (7 - (b % 8)),
                           {b \in bits : b \div 8 + 2 = k})]

\* The named bits that are set, in order; the first byte counts the unused
\* low bits of the last one.
Bin2BitsStr(buffer, names) ==
    LET byte(j) == IF j = Len(buffer) THEN buffer[j] - (buffer[j] % 2 ^ buffer[1])
                   ELSE buffer[j]
    IN SelectSeq([b \in 1 .. 8 * (Len(buffer) - 1) |-> b - 1],
                 LAMBDA b : b < names /\ (byte(b \div 8 + 2) \div 2 ^ (7 - (b % 8))) % 2 = 1)

=============================================================================

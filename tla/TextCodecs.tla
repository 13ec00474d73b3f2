----------------------------- MODULE TextCodecs -----------------------------
(***************************************************************************)
(* euicc/hexutil.c and euicc/base64.c: bytes as hexadecimal text, ICCIDs   *)
(* and IMEIs as swapped BCD, and base64.  A character is represented by    *)
(* what the code looks at: a hexadecimal digit by its value 0 .. 15, any   *)
(* other character of such a string by Other; a base64 character by its    *)
(* pr2six value, 64 for every character outside the alphabet, '=' and the  *)
(* terminator included.  A text is a sequence without its terminator.      *)
(***************************************************************************)
EXTENDS Integers, Sequences

Other == 16
NotCode == 64

-----------------------------------------------------------------------------
(* hexutil.c                                                               *)

\* The characters of bin2hex; its return value is their number.
Bin2Hex(bin) == [i \in 1 .. 2 * Len(bin) |->
                    LET byte == bin[(i + 1) \div 2]
                    IN IF i % 2 = 1 THEN byte \div 16 ELSE byte % 16]

\* hex2bin_r into a buffer of room bytes.
Hex2Bin(input, room) ==
    IF Len(input) % 2 # 0 \/ room < Len(input) \div 2 \/ \E i \in DOMAIN input : input[i] = Other
    THEN [ret |-> -1, output |-> <<>>]
    ELSE [ret |-> Len(input) \div 2,
          output |-> [i \in 1 .. Len(input) \div 2 |->
                        input[2 * i - 1] * 16 + input[2 * i]]]

SwapChars(input) == [i \in 1 .. Len(input) |->
                        IF i % 2 = 1 THEN input[i + 1] ELSE input[i - 1]]

Gsmbcd2BinWith(input, room, paddingTo, filler) ==
    LET even  == IF Len(input) % 2 = 1 THEN Append(input, filler) ELSE input
        bytes == Hex2Bin(SwapChars(even), room)
        pad   == [i \in 1 .. paddingTo - bytes.ret |-> 255]
    IN IF room < paddingTo \/ bytes.ret = -1 THEN [ret |-> -1, output |-> <<>>]
       ELSE IF paddingTo > bytes.ret
            THEN [ret |-> paddingTo, output |-> bytes.output \o pad]
            ELSE bytes

\* Mutant of Gsmbcd2Bin: an odd number of digits is filled up with '0'.
Gsmbcd2BinZero(input, room, paddingTo) == Gsmbcd2BinWith(input, room, paddingTo, 0)

\* An odd number of digits is filled up with 'f', the rest of the field with 0xff.
Gsmbcd2Bin(input, room, paddingTo) == Gsmbcd2BinWith(input, room, paddingTo, 15)

\* The trailing run of 'f' is cut, but never the first character.  n is one less
\* than bin2hex returned, which is the index of the last character, and what is
\* returned is n after the cut.
Bin2Gsmbcd(bin) ==
    LET text  == SwapChars(Bin2Hex(bin))
        stops == {k \in 1 .. Len(text) : k = 1 \/ text[k] # 15}
        last  == CHOOSE k \in stops : \A j \in stops : j <= k
    IN [ret |-> last - 1, output |-> SubSeq(text, 1, last)]

-----------------------------------------------------------------------------
(* base64.c                                                                *)

\* The number of leading characters that belong to the alphabet.
CodeLength(coded) ==
    LET ends == {k \in 1 .. Len(coded) : coded[k] = NotCode}
    IN IF ends = {} THEN Len(coded) ELSE (CHOOSE k \in ends : \A j \in ends : k <= j) - 1

DecodeLen(coded) == ((CodeLength(coded) + 3) \div 4) * 3 + 1

\* The bytes stored before the terminator: groups of four characters, and of the
\* last group as many bytes as its characters fill.
Stored(coded) ==
    LET n == CodeLength(coded)
        byte(i) == LET g == 4 * ((i - 1) \div 3)
                       c(k) == coded[g + k]
                   IN CASE i % 3 = 1 -> c(1) * 4 + c(2) \div 16
                        [] i % 3 = 2 -> c(2) * 16 + c(3) \div 4
                        [] OTHER     -> c(3) * 64 + c(4)
        tail == IF n = 0 THEN 0 ELSE ((n - 1) % 4) + 1
        count == 3 * ((n - tail) \div 4) + (IF tail > 1 THEN tail - 1 ELSE 0)
    IN [i \in 1 .. count |-> byte(i) % 256]

Decode(coded) ==
    LET n    == CodeLength(coded)
        tail == IF n = 0 THEN 0 ELSE ((n - 1) % 4) + 1
    IN [ret |-> ((n + 3) \div 4) * 3 - ((4 - tail) % 4), stored |-> Stored(coded)]

EncodeLen(len) == ((len + 2) \div 3) * 4 + 1

\* Groups of three bytes; a last group of one or two bytes is filled up with '='.
Encode(plain) ==
    LET b(i) == IF i > Len(plain) THEN 0 ELSE plain[i]
        char(k) == LET g == 3 * ((k - 1) \div 4) IN
            CASE k % 4 = 1 -> b(g + 1) \div 4
              [] k % 4 = 2 -> (b(g + 1) % 4) * 16 + b(g + 2) \div 16
              [] k % 4 = 3 -> IF g + 2 > Len(plain) THEN NotCode
                              ELSE (b(g + 2) % 16) * 4 + b(g + 3) \div 64
              [] OTHER     -> IF g + 3 > Len(plain) THEN NotCode ELSE b(g + 3) % 64
    IN [k \in 1 .. 4 * ((Len(plain) + 2) \div 3) |-> char(k)]

=============================================================================

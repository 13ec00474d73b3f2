-------------------------- MODULE MCPureOperations --------------------------
(***************************************************************************)
(* PureOperations for TLC: integers at the boundaries of the encoding;     *)
(* every buffer of up to four bytes drawn from the bytes that steer the    *)
(* reader (short and long tags, short and long lengths), and buffers with  *)
(* five length bytes, one more than a uint32_t holds; numbers of up to     *)
(* four digits and one bad character; bytes at the edges of the six-bit    *)
(* groups; readers and driver files in every order.                        *)
(***************************************************************************)
EXTENDS PureOperations

Steering == {0, 1, 2, 90, 129, 130, 191}
ShortBuffers == UNION {[1 .. n -> Steering] : n \in 0 .. 4}
WrappingBuffers == {<<90, 133>> \o digits \o value :
                        digits \in [1 .. 5 -> {0, 1}],
                        value \in {<<>>, <<0>>, <<0, 0>>}}
SampleBuffers == ShortBuffers \cup WrappingBuffers

SampleLongs == UNION {{b - 1, b, b + 1, -b} :
                            b \in {1, 127, 128, 255, 256, 32767, 32768, 65535, 65536, 8388606}}
SampleDigits == UNION {[1 .. n -> {0, 1, 9, Other}] : n \in 0 .. 4}
SamplePlains == UNION {[1 .. n -> {0, 1, 63, 128, 255}] : n \in 0 .. 4}

\* An ICCID of nineteen digits and one of twenty that begins with it.
Nineteen == [i \in 1 .. 19 |-> (i * 7) % 10]
SampleIccids == <<Nineteen, Append(Nineteen, 3)>>

Names == {"est", "yubi", "cano"}
SampleReaders == {<<>>} \cup {<<r>> : r \in {{"est"}, {"yubi"}}}
    \cup [1 .. 3 -> {{"est"}, {"yubi"}, {"cano", "est"}}]
SampleEnvironments ==
    [ifid : {Unset, Empty, Junk, 1}, oldIfid : {Unset, 2}, name : {<<>>, <<"">>, <<"est">>},
     ignore : {<<>>, <<"cano">>, <<"yubi", "cano">>}]

File(type, name, loads) == [type |-> type, name |-> name, loads |-> loads]
SampleFiles == {File("apdu", n, l) : n \in {"pcsc", "qmi", "stdio"}, l \in BOOLEAN}
    \cup {File("http", n, TRUE) : n \in {"curl", "stdio"}}
SampleDirectories ==
    {dir \in UNION {[1 .. n -> SampleFiles] : n \in 0 .. 4} :
        \A i, j \in DOMAIN dir : dir[i].type = dir[j].type /\ dir[i].name = dir[j].name => i = j}

SampleMss == {Unset, Empty, Junk, -1, 0, 5, 6, 120, 255, 256, 262}
=============================================================================

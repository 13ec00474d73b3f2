-------------------------- MODULE MCEs10xTransport --------------------------
(***************************************************************************)
(* es10x_command on a small card: blocks of 2 bytes, a buffer of 5, three  *)
(* block numbers.  Requests have 1 to 8 bytes, so one to four blocks, the  *)
(* last one short or full; those of more than 5 do not fit the buffer, and *)
(* those of more than 6 have more blocks than there are numbers.           *)
(***************************************************************************)
EXTENDS Es10xTransport

MCMss == 2
MCP2Mod == 3
MCBodyCap == 5
MCByte == 0..8
\* Byte i of a request is i, or counts down: two requests of a length differ.
MCRequests == {[i \in 1..n |-> i] : n \in 1..8} \cup {[i \in 1..n |-> 7 - i] : n \in {3, 4}}
MCAnswers == {<<>>, <<1>>, <<3, 2, 1>>}
=============================================================================

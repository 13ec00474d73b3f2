------------------------ MODULE Es10xTransportProofs ------------------------
(***************************************************************************)
(* For every block size, buffer size, request and answer: a successful     *)
(* es10x_command had its request executed once, and whole if its blocks    *)
(* can be numbered, and returns the whole answer.                          *)
(***************************************************************************)
EXTENDS Es10xTransport, SequenceTheorems, TLAPS

(***************************************************************************)
(* The inductive invariant.  OkMeansExecuted says nothing while a call is  *)
(* under way, so it is carried through the call by four facts: where the   *)
(* host stands in the request, that the unsent bytes are still the         *)
(* caller's, what the card has assembled, and which bytes of the answer    *)
(* are with the host, on the way, and still in the card.                   *)
(***************************************************************************)

\* A block is out: it is being sent, or its answer is being read.
InBlock == pc \in {"card", "answer"}

\* req_ptr, req_len and rlen split the request, and every block but the last
\* is a full one.
Position ==
    pc # "idle" =>
        /\ req \in Requests
        /\ inPlace => Len(req) <= BodyCap
        /\ pc = "segment" => off + reqLen = Len(req)
        /\ InBlock => off + rlen + reqLen = Len(req) /\ rlen > 0 /\ rlen <= Mss
        /\ InBlock /\ reqLen > 0 => rlen = Mss
        /\ InBlock \/ reqLen > 0 => off = Mss * reqseq

\* The bytes of an in-place request not sent yet are where the caller put them.
Unsent ==
    pc # "idle" /\ inPlace =>
        LET sent == IF pc = "segment" THEN off ELSE off + rlen
        IN  \A i \in 1..Len(req) : i > sent => body[i] = req[i]

\* Each block is the next slice of the request.  Until the last one the card
\* holds the prefix of the request up to req_ptr and expects the block that comes
\* next, as long as no block number has come a second time.
Assembly ==
    /\ pc = "segment" /\ executed = <<>> =>
          reqLen > 0 /\ (Numbered(req) /\ off > 0 => asm = SubSeq(req, 1, off) /\ expect = reqseq)
    /\ pc = "card" /\ apdu.kind = "store" =>
          /\ executed = <<>>
          /\ apdu.data = SubSeq(req, off + 1, off + rlen)
          /\ apdu.last <=> reqLen = 0
          /\ Numbered(req) => apdu.p2 = reqseq
          /\ Numbered(req) /\ off > 0 => asm = SubSeq(req, 1, off) /\ expect = reqseq
    /\ pc = "answer" /\ executed = <<>> /\ rapdu.sw # "err" =>
          reqLen > 0 /\ (Numbered(req) => asm = SubSeq(req, 1, off + rlen) /\ expect = reqseq + 1)

\* The answer is what the host has, then what is on the way, then what the
\* card still keeps.
Answering ==
    /\ pc = "card" => apdu.kind # "none"
    /\ pc # "idle" /\ executed = <<>> => resp = <<>>
    /\ pc = "segment" /\ executed # <<>> => reqLen = 0 /\ resp = answer
    /\ pc = "card" /\ apdu.kind = "get" => executed # <<>> /\ reqLen = 0 /\ resp \o out = answer
    /\ pc = "answer" /\ executed = <<>> => rapdu.data = <<>> /\ rapdu.sw # "61"
    /\ pc = "answer" /\ executed # <<>> /\ rapdu.sw # "err" =>
          /\ reqLen = 0 /\ resp \o (rapdu.data \o out) = answer
          /\ rapdu.sw # "61" => out = <<>>
    /\ pc = "answer" => rapdu.sw # "none"

IInv ==
    /\ TypeOK
    /\ pc # "idle" => ret = "none"
    /\ Position
    /\ Unsent
    /\ Assembly
    /\ Answering
    /\ AtMostOnce
    /\ OkMeansExecuted
-----------------------------------------------------------------------------
(* Operators.                                                              *)

\* Overlay, memcpy onto the head of request_buffer.body: the buffer keeps its
\* size, its head becomes the block and the rest stays.
LEMMA OverlayFacts ==
    ASSUME NEW s \in Seq(Byte), NEW buf \in Seq(Byte), Len(s) <= Len(buf)
    PROVE  /\ Overlay(s, buf) \in Seq(Byte)
           /\ Len(Overlay(s, buf)) = Len(buf)
           /\ \A i \in 1..Len(buf) : Overlay(s, buf)[i] = IF i <= Len(s) THEN s[i] ELSE buf[i]
<1> DEFINE t == SubSeq(buf, Len(s) + 1, Len(buf))
<1>1. /\ t \in Seq(Byte) /\ Len(t) = Len(buf) - Len(s)
      /\ \A i \in 1..Len(t) : t[i] = buf[Len(s) + i]
    <2>1. \A i \in Len(s) + 1 .. Len(buf) : buf[i] \in Byte
        BY ElementOfSeq, LenProperties
    <2>2. Len(s) \in Nat /\ Len(buf) \in Nat
        BY LenProperties
    <2>3. /\ t \in Seq(Byte)
          /\ Len(t) = IF Len(s) + 1 <= Len(buf) THEN Len(buf) - (Len(s) + 1) + 1 ELSE 0
          /\ \A i \in 1 .. Len(buf) - (Len(s) + 1) + 1 : t[i] = buf[(Len(s) + 1) + i - 1]
        BY <2>1, <2>2, SubSeqProperties
    <2> QED BY <2>2, <2>3
<1>2. Overlay(s, buf) = s \o t
    BY DEF Overlay
<1> HIDE DEF t
<1>3. /\ s \o t \in Seq(Byte) /\ Len(s \o t) = Len(s) + Len(t)
      /\ \A i \in 1 .. Len(s) + Len(t) : (s \o t)[i] = IF i <= Len(s) THEN s[i] ELSE t[i - Len(s)]
    BY <1>1, ConcatProperties
<1>4. Len(s) \in Nat /\ Len(buf) \in Nat
    BY LenProperties
<1> QED BY <1>1, <1>2, <1>3, <1>4

\* A slice of a byte sequence.
LEMMA SliceFacts ==
    ASSUME NEW s \in Seq(Byte), NEW m \in Nat, NEW n \in Nat, m <= n, n <= Len(s)
    PROVE  /\ SubSeq(s, m + 1, n) \in Seq(Byte)
           /\ Len(SubSeq(s, m + 1, n)) = n - m
           /\ \A i \in 1..(n - m) : SubSeq(s, m + 1, n)[i] = s[m + i]
<1>1. Len(s) \in Nat
    BY LenProperties
<1>2. \A i \in m + 1 .. n : s[i] \in Byte
    BY <1>1, ElementOfSeq
<1>3. /\ SubSeq(s, m + 1, n) \in Seq(Byte)
      /\ Len(SubSeq(s, m + 1, n)) = IF m + 1 <= n THEN n - (m + 1) + 1 ELSE 0
      /\ \A i \in 1 .. n - (m + 1) + 1 : SubSeq(s, m + 1, n)[i] = s[(m + 1) + i - 1]
    BY <1>2, SubSeqProperties
<1> QED BY <1>3

\* The slice of k bytes after the first m, as es10x_command_iter cuts blocks.
LEMMA BlockFacts ==
    ASSUME NEW s \in Seq(Byte), NEW m \in Nat, NEW k \in Nat, m + k <= Len(s)
    PROVE  /\ SubSeq(s, m + 1, m + k) \in Seq(Byte)
           /\ Len(SubSeq(s, m + 1, m + k)) = k
           /\ \A i \in 1..k : SubSeq(s, m + 1, m + k)[i] = s[m + i]
<1> DEFINE n == m + k
<1>1. n \in Nat /\ m <= n /\ n <= Len(s) /\ n - m = k
    OBVIOUS
<1>2. /\ SubSeq(s, m + 1, n) \in Seq(Byte)
      /\ Len(SubSeq(s, m + 1, n)) = n - m
      /\ \A i \in 1..(n - m) : SubSeq(s, m + 1, n)[i] = s[m + i]
    <2> HIDE DEF n
    <2> QED BY <1>1, SliceFacts
<1> QED BY <1>1, <1>2

\* The card's Send, which external callers see as 61xx or 9xxx: what it sends
\* followed by what it keeps is what it had.
LEMMA SendFacts ==
    ASSUME NEW o \in Seq(Byte), NEW k \in 0..Len(o), Send(k, o)
    PROVE  /\ rapdu'.sw \in {"61", "9x"} /\ rapdu'.data \in Seq(Byte) /\ out' \in Seq(Byte)
           /\ rapdu' \in [sw : {"none", "61", "9x", "err"}, data : Seq(Byte)]
           /\ rapdu'.data \o out' = o
           /\ rapdu'.sw # "61" => out' = <<>>
           /\ o = <<>> => rapdu'.data = <<>> /\ rapdu'.sw = "9x"
<1>1. Len(o) \in Nat /\ k \in Nat
    BY LenProperties
<1>2. SubSeq(o, 1, k) \in Seq(Byte) /\ Len(SubSeq(o, 1, k)) = k
    <2>1. SubSeq(o, 0 + 1, k) \in Seq(Byte) /\ Len(SubSeq(o, 0 + 1, k)) = k - 0
        BY <1>1, SliceFacts
    <2> QED BY <2>1, <1>1
<1>3. SubSeq(o, k + 1, Len(o)) \in Seq(Byte) /\ Len(SubSeq(o, k + 1, Len(o))) = Len(o) - k
    BY <1>1, SliceFacts
<1>4. SubSeq(o, 1, k) \o SubSeq(o, k + 1, Len(o)) = SubSeq(o, 1, Len(o))
    <2>1. 1 \in 1 .. Len(o) + 1 /\ k \in 1 - 1 .. Len(o) /\ Len(o) \in k .. Len(o)
        BY <1>1
    <2> QED BY <2>1, ConcatAdjacentSubSeq, Zenon
<1>5. SubSeq(o, 1, Len(o)) = o
    BY SubSeqFull
<1>6. /\ rapdu' = [sw |-> IF k < Len(o) THEN "61" ELSE "9x", data |-> SubSeq(o, 1, k)]
      /\ out' = SubSeq(o, k + 1, Len(o))
    BY DEF Send
<1>7. k = Len(o) => SubSeq(o, k + 1, Len(o)) = <<>>
    BY <1>1, SubSeqEmpty
<1>8. o = <<>> => k = 0 /\ Len(o) = 0 /\ SubSeq(o, 1, k) = <<>>
    <2>1. o = <<>> => Len(o) = 0
        OBVIOUS
    <2>2. SubSeq(o, 1, 0) = <<>>
        BY SubSeqEmpty
    <2> QED BY <1>1, <2>1, <2>2
<1>9. rapdu'.sw = (IF k < Len(o) THEN "61" ELSE "9x") /\ rapdu'.data = SubSeq(o, 1, k)
    BY <1>6
<1>10. rapdu'.sw # "61" => out' = <<>>
    BY <1>1, <1>6, <1>7, <1>9
<1>11. o = <<>> => rapdu'.data = <<>> /\ rapdu'.sw = "9x"
    BY <1>1, <1>8, <1>9
<1>12. rapdu'.data \o out' = o
    BY <1>4, <1>5, <1>6, <1>9, Zenon
<1>13. rapdu' \in [sw : {"none", "61", "9x", "err"}, data : Seq(Byte)]
    BY <1>2, <1>6
<1> QED BY <1>2, <1>3, <1>6, <1>9, <1>10, <1>11, <1>12, <1>13, Zenon

\* What was executed, as soon as it is anything and never more than one request,
\* is one request.
LEMMA ExactlyOne ==
    ASSUME NEW e \in Seq(Seq(Byte)), e # <<>>, Len(e) <= 1
    PROVE  Len(e) = 1
<1> DEFINE n == Len(e)
<1>1. n \in Nat /\ n <= 1
    BY LenProperties
<1>2. n # 0
    BY EmptySeq
<1> HIDE DEF n
<1>3. n = 1
    BY <1>1, <1>2
<1> QED BY <1>3 DEF n

-----------------------------------------------------------------------------
(* Every action keeps the invariant.                                       *)

\* Call: the caller's request is in place before the first block is cut.
LEMMA CallKeeps ==
    ASSUME IInv, NEW r \in Requests, NEW ip \in BOOLEAN, Call(r, ip)
    PROVE  IInv'
<1> USE DEF IInv, Call
<1>1. r \in Seq(Byte) /\ Len(r) \in Nat /\ Len(r) > 0
    BY RequestsAssumption, LenProperties
<1>2. /\ body' \in Seq(Byte) /\ Len(body') = BodyCap
      /\ ip => \A i \in 1..Len(r) : body'[i] = r[i]
    <2>1. body \in Seq(Byte) /\ Len(body) = BodyCap
        BY DEF TypeOK
    <2>2. CASE ip
        <3>1. Len(r) <= Len(body)
            BY <2>1, <2>2
        <3>2. /\ Overlay(r, body) \in Seq(Byte) /\ Len(Overlay(r, body)) = Len(body)
              /\ \A i \in 1..Len(body) : Overlay(r, body)[i] = IF i <= Len(r) THEN r[i] ELSE body[i]
            BY <1>1, <2>1, <3>1, OverlayFacts
        <3> QED BY <1>1, <2>1, <2>2, <3>1, <3>2, LenProperties
    <2>3. CASE ~ip
        BY <2>1, <2>3
    <2> QED BY <2>2, <2>3
<1>3. TypeOK'
    BY <1>1, <1>2 DEF TypeOK, NoApdu, NoRapdu
<1>4. Position' /\ Unsent'
    BY <1>1, <1>2, MssAssumption DEF Position, Unsent, InBlock
<1>5. Assembly' /\ Answering'
    BY <1>1 DEF Assembly, Answering
<1>6. AtMostOnce' /\ OkMeansExecuted' /\ (pc # "idle" => ret = "none")'
    BY DEF AtMostOnce, OkMeansExecuted
<1> QED BY <1>3, <1>4, <1>5, <1>6

\* Giving up: only OkMeansExecuted and the types speak of an idle host.
LEMMA FailKeeps ==
    ASSUME IInv, Fail, UNCHANGED cardVars, pc # "idle"
    PROVE  IInv'
<1> USE DEF IInv, Fail, cardVars
<1>1. TypeOK'
    BY DEF TypeOK
<1>2. Position' /\ Unsent' /\ Assembly' /\ Answering'
    BY DEF Position, Unsent, Assembly, Answering, InBlock
<1>3. AtMostOnce' /\ OkMeansExecuted' /\ (pc # "idle" => ret = "none")'
    BY DEF AtMostOnce, OkMeansExecuted
<1> QED BY <1>1, <1>2, <1>3

\* Return: req_len is used up, so the last block has been executed.
LEMMA ReturnKeeps ==
    ASSUME IInv, Return
    PROVE  IInv'
<1> USE DEF IInv, Return, cardVars
<1>1. TypeOK'
    BY DEF TypeOK
<1>2. executed # <<>> /\ resp = answer
    BY DEF Assembly, Answering, TypeOK
<1>3. Position' /\ Unsent' /\ Assembly' /\ Answering'
    BY DEF Position, Unsent, Assembly, Answering, InBlock
<1>4. AtMostOnce' /\ OkMeansExecuted' /\ (pc # "idle" => ret = "none")'
    <2>1. executed \in Seq(Seq(Byte)) /\ Len(executed) <= 1
        BY DEF TypeOK, AtMostOnce
    <2>2. Len(executed) = 1
        BY <1>2, <2>1, ExactlyOne
    <2>3. Numbered(req)' <=> Numbered(req)
        BY DEF Numbered
    <2> QED BY <1>2, <2>2, <2>3, Zenon DEF AtMostOnce, OkMeansExecuted
<1> QED BY <1>1, <1>3, <1>4

\* A refusal: the card keeps what it assembled and what it executed.
LEMMA CardRefusesKeeps ==
    ASSUME IInv, CardRefuses
    PROVE  IInv'
<1> USE DEF IInv, CardRefuses, HostWaits
<1>1. TypeOK'
    BY EmptySeq DEF TypeOK
<1>2. Position' /\ Unsent'
    BY DEF Position, Unsent, InBlock
<1>3. Assembly' /\ Answering'
    BY DEF Assembly, Answering
<1>4. AtMostOnce' /\ OkMeansExecuted' /\ (pc # "idle" => ret = "none")'
    BY DEF AtMostOnce, OkMeansExecuted
<1> QED BY <1>1, <1>2, <1>3, <1>4

\* Cutting the next block: it starts at a multiple of es10x_mss, so it is the head
\* of the buffer itself or does not overlap it, it is the next slice of the
\* caller's request, and the P2 of a request with few enough blocks has not
\* wrapped.
LEMMA BuildRequestKeeps ==
    ASSUME IInv, BuildRequest
    PROVE  IInv'
<1> USE DEF IInv
<1> DEFINE n == BlockLen
<1>1. /\ pc = "segment" /\ reqLen > 0 /\ rlen' = n /\ reqLen' = reqLen - n /\ pc' = "card"
      /\ UNCHANGED <<req, inPlace, off, reqseq, rapdu, resp, ret, asm, expect, out, executed, answer>>
    BY DEF BuildRequest, cardVars
<1>2. /\ req \in Requests /\ req \in Seq(Byte) /\ Len(req) \in Nat
      /\ off + reqLen = Len(req) /\ off = Mss * reqseq
      /\ off \in Nat /\ reqLen \in Nat /\ reqseq \in Nat
    <2>1. req \in Requests /\ off + reqLen = Len(req) /\ off = Mss * reqseq
        BY <1>1 DEF Position
    <2>2. req \in Seq(Byte) /\ Len(req) \in Nat
        BY <2>1, RequestsAssumption, LenProperties
    <2> QED BY <2>1, <2>2 DEF TypeOK
<1>3. n \in Nat /\ n > 0 /\ n <= Mss /\ n <= reqLen /\ (reqLen > Mss <=> reqLen - n > 0)
      /\ (reqLen - n > 0 => n = Mss)
    BY <1>1, <1>2, MssAssumption DEF BlockLen
<1> HIDE DEF n
<1>4. Numbered(req) => reqseq < P2Mod
    <2> HAVE Numbered(req)
    <2>1. Mss * reqseq < Mss * P2Mod
        BY <1>1, <1>2, MssAssumption, RequestsAssumption DEF Numbered
    <2>2. Mss \in Nat /\ P2Mod \in Nat /\ reqseq \in Nat
        BY <1>2, MssAssumption, RequestsAssumption
    <2>3. P2Mod <= reqseq => Mss * P2Mod <= Mss * reqseq
        BY <2>2
    <2> QED BY <2>1, <2>2, <2>3
<1>5. reqseq % P2Mod \in Nat /\ (Numbered(req) => reqseq % P2Mod = reqseq)
    BY <1>2, <1>4, RequestsAssumption
<1>6. off = 0 \/ off >= Mss
    <2>1. reqseq = 0 => off = 0
        BY <1>2, MssAssumption
    <2>2. reqseq >= 1 => Mss * reqseq >= Mss
        BY <1>2, MssAssumption
    <2> QED BY <1>2, <2>1, <2>2
<1>7. ~(Overlap(n) /\ off > 0)
    BY <1>2, <1>3, <1>6, MssAssumption DEF Overlap
<1>8. /\ Source \in Seq(Byte) /\ off + n <= Len(Source)
      /\ \A i \in 1..Len(req) : i > off => Source[i] = req[i]
    <2>1. CASE inPlace
        <3>1. Source = body /\ Len(body) = BodyCap /\ body \in Seq(Byte) /\ Len(req) <= BodyCap
            BY <1>1, <2>1 DEF Source, TypeOK, Position
        <3>2. \A i \in 1..Len(req) : i > off => body[i] = req[i]
            BY <1>1, <2>1 DEF Unsent
        <3> QED BY <1>2, <1>3, <3>1, <3>2, MssAssumption
    <2>2. CASE ~inPlace
        BY <1>2, <1>3, <2>2 DEF Source
    <2> QED BY <2>1, <2>2 DEF TypeOK
<1> DEFINE d == SubSeq(Source, off + 1, off + n)
<1>9. /\ body' = Overlay(d, body)
      /\ apdu' = [kind |-> "store", last |-> reqLen <= Mss, p2 |-> reqseq % P2Mod, data |-> d]
    BY <1>7, Zenon DEF BuildRequest, BlockData, n
<1>10. d \in Seq(Byte) /\ Len(d) = n /\ \A i \in 1..n : d[i] = Source[off + i]
    <2>1. Source \in Seq(Byte) /\ off + n <= Len(Source) /\ off \in Nat /\ n \in Nat
        BY <1>2, <1>3, <1>8, Zenon
    <2> QED BY <2>1, BlockFacts, Zenon
<1>11. d = SubSeq(req, off + 1, off + n)
    <2> DEFINE e == SubSeq(req, off + 1, off + n)
    <2>1. e \in Seq(Byte) /\ Len(e) = n /\ \A i \in 1..n : e[i] = req[off + i]
        <3>1. req \in Seq(Byte) /\ off + n <= Len(req) /\ off \in Nat /\ n \in Nat
            BY <1>2, <1>3
        <3> QED BY <3>1, BlockFacts, Zenon
    <2>2. \A i \in 1..n : d[i] = e[i]
        <3> SUFFICES ASSUME NEW i \in 1..n PROVE Source[off + i] = req[off + i]
            BY <1>10, <2>1
        <3>1. off + i \in 1..Len(req) /\ off + i > off
            BY <1>2, <1>3
        <3> QED BY <1>8, <3>1
    <2> HIDE DEF d, e
    <2>3. d = e
        BY <1>10, <2>1, <2>2, SeqEqual, Zenon
    <2> QED BY <2>3 DEF e
<1> HIDE DEF d
<1>12. /\ body' \in Seq(Byte) /\ Len(body') = BodyCap
       /\ \A i \in 1..BodyCap : body'[i] = IF i <= n THEN d[i] ELSE body[i]
    <2>1. body \in Seq(Byte) /\ Len(body) = BodyCap /\ n <= BodyCap
        BY <1>3, MssAssumption DEF TypeOK
    <2>2. /\ Overlay(d, body) \in Seq(Byte) /\ Len(Overlay(d, body)) = Len(body)
          /\ \A i \in 1..Len(body) : Overlay(d, body)[i] = IF i <= Len(d) THEN d[i] ELSE body[i]
        BY <1>10, <2>1, OverlayFacts, Zenon
    <2> QED BY <1>9, <1>10, <2>1, <2>2
<1>13. TypeOK'
    <2>1. (reqLen <= Mss) \in BOOLEAN
        OBVIOUS
    <2>2. apdu' \in [kind : {"none", "store", "get"}, last : BOOLEAN, p2 : Nat, data : Seq(Byte)]
        BY <1>2, <1>5, <1>9, <1>10, <2>1
    <2> QED BY <1>1, <1>2, <1>3, <1>12, <2>2 DEF TypeOK
<1>14. Position'
    BY <1>1, <1>2, <1>3 DEF Position, InBlock
<1>15. Unsent'
    <2> SUFFICES ASSUME inPlace, NEW i \in 1..Len(req), i > off + n
                 PROVE  body'[i] = req[i]
        BY <1>1 DEF Unsent
    <2>1. Len(req) <= BodyCap /\ body[i] = req[i]
        BY <1>1, <1>2, <1>3 DEF Position, Unsent
    <2>2. i \in 1..BodyCap /\ ~(i <= n)
        BY <1>2, <1>3, <2>1, MssAssumption
    <2> QED BY <1>12, <2>1, <2>2
<1>16. executed = <<>>
    BY <1>1, <1>2 DEF Answering
<1>17. Assembly'
    <2>1. apdu'.last <=> reqLen <= Mss
        BY <1>9, Zenon
    <2>2. apdu'.kind = "store" /\ apdu'.data = d /\ (Numbered(req) => apdu'.p2 = reqseq)
        BY <1>5, <1>9
    <2>3. apdu'.last <=> reqLen' = 0
        BY <1>1, <1>2, <1>3, <2>1, MssAssumption
    <2>4. Numbered(req) /\ off > 0 => asm = SubSeq(req, 1, off) /\ expect = reqseq
        BY <1>1, <1>16 DEF Assembly
    <2>5. Numbered(req)' <=> Numbered(req)
        BY <1>1 DEF Numbered
    <2> QED BY <1>1, <1>11, <1>16, <2>2, <2>3, <2>4, <2>5 DEF Assembly
<1>18. Answering'
    BY <1>1, <1>9 DEF Answering
<1>19. AtMostOnce' /\ OkMeansExecuted' /\ (pc # "idle" => ret = "none")'
    BY <1>1 DEF AtMostOnce, OkMeansExecuted
<1> QED BY <1>13, <1>14, <1>15, <1>17, <1>18, <1>19

\* Answer pieces may be joined in any grouping.
LEMMA Reassociate ==
    ASSUME NEW s \in Seq(Byte), NEW t \in Seq(Byte), NEW u \in Seq(Byte)
    PROVE  (s \o t) \o u = s \o (t \o u)
BY ConcatAssociative

\* 61xx: the piece on the way joins what the host has; a block other than
\* the last is never answered with 61xx.
LEMMA ContinueReadKeeps ==
    ASSUME IInv, ContinueRead
    PROVE  IInv'
<1> USE DEF IInv
<1>1. /\ pc = "answer" /\ rapdu.sw = "61" /\ pc' = "card" /\ resp' = resp \o rapdu.data
      /\ apdu' = [kind |-> "get", last |-> FALSE, p2 |-> 0, data |-> <<>>]
      /\ UNCHANGED <<req, inPlace, body, off, reqLen, rlen, reqseq, rapdu, ret,
                     asm, expect, out, executed, answer>>
    BY Zenon DEF ContinueRead, cardVars
<1>2. /\ executed # <<>> /\ reqLen = 0 /\ resp \o (rapdu.data \o out) = answer
    BY <1>1, Zenon DEF Answering
<1>3. resp \in Seq(Byte) /\ rapdu.data \in Seq(Byte) /\ out \in Seq(Byte)
    BY DEF TypeOK
<1>4. resp' \in Seq(Byte) /\ resp' \o out' = answer'
    <2>1. resp \o rapdu.data \in Seq(Byte)
        BY <1>3, ConcatProperties
    <2>2. (resp \o rapdu.data) \o out = resp \o (rapdu.data \o out)
        BY <1>3, Reassociate, Zenon
    <2> QED BY <1>1, <1>2, <2>1, <2>2
<1>5. TypeOK'
    BY <1>1, <1>4, EmptySeq DEF TypeOK
<1>6. Position' /\ Unsent'
    BY <1>1 DEF Position, Unsent, InBlock
<1>7. Assembly' /\ Answering'
    BY <1>1, <1>2, <1>4 DEF Assembly, Answering
<1>8. AtMostOnce' /\ OkMeansExecuted' /\ (pc # "idle" => ret = "none")'
    BY <1>1 DEF AtMostOnce, OkMeansExecuted
<1> QED BY <1>5, <1>6, <1>7, <1>8

\* 9xxx: req_ptr moves past the block; after the last one all of the answer
\* is with the host.
LEMMA BlockDoneKeeps ==
    ASSUME IInv, BlockDone
    PROVE  IInv'
<1> USE DEF IInv
<1>1. /\ pc = "answer" /\ rapdu.sw = "9x" /\ pc' = "segment" /\ resp' = resp \o rapdu.data
      /\ off' = off + rlen /\ reqseq' = reqseq + 1
      /\ UNCHANGED <<req, inPlace, body, reqLen, rlen, apdu, rapdu, ret,
                     asm, expect, out, executed, answer>>
    BY DEF BlockDone, cardVars
<1>2. /\ resp \in Seq(Byte) /\ rapdu.data \in Seq(Byte)
      /\ off \in Nat /\ rlen \in Nat /\ reqLen \in Nat /\ reqseq \in Nat
    BY DEF TypeOK
<1>3. executed # <<>> => reqLen = 0 /\ resp' = answer
    <2> HAVE executed # <<>>
    <2>1. reqLen = 0 /\ resp \o (rapdu.data \o out) = answer /\ out = <<>>
        BY <1>1, Zenon DEF Answering
    <2>2. rapdu.data \o <<>> = rapdu.data
        BY <1>2, ConcatEmptySeq
    <2> QED BY <1>1, <2>1, <2>2
<1>4. executed = <<>> =>
          /\ resp' = <<>> /\ reqLen > 0
          /\ Numbered(req) => asm = SubSeq(req, 1, off + rlen) /\ expect = reqseq + 1
    <2> HAVE executed = <<>>
    <2>1. resp = <<>> /\ rapdu.data = <<>>
        BY <1>1 DEF Answering
    <2>2. resp' = <<>>
        BY <1>1, <1>2, <2>1, ConcatEmptySeq
    <2> QED BY <1>1, <2>2 DEF Assembly
<1>5. TypeOK'
    <2>1. resp' \in Seq(Byte)
        BY <1>1, <1>2, ConcatProperties
    <2> QED BY <1>1, <1>2, <2>1 DEF TypeOK
<1>6. Position'
    <2>1. reqLen > 0 => off + rlen = Mss * (reqseq + 1)
        <3>1. reqLen > 0 => rlen = Mss /\ off = Mss * reqseq
            BY <1>1 DEF Position, InBlock
        <3>2. Mss * (reqseq + 1) = Mss * reqseq + Mss
            BY <1>2, MssAssumption
        <3> QED BY <1>2, <3>1, <3>2
    <2> QED BY <1>1, <1>2, <2>1 DEF Position, InBlock
<1>7. Unsent'
    BY <1>1, Zenon DEF Unsent
<1>8. Assembly' /\ Answering'
    BY <1>1, <1>3, <1>4 DEF Assembly, Answering
<1>9. AtMostOnce' /\ OkMeansExecuted' /\ (pc # "idle" => ret = "none")'
    BY <1>1 DEF AtMostOnce, OkMeansExecuted
<1> QED BY <1>5, <1>6, <1>7, <1>8, <1>9

\* The block in transit, joined to what the card assembled of the same
\* chain, is the prefix of the request that ends with the block.
LEMMA ChainedPrefix ==
    ASSUME IInv, pc = "card", apdu.kind = "store", apdu.p2 \in {0, expect}, Numbered(req)
    PROVE  (IF apdu.p2 = 0 THEN apdu.data ELSE asm \o apdu.data) = SubSeq(req, 1, off + rlen)
<1> USE DEF IInv
<1>1. /\ apdu.data = SubSeq(req, off + 1, off + rlen) /\ apdu.p2 = reqseq
      /\ off > 0 => asm = SubSeq(req, 1, off)
    BY DEF Assembly
<1>2. /\ req \in Seq(Byte) /\ Len(req) \in Nat /\ off + rlen <= Len(req) /\ off = Mss * reqseq
      /\ off \in Nat /\ rlen \in Nat /\ reqseq \in Nat /\ reqLen \in Nat
    <2>1. req \in Requests /\ off + rlen + reqLen = Len(req) /\ off = Mss * reqseq
        BY DEF Position, InBlock
    <2>2. /\ req \in Seq(Byte) /\ off \in Nat /\ rlen \in Nat /\ reqseq \in Nat /\ reqLen \in Nat
        BY DEF TypeOK
    <2>3. Len(req) \in Nat
        BY <2>2, LenProperties
    <2> QED BY <2>1, <2>2, <2>3
<1>3. CASE reqseq = 0
    <2>1. off = 0
        BY <1>2, <1>3, MssAssumption
    <2> QED BY <1>1, <1>2, <1>3, <2>1
<1>4. CASE reqseq # 0
    <2>1. off > 0
        BY <1>2, <1>4, MssAssumption
    <2>2. 1 \in 1 .. Len(req) + 1 /\ off \in 1 - 1 .. Len(req) /\ off + rlen \in off .. Len(req)
        BY <1>2
    <2>3. SubSeq(req, 1, off) \o SubSeq(req, off + 1, off + rlen) = SubSeq(req, 1, off + rlen)
        BY <1>2, <2>2, ConcatAdjacentSubSeq, Zenon
    <2> QED BY <1>1, <1>4, <2>1, <2>3, Zenon
<1> QED BY <1>2, <1>3, <1>4, Zenon

\* A block that is not the last: 9000 and nothing else comes back.
LEMMA CardTakesBlockKeeps ==
    ASSUME IInv, CardTakesBlock
    PROVE  IInv'
<1> USE DEF IInv
<1>1. /\ pc = "card" /\ apdu.kind = "store" /\ ~apdu.last /\ pc' = "answer"
      /\ apdu.p2 \in {0, expect} /\ expect' = apdu.p2 + 1
      /\ asm' = IF apdu.p2 = 0 THEN apdu.data ELSE asm \o apdu.data
      /\ UNCHANGED <<req, inPlace, body, off, reqLen, rlen, reqseq, apdu, resp, ret, executed, answer>>
    BY DEF CardTakesBlock, HostWaits
<1>2. rapdu' = [sw |-> "9x", data |-> <<>>] /\ out' = <<>>
    <2>1. Send(0, <<>>)
        BY DEF CardTakesBlock
    <2>2. SubSeq(<<>>, 1, 0) = <<>> /\ Len(<<>>) = 0
        OBVIOUS
    <2> QED BY <2>1, <2>2 DEF Send
<1>3. Numbered(req) => asm' = SubSeq(req, 1, off + rlen)
    BY <1>1, ChainedPrefix, Zenon
<1>4. executed = <<>> /\ reqLen > 0 /\ (Numbered(req) => expect' = reqseq + 1)
    BY <1>1 DEF Assembly, TypeOK
<1>5. TypeOK'
    <2>1. apdu.data \in Seq(Byte) /\ asm \in Seq(Byte) /\ apdu.p2 \in Nat
        BY DEF TypeOK
    <2>2. asm' \in Seq(Byte)
        BY <1>1, <2>1, ConcatProperties
    <2> QED BY <1>1, <1>2, <1>4, <2>1, <2>2, EmptySeq DEF TypeOK
<1>6. Position' /\ Unsent'
    BY <1>1 DEF Position, Unsent, InBlock
<1>7. Assembly'
    <2>1. Numbered(req)' <=> Numbered(req)
        BY <1>1 DEF Numbered
    <2> QED BY <1>1, <1>2, <1>3, <1>4, <2>1, Zenon DEF Assembly
<1>8. Answering'
    BY <1>1, <1>2, <1>4 DEF Answering
<1>9. AtMostOnce' /\ OkMeansExecuted' /\ (pc # "idle" => ret = "none")'
    BY <1>1 DEF AtMostOnce, OkMeansExecuted
<1> QED BY <1>5, <1>6, <1>7, <1>8, <1>9

\* The last block: the card executes one request, which is the whole one if no
\* block number came twice.
LEMMA CardExecutesKeeps ==
    ASSUME IInv, CardExecutes
    PROVE  IInv'
<1> USE DEF IInv
<1>1. /\ pc = "card" /\ apdu.kind = "store" /\ apdu.last /\ pc' = "answer"
      /\ apdu.p2 \in {0, expect} /\ asm' = <<>> /\ expect' = 0
      /\ executed' = Append(executed, IF apdu.p2 = 0 THEN apdu.data ELSE asm \o apdu.data)
      /\ UNCHANGED <<req, inPlace, body, off, reqLen, rlen, reqseq, apdu, resp, ret>>
    BY DEF CardExecutes, HostWaits
<1>2. PICK k \in 0..Len(answer') : answer' \in Answers /\ Send(k, answer')
    BY DEF CardExecutes
<1>3. /\ executed = <<>> /\ reqLen = 0 /\ resp = <<>>
      /\ off + rlen = Len(req) /\ req \in Seq(Byte)
    <2>1. executed = <<>> /\ reqLen = 0
        BY <1>1 DEF Assembly
    <2>2. off + rlen + reqLen = Len(req) /\ off \in Nat /\ rlen \in Nat /\ req \in Seq(Byte)
        BY <1>1 DEF Position, InBlock, TypeOK
    <2> QED BY <1>1, <2>1, <2>2 DEF Answering
<1> DEFINE e == IF apdu.p2 = 0 THEN apdu.data ELSE asm \o apdu.data
<1>4. executed' = <<e>> /\ e \in Seq(Byte)
    <2>1. apdu.data \in Seq(Byte) /\ asm \in Seq(Byte)
        BY DEF TypeOK
    <2>2. executed' = Append(<<>>, e)
        BY <1>1, <1>3, Zenon
    <2> QED BY <2>1, <2>2, ConcatProperties
<1>4a. executed' # <<>> /\ Len(executed') = 1
    <2> HIDE DEF e
    <2> QED BY <1>4
<1>4b. Numbered(req) => executed' = <<req>>
    <2>1. SubSeq(req, 1, Len(req)) = req
        BY <1>3, SubSeqFull
    <2> QED BY <1>1, <1>3, <1>4, <2>1, ChainedPrefix, Zenon
<1> HIDE DEF e
<1>5. answer' \in Seq(Byte)
    BY <1>2, AnswersAssumption
<1>6. /\ rapdu' \in [sw : {"61", "9x"}, data : Seq(Byte)] /\ out' \in Seq(Byte)
      /\ rapdu'.data \o out' = answer'
      /\ rapdu'.sw # "61" => out' = <<>>
    BY <1>2, <1>5, SendFacts
<1>7. TypeOK'
    <2>1. executed' \in Seq(Seq(Byte))
        BY <1>4
    <2> QED BY <1>1, <1>5, <1>6, <2>1, EmptySeq DEF TypeOK
<1>8. Position' /\ Unsent'
    BY <1>1 DEF Position, Unsent, InBlock
<1>9. Assembly'
    BY <1>1, <1>4a, Zenon DEF Assembly
<1>10. Answering'
    <2>1. resp' \o (rapdu'.data \o out') = answer'
        <3>1. <<>> \o answer' = answer'
            BY <1>5, ConcatEmptySeq, Zenon
        <3> QED BY <1>1, <1>3, <1>6, <3>1
    <2> QED BY <1>1, <1>3, <1>4a, <1>6, <2>1 DEF Answering
<1>11. AtMostOnce' /\ OkMeansExecuted' /\ (pc # "idle" => ret = "none")'
    <2>1. Numbered(req)' <=> Numbered(req)
        BY <1>1 DEF Numbered
    <2>2. pc = "card" /\ ret = "none" /\ ret' = "none"
        BY <1>1
    <2> QED BY <1>1, <1>4a, <1>4b, <2>1, <2>2 DEF AtMostOnce, OkMeansExecuted
<1> QED BY <1>7, <1>8, <1>9, <1>10, <1>11

\* GET RESPONSE moves bytes from the card onto the wire and loses none.
LEMMA CardSendsMoreKeeps ==
    ASSUME IInv, CardSendsMore
    PROVE  IInv'
<1> USE DEF IInv
<1>1. /\ pc = "card" /\ apdu.kind = "get" /\ pc' = "answer"
      /\ UNCHANGED <<req, inPlace, body, off, reqLen, rlen, reqseq, apdu, resp, ret,
                     asm, expect, executed, answer>>
    BY DEF CardSendsMore, HostWaits
<1>2. PICK k \in 1..Len(out) : Send(k, out)
    BY DEF CardSendsMore
<1>3. executed # <<>> /\ reqLen = 0 /\ resp \o out = answer
    BY <1>1 DEF Answering
<1>4. /\ rapdu' \in [sw : {"61", "9x"}, data : Seq(Byte)] /\ out' \in Seq(Byte)
      /\ rapdu'.data \o out' = out
      /\ rapdu'.sw # "61" => out' = <<>>
    <2>1. out \in Seq(Byte) /\ Len(out) \in Nat
        BY LenProperties DEF TypeOK
    <2>2. k \in 0..Len(out)
        BY <2>1
    <2> QED BY <1>2, <2>1, <2>2, SendFacts
<1>5. TypeOK'
    BY <1>1, <1>4 DEF TypeOK
<1>6. Position' /\ Unsent'
    BY <1>1, Zenon DEF Position, Unsent, InBlock
<1>7. Assembly'
    BY <1>1, <1>3, Zenon DEF Assembly
<1>8. Answering'
    BY <1>1, <1>3, <1>4 DEF Answering
<1>9. AtMostOnce' /\ OkMeansExecuted' /\ (pc # "idle" => ret = "none")'
    BY <1>1, Zenon DEF AtMostOnce, OkMeansExecuted
<1> QED BY <1>5, <1>6, <1>7, <1>8, <1>9
-----------------------------------------------------------------------------
(* The theorems.                                                           *)

\* euicc_init leaves the transport idle, with nothing sent or executed.
LEMMA InitEstablishes == Init => IInv
<1> SUFFICES ASSUME Init PROVE IInv
    OBVIOUS
<1>1. body \in Seq(Byte) /\ Len(body) = BodyCap
    <2>1. body \in [1..BodyCap -> Byte] /\ BodyCap \in Nat
        BY ByteAssumption, MssAssumption, Zenon DEF Init
    <2> QED BY <2>1
<1>2. TypeOK
    BY <1>1, EmptySeq, Zenon DEF Init, TypeOK, NoApdu, NoRapdu
<1> QED BY <1>2 DEF Init, IInv, Position, Unsent, Assembly, Answering, AtMostOnce, OkMeansExecuted, InBlock

\* No step of es10x_command, of a caller, of the link or of the card breaks the
\* invariant.
LEMMA NextPreserves == IInv /\ [Next]_vars => IInv'
<1> SUFFICES ASSUME IInv, [Next]_vars PROVE IInv'
    OBVIOUS
<1>1. CASE \E r \in Requests, ip \in BOOLEAN : Call(r, ip)
    BY <1>1, CallKeeps
<1>2. CASE BuildRequest
    BY <1>2, BuildRequestKeeps
<1>3. CASE ContinueRead
    BY <1>3, ContinueReadKeeps
<1>4. CASE BlockDone
    BY <1>4, BlockDoneKeeps
<1>5. CASE Return
    BY <1>5, ReturnKeeps
<1>6. CASE BadStatus \/ CallbackFails \/ CommandLost \/ AnswerLost
    BY <1>6, FailKeeps DEF BadStatus, CallbackFails, CommandLost, AnswerLost
<1>7. CASE CardTakesBlock
    BY <1>7, CardTakesBlockKeeps
<1>8. CASE CardExecutes
    BY <1>8, CardExecutesKeeps
<1>9. CASE CardSendsMore
    BY <1>9, CardSendsMoreKeeps
<1>10. CASE CardRefuses
    BY <1>10, CardRefusesKeeps
<1>11. CASE UNCHANGED vars
    <2> USE <1>11 DEF vars, hostVars, cardVars, IInv
    <2>1. TypeOK' /\ (pc # "idle" => ret = "none")'
        BY DEF TypeOK
    <2>2. Position' /\ Unsent'
        BY Zenon DEF Position, Unsent, InBlock
    <2>3. Assembly' /\ Answering'
        BY Zenon DEF Assembly, Answering
    <2>4. AtMostOnce' /\ OkMeansExecuted'
        BY DEF AtMostOnce, OkMeansExecuted
    <2> QED BY <2>1, <2>2, <2>3, <2>4
<1> QED BY <1>1, <1>2, <1>3, <1>4, <1>5, <1>6, <1>7, <1>8, <1>9, <1>10, <1>11 DEF Next, Host, Card

\* The invariant that the properties of es10x_command rest on holds throughout.
THEOREM Inductive == Spec => []IInv
<1>1. Init => IInv
    BY InitEstablishes
<1>2. IInv /\ [Next]_vars => IInv'
    BY NextPreserves
<1> QED BY <1>1, <1>2, PTL DEF Spec

\* The variables of es10x_command and of the card keep their types; in
\* particular request_buffer.body is never written past its end.
THEOREM TypeCorrect == Spec => []TypeOK
<1>1. IInv => TypeOK
    BY DEF IInv
<1> QED BY <1>1, Inductive, PTL

\* When es10x_command succeeds the card executed one request, the one of this
\* call if its blocks can be numbered, and the caller has the whole answer, for
\* every block size.
THEOREM OkIsExecuted == Spec => []OkMeansExecuted
<1>1. IInv => OkMeansExecuted
    BY DEF IInv
<1> QED BY <1>1, Inductive, PTL

\* Whether es10x_command succeeds or fails, nothing is executed twice and no part
\* of a request whose blocks can be numbered is ever executed.
THEOREM NeverTwice == Spec => []AtMostOnce
<1>1. IInv => AtMostOnce
    BY DEF IInv
<1> QED BY <1>1, Inductive, PTL

\* Sending an in-place request block by block never overwrites bytes of it
\* that are still to be sent.
THEOREM UnsentBytesSurvive == Spec => []TailIntact
<1>1. IInv => TailIntact
    BY DEF IInv, Unsent, TailIntact
<1> QED BY <1>1, Inductive, PTL

\* es10x_command_buildrequest calls memcpy on overlapping memory only to copy
\* the head of the buffer onto itself.
THEOREM OverlapsAreSelfCopies == Spec => []OverlapIsSelfCopy
<1>1. IInv => OverlapIsSelfCopy
    <2> SUFFICES ASSUME IInv, pc = "segment", reqLen > 0, inPlace, off # 0 PROVE ~(off < BlockLen)
        BY DEF OverlapIsSelfCopy, Overlap
    <2>1. off = Mss * reqseq /\ off \in Nat /\ reqseq \in Nat /\ reqLen \in Nat
        BY DEF IInv, TypeOK, Position
    <2>2. reqseq >= 1
        BY <2>1, MssAssumption
    <2>3. Mss * reqseq >= Mss
        BY <2>1, <2>2, MssAssumption
    <2>4. BlockLen <= Mss /\ BlockLen \in Nat
        BY <2>1, MssAssumption DEF BlockLen
    <2> QED BY <2>1, <2>3, <2>4, MssAssumption
<1> QED BY <1>1, Inductive, PTL

\* Every STORE DATA that es10x_command hands to the driver carries the next bytes
\* of the caller's request, and P1 says last at its end and nowhere else.
THEOREM BlocksAreSlices == Spec => []BlockIsNextSlice
<1>1. IInv => BlockIsNextSlice
    <2> SUFFICES ASSUME IInv, pc = "card", apdu.kind = "store"
                 PROVE  apdu.data = SubSeq(req, off + 1, off + rlen) /\ (apdu.last <=> off + rlen = Len(req))
        BY DEF BlockIsNextSlice
    <2>1. apdu.data = SubSeq(req, off + 1, off + rlen) /\ (apdu.last <=> reqLen = 0)
        BY DEF IInv, Assembly
    <2>2. off + rlen + reqLen = Len(req) /\ off \in Nat /\ rlen \in Nat /\ reqLen \in Nat
        BY DEF IInv, TypeOK, Position, InBlock
    <2>3. reqLen = 0 <=> off + rlen = Len(req)
        BY <2>2
    <2> QED BY <2>1, <2>3, Zenon
<1> QED BY <1>1, Inductive, PTL

\* Whatever the block size and the request, the blocks that are sent are the
\* caller's bytes, and the buffer they are cut from still holds the others.
THEOREM BlocksSound == Spec => []BlocksAreSound
<1>1. TailIntact /\ OverlapIsSelfCopy /\ BlockIsNextSlice => BlocksAreSound
    BY DEF BlocksAreSound
<1> QED BY <1>1, UnsentBytesSurvive, OverlapsAreSelfCopies, BlocksAreSlices, PTL

\* es10x_command implements Es10xCommand: blocks, GET RESPONSEs and the card's
\* chaining are invisible to a caller.
THEOREM ImplementsPromise == Spec => Implements
<1>1. Init => Promise!Init
    BY Zenon DEF Init, Promise!Init
<1>2. IInv /\ IInv' /\ [Next]_vars => [Promise!Next]_(Promise!vars)
    <2> SUFFICES ASSUME IInv, IInv', [Next]_vars PROVE [Promise!Next]_(Promise!vars)
        OBVIOUS
    <2> USE DEF Promise!vars
    <2>1. CASE \E r \in Requests, ip \in BOOLEAN : Call(r, ip)
        <3>1. Promise!Call
            BY <2>1, Zenon DEF Call, Promise!Call
        <3> QED BY <3>1 DEF Promise!Next
    <2>2. CASE BuildRequest \/ ContinueRead \/ BlockDone
        <3>1. ret = "none"
            BY <2>2 DEF IInv, BuildRequest, ContinueRead, BlockDone
        <3> QED BY <2>2, <3>1, Zenon DEF BuildRequest, ContinueRead, BlockDone, cardVars
    <2>3. CASE Return
        <3>1. executed # <<>> /\ resp = answer
            BY <2>3 DEF Return, cardVars, IInv, OkMeansExecuted
        <3>2. ret = "none"
            BY <2>3, Zenon DEF IInv, Return
        <3>3. Promise!Succeed
            BY <2>3, <3>1, <3>2 DEF Return, cardVars, Promise!Succeed
        <3> QED BY <3>3 DEF Promise!Next
    <2>4. CASE BadStatus \/ CallbackFails \/ CommandLost \/ AnswerLost
        <3>1. pc # "idle" /\ Fail /\ UNCHANGED cardVars /\ ret = "none"
            BY <2>4 DEF BadStatus, CallbackFails, CommandLost, AnswerLost, IInv
        <3>2. Promise!Fail
            BY <3>1, Zenon DEF Fail, cardVars, Promise!Fail
        <3> QED BY <3>2, Zenon DEF Promise!Next
    <2>5. CASE CardTakesBlock \/ CardSendsMore \/ CardRefuses
        BY <2>5 DEF CardTakesBlock, CardSendsMore, CardRefuses, HostWaits
    <2>6. CASE CardExecutes
        <3>1. pc = "card" /\ pc' = "answer" /\ UNCHANGED <<req, resp, ret>> /\ answer' \in Answers
            BY <2>6 DEF CardExecutes, HostWaits
        <3>2. executed = <<>> /\ executed' # <<>>
            <4>1. executed = <<>>
                BY <2>6 DEF CardExecutes, IInv, Assembly
            <4>2. PICK e : executed' = Append(executed, e)
                BY <2>6, Zenon DEF CardExecutes
            <4> QED BY <4>1, <4>2
        <3>3. Len(executed') = 1 /\ (Numbered(req) => executed' = <<req>>)
            <4>1. executed' \in Seq(Seq(Byte)) /\ Len(executed') <= 1 /\ (Numbered(req)' => executed' \in {<<>>, <<req>>})
                BY <3>1 DEF IInv, AtMostOnce, TypeOK
            <4>2. Len(executed') = 1
                BY <3>2, <4>1, ExactlyOne
            <4>3. Numbered(req)' <=> Numbered(req)
                BY <3>1 DEF Numbered
            <4> QED BY <3>2, <4>1, <4>2, <4>3, Zenon
        <3>4. Promise!Execute
            BY <3>1, <3>2, <3>3 DEF Promise!Execute
        <3> QED BY <3>4 DEF Promise!Next
    <2>7. CASE UNCHANGED vars
        BY <2>7 DEF vars, hostVars, cardVars
    <2> QED BY <2>1, <2>2, <2>3, <2>4, <2>5, <2>6, <2>7 DEF Next, Host, Card
<1> QED BY <1>1, <1>2, Inductive, PTL DEF Spec, Implements, Promise!Spec
=============================================================================

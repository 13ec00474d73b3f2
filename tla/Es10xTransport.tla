--------------------------- MODULE Es10xTransport ---------------------------
(***************************************************************************)
(* The ES10x command transport of libeuicc: es10x_command and everything   *)
(* below it in euicc.c and interface.c.  A DER request is cut into STORE   *)
(* DATA blocks of at most ctx->es10x_mss bytes, every block goes out       *)
(* through the one request_buffer of the context, and the answer is pulled *)
(* with GET RESPONSE while the card says 61xx.                             *)
(*                                                                         *)
(* Most callers pack their request into request_buffer.body and pass that  *)
(* same buffer as der_req (inPlace): block k is then copied from the tail  *)
(* of the buffer onto its head while the rest of the request still sits    *)
(* there.                                                                  *)
(***************************************************************************)
EXTENDS Integers, Sequences

CONSTANTS
    Mss,        \* ctx->es10x_mss, the most data bytes of one block
    P2Mod,      \* number of values of the uint8_t P2 (256 in the code)
    BodyCap,    \* sizeof request_buffer.body (255 in the code)
    Byte,       \* the values of a data byte
    Requests,   \* the DER requests callers pass
    Answers     \* the answers a card gives to an executed request

ASSUME ByteAssumption == 0 \in Byte

\* setup_es10x_mss keeps the size within one byte, so within the buffer.
ASSUME MssAssumption == Mss \in Nat \ {0} /\ BodyCap \in Nat /\ Mss <= BodyCap

\* A request is DER, so never empty.  Its length has no bound.
ASSUME RequestsAssumption ==
    /\ P2Mod \in Nat \ {0}
    /\ Requests \subseteq Seq(Byte)
    /\ \A r \in Requests : Len(r) > 0

ASSUME AnswersAssumption == Answers \subseteq Seq(Byte) /\ Answers # {}

VARIABLES
    pc,         \* where es10x_command stands
    req,        \* the request of the current call, as the caller built it
    inPlace,    \* der_req is request_buffer.body itself
    body,       \* request_buffer.body
    off,        \* req_ptr - der_req
    reqLen,     \* req_len, the bytes not yet cut off
    rlen,       \* rlen, the length of the block being sent
    reqseq,     \* reqseq
    apdu,       \* the command APDU handed to the driver
    rapdu,      \* the response APDU being looked at
    resp,       \* ud.resp
    ret,        \* what es10x_command returned last
    asm,        \* card: the blocks of the chain received so far
    expect,     \* card: block number of the next block of the chain
    out,        \* card: answer bytes not fetched yet
    executed,   \* card: the requests executed since the call began
    answer      \* card: the whole answer to the last executed request

hostVars == <<pc, req, inPlace, body, off, reqLen, rlen, reqseq, apdu, rapdu, resp, ret>>
cardVars == <<asm, expect, out, executed, answer>>
vars == <<hostVars, cardVars>>

NoApdu == [kind |-> "none", last |-> FALSE, p2 |-> 0, data |-> <<>>]
NoRapdu == [sw |-> "none", data |-> <<>>]

\* Every variable keeps its type; in particular request_buffer.body keeps its
\* size, so es10x_command and its callers never write past its end.
TypeOK ==
    /\ pc \in {"idle", "segment", "card", "answer"}
    /\ req \in Seq(Byte)
    /\ inPlace \in BOOLEAN
    /\ body \in Seq(Byte) /\ Len(body) = BodyCap
    /\ off \in Nat /\ reqLen \in Nat /\ rlen \in Nat /\ reqseq \in Nat
    /\ apdu \in [kind : {"none", "store", "get"}, last : BOOLEAN, p2 : Nat, data : Seq(Byte)]
    /\ rapdu \in [sw : {"none", "61", "9x", "err"}, data : Seq(Byte)]
    /\ resp \in Seq(Byte)
    /\ ret \in {"none", "ok", "fail"}
    /\ asm \in Seq(Byte) /\ expect \in Nat
    /\ out \in Seq(Byte) /\ answer \in Seq(Byte)
    /\ executed \in Seq(Seq(Byte))

Init ==
    /\ pc = "idle" /\ ret = "none"
    /\ req = <<>> /\ inPlace = FALSE
    /\ body = [i \in 1..BodyCap |-> 0]
    /\ off = 0 /\ reqLen = 0 /\ rlen = 0 /\ reqseq = 0
    /\ apdu = NoApdu /\ rapdu = NoRapdu /\ resp = <<>>
    /\ asm = <<>> /\ expect = 0 /\ out = <<>> /\ executed = <<>> /\ answer = <<>>

-----------------------------------------------------------------------------
(* The host: es10x_command and the functions it calls.                     *)

\* buf with its first Len(s) bytes replaced by s.
Overlay(s, buf) == s \o SubSeq(buf, Len(s) + 1, Len(buf))

\* Mutant of Call: the request is packed without looking at the size of body.
CallUnbounded(r, ip) ==
    /\ pc = "idle"
    /\ pc' = "segment" /\ ret' = "none"
    /\ req' = r /\ inPlace' = ip
    /\ body' = IF ip THEN Overlay(r, body) ELSE body
    /\ off' = 0 /\ reqLen' = Len(r) /\ rlen' = 0 /\ reqseq' = 0
    /\ resp' = <<>> /\ apdu' = NoApdu /\ rapdu' = NoRapdu
    /\ executed' = <<>>
    /\ UNCHANGED <<asm, expect, out, answer>>

\* A caller enters es10x_command, having packed r into request_buffer.body
\* (euicc_derutil_pack refuses what does not fit) or into memory of its own.
Call(r, ip) ==
    /\ pc = "idle"
    /\ ip => Len(r) <= BodyCap
    /\ pc' = "segment" /\ ret' = "none"
    /\ req' = r /\ inPlace' = ip
    /\ body' = IF ip THEN Overlay(r, body) ELSE body
    /\ off' = 0 /\ reqLen' = Len(r) /\ rlen' = 0 /\ reqseq' = 0
    /\ resp' = <<>> /\ apdu' = NoApdu /\ rapdu' = NoRapdu
    /\ executed' = <<>>
    /\ UNCHANGED <<asm, expect, out, answer>>

\* The bytes der_req points at.
Source == IF inPlace THEN body ELSE req

\* rlen: a full block while more than one block is left.
BlockLen == IF reqLen > Mss THEN Mss ELSE reqLen

\* memcpy onto the head of body from body itself, at a distance smaller than
\* the copy, which the C standard leaves undefined.  Distance zero, the first
\* block of every in-place request, is such a copy too.
Overlap(n) == inPlace /\ off < n

\* What memcpy may leave in the block of n bytes.  In whatever order it moves
\* them, a copy of body onto itself stores every byte where it was read; at
\* any other distance below n the order shows.
BlockData(n) ==
    IF Overlap(n) /\ off > 0 THEN [1..n -> Byte] ELSE {SubSeq(Source, off + 1, off + n)}

\* Mutants of BuildRequest: P1 always says last block; request_buffer is
\* cleared before the block is put into it.
BuildRequestWith(last, buf) ==
    /\ pc = "segment" /\ reqLen > 0
    /\ rlen' = BlockLen
    /\ \E d \in BlockData(BlockLen) :
          /\ body' = Overlay(d, buf)
          /\ apdu' = [kind |-> "store", last |-> last, p2 |-> reqseq % P2Mod, data |-> d]
    /\ reqLen' = reqLen - BlockLen
    /\ pc' = "card"
    /\ UNCHANGED <<req, inPlace, off, reqseq, rapdu, resp, ret, cardVars>>
BuildRequestAllLast == BuildRequestWith(TRUE, body)
BuildRequestClears == BuildRequestWith(reqLen <= Mss, [i \in 1..BodyCap |-> 0])

\* es10x_command_iter, up to es10x_transmit_iter: header and data of the next
\* block are put into request_buffer and the block is sent.
BuildRequest ==
    /\ pc = "segment" /\ reqLen > 0
    /\ rlen' = BlockLen
    /\ \E d \in BlockData(BlockLen) :
          /\ body' = Overlay(d, body)
          /\ apdu' = [kind |-> "store", last |-> reqLen <= Mss, p2 |-> reqseq % P2Mod, data |-> d]
    /\ reqLen' = reqLen - BlockLen
    /\ pc' = "card"
    /\ UNCHANGED <<req, inPlace, off, reqseq, rapdu, resp, ret, cardVars>>

\* Mutant of Fail: fret keeps the 0 it was initialised with.
FailReturnsZero ==
    /\ pc' = "idle" /\ ret' = "ok" /\ resp' = <<>>
    /\ UNCHANGED <<req, inPlace, body, off, reqLen, rlen, reqseq, apdu, rapdu>>

\* es10x_command gives up: ud.resp is freed and nothing is returned.
Fail ==
    /\ pc' = "idle" /\ ret' = "fail" /\ resp' = <<>>
    /\ UNCHANGED <<req, inPlace, body, off, reqLen, rlen, reqseq, apdu, rapdu>>

\* iter_es10x_command: realloc failed.
CallbackFails ==
    /\ pc = "answer" /\ rapdu.data # <<>>
    /\ Fail /\ UNCHANGED cardVars

\* 61xx: the data is appended and GET RESPONSE overwrites the header of
\* request_buffer, not its body.
ContinueRead ==
    /\ pc = "answer" /\ rapdu.sw = "61"
    /\ resp' = resp \o rapdu.data
    /\ apdu' = [kind |-> "get", last |-> FALSE, p2 |-> 0, data |-> <<>>]
    /\ pc' = "card"
    /\ UNCHANGED <<req, inPlace, body, off, reqLen, rlen, reqseq, rapdu, ret, cardVars>>

\* Mutant of BlockDone: the data of the last piece is dropped.
BlockDoneDropsData ==
    /\ pc = "answer" /\ rapdu.sw = "9x"
    /\ off' = off + rlen /\ reqseq' = reqseq + 1
    /\ pc' = "segment"
    /\ UNCHANGED <<req, inPlace, body, reqLen, rlen, apdu, rapdu, resp, ret, cardVars>>

\* 9xxx: the block is done, es10x_command_iter goes on to the next.
BlockDone ==
    /\ pc = "answer" /\ rapdu.sw = "9x"
    /\ resp' = resp \o rapdu.data
    /\ off' = off + rlen /\ reqseq' = reqseq + 1
    /\ pc' = "segment"
    /\ UNCHANGED <<req, inPlace, body, reqLen, rlen, apdu, rapdu, ret, cardVars>>

\* Mutant of BadStatus: the APDU is sent again until the card takes it.
BadStatusRetries ==
    /\ pc = "answer" /\ rapdu.sw = "err"
    /\ pc' = "card"
    /\ UNCHANGED <<req, inPlace, body, off, reqLen, rlen, reqseq, apdu, rapdu, resp, ret, cardVars>>

\* Any other status word.
BadStatus ==
    /\ pc = "answer" /\ rapdu.sw = "err"
    /\ Fail /\ UNCHANGED cardVars

\* No bytes are left: resp is handed to the caller.
Return ==
    /\ pc = "segment" /\ reqLen = 0
    /\ pc' = "idle" /\ ret' = "ok"
    /\ UNCHANGED <<req, inPlace, body, off, reqLen, rlen, reqseq, apdu, rapdu, resp, cardVars>>

-----------------------------------------------------------------------------
(* The card and the link to it (external): the chain rules the P1 and P2   *)
(* the code sends presuppose, and an answer given in pieces.               *)

\* The card answers with the first k bytes of o and keeps the rest.
Send(k, o) ==
    /\ rapdu' = [sw |-> IF k < Len(o) THEN "61" ELSE "9x", data |-> SubSeq(o, 1, k)]
    /\ out' = SubSeq(o, k + 1, Len(o))

HostWaits == UNCHANGED <<req, inPlace, body, off, reqLen, rlen, reqseq, apdu, resp>>

\* A block of a chain that goes on.
CardTakesBlock ==
    /\ pc = "card" /\ apdu.kind = "store" /\ ~apdu.last
    /\ apdu.p2 \in {0, expect}
    /\ asm' = IF apdu.p2 = 0 THEN apdu.data ELSE asm \o apdu.data
    /\ expect' = apdu.p2 + 1
    /\ Send(0, <<>>)
    /\ pc' = "answer" /\ UNCHANGED <<ret, executed, answer>> /\ HostWaits

\* The last block: the assembled request is executed.
CardExecutes ==
    /\ pc = "card" /\ apdu.kind = "store" /\ apdu.last
    /\ apdu.p2 \in {0, expect}
    /\ executed' = Append(executed, IF apdu.p2 = 0 THEN apdu.data ELSE asm \o apdu.data)
    /\ asm' = <<>> /\ expect' = 0
    /\ \E a \in Answers : answer' = a /\ \E k \in 0..Len(a) : Send(k, a)
    /\ pc' = "answer" /\ UNCHANGED ret /\ HostWaits

\* GET RESPONSE: at least one byte of what is left.
CardSendsMore ==
    /\ pc = "card" /\ apdu.kind = "get"
    /\ \E k \in 1..Len(out) : Send(k, out)
    /\ pc' = "answer" /\ UNCHANGED <<ret, asm, expect, executed, answer>> /\ HostWaits

\* The card refuses the APDU.
CardRefuses ==
    /\ pc = "card"
    /\ rapdu' = [sw |-> "err", data |-> <<>>] /\ out' = <<>>
    /\ pc' = "answer" /\ UNCHANGED <<ret, asm, expect, executed, answer>> /\ HostWaits

\* The driver's transmit fails before the card saw the APDU.
CommandLost == pc = "card" /\ Fail /\ UNCHANGED cardVars

\* The driver's transmit fails, or returns fewer than the two bytes of the
\* status word, after the card acted.
AnswerLost == pc = "answer" /\ Fail /\ UNCHANGED cardVars

-----------------------------------------------------------------------------
Host == BuildRequest \/ ContinueRead \/ BlockDone \/ BadStatus \/ Return
Card == CardTakesBlock \/ CardExecutes \/ CardSendsMore \/ CardRefuses

Next ==
    \/ \E r \in Requests, ip \in BOOLEAN : Call(r, ip)
    \/ Host \/ CallbackFails
    \/ Card \/ CommandLost \/ AnswerLost

Spec == Init /\ [][Next]_vars

\* The library runs and a card answers; nobody has to call again.
FairSpec == Spec /\ WF_vars(Host) /\ WF_vars(Card \/ CommandLost)
-----------------------------------------------------------------------------
(* Properties.                                                             *)

\* The blocks of r have numbers of their own.  reqseq is cut to the uint8_t P2,
\* and nothing in the code keeps a request from having more blocks: of a longer
\* one the card takes the second block 0 for the beginning of a new chain.
Numbered(r) == Len(r) <= Mss * P2Mod

\* A successful es10x_command: the card executed one request, exactly the
\* caller's if its blocks could be numbered, and resp is the card's answer with
\* no piece of it missing, repeated or left over from an earlier call, however
\* many blocks and GET RESPONSEs it took and whatever an earlier failed call, of
\* a request of any length, left in the card.
OkMeansExecuted ==
    ret = "ok" => /\ Len(executed) = 1 /\ resp = answer
                  /\ Numbered(req) => executed = <<req>>

\* Nothing in the transport sends a request again: a call that fails, too, has
\* executed at most one request, and never a part of one whose blocks could be
\* numbered.
AtMostOnce ==
    /\ Len(executed) <= 1
    /\ Numbered(req) => executed \in {<<>>, <<req>>}

\* Cutting an in-place request into blocks destroys only what was already
\* sent: the bytes of request_buffer.body from req_ptr on are the caller's.
TailIntact ==
    (inPlace /\ pc # "idle") =>
        \A i \in 1..Len(req) : i > (IF pc = "segment" THEN off ELSE off + rlen) => body[i] = req[i]

\* The memcpy of es10x_command_buildrequest has overlapping operands only where
\* they are the same memory, so that every order of copying has one result.
OverlapIsSelfCopy == pc = "segment" /\ reqLen > 0 /\ Overlap(BlockLen) => off = 0

\* The block that goes to the driver is the next slice of what the caller built,
\* and P1 marks it as the last one exactly if nothing of the request is left.
BlockIsNextSlice ==
    pc = "card" /\ apdu.kind = "store" =>
        apdu.data = SubSeq(req, off + 1, off + rlen) /\ (apdu.last <=> off + rlen = Len(req))

\* Every block that es10x_command_buildrequest cuts is the caller's, although it
\* is cut from the buffer that the blocks before it were copied into, with a
\* function that is not made for that.
BlocksAreSound == TailIntact /\ OverlapIsSelfCopy /\ BlockIsNextSlice

\* Every call returns: no run of 61xx answers keeps es10x_transmit_iter
\* fetching for ever, as a card has only so many bytes to give.
CallReturns == pc # "idle" ~> pc = "idle"

\* es10x_command implements what Es10xCommand promises its callers.
Promise == INSTANCE Es10xCommand WITH
    Whole <- {r \in Requests : Numbered(r)},
    busy <- pc # "idle",
    resp <- IF ret = "ok" THEN resp ELSE <<>>
Implements == Promise!Spec
=============================================================================

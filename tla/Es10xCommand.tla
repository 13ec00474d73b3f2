---------------------------- MODULE Es10xCommand ----------------------------
(***************************************************************************)
(* What es10x_command promises its callers (es10a.c, es10b.c, es10c.c): a  *)
(* call that succeeds has had its request executed by the card, whole and  *)
(* exactly once, and hands back the card's whole answer; a call that fails *)
(* may or may not have been executed, but never twice.  A request that is  *)
(* too long to arrive whole is promised only that one thing is executed.   *)
(***************************************************************************)
EXTENDS Sequences

CONSTANTS
    Requests,   \* the DER requests callers pass
    Whole,      \* those of them that arrive whole
    Answers     \* the answers a card gives

VARIABLES
    busy,       \* a call is under way
    req,        \* its request
    executed,   \* the requests the card executed for it
    answer,     \* the card's answer to the last executed request
    ret,        \* what the last call returned
    resp        \* the answer handed to the caller

vars == <<busy, req, executed, answer, ret, resp>>

Init ==
    /\ busy = FALSE /\ req = <<>> /\ executed = <<>> /\ answer = <<>>
    /\ ret = "none" /\ resp = <<>>

Call ==
    /\ ~busy /\ busy' = TRUE
    /\ req' \in Requests
    /\ executed' = <<>> /\ ret' = "none" /\ resp' = <<>>
    /\ UNCHANGED answer

Execute ==
    /\ busy /\ executed = <<>>
    /\ Len(executed') = 1 /\ (req \in Whole => executed' = <<req>>)
    /\ answer' \in Answers
    /\ UNCHANGED <<busy, req, ret, resp>>

Succeed ==
    /\ busy /\ executed # <<>>
    /\ busy' = FALSE /\ ret' = "ok" /\ resp' = answer
    /\ UNCHANGED <<req, executed, answer>>

Fail ==
    /\ busy
    /\ busy' = FALSE /\ ret' = "fail"
    /\ UNCHANGED <<req, executed, answer, resp>>

Next == Call \/ Execute \/ Succeed \/ Fail

Spec == Init /\ [][Next]_vars
=============================================================================

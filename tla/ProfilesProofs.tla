--------------------------- MODULE ProfilesProofs ---------------------------
(***************************************************************************)
(* What the profile commands print is true, and they act on the profile    *)
(* that their text names, for any number of processes, profiles, faults    *)
(* and commands.  One invariant follows a command from its request to the  *)
(* print: what ret says of what the eUICC decided.  The other ties the     *)
(* request to the text it was made from, and CodecProofs ties that text to *)
(* the one that `profile list` prints.                                     *)
(***************************************************************************)
EXTENDS Profiles, CodecProofs

\* What an eUICC may decide on each operation, whatever its profiles.
Possible(op) ==
    CASE op = "enable"   -> {"undefined", "done", "notfound", "wrongstate", "policy", "reenabling", "busy"}
      [] op = "disable"  -> {"undefined", "done", "notfound", "wrongstate", "policy", "busy"}
      [] op = "delete"   -> {"undefined", "done", "notfound", "wrongstate", "policy"}
      [] op = "nickname" -> {"undefined", "done", "notfound"}
      [] op = "purge"    -> {"undefined", "done", "nothing", "busy"}
      [] OTHER           -> {"undefined", "done"}

Domains ==
    /\ DOMAIN line = Procs /\ DOMAIN pc = Procs /\ DOMAIN ret = Procs
    /\ DOMAIN printed = Procs /\ DOMAIN verdict = Procs /\ DOMAIN lost = Procs

\* Queries of list and info decide nothing.
Asks(p) == line[p].op \notin {"list", "info"}

\* ret against the decision: the decision's code, or -1 for one that was not made
\* or whose answer was lost.
Sound(p) ==
    \/ ret[p] = -1 /\ (verdict[p] = "none" \/ lost[p])
    \/ verdict[p] \in Possible(line[p].op) /\ ret[p] = Code(verdict[p])

\* A command that is under way has printed nothing, and what has been printed is
\* true of the decision.
Local(p) ==
    /\ line[p].op \in Ops \cup {"none"}
    /\ pc[p] = "send" => verdict[p] = "none" /\ ~lost[p] /\ line[p].op \in Ops
    /\ pc[p] = "report" /\ Asks(p) => Sound(p) /\ line[p].op \in Ops
    /\ pc[p] = "report" /\ ~Asks(p) => ret[p] \in {0, -1}
    /\ pc[p] \in {"send", "report"} => printed[p] = "silent"
    /\ ~Asks(p) => verdict[p] = "none"
    /\ printed[p] = "success" /\ Asks(p) => verdict[p] = "done"
    /\ printed[p] \in Reasons => verdict[p] = printed[p]
    /\ printed[p] \in {"internal", "unknown"} /\ verdict[p] = "done" => lost[p]
    /\ printed[p] \in {"usage", "canceled"} => verdict[p] = "none"

IInv == Domains /\ \A p \in Procs : Local(p)

\* Nothing of process q changes.
Same(q) ==
    /\ line'[q] = line[q] /\ pc'[q] = pc[q] /\ ret'[q] = ret[q]
    /\ printed'[q] = printed[q] /\ verdict'[q] = verdict[q] /\ lost'[q] = lost[q]

-----------------------------------------------------------------------------
\* An eUICC decides only what is possible for the operation (Decisions).
LEMMA DecisionsPossible ==
    ASSUME NEW op \in Ops \ {"list", "info"}, NEW r
    PROVE  Decisions(op, r) \subseteq Possible(op)
<1>1. CASE op \in Identified \cup {"nickname"}
    <2>1. ASSUME NEW q PROVE OnProfile(op, q) \subseteq Possible(op)
        <3>1. CASE op = "enable"
            BY <3>1 DEF OnProfile, Possible
        <3>2. CASE op = "disable"
            BY <3>2 DEF OnProfile, Possible
        <3>3. CASE op = "delete"
            BY <3>3 DEF OnProfile, Possible
        <3>4. CASE op = "nickname"
            BY <3>4 DEF OnProfile, Possible
        <3> QED BY <1>1, <3>1, <3>2, <3>3, <3>4 DEF Identified
    <2>2. {"undefined", "notfound"} \subseteq Possible(op)
        BY <1>1 DEF Possible, Identified
    <2>3. Decisions(op, r) = {"undefined"} \cup
            (IF Named(r) = {} THEN {"notfound"} ELSE UNION {OnProfile(op, q) : q \in Named(r)})
        BY <1>1 DEF Decisions, Identified
    <2> QED BY <2>1, <2>2, <2>3
<1>2. CASE op = "purge"
    BY <1>2 DEF Decisions, Possible, Identified
<1>3. CASE op = "defaultsmdp"
    BY <1>3 DEF Decisions, Possible, Identified
<1> QED BY <1>1, <1>2, <1>3 DEF Ops

\* The switch of each applet names a decision by the text that belongs to it, or
\* says "unknown"; and no decision but "done" has the code 0.
LEMMA ReasonIsDecision ==
    ASSUME NEW op \in Ops \ {"list", "info"}, NEW v \in Possible(op)
    PROVE  /\ Code(v) = 0 <=> v = "done"
           /\ v # "done" => Reason(op, Code(v)) \in {v, "unknown"}
<1>1. v \in {"undefined", "done", "notfound", "nothing", "wrongstate", "policy", "reenabling", "busy"}
    BY DEF Possible
<1>2. /\ v = "reenabling" => op = "enable"
      /\ v \in {"wrongstate", "policy"} => op \in Identified
      /\ v = "notfound" => op \in Identified \cup {"nickname"}
      /\ v = "nothing" => op = "purge"
    BY DEF Possible, Identified
<1>3. CASE v = "done"
    BY <1>3 DEF Code
<1>4. CASE v = "notfound"
    <2>1. Code(v) = 1
        BY <1>4 DEF Code
    <2>2. Reason(op, 1) = "notfound"
        BY <1>2, <1>4 DEF Reason, Identified
    <2> QED BY <1>4, <2>1, <2>2
<1>5. CASE v = "nothing"
    <2>1. Code(v) = 1
        BY <1>5 DEF Code
    <2>2. Reason(op, 1) = "nothing"
        BY <1>2, <1>5 DEF Reason, Identified
    <2> QED BY <1>5, <2>1, <2>2
<1>6. CASE v = "wrongstate"
    <2>1. Code(v) = 2
        BY <1>6 DEF Code
    <2>2. Reason(op, 2) = "wrongstate"
        BY <1>2, <1>6 DEF Reason
    <2> QED BY <1>6, <2>1, <2>2
<1>7. CASE v = "policy"
    <2>1. Code(v) = 3
        BY <1>7 DEF Code
    <2>2. Reason(op, 3) = "policy"
        BY <1>2, <1>7 DEF Reason
    <2> QED BY <1>7, <2>1, <2>2
<1>8. CASE v = "reenabling"
    <2>1. Code(v) = 4
        BY <1>8 DEF Code
    <2>2. Reason(op, 4) = "reenabling"
        BY <1>2, <1>8 DEF Reason
    <2> QED BY <1>8, <2>1, <2>2
<1>9. CASE v \in {"busy", "undefined"}
    <2>1. Code(v) \in {5, 127}
        BY <1>9 DEF Code
    <2>2. Reason(op, 5) = "unknown" /\ Reason(op, 127) = "unknown"
        BY DEF Reason
    <2> QED BY <1>9, <2>1, <2>2
<1> QED BY <1>1, <1>3, <1>4, <1>5, <1>6, <1>7, <1>8, <1>9

\* A call that failed without a decision is reported as "internal" or "unknown".
LEMMA ReasonOfFailure ==
    ASSUME NEW op \in Ops
    PROVE  Reason(op, -1) \in {"internal", "unknown"}
    BY DEF Reason, Ops, Identified
-----------------------------------------------------------------------------
\* A step of one process leaves what is known of the others.
LEMMA OthersKeep ==
    ASSUME NEW q \in Procs, Local(q), Same(q)
    PROVE  Local(q)'
    BY DEF Local, Same, Asks, Sound

\* Nothing has been decided or printed when the processes start.
LEMMA InitEstablishes == Init => IInv
    BY DEF Init, IInv, Domains, Local, Reasons, Asks, Sound, NoLine, Ops

\* A command that ends at its arguments has printed that and decided nothing.
LEMMA SaysKeeps ==
    ASSUME IInv, NEW p \in Procs, NEW op \in Ops, NEW id, NEW flag, Begin(p, op, id, flag),
           NEW text \in {"usage", "canceled"}, Says(p, text)
    PROVE  IInv'
<1>1. Domains'
    BY DEF IInv, Domains, Begin, Says, Exits
<1>2. Local(p)'
    BY DEF IInv, Domains, Begin, Says, Exits, Local, Asks, Sound, Reasons
<1>3. ASSUME NEW q \in Procs, q # p PROVE Local(q)'
    <2>1. Same(q)
        BY <1>3 DEF IInv, Domains, Begin, Says, Exits, Same
    <2> QED BY <2>1, OthersKeep DEF IInv
<1> QED BY <1>1, <1>2, <1>3 DEF IInv

\* A command that goes out has printed nothing yet.
LEMMA SendsKeeps ==
    ASSUME IInv, NEW p \in Procs, NEW op \in Ops, NEW id, NEW flag, Begin(p, op, id, flag),
           NEW tag, NEW value, NEW refresh, Sends(p, tag, value, refresh)
    PROVE  IInv'
<1>1. Domains'
    BY Zenon DEF IInv, Domains, Begin, Sends
<1>2. Local(p)'
    BY DEF IInv, Domains, Begin, Sends, Local, Asks, Sound, Reasons
<1>3. ASSUME NEW q \in Procs, q # p PROVE Local(q)'
    <2>1. Same(q)
        BY <1>3 DEF IInv, Domains, Begin, Sends, Same
    <2> QED BY <2>1, OthersKeep DEF IInv
<1> QED BY <1>1, <1>2, <1>3 DEF IInv

\* A command with an identifier that does not convert fails undecided.
LEMMA RefusesKeeps ==
    ASSUME IInv, NEW p \in Procs, NEW op \in Ops, NEW id, NEW flag, Begin(p, op, id, flag),
           op \notin {"list", "info"}, Refuses(p)
    PROVE  IInv'
<1>1. Domains'
    BY Zenon DEF IInv, Domains, Begin, Refuses
<1>2. Local(p)'
    BY DEF IInv, Domains, Begin, Refuses, Local, Asks, Sound, Reasons
<1>3. ASSUME NEW q \in Procs, q # p PROVE Local(q)'
    <2>1. Same(q)
        BY <1>3 DEF IInv, Domains, Begin, Refuses, Same
    <2> QED BY <2>1, OthersKeep DEF IInv
<1> QED BY <1>1, <1>2, <1>3 DEF IInv

\* Whichever command a process starts, what is known of it is known afresh.
LEMMA StartKeeps ==
    ASSUME IInv, NEW p \in Procs, Start(p)
    PROVE  IInv'
<1>1. ASSUME NEW op \in Ops, Usage(p, op) PROVE IInv'
    BY <1>1, SaysKeeps DEF Usage
<1>2. ASSUME NEW op \in Ops, StartOther(p, op) PROVE IInv'
    BY <1>2, SendsKeeps DEF StartOther
<1>3. ASSUME NEW id, StartNickname(p, id) PROVE IInv'
    <2>1. "nickname" \in Ops /\ "nickname" \notin {"list", "info"}
        BY DEF Ops
    <2> QED BY <1>3, <2>1, SendsKeeps, RefusesKeeps DEF StartNickname
<1>4. ASSUME NEW id, NEW op \in Identified, NEW flag, StartIdentified(p, op, id, flag) PROVE IInv'
    <2>1. op \in Ops /\ op \notin {"list", "info"}
        BY DEF Ops, Identified
    <2> QED BY <1>4, <2>1, SendsKeeps, RefusesKeeps DEF StartIdentified
<1>5. ASSUME NEW flag, StartPurge(p, flag) PROVE IInv'
    <2>1. "purge" \in Ops
        BY DEF Ops
    <2> QED BY <1>5, <2>1, SendsKeeps, SaysKeeps DEF StartPurge
<1> QED BY <1>1, <1>2, <1>3, <1>4, <1>5 DEF Start

\* An executed command returns the code of the decision.
LEMMA ExecuteKeeps ==
    ASSUME IInv, NEW p \in Procs, Execute(p)
    PROVE  IInv'
<1>1. Domains'
    BY DEF IInv, Domains, Execute, Decides, Returns
<1>2. Local(p)'
    <2>1. PICK decision \in Decisions(line[p].op, req[p]) : Decides(p, decision) /\ Returns(p, Code(decision))
        BY Zenon DEF Execute
    <2>2. line[p].op \in Ops \ {"list", "info"}
        BY DEF IInv, Local, Execute
    <2>3. decision \in Possible(line[p].op)
        BY <2>2, DecisionsPossible
    <2> QED BY <2>1, <2>2, <2>3, Zenon DEF IInv, Domains, Execute, Decides, Returns, Local, Asks, Sound, Reasons
<1>3. ASSUME NEW q \in Procs, q # p PROVE Local(q)'
    <2>1. Same(q)
        BY <1>3, Zenon DEF IInv, Domains, Execute, Decides, Returns, Same
    <2> QED BY <2>1, OthersKeep DEF IInv
<1> QED BY <1>1, <1>2, <1>3 DEF IInv

\* A command whose answer is lost fails, marked as lost.
LEMMA ExecuteLostKeeps ==
    ASSUME IInv, NEW p \in Procs, ExecuteLost(p)
    PROVE  IInv'
<1>1. Domains'
    BY DEF IInv, Domains, ExecuteLost, Decides, Returns
<1>2. Local(p)'
    <2>1. PICK decision \in Decisions(line[p].op, req[p]) : Decides(p, decision)
        BY Zenon DEF ExecuteLost
    <2>2. line[p].op \in Ops \ {"list", "info"}
        BY DEF IInv, Local, ExecuteLost
    <2>3. decision \in Possible(line[p].op)
        BY <2>2, DecisionsPossible
    <2> QED BY <2>1, <2>2, <2>3, Zenon DEF IInv, Domains, ExecuteLost, Decides, Returns, Local, Asks, Sound, Reasons
<1>3. ASSUME NEW q \in Procs, q # p PROVE Local(q)'
    <2>1. Same(q)
        BY <1>3 DEF IInv, Domains, ExecuteLost, Decides, Returns, Same
    <2> QED BY <2>1, OthersKeep DEF IInv
<1> QED BY <1>1, <1>2, <1>3 DEF IInv

\* A request that does not arrive fails undecided.
LEMMA UndeliveredKeeps ==
    ASSUME IInv, NEW p \in Procs, Undelivered(p)
    PROVE  IInv'
<1>1. Domains'
    BY Zenon DEF IInv, Domains, Undelivered, Returns
<1>2. Local(p)'
    BY Zenon DEF IInv, Domains, Undelivered, Returns, Local, Asks, Sound, Reasons
<1>3. ASSUME NEW q \in Procs, q # p PROVE Local(q)'
    <2>1. Same(q)
        BY <1>3 DEF IInv, Domains, Undelivered, Returns, Same
    <2> QED BY <2>1, OthersKeep DEF IInv
<1> QED BY <1>1, <1>2, <1>3 DEF IInv

\* A list decides nothing.
LEMMA ListKeeps ==
    ASSUME IInv, NEW p \in Procs, List(p)
    PROVE  IInv'
<1>1. Domains'
    BY Zenon DEF IInv, Domains, List, Returns
<1>2. Local(p)'
    BY Zenon DEF IInv, Domains, List, Returns, Local, Asks, Sound, Reasons
<1>3. ASSUME NEW q \in Procs, q # p PROVE Local(q)'
    <2>1. Same(q)
        BY <1>3, Zenon DEF IInv, Domains, List, Returns, Same
    <2> QED BY <2>1, OthersKeep DEF IInv
<1> QED BY <1>1, <1>2, <1>3 DEF IInv

\* A query of chip info decides nothing.
LEMMA QueryKeeps ==
    ASSUME IInv, NEW p \in Procs, Query(p)
    PROVE  IInv'
<1>1. Domains'
    BY DEF IInv, Domains, Query, Returns
<1>2. Local(p)'
    BY DEF IInv, Domains, Query, Returns, Local, Asks, Sound, Reasons
<1>3. ASSUME NEW q \in Procs, q # p PROVE Local(q)'
    <2>1. Same(q)
        BY <1>3, Zenon DEF IInv, Domains, Query, Returns, Same
    <2> QED BY <2>1, OthersKeep DEF IInv
<1> QED BY <1>1, <1>2, <1>3 DEF IInv

\* A crash prints nothing.
LEMMA CrashKeeps ==
    ASSUME IInv, NEW p \in Procs, Crash(p)
    PROVE  IInv'
<1>1. Domains'
    BY Zenon DEF IInv, Domains, Crash, Exits
<1>2. Local(p)'
    BY Zenon DEF IInv, Domains, Crash, Exits, Local, Asks, Sound, Reasons
<1>3. ASSUME NEW q \in Procs, q # p PROVE Local(q)'
    <2>1. Same(q)
        BY <1>3, Zenon DEF IInv, Domains, Crash, Exits, Same
    <2> QED BY <2>1, OthersKeep DEF IInv
<1> QED BY <1>1, <1>2, <1>3 DEF IInv

\* A killed process has printed nothing.
LEMMA KillKeeps ==
    ASSUME IInv, NEW p \in Procs, Kill(p)
    PROVE  IInv'
<1>1. Domains'
    BY Zenon DEF IInv, Domains, Kill, Exits, NoLine
<1>2. Local(p)'
    BY Zenon DEF IInv, Domains, Kill, Exits, NoLine, Ops, Local, Asks, Sound, Reasons
<1>3. ASSUME NEW q \in Procs, q # p PROVE Local(q)'
    <2>1. Same(q)
        BY <1>3, Zenon DEF IInv, Domains, Kill, Exits, NoLine, Same
    <2> QED BY <2>1, OthersKeep DEF IInv
<1> QED BY <1>1, <1>2, <1>3 DEF IInv

\* The print (Reason) says what the eUICC decided.
LEMMA ReportKeeps ==
    ASSUME IInv, NEW p \in Procs, Report(p)
    PROVE  IInv'
<1>1. Domains'
    BY Zenon DEF IInv, Domains, Report, Exits
<1>2. Local(p)'
    <2>1. CASE ~Asks(p)
        <3>1. Reason(line[p].op, -1) = "unknown"
            BY <2>1, Zenon DEF Asks, Reason, Identified
        <3> QED BY <2>1, <3>1 DEF IInv, Domains, Report, Exits, Local, Asks, Reasons
    <2>2. CASE Asks(p) /\ ret[p] = -1 /\ (verdict[p] = "none" \/ lost[p])
        <3>1. Reason(line[p].op, -1) \in {"internal", "unknown"}
            BY <2>2, ReasonOfFailure, Zenon DEF IInv, Local, Report
        <3> QED BY <2>2, <3>1 DEF IInv, Domains, Report, Exits, Local, Asks, Reasons
    <2>3. CASE Asks(p) /\ verdict[p] \in Possible(line[p].op) /\ ret[p] = Code(verdict[p])
        <3>1. line[p].op \in Ops \ {"list", "info"}
            BY <2>3 DEF IInv, Local, Report, Asks
        <3>2. /\ ret[p] = 0 <=> verdict[p] = "done"
              /\ verdict[p] # "done" => Reason(line[p].op, ret[p]) \in {verdict[p], "unknown"}
            BY <2>3, <3>1, ReasonIsDecision
        <3>3. verdict[p] \notin {"success", "internal", "unknown", "usage", "canceled"}
            BY <2>3, Zenon DEF Possible
        <3> QED BY <2>3, <3>2, <3>3, Zenon DEF IInv, Domains, Report, Exits, Local, Asks, Reasons
    <2> QED BY <2>1, <2>2, <2>3, Zenon DEF IInv, Local, Sound, Report
<1>3. ASSUME NEW q \in Procs, q # p PROVE Local(q)'
    <2>1. Same(q)
        BY <1>3 DEF IInv, Domains, Report, Exits, Same
    <2> QED BY <2>1, OthersKeep DEF IInv
<1> QED BY <1>1, <1>2, <1>3 DEF IInv

-----------------------------------------------------------------------------
\* Every step of every process keeps the invariant.
LEMMA NextPreserves == IInv /\ [Next]_vars => IInv'
<1> SUFFICES ASSUME IInv, [Next]_vars PROVE IInv'
    OBVIOUS
<1>1. CASE UNCHANGED vars
    <2>1. \A q \in Procs : Same(q)
        BY <1>1 DEF vars, hostVars, Same
    <2>2. Domains'
        BY <1>1 DEF vars, hostVars, IInv, Domains
    <2> QED BY <2>1, <2>2, OthersKeep DEF IInv
<1>2. ASSUME NEW p \in Procs, Start(p) \/ Step(p) \/ Kill(p) PROVE IInv'
    BY <1>2, StartKeeps, ExecuteKeeps, ExecuteLostKeeps, UndeliveredKeeps, ListKeeps, QueryKeeps,
       ReportKeeps, CrashKeeps, KillKeeps, Zenon DEF Step
<1> QED BY <1>1, <1>2 DEF Next

\* What the applets print of enable, disable, delete, nickname, purge and
\* defaultsmdp is what the eUICC decided, however many processes are at work and
\* whatever fails.
THEOREM ReportsAreTrue == Spec => []ReportIsTrue
<1>1. Init => IInv
    BY InitEstablishes
<1>2. IInv /\ [Next]_vars => IInv'
    BY NextPreserves, Zenon
<1>3. IInv => ReportIsTrue
    BY Zenon DEF IInv, Local, ReportIsTrue, Asks
<1> QED BY <1>1, <1>2, <1>3, PTL DEF Spec

-----------------------------------------------------------------------------
(* Texts and the profiles they name.                                       *)

\* The bytes of an ICCID and of an AID.
LEMMA NamesTyped ==
    ASSUME NEW q \in Profiles
    PROVE  /\ Iccid[q] \in Seq(Bytes) /\ Len(Iccid[q]) = 10
           /\ Aid[q] \in Seq(Bytes) /\ Len(Aid[q]) = 16
<1>1. Iccid[q] \in [1..10 -> Bytes] /\ Aid[q] \in [1..16 -> Bytes]
    BY ProfilesAssumption, Zenon DEF Bytes
<1>2. 10 \in Nat /\ 16 \in Nat
    OBVIOUS
<1> QED BY <1>1, <1>2, Tuple, Zenon

\* The ICCID that `profile list` prints: its digits, cut where only fillers follow.
LEMMA IccidTextDigits ==
    ASSUME NEW q \in Profiles
    PROVE  \E last \in 1..20 : /\ IccidText[q] = Digits(Iccid[q], last)
                               /\ \A j \in last + 1..20 : Digit(Iccid[q], j) = 15
                               /\ IccidText[q] \in Seq(Chars) /\ Len(IccidText[q]) = last
<1> DEFINE bin == Iccid[q]
<1>1. bin \in Seq(Bytes) /\ Len(bin) = 10
    BY NamesTyped
<1>2. IccidText[q] = Bin2Gsmbcd(bin).output
    BY DEF IccidText
<1> HIDE DEF bin
<1>3. 2 * Len(bin) = 20 /\ Len(bin) > 0
    BY <1>1
<1>4. PICK last \in 1..20 : /\ Bin2Gsmbcd(bin).output = Digits(bin, last)
                            /\ \A j \in last + 1..20 : Digit(bin, j) = 15
    BY <1>1, <1>3, Trimmed, Zenon
<1>5. \A j \in 1..20 : Digit(bin, j) \in 0..15
    BY <1>1, <1>3, SwappedText, Zenon
<1>6. ASSUME NEW j \in 1..last PROVE Digit(bin, j) \in Chars
  <2>1. j \in 1..20
    BY <1>4
  <2>2. \A k \in 0..15 : k \in Chars
    BY DEF Chars, Other
  <2> QED BY <1>5, <2>1, <2>2
<1>7. Digits(bin, last) \in [1..last -> Chars] /\ last \in Nat
    BY <1>4, <1>6 DEF Digits
<1>8. Digits(bin, last) \in Seq(Chars) /\ Len(Digits(bin, last)) = last
    BY <1>7, Tuple, Zenon
<1> QED BY <1>2, <1>4, <1>8, Zenon DEF bin

\* enable, disable and delete turn the ICCID of a list into the profile's ICCID
\* (Identifier).
LEMMA IccidAccepted ==
    ASSUME NEW q \in Profiles
    PROVE  LET i == Identifier(IccidText[q]) IN i.ret = 10 /\ i.tag = "5A" /\ i.value = Iccid[q]
<1>1. Iccid[q] \in Seq(Bytes) /\ Len(Iccid[q]) = 10
    BY NamesTyped, Zenon
<1>2. PICK last \in 1..20 : Len(IccidText[q]) = last
    BY IccidTextDigits
<1>3. Len(IccidText[q]) # 32
    BY <1>2
<1>5. Gsmbcd2Bin(Bin2Gsmbcd(Iccid[q]).output, 16, 10) = [ret |-> 10, output |-> Iccid[q]]
  <2>1. 16 \in Nat /\ Len(Iccid[q]) > 0 /\ Len(Iccid[q]) <= 16
    BY <1>1
  <2> QED BY <1>1, <2>1, GsmbcdRoundTrip, Zenon
<1>6. IccidText[q] = Bin2Gsmbcd(Iccid[q]).output
    BY DEF IccidText
<1> QED BY <1>3, <1>5, <1>6 DEF Identifier

\* And the AID of a list into the profile's AID.
LEMMA AidAccepted ==
    ASSUME NEW q \in Profiles
    PROVE  LET i == Identifier(AidText[q]) IN i.ret = 16 /\ i.tag = "4F" /\ i.value = Aid[q]
<1>1. Aid[q] \in Seq(Bytes) /\ Len(Aid[q]) = 16
    BY NamesTyped
<1>2. AidText[q] = Bin2Hex(Aid[q])
    BY DEF AidText
<1>3. Len(AidText[q]) = 32
    BY <1>1, <1>2 DEF Bin2Hex
<1>4. Hex2Bin(AidText[q], 16) = [ret |-> 16, output |-> Aid[q]]
  <2>1. 16 \in Nat /\ Len(Aid[q]) <= 16
    BY <1>1
  <2> QED BY <1>1, <1>2, <2>1, HexRoundTrip, Zenon
<1> QED BY <1>3, <1>4 DEF Identifier

\* A text whose digits are those of some bytes, up to fillers, is bare the same.
LEMMA BareText ==
    ASSUME NEW bin \in Seq(Bytes), NEW n \in Nat, n = 2 * Len(bin), NEW text \in Seq(Chars), Len(text) <= n,
           \A j \in 1..n : Digit(bin, j) = IF j <= Len(text) THEN text[j] ELSE 15
    PROVE  LET stops == {0} \cup {k \in 1..n : Digit(bin, k) # 15}
           IN Bare(text) = Digits(bin, CHOOSE k \in stops : \A j \in stops : j <= k)
<1> DEFINE stops == {0} \cup {k \in 1..n : Digit(bin, k) # 15}
           digits == {0} \cup {k \in 1..Len(text) : text[k] # 15}
           last == CHOOSE k \in stops : \A j \in stops : j <= k
<1>1. Len(text) \in Nat
    OBVIOUS
<1>2. digits = stops
  <2>1. ASSUME NEW k \in 1..n PROVE Digit(bin, k) # 15 <=> k <= Len(text) /\ text[k] # 15
    OBVIOUS
  <2>2. \A k \in 1..Len(text) : k \in 1..n
    BY <1>1
  <2>3. \A k \in 1..n : k <= Len(text) => k \in 1..Len(text)
    BY <1>1
  <2>4. \A k : k \in {m \in 1..Len(text) : text[m] # 15} <=> k \in {m \in 1..n : Digit(bin, m) # 15}
    BY <1>1, <2>1, <2>2, <2>3
  <2> QED BY <2>4, Zenon
<1>3. Bare(text) = SubSeq(text, 1, last)
    BY <1>2, Zenon DEF Bare
<1>4. stops \in SUBSET (0..n) /\ stops # {}
    OBVIOUS
<1> HIDE DEF stops
<1>5. last \in stops
    BY <1>4, Largest, Zenon
<1> HIDE DEF last
<1>6. last \in 0..Len(text)
    BY <1>1, <1>2, <1>5
<1>7. SubSeq(text, 1, last) = [i \in 1..last |-> text[i]]
    BY <1>6, FirstPart, Zenon
<1>8. ASSUME NEW i \in 1..last PROVE text[i] = Digit(bin, i)
  <2>1. i \in 1..n /\ i <= Len(text)
    BY <1>1, <1>6
  <2> QED BY <2>1
<1>9. Bare(text) = Digits(bin, last)
    BY <1>3, <1>7, <1>8, Zenon DEF Digits
<1> QED BY <1>9 DEF last, stops

\* A text that becomes the ICCID of a profile is the one that `profile list`
\* prints, up to fillers.
LEMMA SameBare ==
    ASSUME NEW q \in Profiles, NEW id \in Seq(Chars), NEW room \in Nat,
           Gsmbcd2Bin(id, room, 10).ret # -1, Gsmbcd2Bin(id, room, 10).output = Iccid[q]
    PROVE  Bare(id) = Bare(IccidText[q])
<1> DEFINE bin == Iccid[q]
           text == IccidText[q]
<1>1. bin \in Seq(Bytes) /\ Len(bin) = 10 /\ 10 \in Nat /\ 20 \in Nat /\ 20 = 2 * Len(bin) /\ 2 * 10 = 20
  <2>1. bin \in Seq(Bytes) /\ Len(bin) = 10
    BY NamesTyped, Zenon
  <2> HIDE DEF bin
  <2> QED BY <2>1
<1>2. Len(id) <= 20 /\ \A j \in 1..20 : Digit(bin, j) = IF j <= Len(id) THEN id[j] ELSE 15
  <2> DEFINE out == Gsmbcd2Bin(id, room, 10).output
  <2>1. Len(out) = 10
    BY <1>1, Zenon
  <2>2. Len(id) <= 2 * 10 /\ \A j \in 1..2 * 10 : Digit(out, j) = IF j <= Len(id) THEN id[j] ELSE 15
    BY <1>1, <2>1, GsmbcdTextKept, Zenon
  <2>3. out = bin
    OBVIOUS
  <2> HIDE DEF out, bin
  <2> QED BY <1>1, <2>2, <2>3
<1>3. PICK last \in 1..20 : /\ text = Digits(bin, last)
                            /\ \A j \in last + 1..20 : Digit(bin, j) = 15
                            /\ text \in Seq(Chars) /\ Len(text) = last
    BY IccidTextDigits, Zenon
<1> HIDE DEF bin, text
<1>4. last \in Nat /\ last <= 20
    BY <1>3
<1>5. \A j \in 1..last : text[j] = Digit(bin, j)
    BY <1>3, Zenon DEF Digits
<1>6. ASSUME NEW j \in 1..20
      PROVE  Digit(bin, j) = IF j <= Len(text) THEN text[j] ELSE 15
  <2>1. CASE j <= last
    <3>1. j \in 1..last
      BY <1>4, <2>1
    <3> QED BY <1>3, <1>5, <2>1, <3>1, Zenon
  <2>2. CASE ~(j <= last)
    <3>1. j \in last + 1..20
      BY <1>4, <2>2
    <3> QED BY <1>3, <2>2, <3>1, Zenon
  <2> QED BY <2>1, <2>2, Zenon
<1> DEFINE stops == {0} \cup {k \in 1..20 : Digit(bin, k) # 15}
           end == CHOOSE k \in stops : \A j \in stops : j <= k
<1> HIDE DEF end
<1>7. Bare(id) = Digits(bin, end)
    BY <1>1, <1>2, BareText, Zenon DEF end
<1>8. Bare(text) = Digits(bin, end)
  <2>1. text \in Seq(Chars) /\ Len(text) <= 20
    BY <1>3, <1>4
  <2> QED BY <1>1, <1>6, <2>1, BareText, Zenon DEF end
<1> QED BY <1>7, <1>8, Zenon DEF text

\* A text that becomes the AID of a profile is the one that `profile list` prints.
LEMMA SameAid ==
    ASSUME NEW q \in Profiles, NEW id \in Seq(Chars), Hex2Bin(id, 16).ret # -1, Hex2Bin(id, 16).output = Aid[q]
    PROVE  id = AidText[q]
<1>1. 16 \in Nat
    OBVIOUS
<1>2. Bin2Hex(Hex2Bin(id, 16).output) = id
    BY <1>1, HexTextKept, Zenon
<1> QED BY <1>2 DEF AidText

-----------------------------------------------------------------------------
(* The request and the text it was made from.                              *)

\* The identifier i is what the request of p holds.
Holds(p, i) == ~(i.ret < 0) /\ req[p].tag = i.tag /\ req[p].value = i.value

\* What goes out is made from the text, and a text that converts fails only where
\* an exchange did.
Requested(p) ==
    /\ line[p].id \in Seq(Chars)
    /\ pc[p] = "send" =>
           /\ line[p].op \in Identified => Holds(p, Identifier(line[p].id))
           /\ line[p].op = "nickname" => Holds(p, NicknameIdentifier(line[p].id))
           /\ line[p].op = "purge" => line[p].flag = <<"yes">>
    /\ pc[p] = "report" /\ line[p].op \in Identified /\ ret[p] = -1 =>
           Identifier(line[p].id).ret < 0 \/ faults > 0
    /\ printed[p] = "internal" =>
           /\ Identifier(line[p].id).ret < 0 \/ faults > 0
           /\ lost[p] \/ verdict[p] = "none"

Card ==
    /\ DOMAIN req = Procs /\ DOMAIN status = Profiles /\ nick \in [Profiles -> BOOLEAN]
    /\ shown \subseteq Profiles /\ faults \in Nat

TextInv == IInv /\ Card /\ \A p \in Procs : Requested(p)

\* A step of one process leaves the requests of the others.
LEMMA OthersRequest ==
    ASSUME NEW q \in Procs, Requested(q), Same(q), req'[q] = req[q], faults \in Nat, faults' \in Nat,
           faults' >= faults
    PROVE  Requested(q)'
<1>1. faults > 0 => faults' > 0
    OBVIOUS
<1>2. /\ Identifier(line[q].id)' = Identifier(line[q].id)
      /\ NicknameIdentifier(line[q].id)' = NicknameIdentifier(line[q].id)
    BY Zenon DEF Same, Identifier, NicknameIdentifier
<1>3. /\ Holds(q, Identifier(line[q].id)) => Holds(q, Identifier(line[q].id))'
      /\ Holds(q, NicknameIdentifier(line[q].id)) => Holds(q, NicknameIdentifier(line[q].id))'
    BY <1>2, Zenon DEF Holds
<1> QED BY <1>1, <1>2, <1>3, Zenon DEF Requested, Same

\* So a step of p that keeps what is known of p keeps the invariant.
LEMMA StepRequests ==
    ASSUME TextInv, NEW p \in Procs, IInv', Card', Requested(p)', faults' >= faults,
           \A q \in Procs \ {p} : Same(q) /\ req'[q] = req[q]
    PROVE  TextInv'
<1>1. ASSUME NEW q \in Procs \ {p} PROVE Requested(q)'
    BY OthersRequest, Zenon DEF TextInv, Card
<1> QED BY <1>1, Zenon DEF TextInv

\* The texts a user can give are texts.
LEMMA IdsTyped ==
    ASSUME Card, NEW id \in Ids
    PROVE  id \in Seq(Chars)
<1>1. CASE id \in Texts
    BY <1>1, ProfilesAssumption, Zenon DEF Chars
<1>2. ASSUME NEW q \in shown, id = IccidText[q] PROVE id \in Seq(Chars)
  <2>1. q \in Profiles
    BY DEF Card
  <2> QED BY <1>2, <2>1, IccidTextDigits
<1>3. ASSUME NEW q \in shown, id = AidText[q] PROVE id \in Seq(Chars)
  <2>1. q \in Profiles
    BY DEF Card
  <2>2. Aid[q] \in Seq(Bytes) /\ Len(Aid[q]) = 16
    BY <2>1, NamesTyped
  <2>3. id = Bin2Hex(Aid[q])
    BY <1>3, <2>1 DEF AidText
  <2>4. ASSUME NEW i \in 1..32
        PROVE  (LET byte == Aid[q][(i + 1) \div 2] IN IF i % 2 = 1 THEN byte \div 16 ELSE byte % 16) \in Chars
    <3>1. (i + 1) \div 2 \in 1..16
      OBVIOUS
    <3>2. Aid[q][(i + 1) \div 2] \in Bytes
      BY <2>2, <3>1
    <3>3. \A k \in 0..15 : k \in Chars
      BY DEF Chars, Other
    <3> QED BY <3>2, <3>3, Halves
  <2>5. id \in [1..32 -> Chars] /\ 32 \in Nat
    BY <2>2, <2>3, <2>4 DEF Bin2Hex
  <2> QED BY <2>5, Tuple, Zenon
<1> QED BY <1>1, <1>2, <1>3, Zenon DEF Ids

\* What every start of a command leaves: the others, the eUICC and the faults.
LEMMA BeginFrame ==
    ASSUME TextInv, NEW p \in Procs, NEW op, NEW id \in Seq(Chars), NEW flag, Begin(p, op, id, flag),
           \/ \E text : Says(p, text)
           \/ \E tag, value, refresh : Sends(p, tag, value, refresh)
           \/ Refuses(p)
    PROVE  /\ Card' /\ faults' >= faults
           /\ line'[p] = [op |-> op, id |-> id, flag |-> flag]
           /\ \A q \in Procs \ {p} : Same(q) /\ req'[q] = req[q]
<1> USE DEF TextInv, IInv, Card, Domains, Begin
<1>1. UNCHANGED <<status, nick, shown, faults>> /\ line'[p] = [op |-> op, id |-> id, flag |-> flag]
    BY Zenon DEF cardVars
<1>2. \A q \in Procs \ {p} : line'[q] = line[q] /\ verdict'[q] = verdict[q] /\ lost'[q] = lost[q]
    BY Zenon
<1>3. /\ DOMAIN req' = Procs
      /\ \A q \in Procs \ {p} : pc'[q] = pc[q] /\ ret'[q] = ret[q] /\ printed'[q] = printed[q] /\ req'[q] = req[q]
  <2>1. CASE \E text : Says(p, text)
    BY <2>1, Zenon DEF Says, Exits
  <2>2. CASE \E tag, value, refresh : Sends(p, tag, value, refresh)
    BY <2>2, Zenon DEF Sends
  <2>3. CASE Refuses(p)
    BY <2>3, Zenon DEF Refuses
  <2> QED BY <2>1, <2>2, <2>3, Zenon
<1>4. faults' >= faults
    BY <1>1
<1> QED BY <1>1, <1>2, <1>3, <1>4, Zenon DEF Same

\* A command that ends at its arguments requests nothing.
LEMMA SaysRequests ==
    ASSUME TextInv, NEW p \in Procs, NEW op \in Ops, NEW id \in Seq(Chars), NEW flag, Begin(p, op, id, flag),
           NEW text \in {"usage", "canceled"}, Says(p, text)
    PROVE  TextInv'
<1>1. IInv'
    BY SaysKeeps, Zenon DEF TextInv
<1>2. /\ Card' /\ faults' >= faults /\ line'[p] = [op |-> op, id |-> id, flag |-> flag]
      /\ \A q \in Procs \ {p} : Same(q) /\ req'[q] = req[q]
    BY BeginFrame
<1>3. pc'[p] = "done" /\ printed'[p] = text
    BY Zenon DEF TextInv, IInv, Domains, Says, Exits
<1>4. line'[p].id = id
    BY <1>2
<1>5. Requested(p)'
    BY <1>3, <1>4, Zenon DEF Requested
<1> QED BY <1>1, <1>2, <1>5, StepRequests, Zenon

\* A command goes out with the identifier made from its text, or confirmed.
LEMMA SendsRequests ==
    ASSUME TextInv, NEW p \in Procs, NEW op \in Ops, NEW id \in Seq(Chars), NEW flag, Begin(p, op, id, flag),
           NEW tag, NEW value, NEW refresh, Sends(p, tag, value, refresh),
           op \in Identified =>
               ~(Identifier(id).ret < 0) /\ tag = Identifier(id).tag /\ value = Identifier(id).value,
           op = "nickname" =>
               /\ ~(NicknameIdentifier(id).ret < 0)
               /\ tag = NicknameIdentifier(id).tag /\ value = NicknameIdentifier(id).value,
           op = "purge" => flag = <<"yes">>
    PROVE  TextInv'
<1>1. IInv'
    BY SendsKeeps, Zenon DEF TextInv
<1>2. /\ Card' /\ faults' >= faults /\ line'[p] = [op |-> op, id |-> id, flag |-> flag]
      /\ \A q \in Procs \ {p} : Same(q) /\ req'[q] = req[q]
    BY BeginFrame
<1>3. /\ pc'[p] = "send" /\ printed'[p] = "silent" /\ req'[p].tag = tag /\ req'[p].value = value
      /\ line'[p].op = op /\ line'[p].id = id /\ line'[p].flag = flag
  <2>1. pc'[p] = "send" /\ printed'[p] = "silent"
    BY Zenon DEF TextInv, IInv, Domains, Sends
  <2>2. req'[p].tag = tag /\ req'[p].value = value
    BY Zenon DEF TextInv, Card, Sends
  <2>3. line'[p].op = op /\ line'[p].id = id /\ line'[p].flag = flag
    BY <1>2
  <2> QED BY <2>1, <2>2, <2>3, Zenon
<1>4. op \in Identified => Holds(p, Identifier(line[p].id))'
    BY <1>3, Zenon DEF Holds, Identifier
<1>5. op = "nickname" => Holds(p, NicknameIdentifier(line[p].id))'
    BY <1>3, Zenon DEF Holds, NicknameIdentifier
<1>6. Requested(p)'
    BY <1>3, <1>4, <1>5, Zenon DEF Requested
<1> QED BY <1>1, <1>2, <1>6, StepRequests, Zenon

\* A command is refused only where its text does not convert.
LEMMA RefusesRequests ==
    ASSUME TextInv, NEW p \in Procs, NEW op \in Ops, NEW id \in Seq(Chars), NEW flag, Begin(p, op, id, flag),
           op \notin {"list", "info"}, Refuses(p), op \in Identified => Identifier(id).ret < 0
    PROVE  TextInv'
<1>1. IInv'
    BY RefusesKeeps, Zenon DEF TextInv
<1>2. /\ Card' /\ faults' >= faults /\ line'[p] = [op |-> op, id |-> id, flag |-> flag]
      /\ \A q \in Procs \ {p} : Same(q) /\ req'[q] = req[q]
    BY BeginFrame
<1>3. pc'[p] = "report" /\ printed'[p] = "silent" /\ line'[p].op = op /\ line'[p].id = id
  <2>1. pc'[p] = "report" /\ printed'[p] = "silent"
    BY Zenon DEF TextInv, IInv, Domains, Refuses
  <2>2. line'[p].op = op /\ line'[p].id = id
    BY <1>2
  <2> QED BY <2>1, <2>2, Zenon
<1>4. op \in Identified => Identifier(line[p].id)'.ret < 0
    BY <1>3, Zenon DEF Identifier
<1>5. Requested(p)'
    BY <1>3, <1>4, Zenon DEF Requested
<1> QED BY <1>1, <1>2, <1>5, StepRequests, Zenon

\* Whichever command a process starts, its request is made from its text.
LEMMA StartRequests ==
    ASSUME TextInv, NEW p \in Procs, Start(p)
    PROVE  TextInv'
<1>1. <<>> \in Seq(Chars)
    OBVIOUS
<1>2. ASSUME NEW op \in Ops, Usage(p, op) PROVE TextInv'
    BY <1>1, <1>2, SaysRequests, Zenon DEF Usage
<1>3. ASSUME NEW op \in Ops, StartOther(p, op) PROVE TextInv'
  <2>1. op \notin Identified /\ op # "nickname" /\ op # "purge"
    BY <1>3 DEF StartOther, Identified
  <2> QED BY <1>1, <1>3, <2>1, SendsRequests, Zenon DEF StartOther
<1>4. ASSUME NEW id \in Ids, StartNickname(p, id) PROVE TextInv'
  <2>1. "nickname" \in Ops /\ "nickname" \notin Identified \cup {"list", "info"} /\ id \in Seq(Chars)
    BY IdsTyped DEF Ops, Identified, TextInv
  <2>2. Begin(p, "nickname", id, <<>>)
    BY <1>4, Zenon DEF StartNickname
  <2> DEFINE i == NicknameIdentifier(id)
  <2> HIDE DEF i
  <2>3. CASE i.ret < 0
    <3>1. Refuses(p)
      BY <1>4, <2>3, Zenon DEF StartNickname, i
    <3> QED BY <2>1, <2>2, <3>1, RefusesRequests, Zenon
  <2>4. CASE ~(i.ret < 0)
    <3>1. Sends(p, i.tag, i.value, "none")
      BY <1>4, <2>4, Zenon DEF StartNickname, i
    <3> QED BY <2>1, <2>2, <2>4, <3>1, SendsRequests, Zenon DEF i
  <2> QED BY <2>3, <2>4
<1>5. ASSUME NEW id \in Ids, NEW op \in Identified, NEW flag, StartIdentified(p, op, id, flag) PROVE TextInv'
  <2>1. op \in Ops /\ op \notin {"nickname", "purge", "list", "info"} /\ id \in Seq(Chars)
    BY IdsTyped, Zenon DEF Ops, Identified, TextInv
  <2>2. Begin(p, op, id, flag)
    BY <1>5, Zenon DEF StartIdentified
  <2> DEFINE i == Identifier(id)
  <2> HIDE DEF i
  <2>3. CASE i.ret < 0
    <3>1. Refuses(p)
      BY <1>5, <2>3, Zenon DEF StartIdentified, i
    <3> QED BY <2>1, <2>2, <2>3, <3>1, RefusesRequests, Zenon DEF i
  <2>4. CASE ~(i.ret < 0)
    <3>1. Sends(p, i.tag, i.value, RefreshFlag(op, flag))
      BY <1>5, <2>4, Zenon DEF StartIdentified, i
    <3> QED BY <2>1, <2>2, <2>4, <3>1, SendsRequests, Zenon DEF i
  <2> QED BY <2>3, <2>4, Zenon
<1>6. ASSUME NEW flag, StartPurge(p, flag) PROVE TextInv'
  <2>1. "purge" \in Ops /\ "purge" \notin Identified
    BY DEF Ops, Identified
  <2> QED BY <1>1, <1>6, <2>1, SendsRequests, SaysRequests, Zenon DEF StartPurge
<1> QED BY <1>2, <1>3, <1>4, <1>5, <1>6, Zenon DEF Start

\* A call that was made keeps its text, and fails only where an exchange did.
LEMMA CallRequests ==
    ASSUME TextInv, NEW p \in Procs, IInv', Card', faults' >= faults, pc[p] = "send",
           UNCHANGED <<line, req, printed>>, pc'[p] \in {"send", "report"},
           pc'[p] = "report" /\ line[p].op \in Identified /\ ret'[p] = -1 => faults' > 0,
           \A q \in Procs \ {p} : Same(q)
    PROVE  TextInv'
<1>1. printed[p] = "silent" /\ Requested(p)
    BY DEF TextInv, IInv, Local
<1>2. Requested(p)'
    BY <1>1, Zenon DEF Requested, Holds, Identifier, NicknameIdentifier
<1> QED BY <1>2, StepRequests

\* The code of a decision is no failure of the call.
LEMMA CodeIsNoFailure ==
    ASSUME NEW decision
    PROVE  Code(decision) # -1
    BY DEF Code

\* A decision keeps the profiles.
LEMMA DecidesTyped ==
    ASSUME Card, NEW p \in Procs, NEW decision, Decides(p, decision)
    PROVE  DOMAIN status' = Profiles /\ nick' \in [Profiles -> BOOLEAN]
<1>1. ASSUME NEW op, NEW r PROVE DOMAIN After(op, r) = Profiles
    BY DEF After, Card
<1>2. DOMAIN status' = Profiles
    BY <1>1 DEF Decides, Card, cardVars
<1>3. nick' \in [Profiles -> BOOLEAN]
    BY Zenon DEF Decides, Card, cardVars
<1> QED BY <1>2, <1>3

\* An executed command does not fail.
LEMMA ExecuteRequests ==
    ASSUME TextInv, NEW p \in Procs, Execute(p)
    PROVE  TextInv'
<1>1. PICK decision : Decides(p, decision) /\ Returns(p, Code(decision))
    BY Zenon DEF Execute
<1>2. pc[p] = "send" /\ UNCHANGED <<line, req, printed, shown, faults, lost>>
    BY DEF Execute
<1>3. IInv'
    BY ExecuteKeeps, Zenon DEF TextInv
<1>4. Card' /\ faults' >= faults
    BY <1>1, <1>2, DecidesTyped DEF TextInv, Card
<1>5. pc'[p] = "report" /\ ret'[p] # -1
    BY <1>1, CodeIsNoFailure, Zenon DEF Returns, TextInv, IInv, Domains
<1>6. \A q \in Procs \ {p} : Same(q)
    BY <1>1, <1>2, Zenon DEF TextInv, IInv, Domains, Decides, Returns, Same
<1> QED BY <1>2, <1>3, <1>4, <1>5, <1>6, CallRequests, Zenon

\* A command whose answer is lost fails with a fault.
LEMMA ExecuteLostRequests ==
    ASSUME TextInv, NEW p \in Procs, ExecuteLost(p)
    PROVE  TextInv'
<1>1. PICK decision : Decides(p, decision)
    BY Zenon DEF ExecuteLost
<1>2. pc[p] = "send" /\ UNCHANGED <<line, req, printed, shown>> /\ faults' = faults + 1 /\ Returns(p, -1)
    BY Zenon DEF ExecuteLost, Fault
<1>3. IInv'
    BY ExecuteLostKeeps DEF TextInv
<1>4. Card' /\ faults' >= faults /\ faults' > 0
    BY <1>1, <1>2, DecidesTyped DEF TextInv, Card
<1>5. pc'[p] = "report"
    BY <1>2, Zenon DEF Returns, TextInv, IInv, Domains
<1>6. \A q \in Procs \ {p} : Same(q)
    BY <1>1, <1>2, Zenon DEF TextInv, IInv, Domains, ExecuteLost, Decides, Returns, Same
<1> QED BY <1>2, <1>3, <1>4, <1>5, <1>6, CallRequests, Zenon

\* So does a request that does not arrive.
LEMMA UndeliveredRequests ==
    ASSUME TextInv, NEW p \in Procs, Undelivered(p)
    PROVE  TextInv'
<1>1. /\ pc[p] = "send" /\ UNCHANGED <<line, req, printed, status, nick, shown, verdict, lost>>
      /\ faults' = faults + 1 /\ Returns(p, -1)
    BY Zenon DEF Undelivered, Fault, cardVars
<1>2. IInv'
    BY UndeliveredKeeps DEF TextInv
<1>3. Card' /\ faults' >= faults /\ faults' > 0
    BY <1>1 DEF TextInv, Card
<1>4. pc'[p] = "report"
    BY <1>1, Zenon DEF Returns, TextInv, IInv, Domains
<1>5. \A q \in Procs \ {p} : Same(q)
    BY <1>1, Zenon DEF TextInv, IInv, Domains, Returns, Same
<1> QED BY <1>1, <1>2, <1>3, <1>4, <1>5, CallRequests, Zenon

\* A list shows profiles.
LEMMA ListRequests ==
    ASSUME TextInv, NEW p \in Procs, List(p)
    PROVE  TextInv'
<1>1. /\ pc[p] = "send" /\ UNCHANGED <<line, req, printed, status, nick, faults, verdict, lost>>
      /\ shown' = shown \cup Present /\ Returns(p, 0)
    BY Zenon DEF List, cardVars
<1>2. IInv'
    BY ListKeeps DEF TextInv
<1>3. Card' /\ faults' >= faults
    BY <1>1 DEF TextInv, Card, Present
<1>4. pc'[p] = "report" /\ ret'[p] = 0
    BY <1>1, Zenon DEF Returns, TextInv, IInv, Domains
<1>5. \A q \in Procs \ {p} : Same(q)
    BY <1>1, Zenon DEF TextInv, IInv, Domains, Returns, Same
<1> QED BY <1>1, <1>2, <1>3, <1>4, <1>5, CallRequests

\* A query of chip info names no profile.
LEMMA QueryRequests ==
    ASSUME TextInv, NEW p \in Procs, Query(p)
    PROVE  TextInv'
<1>1. /\ pc[p] = "send" /\ UNCHANGED <<line, req, printed, status, nick, shown, verdict, lost>>
      /\ line[p].op \notin Identified
    BY Zenon DEF Query, cardVars, Identified
<1>2. IInv'
    BY QueryKeeps DEF TextInv
<1>3. faults' \in {faults, faults + 1}
    BY Zenon DEF Query, Fault
<1>4. Card' /\ faults' >= faults
    BY <1>1, <1>3 DEF TextInv, Card
<1>5. (\E n : Returns(p, n)) \/ UNCHANGED <<pc, ret>>
    BY Zenon DEF Query
<1>6. pc'[p] \in {"send", "report"}
    BY <1>1, <1>5, Zenon DEF Returns, TextInv, IInv, Domains
<1>7. \A q \in Procs \ {p} : Same(q)
    BY <1>1, <1>5, Zenon DEF TextInv, IInv, Domains, Returns, Same
<1> QED BY <1>1, <1>2, <1>4, <1>6, <1>7, CallRequests, Zenon

\* A process that has exited has nothing under way, and prints "internal" only
\* of a call that failed.
LEMMA ExitRequests ==
    ASSUME TextInv, NEW p \in Procs, IInv', NEW how \in {"start", "done", "crashed"}, Exits(p, how),
           UNCHANGED <<status, nick, shown, faults>>, line'[p].id \in Seq(Chars),
           printed'[p] = "internal" =>
               /\ Identifier(line[p].id)'.ret < 0 \/ faults > 0
               /\ lost'[p] \/ verdict'[p] = "none",
           \A q \in Procs \ {p} :
               line'[q] = line[q] /\ printed'[q] = printed[q] /\ verdict'[q] = verdict[q] /\ lost'[q] = lost[q]
    PROVE  TextInv'
<1>1. pc'[p] = how /\ DOMAIN req' = Procs
    BY Zenon DEF TextInv, Card, IInv, Domains, Exits
<1>2. \A q \in Procs \ {p} : pc'[q] = pc[q] /\ ret'[q] = ret[q] /\ req'[q] = req[q]
    BY Zenon DEF TextInv, Card, IInv, Domains, Exits
<1>3. Card'
    BY <1>1, Zenon DEF TextInv, Card
<1>4. Requested(p)' /\ faults' >= faults
  <2>1. Requested(p)'
    BY <1>1, Zenon DEF Requested
  <2>2. faults' >= faults
    BY DEF TextInv, Card
  <2> QED BY <2>1, <2>2, Zenon
<1>5. \A q \in Procs \ {p} : Same(q) /\ req'[q] = req[q]
    BY <1>2 DEF Same
<1> QED BY <1>3, <1>4, <1>5, StepRequests, Zenon

\* "internal" is printed of a call that failed (Reason).
LEMMA InternalIsFailure ==
    ASSUME NEW op, NEW n, Reason(op, n) = "internal"
    PROVE  n = -1 /\ op \in Identified
    BY Zenon DEF Reason

\* The print of a failed call.
LEMMA ReportRequests ==
    ASSUME TextInv, NEW p \in Procs, Report(p)
    PROVE  TextInv'
<1>1. /\ pc[p] = "report" /\ Exits(p, "done") /\ UNCHANGED <<line, status, nick, shown, faults, verdict, lost>>
      /\ printed' = [printed EXCEPT ![p] = IF ret[p] = 0 THEN "success" ELSE Reason(line[p].op, ret[p])]
    BY Zenon DEF Report, cardVars
<1>2. IInv'
    BY ReportKeeps DEF TextInv
<1>3. printed'[p] = IF ret[p] = 0 THEN "success" ELSE Reason(line[p].op, ret[p])
    BY <1>1, Zenon DEF TextInv, IInv, Domains
<1>4. Requested(p) /\ Local(p)
    BY Zenon DEF TextInv, IInv
<1>5. ASSUME printed'[p] = "internal"
      PROVE  /\ Identifier(line[p].id)'.ret < 0 \/ faults > 0
             /\ lost'[p] \/ verdict'[p] = "none"
  <2>1. ret[p] = -1 /\ line[p].op \in Identified
    BY <1>3, <1>5, InternalIsFailure, Zenon
  <2>2. Identifier(line[p].id).ret < 0 \/ faults > 0
    BY <1>1, <1>4, <2>1, Zenon DEF Requested
  <2>3. Sound(p)
    BY <1>1, <1>4, <2>1, Zenon DEF Local, Asks, Identified
  <2>4. lost[p] \/ verdict[p] = "none"
    BY <2>1, <2>3, CodeIsNoFailure, Zenon DEF Sound
  <2>5. Identifier(line[p].id)' = Identifier(line[p].id)
    BY <1>1, Zenon DEF Identifier
  <2> QED BY <1>1, <2>2, <2>4, <2>5, Zenon
<1>6. line'[p].id \in Seq(Chars)
    BY <1>1, <1>4, Zenon DEF Requested
<1>7. \A q \in Procs \ {p} :
          line'[q] = line[q] /\ printed'[q] = printed[q] /\ verdict'[q] = verdict[q] /\ lost'[q] = lost[q]
    BY <1>1, Zenon DEF TextInv, IInv, Domains
<1> QED BY <1>1, <1>2, <1>5, <1>6, <1>7, ExitRequests, Zenon

\* A crash prints nothing.
LEMMA CrashRequests ==
    ASSUME TextInv, NEW p \in Procs, Crash(p)
    PROVE  TextInv'
<1>1. /\ pc[p] = "report" /\ Exits(p, "crashed")
      /\ UNCHANGED <<line, printed, status, nick, shown, faults, verdict, lost>>
    BY Zenon DEF Crash, cardVars
<1>2. IInv'
    BY CrashKeeps DEF TextInv
<1>3. printed'[p] = "silent" /\ line'[p].id \in Seq(Chars)
    BY <1>1, Zenon DEF TextInv, IInv, Local, Requested
<1> QED BY <1>1, <1>2, <1>3, ExitRequests, Zenon

\* A killed process has printed nothing.
LEMMA KillRequests ==
    ASSUME TextInv, NEW p \in Procs, Kill(p)
    PROVE  TextInv'
<1>1. /\ pc[p] \in {"send", "report"} /\ Exits(p, "start") /\ line' = [line EXCEPT ![p] = NoLine]
      /\ UNCHANGED <<printed, status, nick, shown, faults>>
    BY Zenon DEF Kill, cardVars
<1>2. IInv'
    BY KillKeeps DEF TextInv
<1>3. printed'[p] = "silent"
    BY <1>1, Zenon DEF TextInv, IInv, Local
<1>4. line'[p] = NoLine
    BY <1>1, Zenon DEF TextInv, IInv, Domains
<1>5. line'[p].id \in Seq(Chars)
    BY <1>4 DEF NoLine
<1>6. \A q \in Procs \ {p} :
          line'[q] = line[q] /\ printed'[q] = printed[q] /\ verdict'[q] = verdict[q] /\ lost'[q] = lost[q]
    BY <1>1 DEF Kill, TextInv, IInv, Domains
<1> QED BY <1>1, <1>2, <1>3, <1>5, <1>6, ExitRequests, Zenon

\* Nothing is requested when the processes start.
LEMMA InitRequests == Init => TextInv
<1> SUFFICES ASSUME Init PROVE TextInv
    OBVIOUS
<1>1. IInv
    BY InitEstablishes, Zenon
<1>2. Card
    BY Zenon DEF Init, Card
<1>3. ASSUME NEW p \in Procs PROVE Requested(p)
  <2>1. line[p] = NoLine /\ pc[p] = "start" /\ printed[p] = "silent"
    BY Zenon DEF Init
  <2>2. line[p].id \in Seq(Chars)
    BY <2>1 DEF NoLine
  <2> QED BY <2>1, <2>2, Zenon DEF Requested
<1> QED BY <1>1, <1>2, <1>3 DEF TextInv

\* Every step keeps the requests tied to their texts.
LEMMA NextRequests == TextInv /\ [Next]_vars => TextInv'
<1> SUFFICES ASSUME TextInv, [Next]_vars PROVE TextInv'
    OBVIOUS
<1>1. CASE UNCHANGED vars
  <2>1. IInv'
    BY <1>1, NextPreserves, Zenon DEF TextInv
  <2>2. UNCHANGED <<line, pc, req, ret, printed, status, nick, shown, faults, verdict, lost>>
    BY <1>1, Zenon DEF vars, hostVars, cardVars
  <2>3. Card' /\ faults \in Nat /\ faults' \in Nat /\ faults' >= faults
    BY <2>2 DEF TextInv, Card
  <2>4. \A q \in Procs : Same(q) /\ req'[q] = req[q]
    BY <2>2, Zenon DEF Same
  <2> QED BY <2>1, <2>3, <2>4, OthersRequest, Zenon DEF TextInv
<1>2. ASSUME NEW p \in Procs, Start(p) \/ Step(p) \/ Kill(p) PROVE TextInv'
    BY <1>2, StartRequests, ExecuteRequests, ExecuteLostRequests, UndeliveredRequests, ListRequests,
       QueryRequests, ReportRequests, CrashRequests, KillRequests, Zenon DEF Step
<1> QED BY <1>1, <1>2 DEF Next

\* Always: the request belongs to the text.
LEMMA TextInductive == Spec => []TextInv
    BY InitRequests, NextRequests, PTL DEF Spec

\* The texts that `profile list` prints for a profile name it: enable, disable and
\* delete with them find the profile as long as it is there, and fail only where an
\* exchange with the eUICC did; however many profiles there are and whatever their
\* ICCIDs and AIDs.
THEOREM ShownAlwaysAccepted == Spec => []ShownIsAccepted
<1>1. ASSUME TextInv, NEW p \in Procs, NEW q \in Profiles, line[p].op \in Identified,
             line[p].id \in {IccidText[q], AidText[q]}
      PROVE  /\ pc[p] = "send" /\ q \in Present => q \in Named(req[p])
             /\ printed[p] = "internal" => faults > 0 /\ (lost[p] \/ verdict[p] = "none")
  <2> DEFINE i == Identifier(line[p].id)
  <2>1. ~(i.ret < 0) /\ i.value = IF i.tag = "4F" THEN Aid[q] ELSE Iccid[q]
    <3>1. CASE line[p].id = IccidText[q]
      BY <3>1, IccidAccepted
    <3>2. CASE line[p].id = AidText[q]
      BY <3>2, AidAccepted
    <3> QED BY <1>1, <3>1, <3>2, Zenon
  <2>2. pc[p] = "send" => Holds(p, i)
    BY <1>1, Zenon DEF TextInv, Requested
  <2>3. printed[p] = "internal" => (i.ret < 0 \/ faults > 0) /\ (lost[p] \/ verdict[p] = "none")
    BY <1>1, Zenon DEF TextInv, Requested
  <2> HIDE DEF i
  <2> QED BY <2>1, <2>2, <2>3, Zenon DEF Holds, Named
<1>2. TextInv => ShownIsAccepted
    BY <1>1, Zenon DEF ShownIsAccepted
<1> QED BY <1>2, TextInductive, PTL

-----------------------------------------------------------------------------
(* What a step may change on the eUICC.                                    *)

\* The profile that a request names has the text of the command.
LEMMA NamedByText ==
    ASSUME NEW id \in Seq(Chars), NEW p, Holds(p, Identifier(id)), NEW q \in Named(req[p])
    PROVE  id = AidText[q] \/ Bare(id) = Bare(IccidText[q])
<1>1. q \in Profiles /\ req[p].value = IF req[p].tag = "4F" THEN Aid[q] ELSE Iccid[q]
    BY Zenon DEF Named, Present
<1>2. CASE Len(id) = 32
  <2>1. req[p].tag = "4F" /\ req[p].value = Hex2Bin(id, 16).output /\ ~(Hex2Bin(id, 16).ret < 0)
    BY <1>2, Zenon DEF Holds, Identifier
  <2>2. Hex2Bin(id, 16).ret # -1
    BY <2>1
  <2> QED BY <1>1, <2>1, <2>2, SameAid, Zenon
<1>3. CASE Len(id) # 32
  <2>1. /\ req[p].tag = "5A" /\ req[p].value = Gsmbcd2Bin(id, 16, 10).output
        /\ ~(Gsmbcd2Bin(id, 16, 10).ret < 0)
    BY <1>3, Zenon DEF Holds, Identifier
  <2>2. Gsmbcd2Bin(id, 16, 10).ret # -1 /\ 16 \in Nat
    BY <2>1
  <2> QED BY <1>1, <2>1, <2>2, SameBare, Zenon
<1> QED BY <1>2, <1>3, Zenon

\* For a nickname that is the ICCID.
LEMMA NicknamedByText ==
    ASSUME NEW id \in Seq(Chars), NEW p, Holds(p, NicknameIdentifier(id)), NEW q \in Named(req[p])
    PROVE  Bare(id) = Bare(IccidText[q])
<1>1. q \in Profiles /\ req[p].value = IF req[p].tag = "4F" THEN Aid[q] ELSE Iccid[q]
    BY DEF Named, Present
<1>2. /\ req[p].tag = "5A" /\ req[p].value = Gsmbcd2Bin(id, 10, 10).output
      /\ ~(Gsmbcd2Bin(id, 10, 10).ret < 0)
    BY Zenon DEF Holds, NicknameIdentifier
<1>3. Gsmbcd2Bin(id, 10, 10).ret # -1 /\ 10 \in Nat
    BY <1>2
<1> QED BY <1>1, <1>2, <1>3, SameBare, Zenon

\* The eUICC does it only to a profile that it has (Decisions).
LEMMA DoneToNamed ==
    ASSUME NEW op \in Identified, NEW r, "done" \in Decisions(op, r)
    PROVE  (CHOOSE q \in Named(r) : TRUE) \in Named(r)
<1>1. Named(r) # {}
    BY Zenon DEF Decisions, Identified
<1> QED BY <1>1

\* What a decision changes: the profile that was named, all by a purge, or the one
\* that another takes the place of.
LEMMA DecidesOnNamed ==
    ASSUME TextInv, NEW p \in Procs, pc[p] = "send", NEW decision, Decides(p, decision),
           NEW s \in Profiles, status'[s] # status[s]
    PROVE  \/ line[p].op \in Identified /\ s \in Named(req[p])
           \/ line[p].op = "purge"
           \/ line[p].op = "enable" /\ status[s] = "enabled" /\ status'[s] = "disabled"
<1> DEFINE op == line[p].op
           r == req[p]
           q == CHOOSE q \in Named(r) : TRUE
<1>1. decision = "done" /\ "done" \in Decisions(op, r) /\ status' = After(op, r)
    BY Zenon DEF Decides, cardVars
<1>2. op \in Identified => q \in Named(r)
    BY <1>1, DoneToNamed, Zenon
<1>3. DOMAIN status = Profiles
    BY Zenon DEF TextInv, Card
<1> HIDE DEF op, r
<1>4. CASE op = "enable"
  <2>1. status'[s] = IF s = q THEN "enabled" ELSE IF status[s] = "enabled" THEN "disabled" ELSE status[s]
    BY <1>1, <1>4, Zenon DEF After
  <2> HIDE DEF q
  <2> QED BY <1>2, <1>4, <2>1, Zenon DEF Identified, op, r
<1>5. CASE op = "disable"
  <2>1. status' = [status EXCEPT ![q] = "disabled"]
    BY <1>1, <1>5, Zenon DEF After
  <2> HIDE DEF q
  <2> QED BY <1>2, <1>3, <1>5, <2>1, Zenon DEF Identified, op, r
<1>6. CASE op = "delete"
  <2>1. status' = [status EXCEPT ![q] = "absent"]
    BY <1>1, <1>6, Zenon DEF After
  <2> HIDE DEF q
  <2> QED BY <1>2, <1>3, <1>6, <2>1, Zenon DEF Identified, op, r
<1>7. CASE op \notin {"enable", "disable", "delete", "purge"}
    BY <1>1, <1>7, Zenon DEF After
<1> QED BY <1>4, <1>5, <1>6, <1>7, Zenon DEF op

\* A profile s changes in a step of p only as the command of p says.
Changed(p, s) ==
    /\ status'[s] # status[s] =>
           /\ pc[p] = "send" /\ pc'[p] = "report"
           /\ \/ /\ line[p].op \in Identified
                 /\ line[p].id = AidText[s] \/ Bare(line[p].id) = Bare(IccidText[s])
              \/ line[p].op = "purge" /\ line[p].flag = <<"yes">>
              \/ line[p].op = "enable" /\ status[s] = "enabled" /\ status'[s] = "disabled"
    /\ nick'[s] # nick[s] =>
           /\ pc[p] = "send" /\ pc'[p] = "report"
           /\ line[p].op = "nickname" /\ Bare(line[p].id) = Bare(IccidText[s])

\* That is so of a decision.
LEMMA DecidesChanges ==
    ASSUME TextInv, NEW p \in Procs, pc[p] = "send", pc'[p] = "report", NEW decision, Decides(p, decision),
           NEW s \in Profiles
    PROVE  Changed(p, s)
<1>1. Requested(p)
    BY Zenon DEF TextInv
<1>2. ASSUME status'[s] # status[s]
      PROVE  \/ /\ line[p].op \in Identified
                /\ line[p].id = AidText[s] \/ Bare(line[p].id) = Bare(IccidText[s])
             \/ line[p].op = "purge" /\ line[p].flag = <<"yes">>
             \/ line[p].op = "enable" /\ status[s] = "enabled" /\ status'[s] = "disabled"
  <2>1. CASE line[p].op \in Identified /\ s \in Named(req[p])
    <3>1. line[p].id \in Seq(Chars) /\ Holds(p, Identifier(line[p].id))
      BY <1>1, <2>1, Zenon DEF Requested
    <3> QED BY <2>1, <3>1, NamedByText, Zenon
  <2>2. CASE line[p].op = "purge"
    BY <1>1, <2>2, Zenon DEF Requested
  <2> QED BY <1>2, <2>1, <2>2, DecidesOnNamed, Zenon
<1>3. ASSUME nick'[s] # nick[s]
      PROVE  line[p].op = "nickname" /\ Bare(line[p].id) = Bare(IccidText[s])
  <2>1. line[p].op = "nickname" /\ nick' = [q \in Profiles |-> nick[q] \/ q \in Named(req[p])]
    BY <1>3, Zenon DEF Decides, cardVars
  <2>2. s \in Named(req[p])
    <3>1. nick'[s] = (nick[s] \/ s \in Named(req[p])) /\ nick[s] \in BOOLEAN
      BY <2>1, Zenon DEF TextInv, Card
    <3> QED BY <1>3, <3>1, Zenon
  <2>3. line[p].id \in Seq(Chars) /\ Holds(p, NicknameIdentifier(line[p].id))
    BY <1>1, <2>1, Zenon DEF Requested
  <2> QED BY <2>1, <2>2, <2>3, NicknamedByText, Zenon
<1> QED BY <1>2, <1>3, Zenon DEF Changed

\* And of every step.
LEMMA StepChanges ==
    ASSUME TextInv, NEW p \in Procs, Start(p) \/ Step(p) \/ Kill(p), NEW s \in Profiles
    PROVE  Changed(p, s)
<1>1. CASE UNCHANGED <<status, nick>>
    BY <1>1, Zenon DEF Changed
<1>2. CASE Execute(p)
  <2>1. PICK decision : Decides(p, decision) /\ Returns(p, Code(decision))
    BY <1>2, Zenon DEF Execute
  <2>2. pc[p] = "send" /\ pc'[p] = "report"
    BY <1>2, <2>1, Zenon DEF Execute, Returns, TextInv, IInv, Domains
  <2> QED BY <2>1, <2>2, DecidesChanges, Zenon
<1>3. CASE ExecuteLost(p)
  <2>1. PICK decision : Decides(p, decision)
    BY <1>3, Zenon DEF ExecuteLost
  <2>2. pc[p] = "send" /\ pc'[p] = "report"
    BY <1>3, Zenon DEF ExecuteLost, Returns, TextInv, IInv, Domains
  <2> QED BY <2>1, <2>2, DecidesChanges, Zenon
<1>4. CASE Start(p)
  <2>1. \E op, id, flag : Begin(p, op, id, flag)
    BY <1>4, Zenon DEF Start, Usage, StartOther, StartNickname, StartIdentified, StartPurge
  <2> QED BY <1>1, <2>1, Zenon DEF Begin, cardVars
<1>5. CASE Undelivered(p) \/ List(p) \/ Query(p) \/ Report(p) \/ Crash(p) \/ Kill(p)
    BY <1>1, <1>5, Zenon DEF Undelivered, List, Query, Report, Crash, Kill, cardVars
<1> QED BY <1>2, <1>3, <1>4, <1>5, Zenon DEF Step

\* A profile changes only by a command that names it with a text that `profile
\* list` prints for it, up to the filler of an ICCID, by a confirmed purge, or
\* because another takes its place; and only while that command is executed,
\* however many processes are at work and whatever fails.
THEOREM OnlyNamedProfilesChange == Spec => ActsOnNamedProfile
<1> DEFINE A == \A q \in Profiles :
         /\ status'[q] # status[q] =>
              \E p \in Procs :
                 /\ pc[p] = "send" /\ pc'[p] = "report"
                 /\ \/ /\ line[p].op \in Identified
                       /\ line[p].id = AidText[q] \/ Bare(line[p].id) = Bare(IccidText[q])
                    \/ line[p].op = "purge" /\ line[p].flag = <<"yes">>
                    \/ line[p].op = "enable" /\ status[q] = "enabled" /\ status'[q] = "disabled"
         /\ nick'[q] # nick[q] =>
              \E p \in Procs :
                 /\ pc[p] = "send" /\ pc'[p] = "report"
                 /\ line[p].op = "nickname" /\ Bare(line[p].id) = Bare(IccidText[q])
<1>1. ASSUME TextInv, [Next]_vars PROVE [A]_vars
  <2>1. CASE UNCHANGED vars
    BY <2>1, Zenon
  <2>2. ASSUME NEW p \in Procs, Start(p) \/ Step(p) \/ Kill(p) PROVE A
    <3>1. \A q \in Profiles : Changed(p, q)
      BY <1>1, <2>2, StepChanges, Zenon
    <3> QED BY <3>1, Zenon DEF Changed
  <2> QED BY <1>1, <2>1, <2>2, Zenon DEF Next
<1>2. TextInv /\ [Next]_vars => [A]_vars
    BY <1>1, Zenon
<1> QED BY <1>2, TextInductive, PTL DEF Spec, ActsOnNamedProfile
=============================================================================

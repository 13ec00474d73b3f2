------------------------------ MODULE Profiles ------------------------------
(***************************************************************************)
(* The commands that change or show what an eUICC holds: `lpac profile     *)
(* list`, `enable`, `disable`, `delete`, `nickname`, and `lpac chip info`, *)
(* `purge`, `defaultsmdp`.  Each is one ES10 command (info: four) whose    *)
(* result code the applet turns into a text.  Several processes may be at  *)
(* work on one eUICC, and profiles are named by the texts that             *)
(* `profile list` prints.                                                  *)
(***************************************************************************)
EXTENDS TextCodecs

CONSTANTS
    Procs,      \* lpac processes
    Profiles,   \* profiles of the eUICC
    Iccid,      \* [Profiles -> ten bytes]
    Aid,        \* [Profiles -> sixteen bytes]
    Keep,       \* profiles that policy forbids to disable
    Retain,     \* profiles that policy forbids to delete
    Texts,      \* texts given as an identifier that need not come from a list
    MaxRuns,    \* bound: commands started
    MaxFaults   \* bound: exchanges that fail

ASSUME ProfilesAssumption ==
    /\ Iccid \in [Profiles -> [1..10 -> 0..255]] /\ Aid \in [Profiles -> [1..16 -> 0..255]]
    /\ Keep \subseteq Profiles /\ Retain \subseteq Profiles /\ Texts \subseteq Seq(0..Other)
    /\ MaxRuns \in Nat /\ MaxFaults \in Nat

VARIABLES
    line,       \* [op, id, flag]: the command of a process; flag is <<>> if omitted
    pc,         \* what it does next
    req,        \* [tag, value, refresh]: the identifier and refreshFlag it sends
    ret,        \* what the libeuicc call returned
    printed,    \* what the applet printed last
    got,        \* chip info: for each query made, whether it was answered
    status,     \* eUICC: "absent", "disabled" or "enabled"
    nick,       \* eUICC: whether a nickname was given
    dp,         \* eUICC: the default SM-DP+ address
    shown,      \* profiles whose texts a list has printed
    runs, faults,
    verdict,    \* history: what the eUICC decided on the command
    lost        \* history: the answer to an executed command was lost

hostVars == <<line, pc, req, ret, printed, got>>
cardVars == <<status, nick, dp>>
vars == <<hostVars, cardVars, shown, runs, faults, verdict, lost>>

Identified == {"enable", "disable", "delete"}
Ops == Identified \cup {"nickname", "purge", "defaultsmdp", "list", "info"}

NoLine == [op |-> "none", id |-> <<>>, flag |-> <<>>]
NoReq == [tag |-> "none", value |-> <<>>, refresh |-> "none"]

Init ==
    /\ line = [p \in Procs |-> NoLine] /\ pc = [p \in Procs |-> "start"]
    /\ req = [p \in Procs |-> NoReq] /\ ret = [p \in Procs |-> 0]
    /\ printed = [p \in Procs |-> "silent"] /\ got = [p \in Procs |-> <<>>]
    /\ status \in [Profiles -> {"absent", "disabled", "enabled"}]
    /\ \A q, r \in Profiles : status[q] = "enabled" /\ status[r] = "enabled" => q = r
    /\ nick = [q \in Profiles |-> FALSE] /\ dp = "old" /\ shown \in {{}, Profiles}
    /\ runs = 0 /\ faults = 0
    /\ verdict = [p \in Procs |-> "none"] /\ lost = [p \in Procs |-> FALSE]

-----------------------------------------------------------------------------
(* Texts and identifiers.                                                  *)

IccidText == [q \in Profiles |-> Bin2Gsmbcd(Iccid[q]).output]
AidText == [q \in Profiles |-> Bin2Hex(Aid[q])]

\* Mutant of Identifier: no filler up to the ten bytes of an ICCID.
IdentifierShort(id) ==
    LET bin == IF Len(id) = 32 THEN Hex2Bin(id, 16) ELSE Gsmbcd2Bin(id, 16, 0)
    IN [ret |-> bin.ret, tag |-> IF Len(id) = 32 THEN "4F" ELSE "5A", value |-> bin.output]

\* es10c_enable_disable_delete_profile: 32 characters are an AID.
Identifier(id) ==
    LET bin == IF Len(id) = 32 THEN Hex2Bin(id, 16) ELSE Gsmbcd2Bin(id, 16, 10)
    IN [ret |-> bin.ret, tag |-> IF Len(id) = 32 THEN "4F" ELSE "5A", value |-> bin.output]

\* es10c_set_nickname: always an ICCID, of ten bytes.
NicknameIdentifier(id) ==
    LET bin == Gsmbcd2Bin(id, 10, 10) IN [ret |-> bin.ret, tag |-> "5A", value |-> bin.output]

\* str_to_bool: TRUE for its five words for yes; a word for no and any other
\* text count the same.
StrToBool(text) == text \in {"1", "y", "on", "yes", "true"}

\* The refreshFlag of enable and disable: 0xFF or 0x80 from the argument, and
\* from that the byte FF or 00; delete has none.
RefreshFlag(op, flag) ==
    CASE op = "delete"                          -> "none"
      [] flag # <<>> /\ StrToBool(flag[1])      -> "FF"
      [] OTHER                                  -> "00"

-----------------------------------------------------------------------------
(* The applets up to the request.                                          *)

Idle(p) == pc[p] \in {"start", "done", "crashed"}

\* The start of a process: whatever the last one left is gone.
Begin(p, op, id, flag) ==
    /\ Idle(p) /\ runs < MaxRuns /\ runs' = runs + 1
    /\ line' = [line EXCEPT ![p] = [op |-> op, id |-> id, flag |-> flag]]
    /\ verdict' = [verdict EXCEPT ![p] = "none"] /\ lost' = [lost EXCEPT ![p] = FALSE]
    /\ UNCHANGED <<got, cardVars, shown, faults>>

\* The applet returns, and what it held is gone.
Exits(p, how) ==
    /\ pc' = [pc EXCEPT ![p] = how] /\ req' = [req EXCEPT ![p] = NoReq]
    /\ ret' = [ret EXCEPT ![p] = 0]

\* An early return that prints no result.
Says(p, text) ==
    Exits(p, "done") /\ printed' = [printed EXCEPT ![p] = text]

\* The request is packed and goes out.
Sends(p, tag, value, refresh) ==
    /\ pc' = [pc EXCEPT ![p] = "send"]
    /\ req' = [req EXCEPT ![p] = [tag |-> tag, value |-> value, refresh |-> refresh]]
    /\ printed' = [printed EXCEPT ![p] = "silent"]
    /\ UNCHANGED ret

\* The identifier did not convert: the call returns -1 and sends nothing.
Refuses(p) ==
    /\ pc' = [pc EXCEPT ![p] = "report"] /\ ret' = [ret EXCEPT ![p] = -1]
    /\ printed' = [printed EXCEPT ![p] = "silent"]
    /\ UNCHANGED req

\* Too few arguments.
Usage(p, op) ==
    /\ op \in Ops \ {"list", "info"}
    /\ Begin(p, op, <<>>, <<>>) /\ Says(p, "usage")

StartIdentified(p, op, id, flag) ==
    LET i == Identifier(id) IN
    /\ op \in Identified
    /\ Begin(p, op, id, flag)
    /\ IF i.ret < 0 THEN Refuses(p) ELSE Sends(p, i.tag, i.value, RefreshFlag(op, flag))

StartNickname(p, id) ==
    LET i == NicknameIdentifier(id) IN
    /\ Begin(p, "nickname", id, <<>>)
    /\ IF i.ret < 0 THEN Refuses(p) ELSE Sends(p, i.tag, i.value, "none")

\* Mutant of StartPurge: any argument confirms.
StartPurgeAnyway(p, flag) ==
    /\ Begin(p, "purge", <<>>, flag) /\ Sends(p, "82", <<>>, "none")

\* purge insists on the word yes.
StartPurge(p, flag) ==
    /\ Begin(p, "purge", <<>>, flag)
    /\ IF flag = <<"yes">> THEN Sends(p, "82", <<>>, "none") ELSE Says(p, "canceled")

StartOther(p, op) ==
    /\ op \in {"defaultsmdp", "list", "info"}
    /\ Begin(p, op, <<>>, <<>>) /\ Sends(p, "none", <<>>, "none")

-----------------------------------------------------------------------------
(* The eUICC (external): it decides on a request by its profiles and their *)
(* policy, and says so with the codes of docs/asn1/rsp.asn.                *)

Present == {q \in Profiles : status[q] # "absent"}

\* The profile that an identifier names.
Named(r) == {q \in Present : r.value = IF r.tag = "4F" THEN Aid[q] ELSE Iccid[q]}

\* What it may decide on an operation on profile q.
OnProfile(op, q) ==
    CASE op = "enable"  -> IF status[q] = "enabled" THEN {"wrongstate"}
                           ELSE IF \E r \in Keep : status[r] = "enabled" THEN {"policy"}
                           ELSE {"done", "reenabling", "busy"}
      [] op = "disable" -> IF status[q] # "enabled" THEN {"wrongstate"}
                           ELSE IF q \in Keep THEN {"policy"} ELSE {"done", "busy"}
      [] op = "delete"  -> IF status[q] = "enabled" THEN {"wrongstate"}
                           ELSE IF q \in Retain THEN {"policy"} ELSE {"done"}
      [] OTHER          -> {"done"}

Decisions(op, r) ==
    {"undefined"} \cup
    (CASE op \in Identified \cup {"nickname"} ->
             IF Named(r) = {} THEN {"notfound"} ELSE UNION {OnProfile(op, q) : q \in Named(r)}
       [] op = "purge" -> IF Present = {} THEN {"nothing"} ELSE {"done", "busy"}
       [] OTHER        -> {"done"})

Code(decision) ==
    CASE decision = "done"                       -> 0
      [] decision \in {"notfound", "nothing"}   -> 1
      [] decision = "wrongstate"                -> 2
      [] decision = "policy"                     -> 3
      [] decision = "reenabling"                 -> 4
      [] decision = "busy"                       -> 5
      [] OTHER                                   -> 127

\* The profile states after a decision to do it.
After(op, r) ==
    LET q == CHOOSE q \in Named(r) : TRUE
    IN CASE op = "enable"  -> [s \in Profiles |-> IF s = q THEN "enabled"
                                  ELSE IF status[s] = "enabled" THEN "disabled" ELSE status[s]]
         [] op = "disable" -> [status EXCEPT ![q] = "disabled"]
         [] op = "delete"  -> [status EXCEPT ![q] = "absent"]
         [] op = "purge"   -> [s \in Profiles |-> "absent"]
         [] OTHER          -> status

\* The eUICC decides and, if it is to, changes.
Decides(p, decision) ==
    LET op == line[p].op IN
    /\ decision \in Decisions(op, req[p])
    /\ verdict' = [verdict EXCEPT ![p] = decision]
    /\ IF decision = "done"
       THEN /\ status' = After(op, req[p])
            /\ nick' = IF op = "nickname" THEN [q \in Profiles |-> nick[q] \/ q \in Named(req[p])] ELSE nick
            /\ dp' = CASE op = "defaultsmdp" -> "new" [] op = "purge" -> "none" [] OTHER -> dp
       ELSE UNCHANGED cardVars

-----------------------------------------------------------------------------
(* The calls.                                                              *)

Returns(p, n) == pc' = [pc EXCEPT ![p] = "report"] /\ ret' = [ret EXCEPT ![p] = n]

Fault == faults < MaxFaults /\ faults' = faults + 1

\* es10x_command and the reading of the result.
Execute(p) ==
    /\ pc[p] = "send" /\ line[p].op \notin {"list", "info"}
    /\ \E decision \in Decisions(line[p].op, req[p]) :
          Decides(p, decision) /\ Returns(p, Code(decision))
    /\ UNCHANGED <<line, req, printed, got, shown, runs, faults, lost>>

\* Executed, and the answer does not arrive or cannot be read: with a refresh
\* the card may be reset before it answers.
ExecuteLost(p) ==
    /\ pc[p] = "send" /\ line[p].op \notin {"list", "info"} /\ Fault
    /\ \E decision \in Decisions(line[p].op, req[p]) : Decides(p, decision)
    /\ Returns(p, -1) /\ lost' = [lost EXCEPT ![p] = TRUE]
    /\ UNCHANGED <<line, req, printed, got, shown, runs>>

\* The request does not reach the eUICC.
Undelivered(p) ==
    /\ pc[p] = "send" /\ line[p].op \notin {"info"} /\ Fault
    /\ Returns(p, -1)
    /\ UNCHANGED <<line, req, printed, got, cardVars, shown, runs, verdict, lost>>

\* es10c_get_profiles_info, and the list that is printed from it.
List(p) ==
    /\ pc[p] = "send" /\ line[p].op = "list"
    /\ Returns(p, 0) /\ shown' = shown \cup Present
    /\ UNCHANGED <<line, req, printed, got, cardVars, runs, faults, verdict, lost>>

\* Mutant of Reason: two cases change places.
ReasonSwapped(op, n) ==
    CASE n = 1 /\ op \in Identified \cup {"nickname"} -> "notfound"
      [] n = 1 /\ op = "purge"        -> "nothing"
      [] n = 3 /\ op \in Identified -> "wrongstate"
      [] n = 2 /\ op \in Identified -> "policy"
      [] n = 4 /\ op = "enable"       -> "reenabling"
      [] n = -1 /\ op \in Identified -> "internal"
      [] OTHER                        -> "unknown"

\* The switch over the result in each applet; defaultsmdp and list give no reason
\* at all.
Reason(op, n) ==
    CASE n = 1 /\ op \in Identified \cup {"nickname"} -> "notfound"
      [] n = 1 /\ op = "purge"        -> "nothing"
      [] n = 2 /\ op \in Identified -> "wrongstate"
      [] n = 3 /\ op \in Identified -> "policy"
      [] n = 4 /\ op = "enable"       -> "reenabling"
      [] n = -1 /\ op \in Identified -> "internal"
      [] OTHER                        -> "unknown"

Report(p) ==
    /\ pc[p] = "report" /\ Exits(p, "done") /\ got' = [got EXCEPT ![p] = <<>>]
    /\ printed' = [printed EXCEPT ![p] = IF ret[p] = 0 THEN "success" ELSE Reason(line[p].op, ret[p])]
    /\ UNCHANGED <<line, cardVars, shown, runs, faults, verdict, lost>>

\* chip info asks for the EID, the addresses, the rules authorisation table and
\* EUICCInfo2, and goes on without an answer to any but the first.
Queries == <<"eid", "addresses", "rat", "info2">>

Query(p) ==
    /\ pc[p] = "send" /\ line[p].op = "info"
    /\ \E ok \in BOOLEAN :
          /\ IF ok THEN UNCHANGED faults ELSE Fault
          /\ got' = [got EXCEPT ![p] = Append(@, ok)]
          /\ CASE got[p] = <<>> /\ ~ok                 -> Returns(p, -1)
               [] Len(got[p]) + 1 = Len(Queries)       -> Returns(p, 0)
               [] OTHER                                -> UNCHANGED <<pc, ret>>
    /\ UNCHANGED <<line, req, printed, cardVars, shown, runs, verdict, lost>>

\* Without the EID chip info returns with its cleanup attributes in force and
\* the structures they release not yet written: it may crash.
Crash(p) ==
    /\ pc[p] = "report" /\ line[p].op = "info" /\ ret[p] = -1
    /\ Exits(p, "crashed") /\ got' = [got EXCEPT ![p] = <<>>]
    /\ UNCHANGED <<line, printed, cardVars, shown, runs, faults, verdict, lost>>

\* The process is killed; nobody learns what became of its command.
Kill(p) ==
    /\ pc[p] \in {"send", "report"} /\ Exits(p, "start")
    /\ line' = [line EXCEPT ![p] = NoLine] /\ got' = [got EXCEPT ![p] = <<>>]
    /\ verdict' = [verdict EXCEPT ![p] = "none"] /\ lost' = [lost EXCEPT ![p] = FALSE]
    /\ UNCHANGED <<printed, cardVars, shown, runs, faults>>

\* The identifiers a user may give: what a list has shown, or some other text.
Ids == Texts \cup {IccidText[q] : q \in shown} \cup {AidText[q] : q \in shown}
Flags(op) == IF op \in {"enable", "disable"} THEN {<<>>, <<"yes">>} ELSE {<<>>}

Start(p) ==
    \/ \E op \in Ops : Usage(p, op) \/ StartOther(p, op)
    \/ \E id \in Ids : StartNickname(p, id)
    \/ \E id \in Ids, op \in Identified : \E flag \in Flags(op) : StartIdentified(p, op, id, flag)
    \/ \E flag \in {<<"yes">>, <<"no">>} : StartPurge(p, flag)

Step(p) ==
    \/ Execute(p) \/ ExecuteLost(p) \/ Undelivered(p) \/ List(p)
    \/ Query(p) \/ Report(p) \/ Crash(p)

Next == \E p \in Procs : Start(p) \/ Step(p) \/ Kill(p)

Spec == Init /\ [][Next]_vars

-----------------------------------------------------------------------------
(* Properties.                                                             *)

Reasons == {"notfound", "wrongstate", "policy", "reenabling", "nothing"}

\* What an applet prints is what the eUICC decided on its command, whatever
\* other processes did meanwhile.  Success means it was done, and a reason is the
\* eUICC's own; "unknown" and "internal error" stand for a code without a text,
\* for a request that was refused or did not arrive, or for one that was executed
\* with its answer lost, and then the change may have been made.
ReportIsTrue ==
    \A p \in Procs :
        LET asked == line[p].op \notin {"list", "info"} IN
        /\ printed[p] = "success" /\ asked => verdict[p] = "done"
        /\ printed[p] \in Reasons => verdict[p] = printed[p]
        /\ printed[p] \in {"internal", "unknown"} /\ verdict[p] = "done" => lost[p]
        /\ printed[p] \in {"usage", "canceled"} => verdict[p] = "none"

\* A text without the filler at its end.
Bare(text) ==
    LET digits == {0} \cup {k \in 1..Len(text) : text[k] # 15}
    IN SubSeq(text, 1, CHOOSE k \in digits : \A j \in digits : j <= k)

\* A profile changes only by a command that names it by the AID that `profile list`
\* prints for it, or by the ICCID up to the filler, by a purge, or because another
\* profile is enabled in its place; and a process changes nothing before or after
\* its call.
ActsOnNamedProfile ==
    [][\A q \in Profiles :
         /\ status'[q] # status[q] =>
              \E p \in Procs :
                 /\ pc[p] = "send" /\ pc'[p] = "report"
                 /\ \/ /\ line[p].op \in Identified
                       /\ line[p].id = AidText[q] \/ Bare(line[p].id) = Bare(IccidText[q])
                    \/ line[p].op = "purge" /\ line[p].flag = <<"yes">>
                    \/ line[p].op = "enable" /\ status[q] = "enabled" /\ status'[q] = "disabled"
         /\ nick'[q] # nick[q] =>
              \E p \in Procs :
                 /\ pc[p] = "send" /\ pc'[p] = "report"
                 /\ line[p].op = "nickname" /\ Bare(line[p].id) = Bare(IccidText[q])]_vars

\* A profile is named by its own texts: enable, disable and delete with a text
\* that a list printed never end in "notfound" unless the profile has been
\* deleted since, and never in a coding error.
ShownIsAccepted ==
    \A p \in Procs, q \in Profiles :
        line[p].op \in Identified /\ line[p].id \in {IccidText[q], AidText[q]} =>
            /\ pc[p] = "send" /\ q \in Present => q \in Named(req[p])
            /\ printed[p] = "internal" => faults > 0 /\ (lost[p] \/ verdict[p] = "none")

\* docs/USAGE.md, of enable and of disable: "The RefreshFlag status is enabled by
\* default and can be omitted."
RefreshByDefault ==
    \A p \in Procs :
        pc[p] = "send" /\ line[p].op \in {"enable", "disable"} /\ line[p].flag = <<>> =>
            req[p].refresh = "FF"
=============================================================================

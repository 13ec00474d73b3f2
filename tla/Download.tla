------------------------------ MODULE Download ------------------------------
(***************************************************************************)
(* Remote SIM provisioning as lpac runs it: `lpac profile download` and    *)
(* `lpac profile discovery`, the ES10b and ES9+ calls they make in turn    *)
(* and the http._internal context that carries results from one call to   *)
(* the next.  Several lpac processes may share one eUICC.  Every call to   *)
(* the eUICC or to the server may fail before it got there, or after the   *)
(* other side acted; a process may be interrupted or killed anywhere.      *)
(***************************************************************************)
EXTENDS Integers, FiniteSets

CONSTANTS
    Procs,          \* lpac processes; each also names its transaction
    Segments,       \* segments of a whole bound profile package
    MaxFaults,      \* bound: exchanges that fail, over all processes
    NoOne,          \* no process
    Departed        \* an lpac that ended earlier and left a session behind

ASSUME ProcsAssumption == {NoOne, Departed} \cap Procs = {}
ASSUME SegmentsAssumption == Segments \in Nat \ {0} /\ MaxFaults \in Nat

VARIABLES
    mode,       \* the subcommand: profile download or profile discovery
    pc,         \* the call a process makes next
    cancelled,  \* the flag sigint_handler sets
    ctx,        \* the fields of http._internal
    sent,       \* segments of the package sent to the eUICC
    length,     \* segments of the package received from the server
    fret,       \* "ok" until a goto err
    out,        \* what was printed: success, error or cancelled
    card,       \* eUICC: challenge owner, session, its phase, installed profiles
    srv,        \* server: state of each transaction
    broken,     \* history: calls that failed before they were delivered
    lost,       \* history: calls that failed after the other side had acted
    early,      \* history: the user cancelled before the last CANCELPOINT
    alive,      \* history: the eUICC had the session when the process cancelled it
    clean       \* history: nothing went wrong so far and nobody interfered

hostVars == <<mode, pc, cancelled, ctx, sent, length, fret, out>>
history == <<broken, lost, early, alive, clean>>
vars == <<hostVars, card, srv, history>>

Downloaders == {p \in Procs : mode[p] = "download"}

Fields == {"tidHttp", "tidBin", "challenge", "info", "authParam", "authResp",
           "prepParam", "prepResp", "bpp", "cancelResp"}

\* A field is NULL, holds a good value, or holds an error answer of the eUICC
\* that lpac passes on without looking inside.
Values == {"null", "ok", "err"}
Empty == [f \in Fields |-> "null"]

Calls == {"challenge", "info", "initiate", "authServer", "authClient", "preview",
          "prepare", "getBpp", "load", "cancelCard", "cancelServer"}

\* Every variable keeps its type; in particular a download never sends more
\* segments than a whole package has.
TypeOK ==
    /\ mode \in [Procs -> {"download", "discovery"}]
    /\ pc \in [Procs -> Calls \cup {"start", "report", "done", "killed"}]
    /\ cancelled \in [Procs -> BOOLEAN]
    /\ ctx \in [Procs -> [Fields -> Values]]
    /\ sent \in [Procs -> 0..Segments] /\ length \in [Procs -> 0..Segments]
    /\ fret \in [Procs -> {"ok", "arguments", "err"}]
    /\ out \in [Procs -> {"none", "success", "error", "cancelled"}]
    /\ card \in [chal : Procs \cup {NoOne}, sess : Procs \cup {NoOne, Departed},
                 phase : {"none", "authed", "prepared"}, seg : 0..Segments,
                 installed : SUBSET Procs]
    /\ srv \in [Procs -> {"none", "open", "authed", "bound", "cancelled"}]
    /\ broken \in [Procs -> SUBSET Calls] /\ lost \in [Procs -> SUBSET Calls]
    /\ early \in [Procs -> BOOLEAN] /\ alive \in [Procs -> BOOLEAN] /\ clean \in [Procs -> BOOLEAN]

Init ==
    /\ mode \in [Procs -> {"download", "discovery"}]
    /\ pc = [p \in Procs |-> "start"]
    /\ cancelled = [p \in Procs |-> FALSE]
    /\ ctx = [p \in Procs |-> Empty]
    /\ sent = [p \in Procs |-> 0] /\ length = [p \in Procs |-> 0]
    /\ fret = [p \in Procs |-> "ok"] /\ out = [p \in Procs |-> "none"]
    /\ card \in [chal : {NoOne}, sess : {NoOne, Departed}, phase : {"none"}, seg : {0}, installed : {{}}]
    /\ srv = [p \in Procs |-> "none"]
    /\ broken = [p \in Procs |-> {}] /\ lost = [p \in Procs |-> {}]
    /\ early = [p \in Procs |-> FALSE] /\ alive = [p \in Procs |-> FALSE] /\ clean = [p \in Procs |-> TRUE]

-----------------------------------------------------------------------------
(* The eUICC (external): what each command may do to it and answer.  An    *)
(* answer is ok, err, or more while a package is incomplete; forced tells  *)
(* that the eUICC had no choice.                                           *)

Answer(c, a, forced) == [card |-> c, ans |-> a, forced |-> forced]
NoSession(c) == [c EXCEPT !.sess = NoOne, !.phase = "none", !.seg = 0]
Owns(p, phase) == card.sess = p /\ card.phase = phase

\* A new challenge ends whatever session there was.
CardChallenge(p) == {Answer([NoSession(card) EXCEPT !.chal = p], "ok", TRUE)}

CardInfo(p) == {Answer(card, "ok", TRUE)}

\* The server signed the challenge of the process; it must be the last given.
CardAuthenticate(p) ==
    IF card.chal # p THEN {Answer(card, "err", TRUE)}
    ELSE {Answer(card, "err", FALSE),
          Answer([card EXCEPT !.chal = NoOne, !.sess = p, !.phase = "authed", !.seg = 0], "ok", TRUE)}

CardPrepare(p) ==
    IF ~Owns(p, "authed") THEN {Answer(card, "err", TRUE)}
    ELSE {Answer(card, "err", FALSE), Answer([card EXCEPT !.phase = "prepared"], "ok", TRUE)}

\* The next segment is taken, and the last one installs the profile; or the
\* eUICC gives an error result, which ends the session.
CardLoad(p) ==
    IF ~(Owns(p, "prepared") /\ card.seg = sent[p]) THEN {Answer(card, "err", TRUE)}
    ELSE {Answer(NoSession(card), "err", FALSE),
          IF card.seg + 1 < Segments
          THEN Answer([card EXCEPT !.seg = @ + 1], "more", TRUE)
          ELSE Answer([NoSession(card) EXCEPT !.installed = @ \cup {p}], "ok", TRUE)}

CardCancel(p) ==
    IF card.sess = p THEN {Answer(NoSession(card), "ok", TRUE)} ELSE {Answer(card, "err", TRUE)}

(* The server (external): the state it moves to and whether it is content. *)

Reply(s, a, forced) == [srv |-> s, ans |-> a, forced |-> forced]

\* In state s a good input moves the transaction to t; anything else, or a
\* reason of its own, makes the server answer with a failure status.
ServerStep(p, s, input, t) ==
    IF srv[p] # s \/ input # "ok" THEN {Reply(srv[p], "err", TRUE)}
    ELSE {Reply(srv[p], "err", FALSE), Reply(t, "ok", TRUE)}

ServerCancel(p) ==
    {Reply(IF ctx[p]["cancelResp"] = "ok" /\ srv[p] \in {"open", "authed", "bound"} THEN "cancelled" ELSE srv[p],
           "ok", TRUE)}
-----------------------------------------------------------------------------
(* Calls and how they end.                                                 *)

\* Mutant of Ready: authenticate_client refuses when a transaction id is set.
ReadyWithoutTid(p, call) ==
    LET has(f) == ctx[p][f] # "null"
    IN  CASE call = "authClient"   -> ~has("tidBin") /\ has("authResp")
          [] call = "cancelCard"   -> has("tidBin") /\ ~has("cancelResp")
          [] call = "cancelServer" -> has("cancelResp")
          [] OTHER                 -> TRUE

\* Whether the NULL checks at the head of a call let it through.
Ready(p, call) ==
    LET has(f) == ctx[p][f] # "null"
    IN  CASE call = "challenge"    -> ~has("challenge") /\ ~has("info")
          [] call = "initiate"     -> ~has("authParam") /\ has("challenge") /\ has("info")
          [] call = "authServer"   -> ~has("authResp") /\ has("authParam")
          [] call = "authClient"   -> (p \in Downloaders => ~has("prepParam")) /\ has("authResp")
          [] call = "prepare"      -> ~has("prepResp") /\ has("prepParam")
          [] call = "getBpp"       -> ~has("bpp") /\ has("prepResp")
          [] call = "load"         -> has("bpp")
          [] call = "cancelCard"   -> has("tidBin") /\ ~has("cancelResp")
          [] call = "cancelServer" -> has("cancelResp")
          [] OTHER                 -> TRUE

\* Mutant of AtCancelPoint: no CANCELPOINT() after the preview.
NoLateCancelPoint(p) ==
    /\ p \in Downloaders
    /\ pc[p] \in {"challenge", "initiate", "authServer", "authClient", "preview"}

\* CANCELPOINT() stands before every call of a download but the second half
\* of get_euicc_challenge_and_info, and before the first segment only.
AtCancelPoint(p) ==
    /\ p \in Downloaders
    /\ \/ pc[p] \in {"challenge", "initiate", "authServer", "authClient", "preview", "prepare", "getBpp"}
       \/ pc[p] = "load" /\ sent[p] = 0

Proceeds(p, call) == pc[p] = call /\ ~(cancelled[p] /\ AtCancelPoint(p))

Set(p, field, v) == [ctx EXCEPT ![p][field] = v]

Go(p, call) == pc' = [pc EXCEPT ![p] = call] /\ UNCHANGED <<cancelled, fret, out>>

\* Mutant of GotoErr: straight to the report.
GotoErrNoCancel(p) ==
    /\ pc' = [pc EXCEPT ![p] = "report"]
    /\ fret' = [fret EXCEPT ![p] = "err"]
    /\ UNCHANGED <<cancelled, out>>

\* goto err: a download cancels the session first, discovery only cleans up.
GotoErr(p) ==
    /\ pc' = [pc EXCEPT ![p] = IF p \in Downloaders THEN "cancelCard" ELSE "report"]
    /\ fret' = [fret EXCEPT ![p] = "err"]
    /\ UNCHANGED <<cancelled, out>>

\* Who has begun and not ended: a challenge given to somebody else ends the
\* session they are in or on their way to.
Midway(q) == pc[q] \notin {"start", "challenge", "report", "done", "killed"}

Smooth(p, c, forced) ==
    clean' = [q \in Procs |->
                 IF q = p THEN clean[q] /\ forced
                 ELSE clean[q] /\ ~(Midway(q) /\ card.chal # p /\ c.chal = p)]

\* Exchanges may still fail; a call that is not ready always does.
MayFail(answers) ==
    \/ Cardinality({x \in Procs \X Calls : x[2] \in broken[x[1]] \cup lost[x[1]]}) < MaxFaults
    \/ answers = {}

\* es10x_command returns the answer r.
Es10Answered(p, r) ==
    card' = r.card /\ Smooth(p, r.card, r.forced) /\ UNCHANGED <<broken, lost>>

\* es10x_command fails: the eUICC acted and the answer r is lost...
Es10Lost(p, r) ==
    /\ card' = r.card /\ Smooth(p, r.card, FALSE)
    /\ lost' = [lost EXCEPT ![p] = @ \cup {pc[p]}] /\ UNCHANGED broken

\* ...or the command did not reach it, or the call was not ready to send one.
Es10Unsent(p, ready) ==
    /\ UNCHANGED <<card, lost>> /\ Smooth(p, card, ~ready)
    /\ broken' = [broken EXCEPT ![p] = @ \cup {pc[p]}]

\* A command to the eUICC with its possible answers.  Taken(a) is what the
\* caller does with an answer, Failed what it does on an error.
Es10(p, answers, Taken(_), Failed) ==
    \/ \E r \in answers : Es10Answered(p, r) /\ Taken(r.ans)
    \/ \E r \in answers : MayFail(answers) /\ Es10Lost(p, r) /\ Failed
    \/ MayFail(answers) /\ Es10Unsent(p, answers # {}) /\ Failed

\* es9p_trans_json gets an answer that it can take apart.
Es9Answered(p, r) ==
    /\ srv' = [srv EXCEPT ![p] = r.srv]
    /\ clean' = [clean EXCEPT ![p] = @ /\ r.forced] /\ UNCHANGED <<broken, lost>>

\* It fails: the server acted and its response is lost or unusable...
Es9Lost(p, r) ==
    /\ srv' = [srv EXCEPT ![p] = r.srv] /\ clean' = [clean EXCEPT ![p] = FALSE]
    /\ lost' = [lost EXCEPT ![p] = @ \cup {pc[p]}] /\ UNCHANGED broken

\* ...or es9p_trans_ex did not deliver the request, or there was none.
Es9Unsent(p, ready) ==
    /\ UNCHANGED <<srv, lost>> /\ clean' = [clean EXCEPT ![p] = @ /\ ~ready]
    /\ broken' = [broken EXCEPT ![p] = @ \cup {pc[p]}]

\* A request to the server with its possible replies.  Failed is told whether
\* there was a response to take outputs from.
Es9(p, replies, Taken(_), Failed(_)) ==
    \/ \E r \in replies : Es9Answered(p, r) /\ Taken(r.ans)
    \/ \E r \in replies : MayFail(replies) /\ Es9Lost(p, r) /\ Failed(TRUE)
    \/ MayFail(replies) /\ Es9Unsent(p, replies # {}) /\ Failed(FALSE)
-----------------------------------------------------------------------------
(* The steps of `profile download`; discovery takes the first five.        *)

\* Options, activation code and default SM-DP+ address: fine, or goto err
\* before the SIGINT handler is installed.
Start(p) ==
    /\ pc[p] = "start"
    /\ \/ Go(p, "challenge") /\ UNCHANGED clean
       \/ /\ p \in Downloaders
          /\ pc' = [pc EXCEPT ![p] = "cancelCard"] /\ fret' = [fret EXCEPT ![p] = "arguments"]
          /\ clean' = [clean EXCEPT ![p] = FALSE]
          /\ UNCHANGED <<cancelled, out>>
    /\ UNCHANGED <<ctx, sent, length, card, srv, broken, lost, early, mode, alive>>

\* A CANCELPOINT() that finds the flag set.
CancelPoint(p) ==
    /\ AtCancelPoint(p) /\ cancelled[p]
    /\ GotoErr(p)
    /\ UNCHANGED <<mode, ctx, sent, length, card, srv, history>>

\* es10b_get_euicc_challenge_and_info, its first and its second command: if
\* one fails both results are freed.
GetChallenge(p) ==
    LET Taken(a) == ctx' = Set(p, "challenge", "ok") /\ Go(p, "info")
        Failed == UNCHANGED ctx /\ GotoErr(p)
    IN  /\ Proceeds(p, "challenge")
        /\ Es10(p, IF Ready(p, "challenge") THEN CardChallenge(p) ELSE {}, Taken, Failed)
        /\ UNCHANGED <<sent, length, srv, early, mode, alive>>

GetInfo(p) ==
    LET Taken(a) == ctx' = Set(p, "info", "ok") /\ Go(p, "initiate")
        Failed == ctx' = Set(p, "challenge", "null") /\ GotoErr(p)
    IN  /\ Proceeds(p, "info")
        /\ Es10(p, CardInfo(p), Taken, Failed)
        /\ UNCHANGED <<sent, length, srv, early, mode, alive>>

\* es9p_initiate_authentication: the outputs are stored one by one, so a
\* failing call may have stored the transaction id, the first of them.
Initiate(p) ==
    LET Taken(a) ==
            IF a = "ok"
            THEN /\ ctx' = [ctx EXCEPT ![p]["tidHttp"] = "ok", ![p]["authParam"] = "ok",
                                       ![p]["challenge"] = "null", ![p]["info"] = "null"]
                 /\ Go(p, "authServer")
            ELSE UNCHANGED ctx /\ GotoErr(p)
        Failed(answered) ==
            /\ ctx' \in {ctx} \cup (IF answered THEN {Set(p, "tidHttp", "ok")} ELSE {})
            /\ GotoErr(p)
    IN  /\ Proceeds(p, "initiate")
        /\ Es9(p, IF Ready(p, "initiate") THEN ServerStep(p, "none", "ok", "open") ELSE {}, Taken, Failed)
        /\ UNCHANGED <<sent, length, card, early, mode, alive>>

\* es10b_authenticate_server: the transaction id is read from serverSigned1
\* and forgotten when the command fails; an error answer of the eUICC is
\* kept like a good one.
AuthenticateServer(p) ==
    LET Taken(a) == /\ ctx' = [ctx EXCEPT ![p]["tidBin"] = "ok", ![p]["authResp"] = a, ![p]["authParam"] = "null"]
                    /\ Go(p, "authClient")
        Failed == ctx' = Set(p, "tidBin", "null") /\ GotoErr(p)
    IN  /\ Proceeds(p, "authServer")
        /\ Es10(p, IF Ready(p, "authServer") THEN CardAuthenticate(p) ELSE {}, Taken, Failed)
        /\ UNCHANGED <<sent, length, srv, early, mode, alive>>

\* Mutant of AuthenticateClient: prepare_download_param is freed whatever the
\* call returned.
AuthenticateClientFrees(p) ==
    LET Taken(a) ==
            IF a = "ok"
            THEN ctx' = Set(p, "authResp", "null") /\ Go(p, IF p \in Downloaders THEN "preview" ELSE "report")
            ELSE UNCHANGED ctx /\ GotoErr(p)
        Failed(answered) == UNCHANGED ctx /\ GotoErr(p)
    IN  /\ Proceeds(p, "authClient")
        /\ Es9(p, ServerStep(p, "open", ctx[p]["authResp"], "authed"), Taken, Failed)
        /\ UNCHANGED <<sent, length, card, early, mode, alive>>

\* es9p_authenticate_client, or es11_authenticate_client for discovery, which
\* then prints the servers it was told of.
AuthenticateClient(p) ==
    LET Taken(a) ==
            IF a = "ok"
            THEN IF p \in Downloaders
                 THEN /\ ctx' = [ctx EXCEPT ![p]["prepParam"] = "ok", ![p]["authResp"] = "null"]
                      /\ Go(p, "preview")
                 ELSE ctx' = Set(p, "authResp", "null") /\ Go(p, "report")
            ELSE UNCHANGED ctx /\ GotoErr(p)
        Failed(answered) == UNCHANGED ctx /\ GotoErr(p)
    IN  /\ Proceeds(p, "authClient")
        /\ Es9(p, IF Ready(p, "authClient") THEN ServerStep(p, "open", ctx[p]["authResp"], "authed") ELSE {},
               Taken, Failed)
        /\ UNCHANGED <<sent, length, card, early, mode, alive>>

\* es8p_metadata_parse, which may refuse the metadata, and the y/n question
\* of -p, where anything but y sets the cancelled flag.
Preview(p) ==
    /\ Proceeds(p, "preview")
    /\ \/ Go(p, "prepare") /\ UNCHANGED <<clean, early>>
       \/ /\ pc' = [pc EXCEPT ![p] = "prepare"] /\ cancelled' = [cancelled EXCEPT ![p] = TRUE]
          /\ early' = [early EXCEPT ![p] = TRUE] /\ clean' = [clean EXCEPT ![p] = FALSE]
          /\ UNCHANGED <<fret, out>>
       \/ GotoErr(p) /\ clean' = [clean EXCEPT ![p] = FALSE] /\ UNCHANGED early
    /\ UNCHANGED <<mode, ctx, sent, length, card, srv, broken, lost, alive>>

\* es10b_prepare_download: fails before sending when the server asks for a
\* confirmation code and none was given.
PrepareDownload(p) ==
    LET Taken(a) == ctx' = [ctx EXCEPT ![p]["prepResp"] = a, ![p]["prepParam"] = "null"] /\ Go(p, "getBpp")
        Failed == UNCHANGED ctx /\ GotoErr(p)
    IN  /\ Proceeds(p, "prepare")
        /\ Es10(p, IF Ready(p, "prepare") THEN CardPrepare(p) ELSE {}, Taken, Failed)
        /\ UNCHANGED <<sent, length, srv, early, mode, alive>>

\* es9p_get_bound_profile_package.  The package may have lost its tail: the
\* children of a sequence are read while one can be parsed, and the call
\* that loads them ends there without an error.
GetBoundProfilePackage(p) ==
    LET Taken(a) ==
            IF a = "ok"
            THEN /\ ctx' = [ctx EXCEPT ![p]["bpp"] = "ok", ![p]["prepResp"] = "null"]
                 /\ \E n \in 1..Segments : length' = [length EXCEPT ![p] = n]
                 /\ Go(p, "load")
            ELSE UNCHANGED <<ctx, length>> /\ GotoErr(p)
        Failed(answered) == UNCHANGED <<ctx, length>> /\ GotoErr(p)
    IN  /\ Proceeds(p, "getBpp")
        /\ Es9(p, IF Ready(p, "getBpp") THEN ServerStep(p, "authed", ctx[p]["prepResp"], "bound") ELSE {},
               Taken, Failed)
        /\ UNCHANGED <<sent, card, early, mode, alive>>

\* Mutants of LoadSegment: an error result is not looked at; the loop runs
\* once too often.
LoadSegmentWith(p, err, more) ==
    LET Taken(a) ==
            /\ sent' = [sent EXCEPT ![p] = @ + 1]
            /\ IF a = err THEN UNCHANGED ctx /\ GotoErr(p)
               ELSE IF more THEN UNCHANGED ctx /\ Go(p, "load")
               ELSE ctx' = Set(p, "bpp", "null") /\ Go(p, "report")
        Failed == UNCHANGED <<ctx, sent>> /\ GotoErr(p)
    IN  /\ Proceeds(p, "load")
        /\ Es10(p, CardLoad(p), Taken, Failed)
        /\ UNCHANGED <<length, srv, early, mode, alive>>
LoadSegmentNoResult(p) == LoadSegmentWith(p, "none", sent[p] + 1 < length[p])
LoadSegmentTooOften(p) == LoadSegmentWith(p, "err", sent[p] + 1 <= length[p])

\* One segment of es10b_load_bound_profile_package; after the last one in the
\* package the call succeeds and the result is printed.
LoadSegment(p) ==
    LET Taken(a) ==
            /\ sent' = [sent EXCEPT ![p] = @ + 1]
            /\ IF a = "err" THEN UNCHANGED ctx /\ GotoErr(p)
               ELSE IF sent[p] + 1 < length[p] THEN UNCHANGED ctx /\ Go(p, "load")
               ELSE ctx' = Set(p, "bpp", "null") /\ Go(p, "report")
        Failed == UNCHANGED <<ctx, sent>> /\ GotoErr(p)
    IN  /\ Proceeds(p, "load")
        /\ Es10(p, IF Ready(p, "load") THEN CardLoad(p) ELSE {}, Taken, Failed)
        /\ UNCHANGED <<length, srv, early, mode, alive>>

\* Mutant of CancelCard: the eUICC's answer is not kept.
CancelCardForgets(p) ==
    LET Taken(a) == UNCHANGED ctx /\ Go(p, "cancelServer")
        Failed == UNCHANGED ctx /\ Go(p, "cancelServer")
    IN  /\ pc[p] = "cancelCard"
        /\ IF Ready(p, "cancelCard")
           THEN Es10(p, CardCancel(p), Taken, Failed)
           ELSE Failed /\ UNCHANGED <<card, broken, lost, clean>>
        /\ alive' = [alive EXCEPT ![p] = card.sess = p]
        /\ UNCHANGED <<mode, sent, length, srv, early>>

\* err: es10b_cancel_session, whose result is not looked at.
CancelCard(p) ==
    LET Taken(a) == ctx' = Set(p, "cancelResp", a) /\ Go(p, "cancelServer")
        Failed == UNCHANGED ctx /\ Go(p, "cancelServer")
    IN  /\ pc[p] = "cancelCard"
        /\ IF Ready(p, "cancelCard")
           THEN Es10(p, CardCancel(p), Taken, Failed)
           ELSE Failed /\ UNCHANGED <<card, broken, lost, clean>>
        /\ alive' = [alive EXCEPT ![p] = card.sess = p]
        /\ UNCHANGED <<mode, sent, length, srv, early>>

\* ...then es9p_cancel_session, with the eUICC's answer if there is one.
CancelServer(p) ==
    LET Taken(a) == ctx' = Set(p, "cancelResp", "null") /\ Go(p, "report")
        Failed(answered) == UNCHANGED ctx /\ Go(p, "report")
    IN  /\ pc[p] = "cancelServer"
        /\ IF Ready(p, "cancelServer")
           THEN Es9(p, ServerCancel(p), Taken, Failed)
           ELSE Failed(FALSE) /\ UNCHANGED <<srv, broken, lost, clean>>
        /\ UNCHANGED <<sent, length, card, early, mode, alive>>

\* The last line of output, then euicc_http_cleanup.
Report(p) ==
    /\ pc[p] = "report"
    /\ out' = [out EXCEPT ![p] = IF fret[p] = "ok" THEN "success"
                                 ELSE IF cancelled[p] THEN "cancelled" ELSE "error"]
    /\ ctx' = [ctx EXCEPT ![p] = Empty]
    /\ pc' = [pc EXCEPT ![p] = "done"]
    /\ UNCHANGED <<mode, cancelled, sent, length, fret, card, srv, history>>

-----------------------------------------------------------------------------
(* The user and the operating system.                                      *)

Running(p) == pc[p] \notin {"start", "done", "killed"}

\* The first segment has not been sent, nor has lpac given up.
BeforeLoad(p) == sent[p] = 0 /\ pc[p] \notin {"cancelCard", "cancelServer", "report"}

\* sigint_handler; discovery installs none, nor does a download that failed
\* on its arguments.
Sigint(p) ==
    /\ Running(p) /\ p \in Downloaders /\ fret[p] # "arguments" /\ ~cancelled[p]
    /\ cancelled' = [cancelled EXCEPT ![p] = TRUE]
    /\ early' = [early EXCEPT ![p] = BeforeLoad(p)]
    /\ clean' = [clean EXCEPT ![p] = FALSE]
    /\ UNCHANGED <<mode, pc, ctx, sent, length, fret, out, card, srv, broken, lost, alive>>

\* The process ends without any of its own clean-up.
Kill(p) ==
    /\ Running(p)
    /\ pc' = [pc EXCEPT ![p] = "killed"] /\ ctx' = [ctx EXCEPT ![p] = Empty]
    /\ UNCHANGED <<mode, cancelled, sent, length, fret, out, card, srv, history>>

Step(p) ==
    \/ Start(p) \/ CancelPoint(p)
    \/ GetChallenge(p) \/ GetInfo(p) \/ Initiate(p) \/ AuthenticateServer(p) \/ AuthenticateClient(p)
    \/ Preview(p) \/ PrepareDownload(p) \/ GetBoundProfilePackage(p) \/ LoadSegment(p)
    \/ CancelCard(p) \/ CancelServer(p) \/ Report(p)

AllEnded == \A p \in Procs : pc[p] \in {"done", "killed"}

Next ==
    \/ \E p \in Procs : Step(p) \/ Sigint(p) \/ Kill(p)
    \/ AllEnded /\ UNCHANGED vars

Spec == Init /\ [][Next]_vars
-----------------------------------------------------------------------------
(* Properties.                                                             *)

\* What a download prints is true of the eUICC.  After success the profile is
\* there, unless the package it got from the server had lost its tail.  After an
\* error or "cancelled" it is not, unless the answer to the segment that installed
\* it was lost: nothing after that segment can turn a success into an error.
OutcomeIsTrue ==
    \A p \in Downloaders :
        /\ out[p] = "success" => p \in card.installed \/ length[p] < Segments
        /\ out[p] \in {"error", "cancelled"} /\ p \in card.installed => "load" \in lost[p]

\* ^C before the last CANCELPOINT, or anything but y at the preview, and the
\* profile is never installed and success never printed.
EarlyCancelIsFinal == \A p \in Procs : early[p] => p \notin card.installed /\ out[p] # "success"

\* A session that stays in the eUICC after its process ended has one of four
\* causes: discovery never cancels; authenticate_server executed but lost its
\* answer, and with it the transaction id; the cancel command did not get
\* through; a package without its tail was taken for a whole one.
OrphanSession ==
    \A p \in Procs : pc[p] = "done" /\ card.sess = p =>
        \/ mode[p] = "discovery"
        \/ "authServer" \in lost[p]
        \/ "cancelCard" \in broken[p]
        \/ out[p] = "success" /\ length[p] < Segments

\* A download that gives up while the eUICC still has its session ends it at
\* both ends, unless a cancel call did not get through or the transaction id
\* went with the lost answer of authenticate_server.
CancelReachesBoth ==
    \A p \in Procs : pc[p] = "done" /\ alive[p] =>
        \/ card.sess # p /\ srv[p] = "cancelled"
        \/ {"cancelCard", "cancelServer"} \cap broken[p] # {}
        \/ {"cancelCard", "authServer"} \cap lost[p] # {}

\* The NULL checks at the head of the calls never fail in lpac's own sequence,
\* the preview never looks into a prepare_download_param that is not there,
\* and cleanup leaves nothing behind.
ContextReady ==
    \A p \in Procs :
        /\ pc[p] \in Calls \ {"cancelCard", "cancelServer"} => Ready(p, pc[p])
        /\ pc[p] = "preview" => ctx[p]["prepParam"] # "null"
        /\ pc[p] \in {"done", "killed"} => ctx[p] = Empty

\* With nothing lost, refused or cancelled and no other process drawing a new
\* challenge in between, a download ends with its profile installed, whatever
\* session was left in the eUICC before.
CleanRunSucceeds ==
    \A p \in Procs : pc[p] = "done" /\ clean[p] =>
        out[p] = "success" /\ (p \in Downloaders => p \in card.installed \/ length[p] < Segments)
=============================================================================

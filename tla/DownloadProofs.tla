--------------------------- MODULE DownloadProofs ---------------------------
(***************************************************************************)
(* What Download promises, for any number of processes sharing the eUICC,  *)
(* segments of a package and failing exchanges.  None of its invariants is *)
(* inductive by itself: the proof adds, for each process, what the context *)
(* holds at each call, how far the download has come, and what the eUICC   *)
(* and the server know of it.                                              *)
(***************************************************************************)
EXTENDS Download, TLAPS

\* The calls up to the last segment, and what follows a goto err.
Forward == {"challenge", "info", "initiate", "authServer", "authClient", "preview",
            "prepare", "getBpp", "load"}
Wrapping == {"cancelServer", "report", "done"}

\* The fields of the context that are set when a call is made.
Held(call) ==
    CASE call = "info"                   -> {"challenge"}
      [] call = "initiate"               -> {"challenge", "info"}
      [] call = "authServer"             -> {"tidHttp", "authParam"}
      [] call = "authClient"             -> {"tidHttp", "tidBin", "authResp"}
      [] call \in {"preview", "prepare"} -> {"tidHttp", "tidBin", "prepParam"}
      [] call = "getBpp"                 -> {"tidHttp", "tidBin", "prepResp"}
      [] call = "load"                   -> {"tidHttp", "tidBin", "bpp"}
      [] OTHER                           -> {}

InContext(p) ==
    /\ pc[p] \notin {"cancelCard", "cancelServer", "report"} =>
           \A f \in Fields : ctx[p][f] # "null" <=> f \in Held(pc[p])
    /\ pc[p] = "cancelCard" => ctx[p]["cancelResp"] = "null"

\* How far a process has come, told from where it is.
Progress(p) ==
    /\ pc[p] \in Forward \cup {"start"} => fret[p] = "ok"
    /\ pc[p] \in {"cancelCard", "cancelServer"} => fret[p] # "ok"
    /\ p \notin Downloaders =>
           pc[p] \notin {"preview", "prepare", "getBpp", "load", "cancelCard", "cancelServer"}
    /\ pc[p] \in (Forward \ {"load"}) \cup {"start"} => sent[p] = 0
    /\ pc[p] = "load" => sent[p] < length[p]
    /\ pc[p] # "done" => out[p] = "none"
    /\ pc[p] = "done" => (out[p] = "success" <=> fret[p] = "ok")

\* What is installed, and what the process will say of it.
Installed(p) ==
    /\ p \in Downloaders /\ pc[p] \in {"report", "done"} /\ fret[p] = "ok" =>
           p \in card.installed \/ length[p] < Segments
    /\ p \in card.installed =>
           \/ "load" \in lost[p] /\ pc[p] \in {"cancelCard", "cancelServer", "report", "done", "killed"}
           \/ fret[p] = "ok" /\ pc[p] \in {"report", "done", "killed"}

\* A process cancelled early has not begun to load, or has given up.
Stopping(p) ==
    early[p] =>
        /\ cancelled[p] /\ p \in Downloaders /\ p \notin card.installed
        /\ \/ pc[p] \in Forward /\ sent[p] = 0
           \/ fret[p] # "ok" /\ pc[p] \in {"cancelCard", "cancelServer", "report", "done"}
           \/ pc[p] = "killed"

\* A process that has a session in the eUICC knows its transaction id, until
\* it has tried to cancel it.
Session(p) ==
    card.sess = p =>
        /\ pc[p] \notin {"start", "challenge", "info", "initiate", "authServer"}
        /\ p \in Downloaders /\ "authServer" \notin lost[p] =>
               /\ pc[p] = "cancelCard" => ctx[p]["tidBin"] # "null"
               /\ pc[p] \in Wrapping =>
                      \/ "cancelCard" \in broken[p]
                      \/ fret[p] = "ok" /\ length[p] < Segments

\* The server knows of every session of the eUICC, and hears of a cancellation.
AtServer(p) ==
    /\ pc[p] = "authServer" => srv[p] = "open"
    /\ card.sess = p /\ pc[p] \notin Wrapping \cup {"killed"} => srv[p] \in {"open", "authed", "bound"}
    /\ alive[p] => pc[p] \in Wrapping \cup {"killed"}
    /\ alive[p] /\ pc[p] \in Wrapping =>
           \/ /\ card.sess # p
              /\ IF pc[p] = "cancelServer"
                 THEN ctx[p]["cancelResp"] = "ok" /\ srv[p] \in {"open", "authed", "bound"}
                 ELSE srv[p] = "cancelled"
           \/ {"cancelCard", "cancelServer"} \cap broken[p] # {}
           \/ {"cancelCard", "authServer"} \cap lost[p] # {}

\* What the eUICC and the server know of a process for which nothing went wrong.
Undisturbed(p) ==
    clean[p] =>
        /\ ~cancelled[p] /\ fret[p] = "ok"
        /\ pc[p] \in {"start", "challenge", "info", "initiate"} => srv[p] = "none"
        /\ pc[p] \in {"info", "initiate", "authServer"} => card.chal = p
        /\ pc[p] \in {"authClient", "preview", "prepare", "getBpp", "load"} =>
               card.chal = NoOne /\ card.sess = p
        /\ pc[p] \in {"authClient", "preview", "prepare"} => card.phase = "authed"
        /\ pc[p] \in {"getBpp", "load"} => card.phase = "prepared"
        /\ pc[p] = "authClient" => ctx[p]["authResp"] = "ok" /\ srv[p] = "open"
        /\ pc[p] \in {"preview", "prepare", "getBpp"} => srv[p] = "authed"
        /\ pc[p] = "getBpp" => ctx[p]["prepResp"] = "ok"
        /\ pc[p] \in {"authClient", "preview", "prepare", "getBpp", "load"} => card.seg = sent[p]

Local(p) ==
    /\ InContext(p) /\ Progress(p) /\ Installed(p) /\ Stopping(p)
    /\ Session(p) /\ AtServer(p) /\ Undisturbed(p)

IInv == TypeOK /\ \A p \in Procs : Local(p)

-----------------------------------------------------------------------------
(* A step of one process as the others see it.                             *)

\* The step of another process: q's own state stays, q gets no session and no
\* profile by it, and if q still has a clean run it still has what it needs.
Same(q) ==
    /\ mode'[q] = mode[q] /\ pc'[q] = pc[q] /\ cancelled'[q] = cancelled[q] /\ ctx'[q] = ctx[q]
    /\ sent'[q] = sent[q] /\ length'[q] = length[q] /\ fret'[q] = fret[q] /\ out'[q] = out[q]
    /\ srv'[q] = srv[q] /\ broken'[q] = broken[q] /\ lost'[q] = lost[q]
    /\ early'[q] = early[q] /\ alive'[q] = alive[q]

Apart(q) ==
    /\ q \in card'.installed <=> q \in card.installed
    /\ card'.sess = q => card.sess = q
    /\ clean'[q] =>
           /\ clean[q]
           /\ Midway(q) /\ card.chal = q => card'.chal = q
           /\ Midway(q) /\ card.chal = NoOne /\ card.sess = q =>
                  /\ card'.chal = NoOne /\ card'.sess = q
                  /\ card'.phase = card.phase /\ card'.seg = card.seg

\* Such a step keeps what is known of q.
LEMMA OthersKeep ==
    ASSUME NEW q \in Procs, Local(q), Same(q), Apart(q)
    PROVE  Local(q)'
<1> USE DEF Same, Apart, Downloaders
<1>1. InContext(q)'
    BY DEF Local, InContext
<1>2. Progress(q)'
    BY DEF Local, Progress
<1>3. Installed(q)'
    BY DEF Local, Installed
<1>4. Stopping(q)'
    BY DEF Local, Stopping
<1>5. Session(q)'
    BY DEF Local, Session
<1>6. AtServer(q)'
    BY DEF Local, AtServer, Wrapping
<1>7. Undisturbed(q)'
    BY DEF Local, Undisturbed, Midway
<1> QED BY <1>1, <1>2, <1>3, <1>4, <1>5, <1>6, <1>7 DEF Local

\* What a step of p may do to the eUICC.
Turn(p) ==
    \/ card' = card
    \/ card'.chal = p /\ card'.sess = NoOne /\ card'.installed = card.installed
    \/ card.chal = p /\ card'.chal = NoOne /\ card'.sess = p /\ card'.installed = card.installed
    \/ /\ card.sess = p /\ card'.chal = card.chal /\ card'.sess \in {p, NoOne}
       /\ card'.installed \in {card.installed, card.installed \cup {p}}

\* The step of p does no more than that, and the others only see a new challenge.
Moves(p) ==
    /\ Turn(p)
    /\ \A q \in Procs \ {p} :
           /\ Same(q)
           /\ clean'[q] => clean[q] /\ ~(Midway(q) /\ card.chal # p /\ card'.chal = p)

\* A step of p keeps the others apart.
LEMMA TurnApart ==
    ASSUME TypeOK, NEW p \in Procs, NEW q \in Procs \ {p}, Moves(p)
    PROVE  Apart(q)
<1> USE ProcsAssumption
<1>1. clean'[q] => clean[q] /\ ~(Midway(q) /\ card.chal # p /\ card'.chal = p)
    BY DEF Moves
<1>2. q \in card'.installed <=> q \in card.installed
    BY DEF Moves, Turn
<1>3. card'.sess = q => card.sess = q
    BY DEF Moves, Turn
<1>4. card.chal = q => card'.chal = q \/ card'.chal = p
    BY DEF Moves, Turn
<1>5. card.chal = NoOne /\ card.sess = q => card'.chal = p \/ card' = card
    BY DEF Moves, Turn
<1> QED BY <1>1, <1>2, <1>3, <1>4, <1>5 DEF Apart

\* So a step of p that keeps what is known of p keeps the invariant.
LEMMA StepKeeps ==
    ASSUME IInv, NEW p \in Procs, TypeOK', Moves(p), Local(p)'
    PROVE  IInv'
    BY OthersKeep, TurnApart DEF IInv, Moves

-----------------------------------------------------------------------------
(* The parts that the steps are made of.                                   *)

Places == Calls \cup {"start", "report", "done", "killed"}
Cards == [chal : Procs \cup {NoOne}, sess : Procs \cup {NoOne, Departed},
          phase : {"none", "authed", "prepared"}, seg : 0..Segments, installed : SUBSET Procs]

\* p goes on at another place; nothing else of the control changes but fret.
Ran(p, to, f) ==
    /\ pc' \in [Procs -> Places] /\ fret' \in [Procs -> {"ok", "arguments", "err"}]
    /\ UNCHANGED <<cancelled, out>>
    /\ pc'[p] = to /\ fret'[p] = f
    /\ \A q \in Procs \ {p} : pc'[q] = pc[q] /\ fret'[q] = fret[q]

\* Go is such a move.
LEMMA Went ==
    ASSUME TypeOK, NEW p \in Procs, NEW call \in Places, Go(p, call)
    PROVE  Ran(p, call, fret[p])
    BY DEF TypeOK, Go, Ran, Places

\* goto err is a move to the cancellation, or to the report of a discovery.
LEMMA Erred ==
    ASSUME TypeOK, NEW p \in Procs, GotoErr(p)
    PROVE  Ran(p, IF p \in Downloaders THEN "cancelCard" ELSE "report", "err")
<1>1. (IF p \in Downloaders THEN "cancelCard" ELSE "report") \in Places
    BY DEF Places, Calls
<1> QED BY <1>1 DEF TypeOK, GotoErr, Ran, Places

\* p writes to its own context only.
Wrote(p) ==
    /\ ctx' \in [Procs -> [Fields -> Values]]
    /\ \A q \in Procs \ {p} : ctx'[q] = ctx[q]

\* One field of the context is written.
LEMMA FieldSet ==
    ASSUME TypeOK, NEW p \in Procs, NEW f \in Fields, NEW v \in Values, ctx' = Set(p, f, v)
    PROVE  Wrote(p) /\ ctx'[p][f] = v /\ \A g \in Fields \ {f} : ctx'[p][g] = ctx[p][g]
    BY DEF TypeOK, Set, Wrote

\* The fault histories of p grow, by the present call at most.
Logged(p) ==
    /\ broken' \in [Procs -> SUBSET Calls] /\ lost' \in [Procs -> SUBSET Calls]
    /\ broken[p] \subseteq broken'[p] /\ lost[p] \subseteq lost'[p]
    /\ \A q \in Procs \ {p} : broken'[q] = broken[q] /\ lost'[q] = lost[q]

\* The clean runs that p's step leaves.
Judged(p, ok) ==
    /\ clean' \in [Procs -> BOOLEAN]
    /\ clean'[p] => clean[p] /\ ok
    /\ \A q \in Procs \ {p} :
           clean'[q] => clean[q] /\ ~(Midway(q) /\ card.chal # p /\ card'.chal = p)

\* There is room for one more segment.
LEMMA OneMore ==
    ASSUME NEW n, NEW k \in Nat, NEW i \in Nat, n \in Nat, i < k, k <= n
    PROVE  i + 1 \in 0..n
    OBVIOUS

\* What Smooth leaves of the clean runs.
LEMMA Smoothed ==
    ASSUME TypeOK, NEW p \in Procs, NEW ok \in BOOLEAN, Smooth(p, card', ok)
    PROVE  Judged(p, ok)
<1>1. clean \in [Procs -> BOOLEAN]
    BY DEF TypeOK
<1>2. clean' = [q \in Procs |->
                 IF q = p THEN clean[q] /\ ok
                 ELSE clean[q] /\ ~(Midway(q) /\ card.chal # p /\ card'.chal = p)]
    BY DEF Smooth
<1>3. clean' \in [Procs -> BOOLEAN]
    BY <1>1, <1>2, Zenon
<1>4. clean'[p] => clean[p] /\ ok
    BY <1>2, Zenon
<1>5. \A q \in Procs \ {p} :
           clean'[q] => clean[q] /\ ~(Midway(q) /\ card.chal # p /\ card'.chal = p)
    BY <1>2, Zenon
<1> QED BY <1>3, <1>4, <1>5 DEF Judged

\* A command whose answer arrives does what it says.
LEMMA Answered ==
    ASSUME TypeOK, NEW p \in Procs, NEW r, r.forced \in BOOLEAN, Es10Answered(p, r)
    PROVE  /\ card' = r.card /\ Logged(p) /\ Judged(p, r.forced)
           /\ UNCHANGED <<broken, lost>>
<1>1. Logged(p)
    BY DEF TypeOK, Es10Answered, Logged
<1> QED BY <1>1, Smoothed DEF Es10Answered

\* A command whose answer is lost is noted as lost.
LEMMA Lost ==
    ASSUME TypeOK, NEW p \in Procs, NEW r, pc[p] \in Calls, Es10Lost(p, r)
    PROVE  /\ card' = r.card /\ Logged(p) /\ Judged(p, FALSE)
           /\ UNCHANGED broken /\ lost'[p] = lost[p] \cup {pc[p]}
<1>1. Logged(p) /\ lost'[p] = lost[p] \cup {pc[p]}
    BY DEF TypeOK, Es10Lost, Logged
<1> QED BY <1>1, Smoothed, Zenon DEF Es10Lost

\* A command that did not reach the eUICC is noted as broken.
LEMMA Unsent ==
    ASSUME TypeOK, NEW p \in Procs, pc[p] \in Calls, NEW S, S # {}, Es10Unsent(p, S # {})
    PROVE  /\ card' = card /\ Logged(p) /\ Judged(p, FALSE)
           /\ UNCHANGED lost /\ broken'[p] = broken[p] \cup {pc[p]}
<1>1. Logged(p) /\ broken'[p] = broken[p] \cup {pc[p]}
    BY DEF TypeOK, Es10Unsent, Logged
<1>2. card' = card /\ Smooth(p, card', FALSE)
    BY Zenon DEF Es10Unsent
<1> QED BY <1>1, <1>2, Smoothed, Zenon DEF Es10Unsent

\* The server's state of p's transaction is p's own affair.
Served(p) ==
    /\ srv' \in [Procs -> {"none", "open", "authed", "bound", "cancelled"}]
    /\ \A q \in Procs \ {p} : srv'[q] = srv[q]

\* A step that leaves the eUICC alone judges no run but its own.
LEMMA CleanWritten ==
    ASSUME TypeOK, NEW p \in Procs, NEW ok \in BOOLEAN, card' = card,
           clean' = [clean EXCEPT ![p] = @ /\ ok]
    PROVE  Judged(p, ok)
<1>1. clean \in [Procs -> BOOLEAN]
    BY DEF TypeOK
<1>2. clean' \in [Procs -> BOOLEAN] /\ (clean'[p] => clean[p] /\ ok)
    BY <1>1, Zenon
<1>3. \A q \in Procs \ {p} : clean'[q] = clean[q]
    BY <1>1, Zenon
<1> QED BY <1>2, <1>3 DEF Judged

\* A request whose response arrives does what it says.
LEMMA Replied ==
    ASSUME TypeOK, NEW p \in Procs, NEW r, r.forced \in BOOLEAN, card' = card, Es9Answered(p, r),
           r.srv \in {"none", "open", "authed", "bound", "cancelled"}
    PROVE  /\ Served(p) /\ srv'[p] = r.srv /\ Logged(p) /\ Judged(p, r.forced)
           /\ UNCHANGED <<broken, lost>>
<1>1. Logged(p) /\ UNCHANGED <<broken, lost>>
    BY DEF TypeOK, Es9Answered, Logged
<1>2. Served(p) /\ srv'[p] = r.srv
    BY DEF TypeOK, Es9Answered, Served
<1>3. clean' = [clean EXCEPT ![p] = @ /\ r.forced]
    BY DEF Es9Answered
<1> QED BY <1>1, <1>2, <1>3, CleanWritten, Zenon

\* A request whose response is lost is noted as lost.
LEMMA ReplyLost ==
    ASSUME TypeOK, NEW p \in Procs, NEW r, pc[p] \in Calls, card' = card, Es9Lost(p, r),
           r.srv \in {"none", "open", "authed", "bound", "cancelled"}
    PROVE  /\ Served(p) /\ srv'[p] = r.srv /\ Logged(p) /\ Judged(p, FALSE)
           /\ UNCHANGED broken /\ lost'[p] = lost[p] \cup {pc[p]}
<1>1. Logged(p) /\ UNCHANGED broken /\ lost'[p] = lost[p] \cup {pc[p]}
    BY DEF TypeOK, Es9Lost, Logged
<1>2. Served(p) /\ srv'[p] = r.srv
    BY DEF TypeOK, Es9Lost, Served
<1>3. clean' = [clean EXCEPT ![p] = @ /\ FALSE]
    BY Zenon DEF Es9Lost, TypeOK
<1> QED BY <1>1, <1>2, <1>3, CleanWritten, Zenon

\* A request that did not reach the server is noted as broken.
LEMMA RequestUnsent ==
    ASSUME TypeOK, NEW p \in Procs, pc[p] \in Calls, card' = card, NEW S, S # {}, Es9Unsent(p, S # {})
    PROVE  /\ Served(p) /\ srv'[p] = srv[p] /\ Logged(p) /\ Judged(p, FALSE)
           /\ UNCHANGED lost /\ broken'[p] = broken[p] \cup {pc[p]}
<1>1. Logged(p) /\ UNCHANGED lost /\ broken'[p] = broken[p] \cup {pc[p]}
    BY DEF TypeOK, Es9Unsent, Logged
<1>2. Served(p) /\ srv'[p] = srv[p]
    BY DEF TypeOK, Es9Unsent, Served
<1>3. clean' = [clean EXCEPT ![p] = @ /\ FALSE]
    BY Zenon DEF Es9Unsent, TypeOK
<1> QED BY <1>1, <1>2, <1>3, CleanWritten, Zenon

\* What is left unchanged by a call of p, or written for p alone.
Counted(p) ==
    /\ sent' \in [Procs -> 0..Segments] /\ length' \in [Procs -> 0..Segments]
    /\ \A q \in Procs \ {p} : sent'[q] = sent[q] /\ length'[q] = length[q]
Watched(p) ==
    /\ UNCHANGED <<mode, early>> /\ alive' \in [Procs -> BOOLEAN]
    /\ \A q \in Procs \ {p} : alive'[q] = alive[q]

\* A call made of these parts keeps the invariant if it keeps what is known of p.
LEMMA CallKeeps ==
    ASSUME IInv, NEW p \in Procs, NEW to, NEW f, NEW ok, Ran(p, to, f), Wrote(p), Logged(p),
           Judged(p, ok), Turn(p), card' \in Cards, Served(p), Counted(p), Watched(p), Local(p)'
    PROVE  IInv'
<1>1. TypeOK'
    BY Zenon DEF IInv, TypeOK, Ran, Wrote, Logged, Judged, Served, Counted, Watched, Cards, Places
<1>2. Moves(p)
    BY DEF Moves, Same, Ran, Wrote, Logged, Judged, Served, Counted, Watched
<1> QED BY <1>1, <1>2, StepKeeps, Zenon

-----------------------------------------------------------------------------
(* What the commands do to the eUICC.                                      *)

\* The card without its session.
LEMMA SessionEnded ==
    ASSUME NEW c \in Cards
    PROVE  /\ NoSession(c) \in Cards /\ NoSession(c).chal = c.chal /\ NoSession(c).sess = NoOne
           /\ NoSession(c).installed = c.installed
<1>1. 0 \in 0..Segments
    BY SegmentsAssumption
<1>2. NoSession(c) \in Cards
    BY <1>1, Zenon DEF Cards, NoSession
<1> QED BY <1>2 DEF Cards, NoSession

\* A challenge ends whatever session there was (CardChallenge).
LEMMA ChallengeAnswer ==
    ASSUME TypeOK, NEW p \in Procs, NEW r \in CardChallenge(p)
    PROVE  /\ r.card \in Cards /\ r.card.chal = p /\ r.card.sess = NoOne
           /\ r.card.installed = card.installed
           /\ r.ans = "ok" /\ r.forced = TRUE
<1>1. card \in Cards
    BY DEF TypeOK, Cards
<1> DEFINE n == NoSession(card)
<1>2. r.card = [n EXCEPT !.chal = p] /\ r.ans = "ok" /\ r.forced = TRUE
    BY DEF CardChallenge, Answer
<1>3. n \in Cards /\ n.sess = NoOne /\ n.installed = card.installed
    BY <1>1, SessionEnded
<1> HIDE DEF n
<1> QED BY <1>2, <1>3 DEF Cards

\* A session begins for the owner of the challenge only (CardAuthenticate).
LEMMA AuthenticateAnswer ==
    ASSUME TypeOK, NEW p \in Procs, NEW r \in CardAuthenticate(p)
    PROVE  /\ r.card \in Cards /\ r.forced \in BOOLEAN
           /\ \/ r.card = card /\ r.ans = "err" /\ (r.forced => card.chal # p)
              \/ /\ card.chal = p /\ r.card.chal = NoOne /\ r.card.sess = p
                 /\ r.card.phase = "authed" /\ r.card.seg = 0 /\ r.card.installed = card.installed
                 /\ r.ans = "ok"
<1>1. card \in Cards
    BY DEF TypeOK, Cards
<1> DEFINE c == [card EXCEPT !.chal = NoOne, !.sess = p, !.phase = "authed", !.seg = 0]
<1>2. \/ r.card = card /\ r.ans = "err" /\ r.forced = TRUE /\ card.chal # p
      \/ r.card = card /\ r.ans = "err" /\ r.forced = FALSE /\ card.chal = p
      \/ r.card = c /\ r.ans = "ok" /\ r.forced = TRUE /\ card.chal = p
    BY DEF CardAuthenticate, Answer
<1>3. 0 \in 0..Segments
    BY SegmentsAssumption
<1>4. c \in Cards
    BY <1>1, <1>3, Zenon DEF Cards
<1>5. /\ c.chal = NoOne /\ c.sess = p /\ c.phase = "authed" /\ c.seg = 0
      /\ c.installed = card.installed
    BY <1>1 DEF Cards
<1> HIDE DEF c
<1> QED BY <1>1, <1>2, <1>4, <1>5, Zenon

\* Only an authenticated session is prepared (CardPrepare).
LEMMA PrepareAnswer ==
    ASSUME TypeOK, NEW p \in Procs, NEW r \in CardPrepare(p)
    PROVE  /\ r.card \in Cards /\ r.forced \in BOOLEAN
           /\ \/ r.card = card /\ r.ans = "err" /\ (r.forced => ~Owns(p, "authed"))
              \/ /\ Owns(p, "authed") /\ r.card.chal = card.chal /\ r.card.sess = p
                 /\ r.card.phase = "prepared" /\ r.card.seg = card.seg
                 /\ r.card.installed = card.installed /\ r.ans = "ok"
<1>1. card \in Cards
    BY DEF TypeOK, Cards
<1> DEFINE c == [card EXCEPT !.phase = "prepared"]
<1>2. \/ r.card = card /\ r.ans = "err" /\ r.forced = TRUE /\ ~Owns(p, "authed")
      \/ r.card = card /\ r.ans = "err" /\ r.forced = FALSE /\ Owns(p, "authed")
      \/ r.card = c /\ r.ans = "ok" /\ r.forced = TRUE /\ Owns(p, "authed")
    BY DEF CardPrepare, Answer
<1>3. c \in Cards /\ c.chal = card.chal /\ c.sess = card.sess /\ c.phase = "prepared"
      /\ c.seg = card.seg /\ c.installed = card.installed
    BY <1>1 DEF Cards
<1> HIDE DEF c
<1> QED BY <1>1, <1>2, <1>3, Zenon DEF Owns

\* Only the next segment is taken, and the last one installs (CardLoad).
LEMMA LoadAnswer ==
    ASSUME TypeOK, NEW p \in Procs, NEW r \in CardLoad(p)
    PROVE  /\ r.card \in Cards /\ r.forced \in BOOLEAN
           /\ \/ r.card = card /\ r.ans = "err" /\ ~(card.sess = p /\ card.phase = "prepared" /\ card.seg = sent[p])
              \/ /\ card.sess = p /\ r.card.chal = card.chal /\ r.card.sess = NoOne
                 /\ r.card.installed = card.installed /\ r.ans = "err" /\ r.forced = FALSE
              \/ /\ card.sess = p /\ card.seg = sent[p] /\ sent[p] + 1 < Segments
                 /\ r.card.chal = card.chal /\ r.card.sess = p /\ r.card.phase = "prepared"
                 /\ r.card.seg = sent[p] + 1 /\ r.card.installed = card.installed /\ r.ans = "more"
              \/ /\ card.sess = p /\ card.seg = sent[p] /\ sent[p] + 1 >= Segments
                 /\ r.card.chal = card.chal /\ r.card.sess = NoOne
                 /\ r.card.installed = card.installed \cup {p} /\ r.ans = "ok"
<1>1. card \in Cards /\ sent[p] \in 0..Segments
    BY DEF TypeOK, Cards
<1> DEFINE n == NoSession(card)
           m == [card EXCEPT !.seg = @ + 1]
           i == [n EXCEPT !.installed = @ \cup {p}]
           mine == card.sess = p /\ card.phase = "prepared" /\ card.seg = sent[p]
<1>2. \/ r.card = card /\ r.ans = "err" /\ r.forced = TRUE /\ ~mine
      \/ r.card = n /\ r.ans = "err" /\ r.forced = FALSE /\ mine
      \/ r.card = m /\ r.ans = "more" /\ r.forced = TRUE /\ mine /\ card.seg + 1 < Segments
      \/ r.card = i /\ r.ans = "ok" /\ r.forced = TRUE /\ mine /\ ~(card.seg + 1 < Segments)
    BY DEF CardLoad, Answer, Owns
<1>3. n \in Cards /\ n.chal = card.chal /\ n.sess = NoOne /\ n.installed = card.installed
    BY <1>1, SessionEnded
<1>4. card.seg + 1 < Segments =>
          /\ m \in Cards /\ m.chal = card.chal /\ m.sess = card.sess /\ m.phase = card.phase
          /\ m.seg = card.seg + 1 /\ m.installed = card.installed
    BY <1>1, SegmentsAssumption DEF Cards
<1> HIDE DEF n
<1>5. i \in Cards /\ i.chal = n.chal /\ i.sess = n.sess /\ i.installed = n.installed \cup {p}
    BY <1>3 DEF Cards
<1> HIDE DEF m, i
<1>6. card.seg \in 0..Segments /\ Segments \in Nat
    BY <1>1, SegmentsAssumption DEF Cards
<1>7. CASE r.card = card /\ r.ans = "err" /\ r.forced = TRUE /\ ~mine
    BY <1>1, <1>7, Zenon
<1>8. CASE r.card = n /\ r.ans = "err" /\ r.forced = FALSE /\ mine
    BY <1>3, <1>8, Zenon
<1>9. CASE r.card = m /\ r.ans = "more" /\ r.forced = TRUE /\ mine /\ card.seg + 1 < Segments
    BY <1>4, <1>9, Zenon
<1>10. CASE r.card = i /\ r.ans = "ok" /\ r.forced = TRUE /\ mine /\ ~(card.seg + 1 < Segments)
    <2>1. sent[p] + 1 >= Segments
        BY <1>6, <1>10
    <2>2. r.card.installed = card.installed \cup {p} /\ r.card.chal = card.chal /\ r.card.sess = NoOne
        BY <1>3, <1>5, <1>10
    <2> QED BY <1>5, <1>10, <2>1, <2>2, Zenon
<1> QED BY <1>2, <1>7, <1>8, <1>9, <1>10, Zenon

\* A session is cancelled for its owner only (CardCancel).
LEMMA CancelAnswer ==
    ASSUME TypeOK, NEW p \in Procs, NEW r \in CardCancel(p)
    PROVE  /\ r.card \in Cards /\ r.forced = TRUE
           /\ \/ card.sess # p /\ r.card = card /\ r.ans = "err"
              \/ /\ card.sess = p /\ r.card.chal = card.chal /\ r.card.sess = NoOne
                 /\ r.card.installed = card.installed /\ r.ans = "ok"
<1>1. card \in Cards
    BY DEF TypeOK, Cards
<1> DEFINE n == NoSession(card)
<1>2. \/ r.card = card /\ r.ans = "err" /\ r.forced = TRUE /\ card.sess # p
      \/ r.card = n /\ r.ans = "ok" /\ r.forced = TRUE /\ card.sess = p
    BY DEF CardCancel, Answer
<1>3. n \in Cards /\ n.chal = card.chal /\ n.sess = NoOne /\ n.installed = card.installed
    BY <1>1, SessionEnded
<1> HIDE DEF n
<1> QED BY <1>1, <1>2, <1>3

\* What the server answers to a step of a transaction.
LEMMA StepReply ==
    ASSUME TypeOK, NEW p \in Procs, NEW s, NEW input, NEW r,
           NEW t \in {"none", "open", "authed", "bound", "cancelled"}, r \in ServerStep(p, s, input, t)
    PROVE  /\ r.forced \in BOOLEAN /\ r.srv \in {"none", "open", "authed", "bound", "cancelled"}
           /\ \/ r.srv = srv[p] /\ r.ans = "err" /\ (r.forced => srv[p] # s \/ input # "ok")
              \/ srv[p] = s /\ input = "ok" /\ r.srv = t /\ r.ans = "ok"
<1>1. srv[p] \in {"none", "open", "authed", "bound", "cancelled"}
    BY Zenon DEF TypeOK
<1>2. \/ r.srv = srv[p] /\ r.ans = "err" /\ r.forced = TRUE /\ (srv[p] # s \/ input # "ok")
      \/ r.srv = srv[p] /\ r.ans = "err" /\ r.forced = FALSE
      \/ r.srv = t /\ r.ans = "ok" /\ r.forced = TRUE /\ srv[p] = s /\ input = "ok"
    BY DEF ServerStep, Reply
<1> QED BY <1>1, <1>2, Zenon

-----------------------------------------------------------------------------
(* goto err.                                                               *)

\* Giving up keeps what is known of p, if no step of the call put p's session
\* out of its own reach.
LEMMA GivingUpKeeps ==
    ASSUME TypeOK, NEW p \in Procs, Local(p), pc[p] \in Forward,
           Ran(p, IF p \in Downloaders THEN "cancelCard" ELSE "report", "err"), UNCHANGED <<mode, early, alive>>,
           Logged(p), ~clean'[p],
           ctx'[p]["cancelResp"] = "null",
           p \in card'.installed => "load" \in lost'[p] /\ p \in Downloaders /\ ~early[p],
           card'.sess = p =>
               /\ srv'[p] \in {"open", "authed", "bound"}
               /\ "authServer" \notin lost'[p] => ctx'[p]["tidBin"] # "null"
    PROVE  Local(p)'
<1> USE DEF Local, Ran, Downloaders
<1>1. InContext(p)'
    BY Zenon DEF InContext
<1>2. Progress(p)'
    BY Zenon DEF Progress, Forward
<1>3. Installed(p)'
    BY Zenon DEF Installed
<1>4. Stopping(p)'
    BY Zenon DEF Stopping
<1>5. Session(p)'
    BY Zenon DEF Session, Wrapping
<1>6. AtServer(p)'
    BY Zenon DEF AtServer, Wrapping, Forward
<1>7. Undisturbed(p)'
    BY Zenon DEF Undisturbed
<1> QED BY <1>1, <1>2, <1>3, <1>4, <1>5, <1>6, <1>7, Zenon

\* What holds of p before any call of the sequence.
LEMMA Underway ==
    ASSUME NEW p \in Procs, Local(p), pc[p] \in Forward
    PROVE  /\ p \notin card.installed /\ ctx[p]["cancelResp"] = "null"
           /\ card.sess = p => srv[p] \in {"open", "authed", "bound"} /\ ctx[p]["tidBin"] # "null"
           /\ fret[p] = "ok" /\ out[p] = "none" /\ ~alive[p]
           /\ pc[p] \in Calls
<1>1. p \notin card.installed
    BY Zenon DEF Local, Installed, Forward
<1>2. ctx[p]["cancelResp"] = "null"
    BY Zenon DEF Local, InContext, Forward, Held, Fields
<1>3. card.sess = p => srv[p] \in {"open", "authed", "bound"} /\ ctx[p]["tidBin"] # "null"
    BY Zenon DEF Local, InContext, Session, AtServer, Forward, Wrapping, Held, Fields
<1>4. fret[p] = "ok" /\ out[p] = "none" /\ ~alive[p]
    BY DEF Local, Progress, AtServer, Forward, Wrapping
<1>5. pc[p] \in Calls
    BY DEF Forward, Calls
<1> QED BY <1>1, <1>2, <1>3, <1>4, <1>5, Zenon

\* A CANCELPOINT() that finds the flag set.
LEMMA CancelPointKeeps ==
    ASSUME IInv, NEW p \in Procs, CancelPoint(p)
    PROVE  IInv'
<1>1. TypeOK /\ Local(p)
    BY DEF IInv
<1>2. pc[p] \in Forward /\ cancelled[p]
    BY DEF CancelPoint, AtCancelPoint, Forward
<1>3. UNCHANGED <<mode, ctx, sent, length, card, srv, broken, lost, early, alive, clean>>
    BY DEF CancelPoint, history
<1>4. Ran(p, IF p \in Downloaders THEN "cancelCard" ELSE "report", "err")
    BY <1>1, Erred, Zenon DEF CancelPoint
<1>5. Wrote(p) /\ Logged(p) /\ Served(p) /\ Counted(p) /\ Watched(p) /\ Turn(p) /\ card' \in Cards
    BY <1>1, <1>3, Zenon DEF TypeOK, Wrote, Logged, Served, Counted, Watched, Turn, Cards
<1>6. Judged(p, TRUE)
    BY <1>1, <1>3, Zenon DEF TypeOK, Judged
<1>7. ~clean'[p]
    BY <1>1, <1>2, <1>3, Zenon DEF Local, Undisturbed
<1>8. Local(p)'
    BY <1>1, <1>2, <1>3, <1>4, <1>5, <1>7, GivingUpKeeps, Underway, Zenon
<1> QED BY <1>4, <1>5, <1>6, <1>8, CallKeeps, Zenon

\* A command whose answer is lost: what the eUICC did, it did.
LEMMA CommandLost ==
    ASSUME IInv, NEW p \in Procs, pc[p] \in Forward, NEW r, r.card \in Cards, Es10Lost(p, r),
           Turn(p), Wrote(p), GotoErr(p), UNCHANGED <<sent, length, srv, early, mode, alive>>,
           ctx'[p]["cancelResp"] = "null",
           p \in card'.installed => pc[p] = "load" /\ p \in Downloaders /\ ~early[p],
           card'.sess = p => (card.sess = p /\ ctx'[p]["tidBin"] # "null") \/ pc[p] = "authServer"
    PROVE  IInv'
<1>1. TypeOK /\ Local(p)
    BY DEF IInv
<1>2. card' = r.card /\ Logged(p) /\ Judged(p, FALSE) /\ lost'[p] = lost[p] \cup {pc[p]}
    BY <1>1, Lost, Underway, Zenon
<1>3. Served(p) /\ Counted(p) /\ Watched(p)
    BY <1>1, Zenon DEF TypeOK, Served, Counted, Watched
<1>4. Ran(p, IF p \in Downloaders THEN "cancelCard" ELSE "report", "err")
    BY <1>1, Erred, Zenon
<1>5. ~clean'[p]
    BY <1>2, Zenon DEF Judged
<1>6. p \in card'.installed => "load" \in lost'[p] /\ p \in Downloaders /\ ~early[p]
    BY <1>2, Zenon
<1>7. card'.sess = p =>
               /\ srv'[p] \in {"open", "authed", "bound"}
               /\ "authServer" \notin lost'[p] => ctx'[p]["tidBin"] # "null"
    BY <1>1, <1>2, Underway, Zenon DEF Local, AtServer
<1>8. Local(p)'
    BY <1>1, <1>2, <1>4, <1>5, <1>6, <1>7, GivingUpKeeps, Zenon
<1> QED BY <1>2, <1>3, <1>4, <1>8, CallKeeps, Zenon

\* A command that did not reach the eUICC.
LEMMA CommandUnsent ==
    ASSUME IInv, NEW p \in Procs, pc[p] \in Forward, NEW S, S # {}, Es10Unsent(p, S # {}),
           Wrote(p), GotoErr(p), UNCHANGED <<sent, length, srv, early, mode, alive>>,
           ctx'[p]["cancelResp"] = "null",
           card.sess = p => ctx'[p]["tidBin"] # "null"
    PROVE  IInv'
<1>1. TypeOK /\ Local(p)
    BY DEF IInv
<1>2. card' = card /\ Logged(p) /\ Judged(p, FALSE)
    BY <1>1, Unsent, Underway, Zenon
<1>3. Served(p) /\ Counted(p) /\ Watched(p) /\ Turn(p) /\ card' \in Cards
    BY <1>1, <1>2, Zenon DEF TypeOK, Served, Counted, Watched, Turn, Cards
<1>4. Ran(p, IF p \in Downloaders THEN "cancelCard" ELSE "report", "err")
    BY <1>1, Erred, Zenon
<1>5. ~clean'[p]
    BY <1>2 DEF Judged
<1>6. Local(p)'
    BY <1>1, <1>2, <1>4, <1>5, GivingUpKeeps, Underway, Zenon
<1> QED BY <1>2, <1>3, <1>4, <1>6, CallKeeps, Zenon

\* The server refused, its response was lost, or the request did not reach it.
LEMMA RequestFailed ==
    ASSUME IInv, NEW p \in Procs, pc[p] \in Forward, NEW ok, Served(p), Logged(p), Judged(p, ok), ~clean'[p],
           srv[p] \in {"open", "authed", "bound"} => srv'[p] \in {"open", "authed", "bound"},
           Wrote(p), GotoErr(p), UNCHANGED <<sent, length, card, early, mode, alive>>,
           \A f \in {"cancelResp", "tidBin"} : ctx'[p][f] = ctx[p][f]
    PROVE  IInv'
<1>1. TypeOK /\ Local(p)
    BY Zenon DEF IInv
<1>2. Counted(p) /\ Watched(p) /\ Turn(p) /\ card' \in Cards
    BY <1>1, Zenon DEF TypeOK, Counted, Watched, Turn, Cards
<1>3. Ran(p, IF p \in Downloaders THEN "cancelCard" ELSE "report", "err")
    BY <1>1, Erred, Zenon
<1>4. Local(p)'
    BY <1>1, <1>3, GivingUpKeeps, Underway, Zenon
<1> QED BY <1>2, <1>3, <1>4, CallKeeps, Zenon

-----------------------------------------------------------------------------
(* The calls of the sequence.                                              *)

\* es10b_get_euicc_challenge_and_info, its first command.
LEMMA GetChallengeKeeps ==
    ASSUME IInv, NEW p \in Procs, GetChallenge(p)
    PROVE  IInv'
<1>1. TypeOK /\ Local(p)
    BY DEF IInv
<1>2. pc[p] = "challenge" /\ pc[p] \in Forward
    BY DEF GetChallenge, Proceeds, Forward
<1>3. Ready(p, "challenge")
    BY <1>1, <1>2 DEF Local, InContext, Held, Ready, Fields
<1>4. UNCHANGED <<sent, length, srv, early, mode, alive>>
    BY DEF GetChallenge
<1>5. \A r \in CardChallenge(p) :
          /\ r.card \in Cards /\ r.card.chal = p /\ r.card.sess = NoOne
          /\ r.card.installed = card.installed /\ r.forced \in BOOLEAN
    BY <1>1, ChallengeAnswer, Zenon
<1>6. ASSUME NEW r \in CardChallenge(p), Es10Answered(p, r), ctx' = Set(p, "challenge", "ok"), Go(p, "info")
      PROVE  IInv'
    <2>1. card' = r.card /\ Logged(p) /\ Judged(p, r.forced) /\ UNCHANGED <<broken, lost>>
        BY <1>1, <1>5, <1>6, Answered
    <2>2. Turn(p) /\ card' \in Cards
        BY <1>5, <2>1, Zenon DEF Turn
    <2>3. Wrote(p) /\ ctx'[p]["challenge"] = "ok"
          /\ \A g \in Fields \ {"challenge"} : ctx'[p][g] = ctx[p][g]
        BY <1>1, <1>6, FieldSet, Zenon DEF Fields, Values
    <2>4. Ran(p, "info", fret[p])
        BY <1>1, <1>6, Went, Zenon DEF Places, Calls
    <2>5. Served(p) /\ Counted(p) /\ Watched(p)
        BY <1>1, <1>4 DEF TypeOK, Served, Counted, Watched
    <2>6. Local(p)'
        <3> USE <1>1, <1>2, <1>4, <1>5, <2>1, <2>3, <2>4, ProcsAssumption DEF Local, Ran, Downloaders
        <3>1. InContext(p)'
            BY DEF InContext, Held
        <3>2. Progress(p)'
            BY Zenon DEF Progress, Forward
        <3>3. Installed(p)'
            BY Zenon DEF Installed
        <3>4. Stopping(p)'
            BY Zenon DEF Stopping, Forward
        <3>5. Session(p)'
            BY DEF Session
        <3>6. AtServer(p)'
            BY Zenon DEF AtServer, Wrapping
        <3>7. Undisturbed(p)'
            BY Zenon DEF Undisturbed, Judged
        <3> QED BY <3>1, <3>2, <3>3, <3>4, <3>5, <3>6, <3>7, Zenon
    <2> QED BY <2>1, <2>2, <2>3, <2>4, <2>5, <2>6, CallKeeps, Zenon
<1>7. ASSUME UNCHANGED ctx, GotoErr(p) PROVE Wrote(p) /\ ctx'[p]["cancelResp"] = "null"
    BY <1>1, <1>2, <1>7, Underway, Zenon DEF Wrote, TypeOK
<1>8. ASSUME NEW r \in CardChallenge(p), Es10Lost(p, r), UNCHANGED ctx, GotoErr(p)
      PROVE  IInv'
    <2>1. Turn(p) /\ card'.sess # p /\ p \notin card'.installed
        BY <1>1, <1>2, <1>5, <1>8, Underway, ProcsAssumption, Zenon DEF Turn, Es10Lost
    <2> QED BY <1>2, <1>4, <1>5, <1>7, <1>8, <2>1, CommandLost, Zenon
<1>9. ASSUME Es10Unsent(p, CardChallenge(p) # {}), UNCHANGED ctx, GotoErr(p)
      PROVE  IInv'
    <2>1. CardChallenge(p) # {}
        BY Zenon DEF CardChallenge
    <2> QED BY <1>1, <1>2, <1>4, <1>7, <1>9, <2>1, CommandUnsent, Underway, Zenon
<1> QED BY <1>3, <1>6, <1>8, <1>9, Zenon DEF GetChallenge, Es10

\* Its second command, whose failure frees the result of the first.
LEMMA GetInfoKeeps ==
    ASSUME IInv, NEW p \in Procs, GetInfo(p)
    PROVE  IInv'
<1>1. TypeOK /\ Local(p)
    BY DEF IInv
<1>2. pc[p] = "info" /\ pc[p] \in Forward
    BY DEF GetInfo, Proceeds, Forward
<1>3. UNCHANGED <<sent, length, srv, early, mode, alive>>
    BY DEF GetInfo
<1>4. ASSUME NEW r \in CardInfo(p) PROVE r.card = card /\ r.forced \in BOOLEAN
    <2>1. r.card = card /\ r.forced = TRUE
        BY <1>4 DEF CardInfo, Answer
    <2> QED BY <2>1, Zenon
<1>5. card \in Cards
    BY <1>1, Zenon DEF TypeOK, Cards
<1>6. ASSUME NEW r \in CardInfo(p), Es10Answered(p, r), ctx' = Set(p, "info", "ok"), Go(p, "initiate")
      PROVE  IInv'
    <2>1. card' = card /\ Logged(p) /\ Judged(p, r.forced) /\ UNCHANGED <<broken, lost>>
        BY <1>1, <1>4, <1>6, Answered
    <2>2. Turn(p)
        BY <2>1, Zenon DEF Turn
    <2>3. Wrote(p) /\ ctx'[p]["info"] = "ok" /\ \A g \in Fields \ {"info"} : ctx'[p][g] = ctx[p][g]
        BY <1>1, <1>6, FieldSet, Zenon DEF Fields, Values
    <2>4. Ran(p, "initiate", fret[p])
        BY <1>1, <1>6, Went, Zenon DEF Places, Calls
    <2>5. Served(p) /\ Counted(p) /\ Watched(p)
        BY <1>1, <1>3 DEF TypeOK, Served, Counted, Watched
    <2>6. Local(p)'
        <3> USE <1>1, <1>2, <1>3, <2>1, <2>3, <2>4 DEF Local, Ran, Downloaders
        <3>1. InContext(p)'
            BY DEF InContext, Held
        <3>2. Progress(p)'
            BY Zenon DEF Progress, Forward
        <3>3. Installed(p)'
            BY Zenon DEF Installed, Forward
        <3>4. Stopping(p)'
            BY Zenon DEF Stopping, Forward
        <3>5. Session(p)'
            BY DEF Session, Wrapping
        <3>6. AtServer(p)'
            BY Zenon DEF AtServer, Wrapping
        <3>7. Undisturbed(p)'
            BY Zenon DEF Undisturbed, Judged
        <3> QED BY <3>1, <3>2, <3>3, <3>4, <3>5, <3>6, <3>7, Zenon
    <2> QED BY <1>5, <2>1, <2>2, <2>3, <2>4, <2>5, <2>6, CallKeeps, Zenon
<1>7. ASSUME ctx' = Set(p, "challenge", "null")
      PROVE  Wrote(p) /\ \A f \in {"cancelResp", "tidBin"} : ctx'[p][f] = ctx[p][f]
    BY <1>1, <1>7, FieldSet DEF Fields, Values
<1>8. ASSUME NEW r \in CardInfo(p), Es10Lost(p, r), ctx' = Set(p, "challenge", "null"), GotoErr(p)
      PROVE  IInv'
    <2>1. card' = card
        BY <1>4, <1>8, Zenon DEF Es10Lost
    <2>2. Turn(p) /\ card'.sess # p /\ p \notin card'.installed
        BY <1>1, <1>2, <2>1, Underway DEF Turn, Local, Session
    <2> QED BY <1>1, <1>2, <1>3, <1>4, <1>5, <1>7, <1>8, <2>2, CommandLost, Underway, Zenon
<1>9. ASSUME Es10Unsent(p, CardInfo(p) # {}), ctx' = Set(p, "challenge", "null"), GotoErr(p)
      PROVE  IInv'
    <2>1. CardInfo(p) # {}
        BY Zenon DEF CardInfo
    <2> QED BY <1>1, <1>2, <1>3, <1>7, <1>9, <2>1, CommandUnsent, Underway, Zenon
<1> QED BY <1>6, <1>8, <1>9 DEF GetInfo, Es10

\* es9p_initiate_authentication.
LEMMA InitiateKeeps ==
    ASSUME IInv, NEW p \in Procs, Initiate(p)
    PROVE  IInv'
<1>1. TypeOK /\ Local(p)
    BY DEF IInv
<1>2. pc[p] = "initiate" /\ pc[p] \in Forward /\ pc[p] \in Calls
    BY DEF Initiate, Proceeds, Forward, Calls
<1>3. Ready(p, "initiate")
    BY <1>1, <1>2 DEF Local, InContext, Held, Ready, Fields
<1>4. UNCHANGED <<sent, length, card, early, mode, alive>>
    BY DEF Initiate
<1> DEFINE replies == ServerStep(p, "none", "ok", "open")
<1>5. \A r \in replies :
          /\ r.forced \in BOOLEAN /\ r.srv \in {"none", "open", "authed", "bound", "cancelled"}
          /\ \/ r.srv = srv[p] /\ r.ans = "err" /\ (r.forced => srv[p] # "none")
             \/ srv[p] = "none" /\ r.srv = "open" /\ r.ans = "ok"
    BY <1>1, StepReply
<1>6. replies # {}
    BY Zenon DEF ServerStep
<1> HIDE DEF replies
<1>7. ASSUME NEW r \in replies, Es9Answered(p, r), r.ans = "ok", Go(p, "authServer"),
             ctx' = [ctx EXCEPT ![p]["tidHttp"] = "ok", ![p]["authParam"] = "ok",
                                ![p]["challenge"] = "null", ![p]["info"] = "null"]
      PROVE  IInv'
    <2>1. Served(p) /\ srv'[p] = "open" /\ Logged(p) /\ Judged(p, r.forced) /\ UNCHANGED <<broken, lost>>
        BY <1>1, <1>4, <1>5, <1>7, Replied
    <2>2. Turn(p) /\ card' \in Cards
        BY <1>1, <1>4, Zenon DEF Turn, TypeOK, Cards
    <2>3. Wrote(p) /\ ctx'[p]["tidHttp"] = "ok" /\ ctx'[p]["authParam"] = "ok"
          /\ ctx'[p]["challenge"] = "null" /\ ctx'[p]["info"] = "null"
          /\ \A g \in Fields \ {"tidHttp", "authParam", "challenge", "info"} : ctx'[p][g] = ctx[p][g]
        <3>1. Wrote(p)
            BY <1>1, <1>7, Zenon DEF TypeOK, Fields, Values, Wrote
        <3>2. ctx'[p] = [ctx[p] EXCEPT !["tidHttp"] = "ok", !["authParam"] = "ok",
                                       !["challenge"] = "null", !["info"] = "null"]
            BY <1>1, <1>7 DEF TypeOK
        <3>3. ctx[p] \in [Fields -> Values]
            BY <1>1 DEF TypeOK
        <3>4. ctx'[p]["tidHttp"] = "ok" /\ ctx'[p]["authParam"] = "ok"
              /\ ctx'[p]["challenge"] = "null" /\ ctx'[p]["info"] = "null"
              /\ \A g \in Fields \ {"tidHttp", "authParam", "challenge", "info"} : ctx'[p][g] = ctx[p][g]
            BY <3>2, <3>3, Zenon DEF Fields
        <3> QED BY <3>1, <3>4
    <2>4. Ran(p, "authServer", fret[p])
        BY <1>1, <1>7, Went, Zenon DEF Places, Calls
    <2>5. Counted(p) /\ Watched(p)
        BY <1>1, <1>4 DEF TypeOK, Counted, Watched
    <2>6. Local(p)'
        <3> USE <1>1, <1>2, <1>4, <2>1, <2>3, <2>4 DEF Local, Ran, Downloaders
        <3>1. InContext(p)'
            BY DEF InContext, Held
        <3>2. Progress(p)'
            BY Zenon DEF Progress, Forward
        <3>3. Installed(p)'
            BY Zenon DEF Installed, Forward
        <3>4. Stopping(p)'
            BY Zenon DEF Stopping, Forward
        <3>5. Session(p)'
            BY Zenon DEF Session, Wrapping
        <3>6. AtServer(p)'
            BY Zenon DEF AtServer, Wrapping
        <3>7. Undisturbed(p)'
            BY Zenon DEF Undisturbed, Judged
        <3> QED BY <3>1, <3>2, <3>3, <3>4, <3>5, <3>6, <3>7, Zenon
    <2> QED BY <2>1, <2>2, <2>3, <2>4, <2>5, <2>6, CallKeeps, Zenon
<1>8. ASSUME ctx' \in {ctx, Set(p, "tidHttp", "ok")}
      PROVE  Wrote(p) /\ \A f \in {"cancelResp", "tidBin"} : ctx'[p][f] = ctx[p][f]
    <2>1. CASE ctx' = ctx
        BY <1>1, <2>1, Zenon DEF Wrote, TypeOK
    <2>2. CASE ctx' = Set(p, "tidHttp", "ok")
        BY <1>1, <2>2, FieldSet DEF Fields, Values
    <2> QED BY <1>8, <2>1, <2>2, Zenon
<1>9. ASSUME NEW r \in replies, Es9Answered(p, r), r.ans # "ok", UNCHANGED ctx, GotoErr(p)
      PROVE  IInv'
    <2>1. Served(p) /\ srv'[p] = srv[p] /\ Logged(p) /\ Judged(p, r.forced)
        BY <1>1, <1>4, <1>5, <1>9, Replied
    <2>2. ~clean'[p]
        BY <1>1, <1>2, <1>5, <1>9, <2>1, Zenon DEF Judged, Local, Undisturbed
    <2> QED BY <1>2, <1>4, <1>8, <1>9, <2>1, <2>2, RequestFailed, Zenon
<1>10. ASSUME NEW r \in replies, Es9Lost(p, r), ctx' \in {ctx, Set(p, "tidHttp", "ok")}, GotoErr(p)
      PROVE  IInv'
    <2>1. Served(p) /\ srv'[p] = r.srv /\ Logged(p) /\ Judged(p, FALSE)
        BY <1>1, <1>2, <1>4, <1>5, <1>10, ReplyLost, Zenon
    <2>2. ~clean'[p] /\ (srv[p] \in {"open", "authed", "bound"} => srv'[p] \in {"open", "authed", "bound"})
        BY <1>5, <2>1, Zenon DEF Judged
    <2> QED BY <1>2, <1>4, <1>8, <1>10, <2>1, <2>2, RequestFailed, Zenon
<1>11. ASSUME Es9Unsent(p, replies # {}), UNCHANGED ctx, GotoErr(p)
      PROVE  IInv'
    <2>1. Served(p) /\ srv'[p] = srv[p] /\ Logged(p) /\ Judged(p, FALSE)
        BY <1>1, <1>2, <1>4, <1>6, <1>11, RequestUnsent, Zenon
    <2>2. ~clean'[p]
        BY <2>1, Zenon DEF Judged
    <2> QED BY <1>2, <1>4, <1>8, <1>11, <2>1, <2>2, RequestFailed, Zenon
<1>12.\/ \E r \in replies : Es9Answered(p, r) /\ r.ans = "ok" /\ Go(p, "authServer")
              /\ ctx' = [ctx EXCEPT ![p]["tidHttp"] = "ok", ![p]["authParam"] = "ok",
                                    ![p]["challenge"] = "null", ![p]["info"] = "null"]
      \/ \E r \in replies : Es9Answered(p, r) /\ r.ans # "ok" /\ UNCHANGED ctx /\ GotoErr(p)
      \/ \E r \in replies : Es9Lost(p, r) /\ ctx' \in {ctx, Set(p, "tidHttp", "ok")} /\ GotoErr(p)
      \/ Es9Unsent(p, replies # {}) /\ UNCHANGED ctx /\ GotoErr(p)
    <2>1. replies = IF Ready(p, "initiate") THEN ServerStep(p, "none", "ok", "open") ELSE {}
        BY <1>3 DEF replies
    <2> QED BY <2>1, Zenon DEF Initiate, Es9
<1> QED BY <1>7, <1>9, <1>10, <1>11, <1>12, Zenon

\* es10b_authenticate_server: a lost answer takes the transaction id with it.
LEMMA AuthenticateServerKeeps ==
    ASSUME IInv, NEW p \in Procs, AuthenticateServer(p)
    PROVE  IInv'
<1>1. TypeOK /\ Local(p)
    BY DEF IInv
<1>2. pc[p] = "authServer" /\ pc[p] \in Forward
    BY DEF AuthenticateServer, Proceeds, Forward
<1>3. Ready(p, "authServer")
    BY <1>1, <1>2 DEF Local, InContext, Held, Ready, Fields
<1>4. UNCHANGED <<sent, length, srv, early, mode, alive>>
    BY Zenon DEF AuthenticateServer
<1>5. \A r \in CardAuthenticate(p) :
          /\ r.card \in Cards /\ r.forced \in BOOLEAN
          /\ \/ r.card = card /\ r.ans = "err" /\ (r.forced => card.chal # p)
             \/ /\ card.chal = p /\ r.card.chal = NoOne /\ r.card.sess = p
                /\ r.card.phase = "authed" /\ r.card.seg = 0 /\ r.card.installed = card.installed
                /\ r.ans = "ok"
    BY <1>1, AuthenticateAnswer
<1>6. CardAuthenticate(p) # {}
    BY Zenon DEF CardAuthenticate
<1>7. ASSUME NEW r \in CardAuthenticate(p), Es10Answered(p, r), Go(p, "authClient"),
             ctx' = [ctx EXCEPT ![p]["tidBin"] = "ok", ![p]["authResp"] = r.ans, ![p]["authParam"] = "null"]
      PROVE  IInv'
    <2>1. card' = r.card /\ Logged(p) /\ Judged(p, r.forced) /\ UNCHANGED <<broken, lost>>
        BY <1>1, <1>5, <1>7, Answered
    <2>2. Turn(p) /\ card' \in Cards
        BY <1>5, <2>1, Zenon DEF Turn
    <2>3. r.ans \in {"ok", "err"}
        BY <1>5, Zenon
    <2>4. Wrote(p) /\ ctx'[p]["tidBin"] = "ok" /\ ctx'[p]["authResp"] = r.ans /\ ctx'[p]["authParam"] = "null"
          /\ \A g \in Fields \ {"tidBin", "authResp", "authParam"} : ctx'[p][g] = ctx[p][g]
        <3>1. Wrote(p)
            BY <1>1, <1>7, <2>3, Zenon DEF TypeOK, Fields, Values, Wrote
        <3>2. ctx'[p] = [ctx[p] EXCEPT !["tidBin"] = "ok", !["authResp"] = r.ans, !["authParam"] = "null"]
            BY <1>1, <1>7 DEF TypeOK
        <3>3. ctx[p] \in [Fields -> Values]
            BY <1>1 DEF TypeOK
        <3>4. ctx'[p]["tidBin"] = "ok" /\ ctx'[p]["authResp"] = r.ans /\ ctx'[p]["authParam"] = "null"
              /\ \A g \in Fields \ {"tidBin", "authResp", "authParam"} : ctx'[p][g] = ctx[p][g]
            BY <3>2, <3>3, Zenon DEF Fields
        <3> QED BY <3>1, <3>4, Zenon
    <2>5. Ran(p, "authClient", fret[p])
        BY <1>1, <1>7, Went, Zenon DEF Places, Calls
    <2>6. Served(p) /\ Counted(p) /\ Watched(p)
        BY <1>1, <1>4 DEF TypeOK, Served, Counted, Watched
    <2>7. Local(p)'
        <3> USE <1>1, <1>2, <1>4, <1>5, <2>1, <2>3, <2>4, <2>5 DEF Local, Ran, Downloaders
        <3>1. InContext(p)'
            BY DEF InContext, Held
        <3>2. Progress(p)'
            BY Zenon DEF Progress, Forward
        <3>3. Installed(p)'
            BY Zenon DEF Installed, Forward
        <3>4. Stopping(p)'
            BY Zenon DEF Stopping, Forward
        <3>5. Session(p)'
            BY Zenon DEF Session, Wrapping
        <3>6. AtServer(p)'
            BY Zenon DEF AtServer, Wrapping
        <3>7. Undisturbed(p)'
            BY Zenon DEF Undisturbed, Judged, Progress, AtServer, Forward
        <3> QED BY <3>1, <3>2, <3>3, <3>4, <3>5, <3>6, <3>7, Zenon
    <2> QED BY <2>1, <2>2, <2>4, <2>5, <2>6, <2>7, CallKeeps, Zenon
<1>8. ASSUME ctx' = Set(p, "tidBin", "null")
      PROVE  Wrote(p) /\ ctx'[p]["cancelResp"] = ctx[p]["cancelResp"]
    <2>1. "tidBin" \in Fields /\ "cancelResp" \in Fields \ {"tidBin"} /\ "null" \in Values
        BY Zenon DEF Fields, Values
    <2> QED BY <1>1, <1>8, <2>1, FieldSet, Zenon
<1>9. card.sess # p
    BY <1>1, <1>2 DEF Local, Session
<1>10. ASSUME NEW r \in CardAuthenticate(p), Es10Lost(p, r), ctx' = Set(p, "tidBin", "null"), GotoErr(p)
       PROVE  IInv'
    <2>1. Turn(p) /\ p \notin card'.installed
        BY <1>1, <1>2, <1>5, <1>10, Underway, Zenon DEF Turn, Es10Lost
    <2> QED BY <1>1, <1>2, <1>4, <1>5, <1>8, <1>10, <2>1, CommandLost, Underway, Zenon
<1>11. ASSUME Es10Unsent(p, CardAuthenticate(p) # {}), ctx' = Set(p, "tidBin", "null"), GotoErr(p)
       PROVE  IInv'
    BY <1>1, <1>2, <1>4, <1>6, <1>8, <1>9, <1>11, CommandUnsent, Underway, Zenon
<1> QED BY <1>3, <1>7, <1>10, <1>11, Zenon DEF AuthenticateServer, Es10

\* es9p_authenticate_client and es11_authenticate_client.
LEMMA AuthenticateClientKeeps ==
    ASSUME IInv, NEW p \in Procs, AuthenticateClient(p)
    PROVE  IInv'
<1>1. TypeOK /\ Local(p)
    BY DEF IInv
<1>2. pc[p] = "authClient" /\ pc[p] \in Forward /\ pc[p] \in Calls
    BY DEF AuthenticateClient, Proceeds, Forward, Calls
<1>3. Ready(p, "authClient")
    BY <1>1, <1>2, Zenon DEF Local, InContext, Held, Ready, Fields
<1>4. UNCHANGED <<sent, length, card, early, mode, alive>>
    BY Zenon DEF AuthenticateClient
<1> DEFINE replies == ServerStep(p, "open", ctx[p]["authResp"], "authed")
<1>5. \A r \in replies :
          /\ r.forced \in BOOLEAN /\ r.srv \in {"none", "open", "authed", "bound", "cancelled"}
          /\ \/ r.srv = srv[p] /\ r.ans = "err" /\ (r.forced => srv[p] # "open" \/ ctx[p]["authResp"] # "ok")
             \/ srv[p] = "open" /\ ctx[p]["authResp"] = "ok" /\ r.srv = "authed" /\ r.ans = "ok"
    BY <1>1, StepReply
<1>6. replies # {}
    BY Zenon DEF ServerStep
<1>7. replies = IF Ready(p, "authClient") THEN ServerStep(p, "open", ctx[p]["authResp"], "authed") ELSE {}
    BY <1>3, Zenon
<1> HIDE DEF replies
<1>8. Turn(p) /\ card' \in Cards /\ Counted(p) /\ Watched(p)
    BY <1>1, <1>4, Zenon DEF Turn, TypeOK, Cards, Counted, Watched
<1>9. ASSUME NEW r \in replies, Es9Answered(p, r), r.ans = "ok", Go(p, "preview"), p \in Downloaders,
             ctx' = [ctx EXCEPT ![p]["prepParam"] = "ok", ![p]["authResp"] = "null"]
      PROVE  IInv'
    <2>1. Served(p) /\ srv'[p] = "authed" /\ Logged(p) /\ Judged(p, r.forced) /\ UNCHANGED <<broken, lost>>
        BY <1>1, <1>4, <1>5, <1>9, Replied
    <2>2. Wrote(p) /\ ctx'[p]["prepParam"] = "ok" /\ ctx'[p]["authResp"] = "null"
          /\ \A g \in Fields \ {"prepParam", "authResp"} : ctx'[p][g] = ctx[p][g]
        <3>1. Wrote(p)
            BY <1>1, <1>9, Zenon DEF TypeOK, Fields, Values, Wrote
        <3>2. ctx'[p] = [ctx[p] EXCEPT !["prepParam"] = "ok", !["authResp"] = "null"]
            BY <1>1, <1>9 DEF TypeOK
        <3>3. ctx[p] \in [Fields -> Values]
            BY <1>1 DEF TypeOK
        <3>4. ctx'[p]["prepParam"] = "ok" /\ ctx'[p]["authResp"] = "null"
              /\ \A g \in Fields \ {"prepParam", "authResp"} : ctx'[p][g] = ctx[p][g]
            BY <3>2, <3>3, Zenon DEF Fields
        <3> QED BY <3>1, <3>4
    <2>3. Ran(p, "preview", fret[p])
        BY <1>1, <1>9, Went DEF Places, Calls
    <2>4. Local(p)'
        <3>0. p \in Downloaders
            BY <1>9, Zenon
        <3> USE <1>1, <1>2, <1>4, <2>1, <2>2, <2>3, <3>0 DEF Local, Ran, Downloaders
        <3>1. InContext(p)'
            BY DEF InContext, Held, Fields
        <3>2. Progress(p)'
            BY Zenon DEF Progress, Forward
        <3>3. Installed(p)'
            BY Zenon DEF Installed, Forward
        <3>4. Stopping(p)'
            BY Zenon DEF Stopping, Forward
        <3>5. Session(p)'
            BY Zenon DEF Session, Wrapping
        <3>6. AtServer(p)'
            BY Zenon DEF AtServer, Wrapping
        <3>7. Undisturbed(p)'
            BY Zenon DEF Undisturbed, Judged
        <3> QED BY <3>1, <3>2, <3>3, <3>4, <3>5, <3>6, <3>7, Zenon
    <2> QED BY <1>8, <2>1, <2>2, <2>3, <2>4, CallKeeps, Zenon
<1>10. ASSUME NEW r \in replies, Es9Answered(p, r), r.ans = "ok", Go(p, "report"), p \notin Downloaders,
              ctx' = Set(p, "authResp", "null")
       PROVE  IInv'
    <2>1. Served(p) /\ srv'[p] = "authed" /\ Logged(p) /\ Judged(p, r.forced) /\ UNCHANGED <<broken, lost>>
        <3>1. r.forced \in BOOLEAN /\ r.srv = "authed" /\ card' = card
            BY <1>4, <1>5, <1>10, Zenon
        <3> QED BY <1>1, <1>10, <3>1, Replied
    <2>2. Wrote(p)
        BY <1>1, <1>10, FieldSet, Zenon DEF Fields, Values
    <2>3. Ran(p, "report", fret[p])
        BY <1>1, <1>10, Went DEF Places, Calls
    <2>4. Local(p)'
        <3>0. p \notin Downloaders
            BY <1>10, Zenon
        <3> USE <1>1, <1>2, <1>4, <2>1, <2>3, <3>0, Underway DEF Local, Ran, Downloaders
        <3>1. InContext(p)'
            BY DEF InContext, Held
        <3>2. Progress(p)'
            BY Zenon DEF Progress, Forward
        <3>3. Installed(p)'
            BY Zenon DEF Installed, Forward
        <3>4. Stopping(p)'
            BY Zenon DEF Stopping, Forward
        <3>5. Session(p)'
            BY Zenon DEF Session, Wrapping
        <3>6. AtServer(p)'
            BY Zenon DEF AtServer, Wrapping
        <3>7. Undisturbed(p)'
            BY Zenon DEF Undisturbed, Judged
        <3> QED BY <3>1, <3>2, <3>3, <3>4, <3>5, <3>6, <3>7, Zenon
    <2> QED BY <1>8, <2>1, <2>2, <2>3, <2>4, CallKeeps, Zenon
<1>11. ASSUME UNCHANGED ctx
       PROVE  Wrote(p) /\ \A f \in {"cancelResp", "tidBin"} : ctx'[p][f] = ctx[p][f]
    BY <1>1, <1>11 DEF Wrote, TypeOK
<1>12. ASSUME NEW r \in replies, Es9Answered(p, r), r.ans # "ok", UNCHANGED ctx, GotoErr(p)
       PROVE  IInv'
    <2>1. Served(p) /\ srv'[p] = srv[p] /\ Logged(p) /\ Judged(p, r.forced)
        BY <1>1, <1>4, <1>5, <1>12, Replied
    <2>2. ~clean'[p]
        BY <1>1, <1>2, <1>5, <1>12, <2>1, Zenon DEF Judged, Local, Undisturbed
    <2> QED BY <1>2, <1>4, <1>11, <1>12, <2>1, <2>2, RequestFailed, Zenon
<1>13. ASSUME NEW r \in replies, Es9Lost(p, r), UNCHANGED ctx, GotoErr(p)
       PROVE  IInv'
    <2>1. Served(p) /\ srv'[p] = r.srv /\ Logged(p) /\ Judged(p, FALSE)
        BY <1>1, <1>2, <1>4, <1>5, <1>13, ReplyLost, Zenon
    <2>2. ~clean'[p] /\ (srv[p] \in {"open", "authed", "bound"} => srv'[p] \in {"open", "authed", "bound"})
        BY <1>5, <2>1 DEF Judged
    <2> QED BY <1>2, <1>4, <1>11, <1>13, <2>1, <2>2, RequestFailed, Zenon
<1>14. ASSUME Es9Unsent(p, replies # {}), UNCHANGED ctx, GotoErr(p)
       PROVE  IInv'
    <2>1. Served(p) /\ srv'[p] = srv[p] /\ Logged(p) /\ Judged(p, FALSE)
        BY <1>1, <1>2, <1>4, <1>6, <1>14, RequestUnsent, Zenon
    <2>2. ~clean'[p]
        BY <2>1 DEF Judged
    <2> QED BY <1>2, <1>4, <1>11, <1>14, <2>1, <2>2, RequestFailed, Zenon
<1> QED BY <1>7, <1>9, <1>10, <1>12, <1>13, <1>14, Zenon DEF AuthenticateClient, Es9

\* The preview and the question after it.
LEMMA PreviewKeeps ==
    ASSUME IInv, NEW p \in Procs, Preview(p)
    PROVE  IInv'
<1>1. TypeOK /\ Local(p)
    BY DEF IInv
<1>2. pc[p] = "preview" /\ pc[p] \in Forward /\ p \in Downloaders
    BY <1>1, Zenon DEF Preview, Proceeds, Forward, Local, Progress
<1>3. UNCHANGED <<mode, ctx, sent, length, card, srv, broken, lost, alive>>
    BY Zenon DEF Preview
<1>4. Wrote(p) /\ Logged(p) /\ Served(p) /\ Counted(p) /\ Turn(p) /\ card' \in Cards
    BY <1>1, <1>3 DEF TypeOK, Wrote, Logged, Served, Counted, Turn, Cards
<1>5. CASE Go(p, "prepare") /\ UNCHANGED <<clean, early>>
    <2>1. Watched(p) /\ Judged(p, TRUE)
        BY <1>1, <1>3, <1>5, Zenon DEF TypeOK, Watched, Judged
    <2>2. Ran(p, "prepare", fret[p])
        BY <1>1, <1>5, Went DEF Places, Calls
    <2>3. Local(p)'
        <3>0. UNCHANGED early
            BY <1>5, Zenon
        <3> USE <1>1, <1>2, <1>3, <2>1, <2>2, <3>0 DEF Local, Ran, Downloaders
        <3>1. InContext(p)'
            BY DEF InContext, Held
        <3>2. Progress(p)'
            BY Zenon DEF Progress, Forward
        <3>3. Installed(p)'
            BY Zenon DEF Installed, Forward
        <3>4. Stopping(p)'
            BY Zenon DEF Stopping, Forward
        <3>5. Session(p)'
            BY Zenon DEF Session, Wrapping
        <3>6. AtServer(p)'
            BY Zenon DEF AtServer, Wrapping
        <3>7. Undisturbed(p)'
            BY Zenon DEF Undisturbed, Judged
        <3> QED BY <3>1, <3>2, <3>3, <3>4, <3>5, <3>6, <3>7, Zenon
    <2> QED BY <1>4, <2>1, <2>2, <2>3, CallKeeps, Zenon
<1>6. CASE /\ pc' = [pc EXCEPT ![p] = "prepare"] /\ cancelled' = [cancelled EXCEPT ![p] = TRUE]
           /\ early' = [early EXCEPT ![p] = TRUE] /\ clean' = [clean EXCEPT ![p] = FALSE]
           /\ UNCHANGED <<fret, out>>
    <2>1. /\ pc' \in [Procs -> Places] /\ cancelled' \in [Procs -> BOOLEAN] /\ early' \in [Procs -> BOOLEAN]
          /\ clean' \in [Procs -> BOOLEAN]
        BY <1>1, <1>6, Zenon DEF TypeOK, Places, Calls
    <2>2. TypeOK'
        BY <1>1, <1>3, <1>6, <2>1, Zenon DEF TypeOK, Places
    <2>3. \A q \in Procs \ {p} : /\ pc'[q] = pc[q] /\ cancelled'[q] = cancelled[q] /\ early'[q] = early[q]
                               /\ clean'[q] = clean[q]
        BY <1>1, <1>6 DEF TypeOK
    <2>4. Moves(p)
        BY <1>3, <1>4, <1>6, <2>3, Zenon DEF Moves, Same
    <2>5. pc'[p] = "prepare" /\ cancelled'[p] /\ early'[p] /\ ~clean'[p]
        BY <1>1, <1>6 DEF TypeOK
    <2>6. fret' = fret /\ out' = out
        BY <1>6
    <2>7. Local(p)'
        <3> USE <1>1, <1>2, <1>3, <2>5, <2>6 DEF Local, Downloaders
        <3>1. InContext(p)'
            BY DEF InContext, Held
        <3>2. Progress(p)'
            BY Zenon DEF Progress, Forward
        <3>3. Installed(p)'
            BY Zenon DEF Installed
        <3>4. Stopping(p)'
            BY Zenon DEF Stopping, Forward, Installed, Progress
        <3>5. Session(p)'
            BY Zenon DEF Session, Wrapping
        <3>6. AtServer(p)'
            BY Zenon DEF AtServer, Wrapping
        <3>7. Undisturbed(p)'
            BY Zenon DEF Undisturbed
        <3> QED BY <3>1, <3>2, <3>3, <3>4, <3>5, <3>6, <3>7, Zenon
    <2> QED BY <2>2, <2>4, <2>7, StepKeeps, Zenon
<1>7. CASE GotoErr(p) /\ clean' = [clean EXCEPT ![p] = FALSE] /\ UNCHANGED early
    <2>1. Watched(p)
        BY <1>1, <1>3, <1>7, Zenon DEF TypeOK, Watched
    <2>2. clean' = [clean EXCEPT ![p] = @ /\ FALSE] /\ card' = card
        BY <1>3, <1>7, Zenon
    <2>3. Judged(p, FALSE)
        BY <1>1, <2>2, CleanWritten, Zenon
    <2>4. Ran(p, IF p \in Downloaders THEN "cancelCard" ELSE "report", "err")
        BY <1>1, <1>7, Erred, Zenon
    <2>5. ~clean'[p]
        BY <2>3 DEF Judged
    <2>6. Local(p)'
        BY <1>1, <1>2, <1>3, <1>4, <1>7, <2>4, <2>5, GivingUpKeeps, Underway, Zenon
    <2> QED BY <1>4, <2>1, <2>3, <2>4, <2>6, CallKeeps, Zenon
<1> QED BY <1>5, <1>6, <1>7 DEF Preview

\* es10b_prepare_download.
LEMMA PrepareDownloadKeeps ==
    ASSUME IInv, NEW p \in Procs, PrepareDownload(p)
    PROVE  IInv'
<1>1. TypeOK /\ Local(p)
    BY DEF IInv
<1>2. pc[p] = "prepare" /\ pc[p] \in Forward /\ p \in Downloaders
    BY <1>1 DEF PrepareDownload, Proceeds, Forward, Local, Progress
<1>3. Ready(p, "prepare")
    BY <1>1, <1>2 DEF Local, InContext, Held, Ready, Fields
<1>4. UNCHANGED <<sent, length, srv, early, mode, alive>>
    BY Zenon DEF PrepareDownload
<1>5. \A r \in CardPrepare(p) :
          /\ r.card \in Cards /\ r.forced \in BOOLEAN
          /\ \/ r.card = card /\ r.ans = "err" /\ (r.forced => ~(card.sess = p /\ card.phase = "authed"))
             \/ /\ card.sess = p /\ r.card.chal = card.chal /\ r.card.sess = p
                /\ r.card.phase = "prepared" /\ r.card.seg = card.seg
                /\ r.card.installed = card.installed /\ r.ans = "ok"
    BY <1>1, PrepareAnswer DEF Owns
<1>6. CardPrepare(p) # {}
    BY Zenon DEF CardPrepare
<1>7. ASSUME NEW r \in CardPrepare(p), Es10Answered(p, r), Go(p, "getBpp"),
             ctx' = [ctx EXCEPT ![p]["prepResp"] = r.ans, ![p]["prepParam"] = "null"]
      PROVE  IInv'
    <2>1. card' = r.card /\ Logged(p) /\ Judged(p, r.forced) /\ UNCHANGED <<broken, lost>>
        BY <1>1, <1>5, <1>7, Answered
    <2>2. Turn(p) /\ card' \in Cards
        BY <1>5, <2>1, Zenon DEF Turn
    <2>3. r.ans \in {"ok", "err"}
        BY <1>5, Zenon
    <2>4. Wrote(p) /\ ctx'[p]["prepResp"] = r.ans /\ ctx'[p]["prepParam"] = "null"
          /\ \A g \in Fields \ {"prepResp", "prepParam"} : ctx'[p][g] = ctx[p][g]
        <3>1. Wrote(p)
            BY <1>1, <1>7, <2>3, Zenon DEF TypeOK, Fields, Values, Wrote
        <3>2. ctx'[p] = [ctx[p] EXCEPT !["prepResp"] = r.ans, !["prepParam"] = "null"]
            BY <1>1, <1>7 DEF TypeOK
        <3>3. ctx[p] \in [Fields -> Values]
            BY <1>1 DEF TypeOK
        <3>4. ctx'[p]["prepResp"] = r.ans /\ ctx'[p]["prepParam"] = "null"
              /\ \A g \in Fields \ {"prepResp", "prepParam"} : ctx'[p][g] = ctx[p][g]
            BY <3>2, <3>3, Zenon DEF Fields
        <3> QED BY <3>1, <3>4
    <2>5. Ran(p, "getBpp", fret[p])
        BY <1>1, <1>7, Went, Zenon DEF Places, Calls
    <2>6. Served(p) /\ Counted(p) /\ Watched(p)
        BY <1>1, <1>4 DEF TypeOK, Served, Counted, Watched
    <2>7. Local(p)'
        <3> USE <1>1, <1>2, <1>4, <1>5, <2>1, <2>3, <2>4, <2>5 DEF Local, Ran, Downloaders
        <3>1. InContext(p)'
            BY DEF InContext, Held
        <3>2. Progress(p)'
            BY Zenon DEF Progress, Forward
        <3>3. Installed(p)'
            BY Zenon DEF Installed, Forward
        <3>4. Stopping(p)'
            BY Zenon DEF Stopping, Forward
        <3>5. Session(p)'
            BY Zenon DEF Session, Wrapping
        <3>6. AtServer(p)'
            BY Zenon DEF AtServer, Wrapping
        <3>7. Undisturbed(p)'
            BY Zenon DEF Undisturbed, Judged
        <3> QED BY <3>1, <3>2, <3>3, <3>4, <3>5, <3>6, <3>7, Zenon
    <2> QED BY <2>1, <2>2, <2>4, <2>5, <2>6, <2>7, CallKeeps, Zenon
<1>8. ASSUME UNCHANGED ctx
      PROVE  Wrote(p) /\ \A f \in {"cancelResp", "tidBin"} : ctx'[p][f] = ctx[p][f]
    BY <1>1, <1>8 DEF Wrote, TypeOK
<1>9. ASSUME NEW r \in CardPrepare(p), Es10Lost(p, r), UNCHANGED ctx, GotoErr(p)
      PROVE  IInv'
    <2>1. Turn(p) /\ p \notin card'.installed /\ (card'.sess = p => card.sess = p)
        BY <1>1, <1>2, <1>5, <1>9, Underway, Zenon DEF Turn, Es10Lost
    <2> QED BY <1>1, <1>2, <1>4, <1>5, <1>8, <1>9, <2>1, CommandLost, Underway, Zenon
<1>10. ASSUME Es10Unsent(p, CardPrepare(p) # {}), UNCHANGED ctx, GotoErr(p)
       PROVE  IInv'
    BY <1>1, <1>2, <1>4, <1>6, <1>8, <1>10, CommandUnsent, Underway, Zenon
<1> QED BY <1>3, <1>7, <1>9, <1>10, Zenon DEF PrepareDownload, Es10

\* es9p_get_bound_profile_package.
LEMMA GetBoundProfilePackageKeeps ==
    ASSUME IInv, NEW p \in Procs, GetBoundProfilePackage(p)
    PROVE  IInv'
<1>1. TypeOK /\ Local(p)
    BY DEF IInv
<1>2. pc[p] = "getBpp" /\ pc[p] \in Forward /\ pc[p] \in Calls /\ p \in Downloaders
    BY <1>1 DEF GetBoundProfilePackage, Proceeds, Forward, Calls, Local, Progress
<1>3. Ready(p, "getBpp")
    BY <1>1, <1>2 DEF Local, InContext, Held, Ready, Fields
<1>4. UNCHANGED <<sent, card, early, mode, alive>>
    BY Zenon DEF GetBoundProfilePackage
<1> DEFINE replies == ServerStep(p, "authed", ctx[p]["prepResp"], "bound")
<1>5. \A r \in replies :
          /\ r.forced \in BOOLEAN /\ r.srv \in {"none", "open", "authed", "bound", "cancelled"}
          /\ \/ r.srv = srv[p] /\ r.ans = "err" /\ (r.forced => srv[p] # "authed" \/ ctx[p]["prepResp"] # "ok")
             \/ srv[p] = "authed" /\ ctx[p]["prepResp"] = "ok" /\ r.srv = "bound" /\ r.ans = "ok"
    BY <1>1, StepReply
<1>6. replies # {}
    BY Zenon DEF ServerStep
<1>7. replies = IF Ready(p, "getBpp") THEN ServerStep(p, "authed", ctx[p]["prepResp"], "bound") ELSE {}
    BY <1>3, Zenon
<1> HIDE DEF replies
<1>8. Turn(p) /\ card' \in Cards /\ Watched(p)
    BY <1>1, <1>4 DEF Turn, TypeOK, Cards, Watched
<1>9. ASSUME NEW r \in replies, Es9Answered(p, r), r.ans = "ok", Go(p, "load"),
             ctx' = [ctx EXCEPT ![p]["bpp"] = "ok", ![p]["prepResp"] = "null"],
             NEW n \in 1..Segments, length' = [length EXCEPT ![p] = n]
      PROVE  IInv'
    <2>1. Served(p) /\ srv'[p] = "bound" /\ Logged(p) /\ Judged(p, r.forced) /\ UNCHANGED <<broken, lost>>
        BY <1>1, <1>4, <1>5, <1>9, Replied
    <2>2. Wrote(p) /\ ctx'[p]["bpp"] = "ok" /\ ctx'[p]["prepResp"] = "null"
          /\ \A g \in Fields \ {"bpp", "prepResp"} : ctx'[p][g] = ctx[p][g]
        <3>1. Wrote(p)
            BY <1>1, <1>9, Zenon DEF TypeOK, Fields, Values, Wrote
        <3>2. ctx'[p] = [ctx[p] EXCEPT !["bpp"] = "ok", !["prepResp"] = "null"]
            BY <1>1, <1>9 DEF TypeOK
        <3>3. ctx[p] \in [Fields -> Values]
            BY <1>1 DEF TypeOK
        <3>4. ctx'[p]["bpp"] = "ok" /\ ctx'[p]["prepResp"] = "null"
              /\ \A g \in Fields \ {"bpp", "prepResp"} : ctx'[p][g] = ctx[p][g]
            BY <3>2, <3>3, Zenon DEF Fields
        <3> QED BY <3>1, <3>4, Zenon
    <2>3. Ran(p, "load", fret[p])
        BY <1>1, <1>9, Went, Zenon DEF Places, Calls
    <2>4. n \in 0..Segments /\ 0 < n
        BY SegmentsAssumption
    <2>5. Counted(p) /\ length'[p] = n
        BY <1>1, <1>4, <1>9, <2>4 DEF TypeOK, Counted
    <2>6. Local(p)'
        <3> USE <1>1, <1>2, <1>4, <2>1, <2>2, <2>3, <2>4, <2>5 DEF Local, Ran, Downloaders
        <3>1. InContext(p)'
            BY DEF InContext, Held
        <3>2. Progress(p)'
            BY Zenon DEF Progress, Forward
        <3>3. Installed(p)'
            BY Zenon DEF Installed, Forward
        <3>4. Stopping(p)'
            BY Zenon DEF Stopping, Forward
        <3>5. Session(p)'
            BY Zenon DEF Session, Wrapping
        <3>6. AtServer(p)'
            BY Zenon DEF AtServer, Wrapping
        <3>7. Undisturbed(p)'
            BY Zenon DEF Undisturbed, Judged
        <3> QED BY <3>1, <3>2, <3>3, <3>4, <3>5, <3>6, <3>7, Zenon
    <2> QED BY <1>8, <2>1, <2>2, <2>3, <2>5, <2>6, CallKeeps, Zenon
<1>10. ASSUME UNCHANGED ctx
       PROVE  Wrote(p) /\ \A f \in {"cancelResp", "tidBin"} : ctx'[p][f] = ctx[p][f]
    BY <1>1, <1>10 DEF Wrote, TypeOK
<1>11. ASSUME NEW r \in replies, Es9Answered(p, r), r.ans # "ok", UNCHANGED <<ctx, length>>, GotoErr(p)
       PROVE  IInv'
    <2>1. Served(p) /\ srv'[p] = srv[p] /\ Logged(p) /\ Judged(p, r.forced)
        <3>1. r.forced \in BOOLEAN /\ r.srv = srv[p] /\ card' = card
            BY <1>4, <1>5, <1>11, Zenon
        <3>2. r.srv \in {"none", "open", "authed", "bound", "cancelled"}
            BY <1>1, <3>1, Zenon DEF TypeOK
        <3>3. TypeOK /\ r.forced \in BOOLEAN /\ card' = card /\ Es9Answered(p, r)
            BY <1>1, <1>11, <3>1, Zenon
        <3>4. Served(p) /\ srv'[p] = r.srv /\ Logged(p) /\ Judged(p, r.forced)
            BY <3>2, <3>3, Replied
        <3> QED BY <3>1, <3>4, Zenon
    <2>2. ~clean'[p]
        BY <1>1, <1>2, <1>5, <1>11, <2>1, Zenon DEF Judged, Local, Undisturbed
    <2> QED BY <1>2, <1>4, <1>10, <1>11, <2>1, <2>2, RequestFailed, Zenon
<1>12. ASSUME NEW r \in replies, Es9Lost(p, r), UNCHANGED <<ctx, length>>, GotoErr(p)
       PROVE  IInv'
    <2>1. Served(p) /\ srv'[p] = r.srv /\ Logged(p) /\ Judged(p, FALSE)
        BY <1>1, <1>2, <1>4, <1>5, <1>12, ReplyLost, Zenon
    <2>2. ~clean'[p] /\ (srv[p] \in {"open", "authed", "bound"} => srv'[p] \in {"open", "authed", "bound"})
        BY <1>5, <2>1, Zenon DEF Judged
    <2> QED BY <1>2, <1>4, <1>10, <1>12, <2>1, <2>2, RequestFailed, Zenon
<1>13. ASSUME Es9Unsent(p, replies # {}), UNCHANGED <<ctx, length>>, GotoErr(p)
       PROVE  IInv'
    <2>1. Served(p) /\ srv'[p] = srv[p] /\ Logged(p) /\ Judged(p, FALSE)
        BY <1>1, <1>2, <1>4, <1>6, <1>13, RequestUnsent, Zenon
    <2>2. ~clean'[p]
        BY <2>1 DEF Judged
    <2> QED BY <1>2, <1>4, <1>10, <1>13, <2>1, <2>2, RequestFailed, Zenon
<1> QED BY <1>7, <1>9, <1>11, <1>12, <1>13, Zenon DEF GetBoundProfilePackage, Es9

\* One segment of es10b_load_bound_profile_package.
LEMMA LoadSegmentKeeps ==
    ASSUME IInv, NEW p \in Procs, LoadSegment(p)
    PROVE  IInv'
<1>1. TypeOK /\ Local(p)
    BY DEF IInv
<1>2. pc[p] = "load" /\ pc[p] \in Forward /\ p \in Downloaders
    BY <1>1 DEF LoadSegment, Proceeds, Forward, Local, Progress
<1>3. Ready(p, "load")
    BY <1>1, <1>2 DEF Local, InContext, Held, Ready, Fields
<1>4. UNCHANGED <<length, srv, early, mode, alive>>
    BY DEF LoadSegment
<1>5. \A r \in CardLoad(p) :
          /\ r.card \in Cards /\ r.forced \in BOOLEAN
          /\ \/ r.card = card /\ r.ans = "err" /\ ~(card.sess = p /\ card.phase = "prepared" /\ card.seg = sent[p])
             \/ /\ card.sess = p /\ r.card.chal = card.chal /\ r.card.sess = NoOne
                /\ r.card.installed = card.installed /\ r.ans = "err" /\ r.forced = FALSE
             \/ /\ card.sess = p /\ card.seg = sent[p] /\ sent[p] + 1 < Segments
                /\ r.card.chal = card.chal /\ r.card.sess = p /\ r.card.phase = "prepared"
                /\ r.card.seg = sent[p] + 1 /\ r.card.installed = card.installed /\ r.ans = "more"
             \/ /\ card.sess = p /\ card.seg = sent[p] /\ sent[p] + 1 >= Segments
                /\ r.card.chal = card.chal /\ r.card.sess = NoOne
                /\ r.card.installed = card.installed \cup {p} /\ r.ans = "ok"
    BY <1>1, LoadAnswer, Zenon
<1>6. CardLoad(p) # {}
    BY Zenon DEF CardLoad
<1>7. sent[p] \in Nat /\ length[p] \in Nat /\ Segments \in Nat /\ sent[p] < length[p] /\ length[p] <= Segments
    BY <1>1, <1>2, SegmentsAssumption DEF TypeOK, Local, Progress
<1>8. ~early[p]
    BY <1>1, <1>2, Zenon DEF LoadSegment, Proceeds, AtCancelPoint, Local, Stopping, Forward
<1>9. Served(p) /\ Watched(p)
    BY <1>1, <1>4, Zenon DEF TypeOK, Served, Watched
<1>10. ASSUME sent' = [sent EXCEPT ![p] = @ + 1]
       PROVE  Counted(p) /\ sent'[p] = sent[p] + 1
    <2>1. sent[p] + 1 \in 0..Segments
        BY <1>7, OneMore, Zenon
    <2> QED BY <1>1, <1>4, <1>10, <2>1 DEF TypeOK, Counted
<1>11. ASSUME UNCHANGED ctx
       PROVE  Wrote(p) /\ \A f \in {"cancelResp", "tidBin"} : ctx'[p][f] = ctx[p][f]
    BY <1>1, <1>11 DEF Wrote, TypeOK
<1>12. ASSUME NEW r \in CardLoad(p), Es10Answered(p, r)
       PROVE  /\ card' = r.card /\ Logged(p) /\ Judged(p, r.forced) /\ UNCHANGED <<broken, lost>>
              /\ Turn(p) /\ card' \in Cards
    <2>1. card' = r.card /\ Logged(p) /\ Judged(p, r.forced) /\ UNCHANGED <<broken, lost>>
        BY <1>1, <1>5, <1>12, Answered
    <2> QED BY <1>5, <2>1, Zenon DEF Turn
<1>13. ASSUME NEW r \in CardLoad(p), Es10Answered(p, r), sent' = [sent EXCEPT ![p] = @ + 1],
              r.ans = "err", UNCHANGED ctx, GotoErr(p)
       PROVE  IInv'
    <2>1. Ran(p, IF p \in Downloaders THEN "cancelCard" ELSE "report", "err")
        BY <1>1, <1>13, Erred, Zenon
    <2>2. ~clean'[p]
        BY <1>1, <1>2, <1>5, <1>12, <1>13, Zenon DEF Judged, Local, Undisturbed
    <2>3. p \notin card'.installed /\ (card'.sess = p => card.sess = p)
        BY <1>1, <1>2, <1>5, <1>12, <1>13, Underway, Zenon
    <2>4. Local(p)'
        BY <1>1, <1>2, <1>4, <1>11, <1>12, <1>13, <2>1, <2>2, <2>3, GivingUpKeeps, Underway, Zenon
    <2> QED BY <1>9, <1>10, <1>11, <1>12, <1>13, <2>1, <2>4, CallKeeps, Zenon
<1>14. ASSUME NEW r \in CardLoad(p), Es10Answered(p, r), sent' = [sent EXCEPT ![p] = @ + 1],
              r.ans # "err", sent[p] + 1 < length[p], UNCHANGED ctx, Go(p, "load")
       PROVE  IInv'
    <2>1. Ran(p, "load", fret[p])
        BY <1>1, <1>14, Went, Zenon DEF Places, Calls
    <2>2. /\ card.sess = p /\ card'.chal = card.chal /\ card'.sess = p /\ card'.phase = "prepared"
          /\ card'.seg = sent[p] + 1 /\ card'.installed = card.installed
        BY <1>5, <1>7, <1>12, <1>14
    <2>3. sent'[p] = sent[p] + 1 /\ sent[p] + 1 < length[p]
        BY <1>10, <1>14, Zenon
    <2>4. Judged(p, r.forced) /\ UNCHANGED <<broken, lost, ctx>>
        BY <1>12, <1>14
    <2>5. Local(p)'
        <3> USE <1>1, <1>2, <1>4, <1>8, <2>1, <2>2, <2>3, <2>4 DEF Local, Ran, Downloaders
        <3>1. InContext(p)'
            BY DEF InContext, Held
        <3>2. Progress(p)'
            BY Zenon DEF Progress, Forward
        <3>3. Installed(p)'
            BY Zenon DEF Installed, Forward
        <3>4. Stopping(p)'
            BY Zenon DEF Stopping, Forward
        <3>5. Session(p)'
            BY Zenon DEF Session, Wrapping
        <3>6. AtServer(p)'
            BY Zenon DEF AtServer, Wrapping
        <3>7. Undisturbed(p)'
            BY Zenon DEF Undisturbed, Judged
        <3> QED BY <3>1, <3>2, <3>3, <3>4, <3>5, <3>6, <3>7, Zenon
    <2> QED BY <1>9, <1>10, <1>11, <1>12, <1>14, <2>1, <2>5, CallKeeps, Zenon
<1>15. ASSUME NEW r \in CardLoad(p), Es10Answered(p, r), sent' = [sent EXCEPT ![p] = @ + 1],
              r.ans # "err", ~(sent[p] + 1 < length[p]), ctx' = Set(p, "bpp", "null"), Go(p, "report")
       PROVE  IInv'
    <2>1. Ran(p, "report", fret[p])
        BY <1>1, <1>15, Went, Zenon DEF Places, Calls
    <2>2. Wrote(p)
        BY <1>1, <1>15, FieldSet, Zenon DEF Fields, Values
    <2>3. \/ card'.sess = p /\ length[p] < Segments /\ card'.installed = card.installed
          \/ card'.sess = NoOne /\ p \in card'.installed
        <3>1. card' = r.card /\ r.ans # "err" /\ ~(sent[p] + 1 < length[p])
            BY <1>12, <1>15, Zenon
        <3> QED BY <1>5, <1>7, <3>1
    <2>4. Judged(p, r.forced) /\ UNCHANGED <<broken, lost>>
        BY <1>12, <1>15
    <2>5. Local(p)'
        <3> USE <1>1, <1>2, <1>4, <1>8, <2>1, <2>3, <2>4, Underway, ProcsAssumption DEF Local, Ran, Downloaders
        <3>1. InContext(p)'
            BY DEF InContext, Held
        <3>2. Progress(p)'
            BY Zenon DEF Progress, Forward
        <3>3. Installed(p)'
            BY Zenon DEF Installed, Forward
        <3>4. Stopping(p)'
            BY Zenon DEF Stopping, Forward
        <3>5. Session(p)'
            BY Zenon DEF Session, Wrapping
        <3>6. AtServer(p)'
            BY Zenon DEF AtServer, Wrapping
        <3>7. Undisturbed(p)'
            BY Zenon DEF Undisturbed, Judged
        <3> QED BY <3>1, <3>2, <3>3, <3>4, <3>5, <3>6, <3>7, Zenon
    <2> QED BY <1>9, <1>10, <1>12, <1>15, <2>1, <2>2, <2>5, CallKeeps, Zenon
<1>16. ASSUME NEW r \in CardLoad(p), Es10Lost(p, r), UNCHANGED <<ctx, sent>>, GotoErr(p)
       PROVE  IInv'
    <2>1. Turn(p) /\ (card'.sess = p => card.sess = p)
        BY <1>5, <1>16, ProcsAssumption, Zenon DEF Turn, Es10Lost
    <2> QED BY <1>1, <1>2, <1>4, <1>5, <1>8, <1>11, <1>16, <2>1, CommandLost, Underway, Zenon
<1>17. ASSUME Es10Unsent(p, CardLoad(p) # {}), UNCHANGED <<ctx, sent>>, GotoErr(p)
       PROVE  IInv'
    BY <1>1, <1>2, <1>4, <1>6, <1>11, <1>17, CommandUnsent, Underway, Zenon
<1> QED BY <1>3, <1>13, <1>14, <1>15, <1>16, <1>17, Zenon DEF LoadSegment, Es10

-----------------------------------------------------------------------------
(* Cancelling, reporting, and what happens from outside.                   *)

\* err: es10b_cancel_session.
LEMMA CancelCardKeeps ==
    ASSUME IInv, NEW p \in Procs, CancelCard(p)
    PROVE  IInv'
<1>1. TypeOK /\ Local(p)
    BY DEF IInv
<1>2. pc[p] = "cancelCard" /\ pc[p] \in Calls /\ p \in Downloaders /\ fret[p] # "ok" /\ ~clean[p]
    BY <1>1 DEF CancelCard, Local, Progress, Undisturbed, Calls
<1>3. UNCHANGED <<mode, sent, length, srv, early>> /\ alive' = [alive EXCEPT ![p] = card.sess = p]
    BY DEF CancelCard
<1>4. Ready(p, "cancelCard") <=> ctx[p]["tidBin"] # "null"
    BY <1>1, <1>2, Zenon DEF Local, InContext, Ready
<1>5. Served(p) /\ Counted(p) /\ Watched(p) /\ (alive'[p] <=> card.sess = p)
    <2>1. alive' \in [Procs -> BOOLEAN] /\ (alive'[p] <=> card.sess = p)
        BY <1>1, <1>3, Zenon DEF TypeOK
    <2> QED BY <1>1, <1>3, <2>1 DEF TypeOK, Served, Counted, Watched
<1>6. \A r \in CardCancel(p) :
          /\ r.card \in Cards /\ r.forced \in BOOLEAN
          /\ \/ card.sess # p /\ r.card = card /\ r.ans = "err"
             \/ /\ card.sess = p /\ r.card.chal = card.chal /\ r.card.sess = NoOne
                /\ r.card.installed = card.installed /\ r.ans = "ok"
    BY <1>1, CancelAnswer, Zenon
<1>7. CardCancel(p) # {}
    BY Zenon DEF CardCancel
<1>8. ASSUME Go(p, "cancelServer") PROVE Ran(p, "cancelServer", fret[p])
    BY <1>1, <1>8, Went DEF Places, Calls
<1>9. ASSUME Ran(p, "cancelServer", fret[p]), Logged(p), ~clean'[p], card'.installed = card.installed,
             card'.sess = p => card.sess = p,
             \/ card'.sess # p /\ (alive'[p] => ctx'[p]["cancelResp"] = "ok")
             \/ {"cancelCard", "authServer"} \cap lost'[p] # {} /\ card'.sess # p
             \/ "cancelCard" \in broken'[p]
             \/ "authServer" \in lost'[p]
      PROVE  Local(p)'
    <2> USE <1>1, <1>2, <1>3, <1>5, <1>9 DEF Local, Ran, Downloaders
    <2>1. InContext(p)'
        BY Zenon DEF InContext
    <2>2. Progress(p)'
        BY Zenon DEF Progress, Forward
    <2>3. Installed(p)'
        BY Zenon DEF Installed, Logged
    <2>4. Stopping(p)'
        BY Zenon DEF Stopping, Forward
    <2>5. Session(p)'
        BY Zenon DEF Session, Wrapping
    <2>6. AtServer(p)'
        BY Zenon DEF AtServer, Wrapping
    <2>7. Undisturbed(p)'
        BY Zenon DEF Undisturbed
    <2> QED BY <2>1, <2>2, <2>3, <2>4, <2>5, <2>6, <2>7, Zenon
<1>10. ASSUME NEW r \in CardCancel(p), Es10Answered(p, r), ctx' = Set(p, "cancelResp", r.ans), Go(p, "cancelServer")
       PROVE  IInv'
    <2>1. card' = r.card /\ Logged(p) /\ Judged(p, r.forced)
        BY <1>1, <1>6, <1>10, Answered
    <2>2. Turn(p) /\ card' \in Cards /\ card'.sess # p /\ card'.installed = card.installed
        BY <1>6, <2>1, ProcsAssumption, Zenon DEF Turn
    <2>3. r.ans \in {"ok", "err"} /\ (card.sess = p => r.ans = "ok")
        BY <1>6
    <2>4. Wrote(p) /\ ctx'[p]["cancelResp"] = r.ans
        BY <1>1, <1>10, <2>3, FieldSet, Zenon DEF Fields, Values
    <2>5. ~clean'[p]
        BY <1>2, <2>1 DEF Judged
    <2>6. Local(p)'
        BY <1>5, <1>8, <1>9, <1>10, <2>1, <2>2, <2>3, <2>4, <2>5, Zenon
    <2> QED BY <1>5, <1>8, <1>10, <2>1, <2>2, <2>4, <2>6, CallKeeps, Zenon
<1>11. ASSUME UNCHANGED ctx PROVE Wrote(p)
    BY <1>1, <1>11 DEF Wrote, TypeOK
<1>12. ASSUME NEW r \in CardCancel(p), Es10Lost(p, r), UNCHANGED ctx, Go(p, "cancelServer")
       PROVE  IInv'
    <2>1. card' = r.card /\ Logged(p) /\ Judged(p, FALSE) /\ "cancelCard" \in lost'[p]
        BY <1>1, <1>2, <1>12, Lost, Zenon
    <2>2. Turn(p) /\ card' \in Cards /\ card'.sess # p /\ card'.installed = card.installed
        BY <1>6, <2>1, ProcsAssumption, Zenon DEF Turn
    <2>3. ~clean'[p]
        BY <2>1 DEF Judged
    <2>4. Local(p)'
        BY <1>8, <1>9, <1>12, <2>1, <2>2, <2>3, Zenon
    <2> QED BY <1>5, <1>8, <1>11, <1>12, <2>1, <2>2, <2>4, CallKeeps, Zenon
<1>13. ASSUME Es10Unsent(p, CardCancel(p) # {}), UNCHANGED ctx, Go(p, "cancelServer")
       PROVE  IInv'
    <2>1. card' = card /\ Logged(p) /\ Judged(p, FALSE) /\ "cancelCard" \in broken'[p]
        BY <1>1, <1>2, <1>7, <1>13, Unsent, Zenon
    <2>2. Turn(p) /\ card' \in Cards
        BY <1>1, <2>1, Zenon DEF Turn, TypeOK, Cards
    <2>3. ~clean'[p]
        BY <2>1 DEF Judged
    <2>4. Local(p)'
        BY <1>8, <1>9, <1>13, <2>1, <2>3, Zenon
    <2> QED BY <1>5, <1>8, <1>11, <1>13, <2>1, <2>2, <2>4, CallKeeps, Zenon
<1>14. ASSUME ~Ready(p, "cancelCard"), UNCHANGED ctx, Go(p, "cancelServer"), UNCHANGED <<card, broken, lost, clean>>
       PROVE  IInv'
    <2>1. Logged(p) /\ Judged(p, TRUE) /\ Turn(p) /\ card' \in Cards
        BY <1>1, <1>14 DEF Logged, Judged, Turn, TypeOK, Cards
    <2>2. card.sess # p \/ "authServer" \in lost[p]
        BY <1>1, <1>2, <1>4, <1>14, Zenon DEF Local, Session
    <2>3. Local(p)'
        BY <1>2, <1>5, <1>8, <1>9, <1>14, <2>1, <2>2, Zenon
    <2> QED BY <1>5, <1>8, <1>11, <1>14, <2>1, <2>3, CallKeeps, Zenon
<1> QED BY <1>10, <1>12, <1>13, <1>14, Zenon DEF CancelCard, Es10

\* ...then es9p_cancel_session.
LEMMA CancelServerKeeps ==
    ASSUME IInv, NEW p \in Procs, CancelServer(p)
    PROVE  IInv'
<1>1. TypeOK /\ Local(p)
    BY DEF IInv
<1>2. pc[p] = "cancelServer" /\ pc[p] \in Calls /\ p \in Downloaders /\ fret[p] # "ok" /\ ~clean[p]
    BY <1>1 DEF CancelServer, Local, Progress, Undisturbed, Calls
<1>3. UNCHANGED <<sent, length, card, early, mode, alive>>
    BY DEF CancelServer
<1>4. Ready(p, "cancelServer") <=> ctx[p]["cancelResp"] # "null"
    BY DEF Ready
<1>5. Turn(p) /\ card' \in Cards /\ Counted(p) /\ Watched(p)
    BY <1>1, <1>3 DEF Turn, TypeOK, Cards, Counted, Watched
<1>6. ASSUME NEW r \in ServerCancel(p)
      PROVE  /\ r.forced \in BOOLEAN /\ r.srv \in {"none", "open", "authed", "bound", "cancelled"}
             /\ ctx[p]["cancelResp"] = "ok" /\ srv[p] \in {"open", "authed", "bound"} => r.srv = "cancelled"
    <2>1. /\ r.srv = IF ctx[p]["cancelResp"] = "ok" /\ srv[p] \in {"open", "authed", "bound"}
                     THEN "cancelled" ELSE srv[p]
          /\ r.forced = TRUE
        BY <1>6 DEF ServerCancel, Reply
    <2>2. srv[p] \in {"none", "open", "authed", "bound", "cancelled"}
        BY <1>1 DEF TypeOK
    <2> QED BY <2>1, <2>2, Zenon
<1>7. ServerCancel(p) # {}
    BY Zenon DEF ServerCancel
<1>8. ASSUME Go(p, "report") PROVE Ran(p, "report", fret[p])
    BY <1>1, <1>8, Went DEF Places, Calls
<1>9. ASSUME Ran(p, "report", fret[p]), Logged(p), ~clean'[p],
             \/ ctx[p]["cancelResp"] = "ok" /\ srv[p] \in {"open", "authed", "bound"} => srv'[p] = "cancelled"
             \/ "cancelServer" \in broken'[p]
      PROVE  Local(p)'
    <2> USE <1>1, <1>2, <1>3, <1>9 DEF Local, Ran, Downloaders
    <2>1. InContext(p)'
        BY Zenon DEF InContext
    <2>2. Progress(p)'
        BY Zenon DEF Progress, Forward
    <2>3. Installed(p)'
        BY Zenon DEF Installed, Logged
    <2>4. Stopping(p)'
        BY Zenon DEF Stopping, Forward
    <2>5. Session(p)'
        BY Zenon DEF Session, Wrapping, Logged
    <2>6. AtServer(p)'
        BY Zenon DEF AtServer, Wrapping, Logged
    <2>7. Undisturbed(p)'
        BY Zenon DEF Undisturbed
    <2> QED BY <2>1, <2>2, <2>3, <2>4, <2>5, <2>6, <2>7, Zenon
<1>10. ASSUME NEW r \in ServerCancel(p), Es9Answered(p, r), ctx' = Set(p, "cancelResp", "null"), Go(p, "report")
       PROVE  IInv'
    <2>1. Served(p) /\ srv'[p] = r.srv /\ Logged(p) /\ Judged(p, r.forced)
        BY <1>1, <1>3, <1>6, <1>10, Replied
    <2>2. Wrote(p)
        BY <1>1, <1>10, FieldSet, Zenon DEF Fields, Values
    <2>3. ~clean'[p]
        BY <1>2, <2>1 DEF Judged
    <2>4. Local(p)'
        BY <1>6, <1>8, <1>9, <1>10, <2>1, <2>3, Zenon
    <2> QED BY <1>5, <1>8, <1>10, <2>1, <2>2, <2>4, CallKeeps, Zenon
<1>11. ASSUME UNCHANGED ctx PROVE Wrote(p)
    BY <1>1, <1>11 DEF Wrote, TypeOK
<1>12. ASSUME NEW r \in ServerCancel(p), Es9Lost(p, r), UNCHANGED ctx, Go(p, "report")
       PROVE  IInv'
    <2>1. Served(p) /\ srv'[p] = r.srv /\ Logged(p) /\ Judged(p, FALSE)
        BY <1>1, <1>2, <1>3, <1>6, <1>12, ReplyLost, Zenon
    <2>2. ~clean'[p]
        BY <2>1 DEF Judged
    <2>3. Local(p)'
        BY <1>6, <1>8, <1>9, <1>12, <2>1, <2>2, Zenon
    <2> QED BY <1>5, <1>8, <1>11, <1>12, <2>1, <2>3, CallKeeps, Zenon
<1>13. ASSUME Es9Unsent(p, ServerCancel(p) # {}), UNCHANGED ctx, Go(p, "report")
       PROVE  IInv'
    <2>1. Served(p) /\ Logged(p) /\ Judged(p, FALSE) /\ "cancelServer" \in broken'[p]
        BY <1>1, <1>2, <1>3, <1>7, <1>13, RequestUnsent, Zenon
    <2>2. ~clean'[p]
        BY <2>1 DEF Judged
    <2>3. Local(p)'
        BY <1>8, <1>9, <1>13, <2>1, <2>2, Zenon
    <2> QED BY <1>5, <1>8, <1>11, <1>13, <2>1, <2>3, CallKeeps, Zenon
<1>14. ASSUME ~Ready(p, "cancelServer"), UNCHANGED ctx, Go(p, "report"), UNCHANGED <<srv, broken, lost, clean>>
       PROVE  IInv'
    <2>1. Served(p) /\ Logged(p) /\ Judged(p, TRUE)
        BY <1>1, <1>3, <1>14, Zenon DEF Served, Logged, Judged, TypeOK
    <2>2. ctx[p]["cancelResp"] # "ok"
        BY <1>4, <1>14, Zenon
    <2>3. Local(p)'
        BY <1>2, <1>8, <1>9, <1>14, <2>1, <2>2, Zenon
    <2> QED BY <1>5, <1>8, <1>11, <1>14, <2>1, <2>3, CallKeeps, Zenon
<1> QED BY <1>10, <1>12, <1>13, <1>14, Zenon DEF CancelServer, Es9

\* The command line is read, or refused before the SIGINT handler is there.
LEMMA StartKeeps ==
    ASSUME IInv, NEW p \in Procs, Start(p)
    PROVE  IInv'
<1>1. TypeOK /\ Local(p)
    BY DEF IInv
<1>2. pc[p] = "start" /\ UNCHANGED <<ctx, sent, length, card, srv, broken, lost, early, mode, alive>>
    BY Zenon DEF Start
<1>3. Wrote(p) /\ Logged(p) /\ Served(p) /\ Counted(p) /\ Watched(p) /\ Turn(p) /\ card' \in Cards
    BY <1>1, <1>2 DEF TypeOK, Wrote, Logged, Served, Counted, Watched, Turn, Cards
<1>4. CASE Go(p, "challenge") /\ UNCHANGED clean
    <2>1. Ran(p, "challenge", fret[p])
        BY <1>1, <1>4, Went, Zenon DEF Places, Calls
    <2>2. Judged(p, TRUE)
        BY <1>1, <1>2, <1>4 DEF Judged, TypeOK
    <2>3. Local(p)'
        <3> USE <1>1, <1>2, <2>1, <2>2 DEF Local, Ran, Downloaders
        <3>1. InContext(p)'
            BY DEF InContext, Held, Fields
        <3>2. Progress(p)'
            BY Zenon DEF Progress, Forward
        <3>3. Installed(p)'
            BY Zenon DEF Installed, Forward
        <3>4. Stopping(p)'
            BY Zenon DEF Stopping, Forward
        <3>5. Session(p)'
            BY Zenon DEF Session, Wrapping
        <3>6. AtServer(p)'
            BY Zenon DEF AtServer, Wrapping
        <3>7. Undisturbed(p)'
            BY Zenon DEF Undisturbed, Judged
        <3> QED BY <3>1, <3>2, <3>3, <3>4, <3>5, <3>6, <3>7, Zenon
    <2> QED BY <1>3, <2>1, <2>2, <2>3, CallKeeps, Zenon
<1>5. CASE /\ p \in Downloaders
           /\ pc' = [pc EXCEPT ![p] = "cancelCard"] /\ fret' = [fret EXCEPT ![p] = "arguments"]
           /\ clean' = [clean EXCEPT ![p] = FALSE]
           /\ UNCHANGED <<cancelled, out>>
    <2>1. Ran(p, "cancelCard", "arguments")
        BY <1>1, <1>5 DEF TypeOK, Ran, Places, Calls
    <2>2. clean' = [clean EXCEPT ![p] = @ /\ FALSE] /\ card' = card
        BY <1>2, <1>5, Zenon
    <2>3. Judged(p, FALSE)
        BY <1>1, <2>2, CleanWritten, Zenon
    <2>4. Local(p)'
        <3>0. p \in Downloaders
            BY <1>5, Zenon
        <3> USE <1>1, <1>2, <2>1, <2>3, <3>0 DEF Local, Ran, Downloaders
        <3>1. InContext(p)'
            BY DEF InContext, Held, Fields
        <3>2. Progress(p)'
            BY Zenon DEF Progress, Forward
        <3>3. Installed(p)'
            BY Zenon DEF Installed, Forward
        <3>4. Stopping(p)'
            BY Zenon DEF Stopping, Forward
        <3>5. Session(p)'
            BY Zenon DEF Session, Wrapping
        <3>6. AtServer(p)'
            BY Zenon DEF AtServer, Wrapping
        <3>7. Undisturbed(p)'
            BY Zenon DEF Undisturbed, Judged
        <3> QED BY <3>1, <3>2, <3>3, <3>4, <3>5, <3>6, <3>7, Zenon
    <2> QED BY <1>3, <2>1, <2>3, <2>4, CallKeeps, Zenon
<1> QED BY <1>4, <1>5, Zenon DEF Start

\* The context is emptied; p stays what it is otherwise.
LEMMA Emptied ==
    ASSUME TypeOK, NEW p \in Procs, ctx' = [ctx EXCEPT ![p] = Empty]
    PROVE  Wrote(p) /\ \A f \in Fields : ctx'[p][f] = "null"
<1>1. Empty \in [Fields -> Values] /\ \A f \in Fields : Empty[f] = "null"
    BY DEF Empty, Values
<1> HIDE DEF Empty
<1> QED BY <1>1 DEF TypeOK, Wrote

\* The last line of output.
LEMMA ReportKeeps ==
    ASSUME IInv, NEW p \in Procs, Report(p)
    PROVE  IInv'
<1>1. TypeOK /\ Local(p)
    BY DEF IInv
<1>2. /\ pc[p] = "report" /\ pc' = [pc EXCEPT ![p] = "done"]
      /\ UNCHANGED <<mode, cancelled, sent, length, fret, card, srv, broken, lost, early, alive, clean>>
    BY Zenon DEF Report, history
<1>3. Wrote(p) /\ \A f \in Fields : ctx'[p][f] = "null"
    BY <1>1, Emptied, Zenon DEF Report
<1> DEFINE said == IF fret[p] = "ok" THEN "success" ELSE IF cancelled[p] THEN "cancelled" ELSE "error"
<1>4. said \in {"success", "error", "cancelled"} /\ (said = "success" <=> fret[p] = "ok")
    BY Zenon
<1>5. out' = [out EXCEPT ![p] = said]
    BY Zenon DEF Report
<1> HIDE DEF said
<1>6. pc' \in [Procs -> Places] /\ out' \in [Procs -> {"none", "success", "error", "cancelled"}]
    BY <1>1, <1>2, <1>4, <1>5, Zenon DEF TypeOK, Places
<1>7. TypeOK'
    BY <1>1, <1>2, <1>3, <1>6, Zenon DEF TypeOK, Wrote, Places
<1>8. pc'[p] = "done" /\ out'[p] = said /\ \A q \in Procs \ {p} : pc'[q] = pc[q] /\ out'[q] = out[q]
    BY <1>1, <1>2, <1>5 DEF TypeOK
<1>9. Moves(p)
    BY <1>2, <1>3, <1>8, Zenon DEF Moves, Same, Turn, Wrote
<1>10. Local(p)'
    <2> USE <1>1, <1>2, <1>3, <1>4, <1>8 DEF Local, Downloaders
    <2>1. InContext(p)'
        BY DEF InContext, Held
    <2>2. Progress(p)'
        BY Zenon DEF Progress, Forward
    <2>3. Installed(p)'
        BY Zenon DEF Installed
    <2>4. Stopping(p)'
        BY Zenon DEF Stopping, Forward
    <2>5. Session(p)'
        BY Zenon DEF Session, Wrapping
    <2>6. AtServer(p)'
        BY Zenon DEF AtServer, Wrapping
    <2>7. Undisturbed(p)'
        BY Zenon DEF Undisturbed
    <2> QED BY <2>1, <2>2, <2>3, <2>4, <2>5, <2>6, <2>7, Zenon
<1> QED BY <1>7, <1>9, <1>10, StepKeeps

\* sigint_handler.
LEMMA SigintKeeps ==
    ASSUME IInv, NEW p \in Procs, Sigint(p)
    PROVE  IInv'
<1>1. TypeOK /\ Local(p)
    BY DEF IInv
<1>2. /\ Running(p) /\ p \in Downloaders
      /\ UNCHANGED <<mode, pc, ctx, sent, length, fret, out, card, srv, broken, lost, alive>>
    BY Zenon DEF Sigint
<1>3. /\ cancelled' = [cancelled EXCEPT ![p] = TRUE] /\ early' = [early EXCEPT ![p] = BeforeLoad(p)]
      /\ clean' = [clean EXCEPT ![p] = FALSE]
    BY DEF Sigint
<1>4. BeforeLoad(p) \in BOOLEAN
    BY Zenon DEF BeforeLoad
<1>5. cancelled' \in [Procs -> BOOLEAN] /\ early' \in [Procs -> BOOLEAN] /\ clean' \in [Procs -> BOOLEAN]
    BY <1>1, <1>3, <1>4, Zenon DEF TypeOK
<1>6. TypeOK'
    BY <1>1, <1>2, <1>5, Zenon DEF TypeOK
<1>7. \A q \in Procs \ {p} : cancelled'[q] = cancelled[q] /\ early'[q] = early[q] /\ clean'[q] = clean[q]
    BY <1>1, <1>3 DEF TypeOK
<1>8. cancelled'[p] /\ (early'[p] <=> BeforeLoad(p)) /\ ~clean'[p]
    BY <1>1, <1>3 DEF TypeOK
<1>9. Moves(p)
    BY <1>2, <1>7, Zenon DEF Moves, Same, Turn
<1>10. Local(p)'
    <2>0. pc[p] \in Calls \cup {"report"}
        BY <1>1, <1>2 DEF TypeOK, Running
    <2> USE <1>1, <1>2, <1>8 DEF Local, Downloaders
    <2>1. InContext(p)'
        BY Zenon DEF InContext
    <2>2. Progress(p)'
        BY Zenon DEF Progress
    <2>3. Installed(p)'
        BY DEF Installed
    <2>4. Stopping(p)'
        BY <2>0, Zenon DEF Stopping, Forward, BeforeLoad, Installed, Calls
    <2>5. Session(p)'
        BY Zenon DEF Session
    <2>6. AtServer(p)'
        BY Zenon DEF AtServer, Wrapping
    <2>7. Undisturbed(p)'
        BY Zenon DEF Undisturbed
    <2> QED BY <2>1, <2>2, <2>3, <2>4, <2>5, <2>6, <2>7, Zenon
<1> QED BY <1>6, <1>9, <1>10, StepKeeps

\* A process is killed.
LEMMA KillKeeps ==
    ASSUME IInv, NEW p \in Procs, Kill(p)
    PROVE  IInv'
<1>1. TypeOK /\ Local(p)
    BY DEF IInv
<1>2. /\ Running(p) /\ pc' = [pc EXCEPT ![p] = "killed"]
      /\ UNCHANGED <<mode, cancelled, sent, length, fret, out, card, srv, broken, lost, early, alive, clean>>
    BY DEF Kill, history
<1>3. Wrote(p) /\ \A f \in Fields : ctx'[p][f] = "null"
    BY <1>1, Emptied, Zenon DEF Kill
<1>4. pc' \in [Procs -> Places] /\ pc'[p] = "killed" /\ \A q \in Procs \ {p} : pc'[q] = pc[q]
    BY <1>1, <1>2 DEF TypeOK, Places
<1>5. TypeOK'
    BY <1>1, <1>2, <1>3, <1>4, Zenon DEF TypeOK, Wrote, Places
<1>6. Moves(p)
    BY <1>2, <1>3, <1>4, Zenon DEF Moves, Same, Turn, Wrote
<1>7. Local(p)'
    <2> USE <1>1, <1>2, <1>3, <1>4 DEF Local, Downloaders
    <2>1. InContext(p)'
        BY DEF InContext, Held
    <2>2. Progress(p)'
        BY Zenon DEF Progress, Forward, Running
    <2>3. Installed(p)'
        BY Zenon DEF Installed
    <2>4. Stopping(p)'
        BY Zenon DEF Stopping
    <2>5. Session(p)'
        BY Zenon DEF Session, Wrapping
    <2>6. AtServer(p)'
        BY Zenon DEF AtServer, Wrapping
    <2>7. Undisturbed(p)'
        BY Zenon DEF Undisturbed
    <2> QED BY <2>1, <2>2, <2>3, <2>4, <2>5, <2>6, <2>7, Zenon
<1> QED BY <1>5, <1>6, <1>7, StepKeeps

-----------------------------------------------------------------------------
(* The theorems.                                                           *)

\* The invariant holds when no process has begun.
LEMMA InitEstablishes == Init => IInv
<1> SUFFICES ASSUME Init PROVE IInv
    BY Zenon
<1> USE DEF Init
<1>1. Empty \in [Fields -> Values] /\ \A f \in Fields : Empty[f] = "null"
    BY Zenon DEF Empty, Values
<1>2. 0 \in 0..Segments
    BY SegmentsAssumption
<1>3. ctx \in [Procs -> [Fields -> Values]] /\ \A p \in Procs : \A f \in Fields : ctx[p][f] = "null"
    BY <1>1, Zenon
<1>4. card \in Cards /\ card.sess \notin Procs /\ card.installed = {}
    BY <1>2, ProcsAssumption, Zenon DEF Cards
<1>5. TypeOK
    BY <1>2, <1>3, <1>4, Zenon DEF TypeOK, Cards, Calls
<1>6. ASSUME NEW p \in Procs PROVE Local(p)
    <2>1. /\ pc[p] = "start" /\ ~cancelled[p] /\ sent[p] = 0 /\ fret[p] = "ok" /\ out[p] = "none"
          /\ srv[p] = "none" /\ ~early[p] /\ ~alive[p]
        OBVIOUS
    <2>2. InContext(p)
        BY <1>3, <2>1 DEF InContext, Held
    <2>3. Progress(p) /\ Installed(p) /\ Stopping(p) /\ Session(p) /\ AtServer(p) /\ Undisturbed(p)
        BY <1>4, <2>1, Zenon DEF Progress, Installed, Stopping, Session, AtServer, Undisturbed, Forward, Wrapping
    <2> QED BY <2>2, <2>3, Zenon DEF Local
<1> QED BY <1>5, <1>6 DEF IInv

\* Every step keeps it.
LEMMA NextPreserves == IInv /\ [Next]_vars => IInv'
<1> SUFFICES ASSUME IInv, [Next]_vars PROVE IInv'
    OBVIOUS
<1>1. CASE UNCHANGED vars
    <2>1. TypeOK'
        BY <1>1, Zenon DEF IInv, TypeOK, vars, hostVars, history
    <2>2. ASSUME NEW q \in Procs PROVE Same(q) /\ Apart(q)
        BY <1>1, <2>2, Zenon DEF vars, hostVars, history, Same, Apart
    <2> QED BY <2>1, <2>2, OthersKeep, Zenon DEF IInv
<1>2. ASSUME NEW p \in Procs, Step(p) PROVE IInv'
    BY <1>2, StartKeeps, CancelPointKeeps, GetChallengeKeeps, GetInfoKeeps, InitiateKeeps,
       AuthenticateServerKeeps, AuthenticateClientKeeps, PreviewKeeps, PrepareDownloadKeeps,
       GetBoundProfilePackageKeeps, LoadSegmentKeeps, CancelCardKeeps, CancelServerKeeps, ReportKeeps, Zenon
    DEF Step
<1>3. ASSUME NEW p \in Procs, Sigint(p) \/ Kill(p) PROVE IInv'
    BY <1>3, SigintKeeps, KillKeeps
<1> QED BY <1>1, <1>2, <1>3 DEF Next

\* So it always holds.
LEMMA Invariance == Spec => []IInv
<1>1. Init => IInv
    BY InitEstablishes
<1>2. IInv /\ [Next]_vars => IInv'
    BY NextPreserves
<1> QED BY <1>1, <1>2, PTL DEF Spec

\* Every variable keeps its type: a download never sends more segments than a
\* package has.
THEOREM DownloadTyped == Spec => []TypeOK
<1>1. IInv => TypeOK
    BY DEF IInv
<1> QED BY <1>1, Invariance, PTL

\* What a download prints is true of the eUICC, whatever failed and whoever
\* else used it.
THEOREM OutcomeAlwaysTrue == Spec => []OutcomeIsTrue
<1>1. ASSUME IInv PROVE OutcomeIsTrue
    <2>1. ASSUME NEW p \in Procs, p \in Downloaders
          PROVE  /\ out[p] = "success" => p \in card.installed \/ length[p] < Segments
                 /\ out[p] \in {"error", "cancelled"} /\ p \in card.installed => "load" \in lost[p]
        <3>1. Progress(p) /\ Installed(p)
            BY <1>1, Zenon DEF IInv, Local
        <3> QED BY <2>1, <3>1, Zenon DEF Progress, Installed
    <2> QED BY <2>1 DEF OutcomeIsTrue, Downloaders
<1> QED BY <1>1, Invariance, PTL

\* After ^C before the last CANCELPOINT, or an answer other than y to the preview,
\* no profile is ever installed and success is never printed.
THEOREM EarlyCancelAlwaysFinal == Spec => []EarlyCancelIsFinal
<1>1. ASSUME IInv PROVE EarlyCancelIsFinal
    <2>1. ASSUME NEW p \in Procs, early[p] PROVE p \notin card.installed /\ out[p] # "success"
        <3>1. Progress(p) /\ Stopping(p)
            BY <1>1, Zenon DEF IInv, Local
        <3> QED BY <2>1, <3>1, Zenon DEF Progress, Stopping, Forward
    <2> QED BY <2>1, Zenon DEF EarlyCancelIsFinal
<1> QED BY <1>1, Invariance, PTL

\* A session outlives its process for one of the four causes only.
THEOREM OrphansExplained == Spec => []OrphanSession
<1>1. ASSUME IInv PROVE OrphanSession
    <2>1. ASSUME NEW p \in Procs, pc[p] = "done", card.sess = p
          PROVE  \/ mode[p] = "discovery"
                 \/ "authServer" \in lost[p]
                 \/ "cancelCard" \in broken[p]
                 \/ out[p] = "success" /\ length[p] < Segments
        <3>1. Progress(p) /\ Session(p) /\ mode[p] \in {"download", "discovery"}
            BY <1>1, Zenon DEF IInv, Local, TypeOK
        <3> QED BY <2>1, <3>1, Zenon DEF Progress, Session, Wrapping, Downloaders
    <2> QED BY <2>1, Zenon DEF OrphanSession
<1> QED BY <1>1, Invariance, PTL

\* A download that gives up with a session in the eUICC ends it at both ends,
\* unless a cancel call or the answer with the transaction id did not get through.
THEOREM CancelAlwaysReachesBoth == Spec => []CancelReachesBoth
<1>1. ASSUME IInv PROVE CancelReachesBoth
    <2>1. ASSUME NEW p \in Procs, pc[p] = "done", alive[p]
          PROVE  \/ card.sess # p /\ srv[p] = "cancelled"
                 \/ {"cancelCard", "cancelServer"} \cap broken[p] # {}
                 \/ {"cancelCard", "authServer"} \cap lost[p] # {}
        <3>1. AtServer(p)
            BY <1>1, Zenon DEF IInv, Local
        <3> QED BY <2>1, <3>1, Zenon DEF AtServer, Wrapping
    <2> QED BY <2>1, Zenon DEF CancelReachesBoth
<1> QED BY <1>1, Invariance, PTL

\* The NULL checks at the head of the calls never fail, the preview finds its
\* parameters, and cleanup leaves nothing behind.
THEOREM ContextAlwaysReady == Spec => []ContextReady
<1>1. ASSUME IInv PROVE ContextReady
    <2>1. ASSUME NEW p \in Procs
          PROVE  /\ pc[p] \in Calls \ {"cancelCard", "cancelServer"} => Ready(p, pc[p])
                 /\ pc[p] = "preview" => ctx[p]["prepParam"] # "null"
                 /\ pc[p] \in {"done", "killed"} => ctx[p] = Empty
        <3>1. InContext(p) /\ ctx[p] \in [Fields -> Values]
            BY <1>1, Zenon DEF IInv, Local, TypeOK
        <3>2. pc[p] \in Calls \ {"cancelCard", "cancelServer"} => Ready(p, pc[p])
            BY <3>1 DEF InContext, Held, Ready, Calls, Fields
        <3>3. pc[p] = "preview" => ctx[p]["prepParam"] # "null"
            BY <3>1 DEF InContext, Held, Fields
        <3>4. pc[p] \in {"done", "killed"} => ctx[p] = Empty
            BY <3>1 DEF InContext, Held, Empty
        <3> QED BY <3>2, <3>3, <3>4, Zenon
    <2> QED BY <2>1, Zenon DEF ContextReady
<1> QED BY <1>1, Invariance, PTL

\* A process for which nothing was lost, refused or cancelled, and whose
\* challenge nobody replaced, succeeds.
THEOREM CleanRunsSucceed == Spec => []CleanRunSucceeds
<1>1. ASSUME IInv PROVE CleanRunSucceeds
    <2>1. ASSUME NEW p \in Procs, pc[p] = "done", clean[p]
          PROVE  out[p] = "success" /\ (p \in Downloaders => p \in card.installed \/ length[p] < Segments)
        <3>1. Progress(p) /\ Installed(p) /\ Undisturbed(p)
            BY <1>1 DEF IInv, Local
        <3> QED BY <2>1, <3>1, Zenon DEF Progress, Installed, Undisturbed
    <2> QED BY <2>1, Zenon DEF CleanRunSucceeds
<1> QED BY <1>1, Invariance, PTL
=============================================================================

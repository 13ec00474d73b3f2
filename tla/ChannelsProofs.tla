--------------------------- MODULE ChannelsProofs ---------------------------
(***************************************************************************)
(* What Channels promises, for any number of processes, channels and       *)
(* faults.  The proof adds to the invariants what each driver remembers at *)
(* each place, which channels the card can be holding for a process there, *)
(* and that a reader is used by one pcsc process at a time.                *)
(***************************************************************************)
EXTENDS Channels, TLAPS

Early == {"setup", "connect", "open", "select", "record"}
Open == {"work", "close", "closed", "unclosed"}

\* What the context and the driver remember, told from where the process is.
Remembers(p) ==
    /\ pc[p] \in Early => p \notin recorded /\ last[p] \in InitialIds(driver[p])
    /\ pc[p] \in Open =>
           p \in recorded /\ (driver[p] \in Remembering \ {"at"} => chan[p] = last[p])
    /\ pc[p] = "unclosed" => p \in unsure
    /\ pc[p] \in {"disconnect", "fini"} /\ driver[p] \in Qmis \cup {"mbim"} /\ last[p] > 0 =>
           p \in unsure \/ (p \notin recorded /\ driver[p] # "qmi")
    /\ driver[p] = "gbinder_hidl" /\ pc[p] \notin Open \cup {"dead"} => last[p] = Unknown
    /\ pc[p] \in {"crashed", "stuck"} => \/ driver[p] \in Qmis /\ p \in unsure
                                         \/ driver[p] = "qmi_qrtr" /\ p \notin recorded

\* The channels the card keeps open for a process are those it knows of.
Holds(p) ==
    /\ pc[p] \in {"setup", "connect", "open"} => Opened(p) = {}
    /\ pc[p] \in {"select", "record"} => Opened(p) \subseteq {got[p]}
    /\ pc[p] \in {"work", "close"} => Opened(p) \subseteq {Via(p)}
    /\ pc[p] \in {"closed", "disconnect", "fini", "done"} /\ p \notin unsure =>
           Opened(p) = {} \/ (driver[p] = "at_csim" /\ p \in unselected)

\* The channel a process knows of is its own, until somebody closed a channel
\* of another or a REFRESH closed it.
Owns(p) ==
    foreign = {} /\ p \notin uprooted =>
        /\ pc[p] \in {"select", "record"} => got[p] \in Opened(p) \/ (driver[p] = "mbim" /\ got[p] = 0)
        /\ pc[p] \in {"work", "close"} => Via(p) \in Opened(p) \/ (driver[p] = "mbim" /\ Via(p) = 0)

\* pcsc is linked from connect to disconnect, and holds no channel otherwise.
Reader(p) ==
    driver[p] = "pcsc" =>
        /\ Linked(p) <=> pc[p] \in {"open", "select", "record", "disconnect"} \cup Open
        /\ Opened(p) # {} => Linked(p)

Local(p) == Remembers(p) /\ Holds(p) /\ Owns(p) /\ Reader(p)

\* A reader serves one process.
OneReader ==
    \A p, q \in Procs : driver[p] = "pcsc" =>
        driver[q] = "pcsc" /\ (Linked(p) /\ Linked(q) => p = q)

\* A window that has opened stays open.
Cause(p) ==
    \/ p \in uprooted
    \/ driver[p] = "mbim" /\ (p \in unsure \/ (p \notin recorded /\ pc[p] \in {"fini", "done", "dead"}))
    \/ driver[p] = "gbinder_hidl" /\ p \in late
Caused == foreign # {} => \E p \in Procs : Cause(p)

IInv == TypeOK /\ OneReader /\ Caused /\ \A p \in Procs : Local(p)

-----------------------------------------------------------------------------
(* A step of one process as the others see it.                             *)

\* q's own state stays in the step of another process.
Same(q) ==
    /\ driver'[q] = driver[q] /\ pc'[q] = pc[q] /\ chan'[q] = chan[q] /\ got'[q] = got[q]
    /\ last'[q] = last[q] /\ client'[q] = client[q]
    /\ q \in recorded' <=> q \in recorded
    /\ q \in unsure' <=> q \in unsure
    /\ q \in unselected' <=> q \in unselected
    /\ q \in late' <=> q \in late

\* The card opens no channel for q in the step of another process, and a channel
\* of q that it closes is accounted for.
Apart(q) ==
    /\ foreign \subseteq foreign' /\ uprooted \subseteq uprooted'
    /\ \A c \in Numbers : held'[c] = q => held[c] = q
    /\ \A c \in Numbers : held[c] = q => held'[c] = q \/ foreign' # {} \/ q \in uprooted'

\* Such a step keeps what is known of q.
LEMMA OthersKeep ==
    ASSUME NEW q \in Procs, Local(q), Same(q), Apart(q)
    PROVE  Local(q)'
<1>1. Opened(q)' \subseteq Opened(q)
    BY DEF Apart, Opened
<1>2. foreign' = {} /\ q \notin uprooted' =>
          foreign = {} /\ q \notin uprooted /\ Opened(q)' = Opened(q)
    BY <1>1 DEF Apart, Opened
<1>3. Via(q)' = Via(q) /\ (Linked(q)' <=> Linked(q))
    BY DEF Same, Via, Linked
<1>4. Remembers(q)'
    BY DEF Local, Remembers, Same
<1>5. Holds(q)'
    BY <1>1, <1>3 DEF Local, Holds, Same
<1>6. Owns(q)'
    BY <1>2, <1>3 DEF Local, Owns, Same
<1>7. Reader(q)'
    BY <1>1, <1>3 DEF Local, Reader, Same
<1> QED BY <1>4, <1>5, <1>6, <1>7 DEF Local

\* What a step of p does at most to the others.
Moves(p) ==
    /\ \A q \in Procs \ {p} : Same(q) /\ Apart(q)
    /\ driver' = driver
    /\ Cause(p) => Cause(p)'
    /\ foreign' # {} => foreign # {} \/ Cause(p)'
    /\ driver[p] = "pcsc" /\ Linked(p)' => Linked(p) \/ ReaderFree

\* So a step of p that keeps what is known of p keeps the invariant.
LEMMA StepKeeps ==
    ASSUME IInv, NEW p \in Procs, TypeOK', Moves(p), Local(p)'
    PROVE  IInv'
<1>1. \A q \in Procs : Local(q)'
    BY OthersKeep DEF IInv, Moves
<1>2. OneReader'
    BY DEF IInv, OneReader, Moves, Same, Linked, ReaderFree
<1>3. \A q \in Procs \ {p} : Cause(q) => Cause(q)'
    BY DEF Moves, Cause, Same, Apart
<1>4. Caused'
    BY <1>3 DEF IInv, Caused, Moves
<1> QED BY <1>1, <1>2, <1>4 DEF IInv

-----------------------------------------------------------------------------
(* What the card does for a process.                                       *)

\* The card as it may be after a step of p.
Served(p) ==
    /\ held' \in [Numbers -> Procs \cup {NoOne}]
    /\ foreign' \subseteq Procs /\ uprooted' \subseteq Procs
    /\ foreign \subseteq foreign' /\ uprooted \subseteq uprooted'
    /\ \A q \in Procs \ {p} : Apart(q)

\* The card is left alone.
LEMMA Keeping ==
    ASSUME TypeOK, NEW p \in Procs, CardKeeps, uprooted' = uprooted
    PROVE  Served(p) /\ Opened(p)' = Opened(p) /\ foreign' = foreign
    BY DEF TypeOK, CardKeeps, Served, Apart, Opened

\* The card closes channel c for p.
LEMMA Closing ==
    ASSUME TypeOK, NEW p \in Procs, NEW c, CardCloses(p, c), uprooted' = uprooted
    PROVE  /\ Served(p) /\ Opened(p)' = Opened(p) \ {c}
           /\ foreign' # {} => foreign # {} \/ (c \in Numbers /\ c \notin Opened(p))
<1>1. held' \in [Numbers -> Procs \cup {NoOne}] /\ foreign' \subseteq Procs
    BY DEF TypeOK, CardCloses
<1>2. \A q \in Procs \ {p} : Apart(q)
    BY ChannelsAssumption DEF TypeOK, CardCloses, Apart
<1>3. Opened(p)' = Opened(p) \ {c}
    BY ChannelsAssumption DEF TypeOK, CardCloses, Opened
<1>4. foreign \subseteq foreign'
    BY DEF CardCloses
<1>5. foreign' # {} => foreign # {} \/ (c \in Numbers /\ c \notin Opened(p))
    BY DEF CardCloses, Opened
<1> QED BY <1>1, <1>2, <1>3, <1>4, <1>5 DEF Served, TypeOK

\* The card opens a free channel for p.
LEMMA Opening ==
    ASSUME TypeOK, NEW p \in Procs, NEW c \in Opened(NoOne), held' = [held EXCEPT ![c] = p],
           UNCHANGED <<foreign, uprooted>>
    PROVE  Served(p) /\ Opened(p)' = Opened(p) \cup {c} /\ c \in Numbers
    BY ChannelsAssumption DEF TypeOK, Served, Apart, Opened

\* The card loses its power while p is linked to it.
LEMMA Unpowering ==
    ASSUME TypeOK, NEW p \in Procs, Unpower(p), uprooted' = uprooted
    PROVE  /\ Served(p) /\ Opened(p)' = {}
           /\ foreign' # {} => foreign # {} \/ \E q \in Procs \ {p} : Opened(q) # {}
<1>1. \A q \in Procs \ {p} : Apart(q)
    BY ChannelsAssumption, Zenon DEF TypeOK, Unpower, Apart
<1>2. Opened(p)' = {}
    BY ChannelsAssumption DEF Unpower, Opened
<1>3. foreign' # {} => foreign # {} \/ \E q \in Procs \ {p} : Opened(q) # {}
    BY DEF TypeOK, Unpower, Opened
<1> QED BY <1>1, <1>2, <1>3 DEF Served, TypeOK, Unpower

\* A failing exchange keeps the count of faults within its bound.
LEMMA Counting ==
    ASSUME TypeOK, Fault \/ faults' = faults
    PROVE  faults' \in 0 .. MaxFaults
    BY ChannelsAssumption DEF TypeOK, Fault

\* A request of p to close c, answered or not.
Asked(p, c, done) ==
    /\ Served(p) /\ faults' \in 0 .. MaxFaults
    /\ unsure' = IF done THEN unsure ELSE unsure \cup {p}
    /\ Opened(p)' \in {Opened(p), Opened(p) \ {c}}
    /\ done => Opened(p)' = Opened(p) \ {c}
    /\ foreign' # {} => foreign # {} \/ (c \in Numbers /\ c \notin Opened(p))

\* Whether or not the answer to a close request arrives, it is such a request.
LEMMA Asking ==
    ASSUME TypeOK, NEW p \in Procs, NEW c, NEW done \in BOOLEAN, CloseRequest(p, c, done),
           uprooted' = uprooted
    PROVE  Asked(p, c, done)
<1>1. faults' \in 0 .. MaxFaults
    BY Counting DEF CloseRequest
<1>2. unsure' = IF done THEN unsure ELSE unsure \cup {p}
    BY DEF CloseRequest
<1>3. CASE CardCloses(p, c)
    BY <1>1, <1>2, <1>3, Closing DEF Asked
<1>4. CASE ~done /\ CardKeeps
    BY <1>1, <1>2, <1>4, Keeping DEF Asked
<1> QED BY <1>3, <1>4 DEF CloseRequest

-----------------------------------------------------------------------------
(* The steps, one lemma for each.                                          *)

\* p's step changes p's own state only, and forgets nothing that happened.
Frame(p) ==
    /\ driver' = driver /\ pc' \in [Procs -> Labels]
    /\ chan' \in [Procs -> Numbers \cup {0}] /\ got' \in [Procs -> Numbers \cup {0}]
    /\ last' \in [Procs -> Numbers \cup {0, Unknown}]
    /\ client' \in [Procs -> {"garbage", "null", "live"}]
    /\ recorded' \subseteq Procs /\ unsure' \subseteq Procs /\ unselected' \subseteq Procs
    /\ late' \subseteq Procs
    /\ unsure \subseteq unsure' /\ late \subseteq late'
    /\ \A q \in Procs \ {p} : Same(q)

\* The parts of a step give the invariant after it.
LEMMA Whole ==
    ASSUME IInv, NEW p \in Procs, Frame(p), Served(p), faults' \in 0 .. MaxFaults, Local(p)',
           foreign' # {} => foreign # {} \/ Cause(p)',
           pc[p] = "fini" => pc'[p] \in {"fini", "done", "dead"} \/ driver[p] # "mbim",
           pc[p] = "fini" => (p \in recorded' <=> p \in recorded),
           Alive(p),
           driver[p] = "pcsc" /\ client'[p] = "live" => client[p] = "live" \/ ReaderFree
    PROVE  IInv'
<1>1. TypeOK'
    BY DEF IInv, TypeOK, Frame, Served
<1>2. Cause(p) => Cause(p)'
    BY DEF Cause, Frame, Served, Alive
<1>3. Moves(p)
    BY <1>2 DEF Moves, Frame, Served, Linked
<1> QED BY <1>1, <1>3, StepKeeps

\* main_init_euicc goes on to connect, or gives up before it.
LEMMA SetupKeeps ==
    ASSUME IInv, NEW p \in Procs, Setup(p)
    PROVE  IInv'
<1> USE DEF IInv
<1>1. Frame(p)
    BY DEF TypeOK, Setup, Goto, At, Frame, Same, Labels, history
<1>2. Served(p) /\ Opened(p)' = Opened(p) /\ foreign' = foreign
    BY Keeping DEF Setup, CardKeeps, history
<1>3. pc[p] = "setup" /\ pc'[p] \in {"connect", "fini"}
    BY DEF TypeOK, Setup, At, Goto
<1>4. UNCHANGED <<driver, chan, got, last, client, faults, recorded, unsure>>
    BY DEF Setup, history
<1>5. Remembers(p)'
    BY <1>3, <1>4 DEF Local, Remembers, Early, Open, InitialIds, QmiId, GbinderId, TypeOK, Unknown
<1>6. Holds(p)'
    BY <1>2, <1>3 DEF Local, Holds
<1>7. Owns(p)'
    BY <1>2, <1>3 DEF Local, Owns
<1>8. Reader(p)'
    BY <1>2, <1>3, <1>4 DEF Local, Reader, Linked, Open
<1> QED BY <1>1, <1>2, <1>3, <1>4, <1>5, <1>6, <1>7, <1>8, Whole DEF Local, TypeOK, Alive

\* connect succeeded; for pcsc, on a reader nobody else has.
LEMMA ConnectedKeeps ==
    ASSUME IInv, NEW p \in Procs, NEW d, Connected(p, d), d = "pcsc" => ReaderFree
    PROVE  IInv'
<1> USE DEF IInv
<1>1. Frame(p)
    BY DEF TypeOK, Connected, Goto, At, Frame, Same, Labels, history
<1>2. Served(p) /\ Opened(p)' = Opened(p) /\ foreign' = foreign
    BY Keeping DEF Connected, CardKeeps, history
<1>3. pc[p] = "connect" /\ pc'[p] = "open" /\ client'[p] = "live" /\ driver[p] = d
    BY DEF TypeOK, Connected, At, Goto
<1>4. UNCHANGED <<driver, chan, got, last, faults, recorded, unsure>>
    BY DEF Connected, history
<1>5. Remembers(p)'
    BY <1>3, <1>4 DEF Local, Remembers, Early, Open
<1>6. Holds(p)'
    BY <1>2, <1>3 DEF Local, Holds
<1>7. Owns(p)'
    BY <1>2, <1>3 DEF Local, Owns
<1>8. Reader(p)'
    BY <1>2, <1>3, <1>4 DEF Local, Reader, Linked, Open
<1> QED BY <1>1, <1>2, <1>3, <1>4, <1>5, <1>6, <1>7, <1>8, Whole DEF Local, TypeOK, Alive

\* connect failed, and no disconnect will follow.
LEMMA NotConnectedKeeps ==
    ASSUME IInv, NEW p \in Procs, NEW d, NEW handle \in {"garbage", "null", "live"},
           NotConnected(p, d, handle), d = "pcsc" => handle = client[p],
           Fault \/ faults' = faults
    PROVE  IInv'
<1> USE DEF IInv
<1>1. Frame(p)
    BY DEF TypeOK, NotConnected, Goto, At, Frame, Same, Labels, history
<1>2. Served(p) /\ Opened(p)' = Opened(p) /\ foreign' = foreign
    BY Keeping DEF NotConnected, CardKeeps, history
<1>3. pc[p] = "connect" /\ pc'[p] = "fini" /\ client'[p] = handle /\ driver[p] = d
    BY DEF TypeOK, NotConnected, At, Goto
<1>4. UNCHANGED <<driver, chan, got, last, recorded, unsure>>
    BY DEF NotConnected, history
<1>5. Remembers(p)'
    BY <1>3, <1>4 DEF Local, Remembers, Early, Open, InitialIds, QmiId, GbinderId, TypeOK, Unknown
<1>6. Holds(p)'
    BY <1>2, <1>3 DEF Local, Holds
<1>7. Owns(p)'
    BY <1>2, <1>3 DEF Local, Owns
<1>8. Reader(p)'
    BY <1>2, <1>3, <1>4 DEF Local, Reader, Linked, Open
<1>9. faults' \in 0 .. MaxFaults
    BY Counting
<1> QED BY <1>1, <1>2, <1>3, <1>4, <1>5, <1>6, <1>7, <1>8, <1>9, Whole DEF Local, Alive

\* Every driver connects in one of the two ways.
LEMMA ConnectsKeep ==
    ASSUME IInv, NEW p \in Procs, Connects(p)
    PROVE  IInv'
<1>1. client[p] \in {"garbage", "null", "live"}
    BY DEF IInv, TypeOK
<1>2. CASE ConnectPcsc(p)
    BY <1>1, <1>2, ConnectedKeeps, NotConnectedKeeps DEF ConnectPcsc
<1>3. CASE ConnectAt(p) \/ ConnectAtCsim(p) \/ ConnectUqmi(p) \/ ConnectStdio(p) \/ ConnectGbinder(p)
    BY <1>3, ConnectedKeeps, NotConnectedKeeps
    DEF ConnectAt, ConnectAtCsim, ConnectUqmi, ConnectStdio, ConnectGbinder
<1>4. CASE ConnectQmi(p) \/ ConnectMbim(p)
    BY <1>4, ConnectedKeeps, NotConnectedKeeps DEF ConnectQmi, ConnectMbim
<1>5. CASE ConnectQrtr(p)
    BY <1>1, <1>5, ConnectedKeeps, NotConnectedKeeps, Zenon DEF ConnectQrtr
<1> QED BY <1>2, <1>3, <1>4, <1>5 DEF Connects

\* The channel that the card opened is the one that the process holds.
LEMMA GrantedKeeps ==
    ASSUME IInv, NEW p \in Procs, NEW next \in {"select", "record"}, Granted(p, next)
    PROVE  IInv'
<1> USE DEF IInv
<1>1. PICK c \in Opened(NoOne) : held' = [held EXCEPT ![c] = p] /\ got' = [got EXCEPT ![p] = c]
    BY Zenon DEF Granted
<1>2. Served(p) /\ Opened(p)' = Opened(p) \cup {c} /\ c \in Numbers /\ foreign' = foreign
    BY <1>1, Opening, Zenon DEF Granted, history
<1>3. Frame(p)
    BY <1>1, <1>2 DEF TypeOK, Granted, Goto, At, Frame, Same, Labels, history
<1>4. pc[p] = "open" /\ pc'[p] = next /\ got'[p] = c
    BY <1>1 DEF TypeOK, Granted, At, Goto
<1>5. UNCHANGED <<driver, chan, last, client, faults, recorded, unsure>>
    BY DEF Granted, history
<1>6. Remembers(p)'
    BY <1>4, <1>5 DEF Local, Remembers, Early, Open
<1>7. Holds(p)'
    BY <1>2, <1>4 DEF Local, Holds
<1>8. Owns(p)'
    BY <1>2, <1>4, Zenon DEF Local, Owns
<1>9. Reader(p)'
    BY <1>2, <1>4, <1>5, Zenon DEF Local, Reader, Linked, Open
<1> QED BY <1>2, <1>3, <1>4, <1>5, <1>6, <1>7, <1>8, <1>9, Whole DEF Local, TypeOK, Alive

\* A refused open leaves nothing on the card; mbim alone goes on with it.
LEMMA RefusedKeeps ==
    ASSUME IInv, NEW p \in Procs, NEW next \in {"record", "disconnect"}, Refused(p, next),
           next = "record" => driver[p] = "mbim"
    PROVE  IInv'
<1> USE DEF IInv
<1>1. Frame(p)
    BY DEF TypeOK, Refused, Goto, At, Frame, Same, Labels, history
<1>2. Served(p) /\ Opened(p)' = Opened(p) /\ foreign' = foreign
    BY Keeping DEF Refused, CardKeeps, history
<1>3. pc[p] = "open" /\ pc'[p] = next /\ got'[p] = 0
    BY DEF TypeOK, Refused, At, Goto
<1>4. UNCHANGED <<driver, chan, last, client, recorded, unsure>>
    BY DEF Refused, history
<1>5. Remembers(p)'
    BY <1>3, <1>4 DEF Local, Remembers, Early, Open, InitialIds, QmiId, GbinderId, TypeOK, Unknown
<1>6. Holds(p)'
    BY <1>2, <1>3, Zenon DEF Local, Holds
<1>7. Owns(p)'
    BY <1>2, <1>3, <1>4, Zenon DEF Local, Owns
<1>8. Reader(p)'
    BY <1>2, <1>3, <1>4 DEF Local, Reader, Linked, Open
<1>9. faults' \in 0 .. MaxFaults
    BY Counting, Zenon DEF Refused
<1> QED BY <1>1, <1>2, <1>3, <1>4, <1>5, <1>6, <1>7, <1>8, <1>9, Whole DEF Local, Alive

\* An open whose answer is lost leaves a channel that nobody knows of.
LEMMA LostKeeps ==
    ASSUME IInv, NEW p \in Procs, Lost(p)
    PROVE  IInv'
<1> USE DEF IInv
<1>1. PICK c \in Opened(NoOne) : held' = [held EXCEPT ![c] = p]
    BY Zenon DEF Lost
<1>2. Served(p) /\ Opened(p)' = Opened(p) \cup {c} /\ c \in Numbers /\ foreign' = foreign
    BY <1>1, Opening, Zenon DEF Lost
<1>3. Frame(p)
    BY DEF TypeOK, Lost, Goto, At, Frame, Same, Labels
<1>4. pc[p] = "open" /\ pc'[p] = "disconnect" /\ p \in unsure'
    BY <1>1 DEF TypeOK, Lost, At, Goto
<1>5. UNCHANGED <<driver, chan, got, last, client, recorded>>
    BY DEF Lost
<1>6. Remembers(p)'
    BY <1>4, <1>5 DEF Local, Remembers, Early, Open, InitialIds, GbinderId
<1>7. Holds(p)'
    BY <1>2, <1>4 DEF Local, Holds
<1>8. Owns(p)'
    BY <1>2, <1>4, Zenon DEF Local, Owns
<1>9. Reader(p)'
    BY <1>2, <1>4, <1>5 DEF Local, Reader, Linked, Open
<1>10. faults' \in 0 .. MaxFaults
    BY Counting, Zenon DEF Lost
<1> QED BY <1>2, <1>3, <1>4, <1>5, <1>6, <1>7, <1>8, <1>9, <1>10, Whole, Zenon DEF Local, Alive

\* A successful SELECT changes nothing that is known of the channel.
LEMMA SelectedKeeps ==
    ASSUME IInv, NEW p \in Procs, Selected(p)
    PROVE  IInv'
<1> USE DEF IInv
<1>1. Frame(p)
    BY DEF TypeOK, Selected, Goto, At, Frame, Same, Labels, history
<1>2. Served(p) /\ Opened(p)' = Opened(p) /\ foreign' = foreign
    BY Keeping DEF Selected, CardKeeps, history
<1>3. pc[p] = "select" /\ pc'[p] = "record"
    BY DEF TypeOK, Selected, At, Goto
<1>4. UNCHANGED <<driver, chan, got, last, client, faults, recorded, unsure, uprooted>>
    BY DEF Selected, history
<1>5. Remembers(p)'
    BY <1>3, <1>4, Zenon DEF Local, Remembers, Early, Open
<1>6. Holds(p)'
    BY <1>2, <1>3, <1>4, Zenon DEF Local, Holds
<1>7. Owns(p)'
    BY <1>2, <1>3, <1>4 DEF Local, Owns
<1>8. Reader(p)'
    BY <1>2, <1>3, <1>4, Zenon DEF Local, Reader, Linked, Open
<1> QED BY <1>1, <1>2, <1>3, <1>4, <1>5, <1>6, <1>7, <1>8, Whole DEF Local, TypeOK, Alive

\* pcsc closes the channel that it could not select the ISD-R on.
LEMMA SelectPcscKeeps ==
    ASSUME IInv, NEW p \in Procs, driver[p] = "pcsc", NotSelected(p),
           NEW done \in BOOLEAN, CloseRequest(p, got[p], done)
    PROVE  IInv'
<1> USE DEF IInv
<1>1. Asked(p, got[p], done)
    BY Asking DEF NotSelected
<1>2. Served(p) /\ faults' \in 0 .. MaxFaults /\ Opened(p)' \subseteq Opened(p)
    BY <1>1 DEF Asked
<1>3. unsure' = IF done THEN unsure ELSE unsure \cup {p}
    BY <1>1 DEF Asked
<1>4. Frame(p)
    BY <1>3 DEF TypeOK, NotSelected, Goto, At, Frame, Same, Labels
<1>5. pc[p] = "select" /\ pc'[p] = "disconnect"
    BY Zenon DEF TypeOK, NotSelected, At, Goto
<1>6. UNCHANGED <<driver, chan, got, last, client, recorded, uprooted>>
    BY Zenon DEF NotSelected
<1>7. Remembers(p)'
    BY <1>5, <1>6, Zenon DEF Local, Remembers, Early, Open, Qmis
<1>8. p \notin unsure' => Opened(p)' = {}
    BY <1>1, <1>3, <1>5, Zenon DEF Local, Holds, Asked
<1>9. Holds(p)'
    BY <1>5, <1>8 DEF Holds
<1>10. Owns(p)'
    BY <1>5, Zenon DEF Owns
<1>11. Reader(p)'
    BY <1>2, <1>5, <1>6, Zenon DEF Local, Reader, Linked, Open
<1>12. foreign' # {} => foreign # {} \/ p \in uprooted'
    BY <1>1, <1>5, <1>6, Zenon DEF Asked, Local, Owns
<1> QED BY <1>2, <1>4, <1>5, <1>6, <1>7, <1>9, <1>10, <1>11, <1>12, Whole, Zenon DEF Local, Alive, Cause

\* at_csim does not.
LEMMA SelectAtCsimKeeps ==
    ASSUME IInv, NEW p \in Procs, driver[p] = "at_csim", NotSelected(p), CardKeeps,
           UNCHANGED <<faults, unsure>>
    PROVE  IInv'
<1> USE DEF IInv
<1>1. Frame(p)
    BY DEF TypeOK, NotSelected, Goto, At, Frame, Same, Labels
<1>2. Served(p) /\ Opened(p)' = Opened(p) /\ foreign' = foreign
    BY Keeping DEF NotSelected, CardKeeps
<1>3. pc[p] = "select" /\ pc'[p] = "disconnect" /\ p \in unselected'
    BY DEF TypeOK, NotSelected, At, Goto
<1>4. UNCHANGED <<driver, chan, got, last, client, recorded, uprooted>>
    BY Zenon DEF NotSelected
<1>5. Remembers(p)'
    BY <1>3, <1>4, Zenon DEF Local, Remembers, Early, Open, Qmis
<1>6. Holds(p)'
    BY <1>2, <1>3, <1>4, Zenon DEF Local, Holds
<1>7. Owns(p)'
    BY <1>3 DEF Owns
<1>8. Reader(p)'
    BY <1>4 DEF Reader
<1> QED BY <1>1, <1>2, <1>3, <1>4, <1>5, <1>6, <1>7, <1>8, Whole, Zenon DEF Local, TypeOK, Alive

\* Every driver opens its channel in these ways.
LEMMA OpensKeep ==
    ASSUME IInv, NEW p \in Procs, Opens(p)
    PROVE  IInv'
<1>1. ASSUME NEW next \in {"select", "record"}, OpenOrFail(p, next)
      PROVE  IInv'
    BY <1>1, GrantedKeeps, RefusedKeeps, LostKeeps DEF OpenOrFail
<1>2. CASE OpenMbim(p)
    BY <1>2, GrantedKeeps, RefusedKeeps, LostKeeps DEF OpenMbim
<1>3. CASE SelectPcsc(p)
    BY <1>3, SelectedKeeps, SelectPcscKeeps DEF SelectPcsc
<1>4. CASE SelectAtCsim(p)
    BY <1>4, SelectedKeeps, SelectAtCsimKeeps, Zenon DEF SelectAtCsim
<1> QED BY <1>1, <1>2, <1>3, <1>4
        DEF Opens, OpenPcsc, OpenAt, OpenAtCsim, OpenQmi, OpenUqmi, OpenGbinder, OpenStdio

\* The context and the driver record the channel of the card, at under an index.
LEMMA RecordKeeps ==
    ASSUME IInv, NEW p \in Procs, Record(p)
    PROVE  IInv'
<1> USE DEF IInv
<1>1. pc[p] = "record" /\ pc'[p] = "work"
    BY Zenon DEF TypeOK, Record, RecordWith, At, Goto
<1>2. UNCHANGED <<driver, got, client, faults, unsure, uprooted>> /\ p \in recorded'
    BY Zenon DEF Record, RecordWith
<1>3. /\ got[p] \in Numbers \cup {0}
      /\ (IF driver[p] = "at" THEN ChannelNextId ELSE got[p]) \in Numbers \cup {0}
    BY ChannelsAssumption DEF TypeOK, ChannelNextId, Numbers
<1>4. Frame(p)
    BY <1>3, Zenon DEF TypeOK, Record, RecordWith, Goto, Frame, Same, Labels
<1>5. Served(p) /\ Opened(p)' = Opened(p) /\ foreign' = foreign
    BY Keeping, Zenon DEF Record, RecordWith, CardKeeps
<1>6. driver[p] # "at" => chan'[p] = got[p]
    BY DEF TypeOK, Record, RecordWith
<1>7. driver[p] \in Remembering => last'[p] = got[p]
    BY DEF TypeOK, Record, RecordWith
<1>8. Via(p)' = got[p]
    BY <1>2, <1>6, <1>7, Zenon DEF Via, Remembering
<1>9. Remembers(p)'
    BY <1>1, <1>2, <1>6, <1>7, Zenon DEF Remembers, Early, Open
<1>10. Holds(p)'
    BY <1>1, <1>5, <1>8, Zenon DEF Local, Holds
<1>11. Owns(p)'
    BY <1>1, <1>2, <1>5, <1>8, Zenon DEF Local, Owns
<1>12. Reader(p)'
    BY <1>1, <1>2, <1>5, Zenon DEF Local, Reader, Linked, Open
<1> QED BY <1>1, <1>2, <1>4, <1>5, <1>9, <1>10, <1>11, <1>12, Whole, Zenon DEF Local, TypeOK, Alive

\* The applet returns, with its channel still open.
LEMMA WorkKeeps ==
    ASSUME IInv, NEW p \in Procs, Work(p)
    PROVE  IInv'
<1> USE DEF IInv
<1>1. Frame(p)
    BY DEF TypeOK, Work, Goto, At, Frame, Same, Labels, history
<1>2. Served(p) /\ Opened(p)' = Opened(p) /\ foreign' = foreign
    BY Keeping DEF Work, CardKeeps, history
<1>3. pc[p] = "work" /\ pc'[p] = "close"
    BY Zenon DEF TypeOK, Work, At, Goto
<1>4. UNCHANGED <<driver, chan, got, last, client, faults, recorded, unsure, uprooted>> /\ Via(p)' = Via(p)
    BY Zenon DEF Work, history, Via
<1>5. Remembers(p)'
    BY <1>3, <1>4, Zenon DEF Local, Remembers, Early, Open
<1>6. Holds(p)'
    BY <1>2, <1>3, <1>4, Zenon DEF Local, Holds
<1>7. Owns(p)'
    BY <1>2, <1>3, <1>4, Zenon DEF Local, Owns
<1>8. Reader(p)'
    BY <1>2, <1>3, <1>4, Zenon DEF Local, Reader, Linked, Open
<1> QED BY <1>1, <1>2, <1>3, <1>4, <1>5, <1>6, <1>7, <1>8, Whole, Zenon DEF Local, TypeOK, Alive

\* A REFRESH closes the channels of everyone, and marks whoever had one.
LEMMA WorkRefreshKeeps ==
    ASSUME IInv, NEW p \in Procs, WorkRefresh(p)
    PROVE  IInv'
<1> USE DEF IInv
<1>1. Frame(p)
    BY DEF TypeOK, WorkRefresh, Goto, At, Frame, Same, Labels
<1>2. Opened(p)' = {} /\ foreign' = foreign
    BY ChannelsAssumption DEF WorkRefresh, Opened
<1>3. \A q \in Procs : Apart(q)
    BY ChannelsAssumption DEF WorkRefresh, Apart, Opened
<1>4. Served(p)
    BY <1>3 DEF WorkRefresh, Served, TypeOK
<1>5. pc[p] = "work" /\ pc'[p] = "close" /\ driver[p] # "pcsc"
    BY DEF TypeOK, WorkRefresh, At, Goto
<1>6. UNCHANGED <<driver, chan, got, last, client, faults, recorded, unsure>> /\ Via(p)' = Via(p)
    BY Zenon DEF WorkRefresh, Via
<1>7. Remembers(p)'
    BY <1>5, <1>6 DEF Local, Remembers, Early, Open
<1>8. Holds(p)'
    BY <1>2, <1>5 DEF Holds
<1>9. uprooted \subseteq uprooted' /\ (Opened(p) # {} => p \in uprooted')
    BY Zenon DEF WorkRefresh
<1>10. Owns(p)'
    BY <1>2, <1>5, <1>6, <1>9, Zenon DEF Local, Owns
<1>11. Reader(p)'
    BY <1>5, <1>6, Zenon DEF Reader
<1> QED BY <1>1, <1>2, <1>4, <1>5, <1>6, <1>7, <1>8, <1>10, <1>11, Whole, Zenon DEF Local, TypeOK, Alive

\* Closing the channel that the process works on closes its own.
LEMMA CloseKeeps ==
    ASSUME IInv, NEW p \in Procs, CloseWith(p, Via(p))
    PROVE  IInv'
<1> USE DEF IInv
<1>1. PICK done \in BOOLEAN : /\ CloseRequest(p, Via(p), done)
                              /\ Goto(p, IF done THEN "closed" ELSE "unclosed")
    BY DEF CloseWith
<1>2. Asked(p, Via(p), done)
    BY <1>1, Asking DEF CloseWith
<1>3. Served(p) /\ faults' \in 0 .. MaxFaults /\ Opened(p)' \subseteq Opened(p)
    BY <1>2 DEF Asked
<1>4. unsure' = IF done THEN unsure ELSE unsure \cup {p}
    BY <1>2, Zenon DEF Asked
<1>5. Frame(p)
    BY <1>1, <1>4 DEF TypeOK, CloseWith, Goto, Frame, Same, Labels
<1>6. pc[p] = "close" /\ pc'[p] = IF done THEN "closed" ELSE "unclosed"
    BY <1>1 DEF TypeOK, CloseWith, At, Goto
<1>7. UNCHANGED <<driver, chan, got, last, client, recorded, uprooted>>
    BY Zenon DEF CloseWith
<1>8. Remembers(p)'
    BY <1>4, <1>6, <1>7, Zenon DEF Local, Remembers, Early, Open
<1>9. pc'[p] = "closed" => Opened(p)' = {}
    BY <1>2, <1>6 DEF Local, Holds, Asked
<1>10. Holds(p)'
    BY <1>6, <1>9 DEF Holds
<1>11. Owns(p)'
    BY <1>6, Zenon DEF Owns
<1>12. Reader(p)'
    BY <1>3, <1>6, <1>7, Zenon DEF Local, Reader, Linked, Open
<1>13. foreign = {} /\ p \notin uprooted => Via(p) \in Opened(p) \/ Via(p) = 0
    BY <1>6 DEF Local, Owns
<1>14. 0 \notin Numbers
    BY DEF Numbers
<1>15. foreign' # {} => foreign # {} \/ p \in uprooted'
    BY <1>2, <1>7, <1>13, <1>14 DEF Asked
<1> QED BY <1>3, <1>5, <1>6, <1>7, <1>8, <1>10, <1>11, <1>12, <1>15, Whole, Zenon DEF Local, Alive, Cause

\* A close that mbim takes for done leaves the card as it was, and the process unsure.
LEMMA CloseUnreadKeeps ==
    ASSUME IInv, NEW p \in Procs, CloseUnread(p)
    PROVE  IInv'
<1> USE DEF IInv
<1>1. pc[p] = "close" /\ pc'[p] = "closed"
    BY DEF TypeOK, CloseUnread, At, Goto
<1>2. Frame(p)
    BY DEF TypeOK, CloseUnread, Goto, Frame, Same, Labels
<1>3. Served(p) /\ Opened(p)' = Opened(p) /\ foreign' = foreign
    BY Keeping DEF CloseUnread
<1>4. UNCHANGED <<driver, chan, got, last, client, recorded, uprooted>> /\ unsure' = unsure \cup {p}
    BY Zenon DEF CloseUnread
<1>5. faults' \in 0 .. MaxFaults
    BY Counting, Zenon DEF CloseUnread
<1>6. Remembers(p)'
    BY <1>1, <1>4, Zenon DEF Local, Remembers, Early, Open
<1>7. Holds(p)'
    BY <1>1, <1>4 DEF Holds
<1>8. Owns(p)'
    BY <1>1, Zenon DEF Owns
<1>9. Reader(p)'
    BY <1>1, <1>3, <1>4, Zenon DEF Local, Reader, Linked, Open
<1> QED BY <1>1, <1>2, <1>3, <1>4, <1>5, <1>6, <1>7, <1>8, <1>9, Whole, Zenon DEF Local, Alive

\* Every driver closes the channel it works on.
LEMMA ClosesKeep ==
    ASSUME IInv, NEW p \in Procs, Closes(p)
    PROVE  IInv'
<1>1. pc[p] = "close"
    BY Zenon DEF Closes, ClosePcsc, CloseAt, CloseAtCsim, CloseQmi, CloseMbim, CloseUqmi,
           CloseGbinder, CloseStdio, CloseWith, CloseUnread, At
<1>2. driver[p] \in Remembering \ {"at"} => chan[p] = last[p]
    BY <1>1 DEF IInv, Local, Remembers, Open
<1>3. CASE CloseAt(p)
    BY <1>3, CloseKeeps DEF CloseAt, Via, Remembering
<1>4. CASE CloseUnread(p)
    BY <1>4, CloseUnreadKeeps
<1>5. CASE ~CloseAt(p) /\ ~CloseUnread(p)
  <2>1. driver[p] # "at" /\ CloseWith(p, chan[p])
    BY <1>5 DEF Closes, ClosePcsc, CloseAtCsim, CloseQmi, CloseMbim, CloseUqmi,
                CloseGbinder, CloseStdio, Qmis
  <2>2. Via(p) = chan[p]
    BY <1>2, <2>1, Zenon DEF Via
  <2> QED BY <2>1, <2>2, CloseKeeps
<1> QED BY <1>3, <1>4, <1>5, Zenon

\* After a confirmed close no driver remembers a channel that it would close again.
LEMMA ForgetKeeps ==
    ASSUME IInv, NEW p \in Procs, Forget(p)
    PROVE  IInv'
<1> USE DEF IInv
<1>1. pc[p] \in {"closed", "unclosed"} /\ pc'[p] = "disconnect"
    BY DEF TypeOK, Forget, At, Goto
<1>2. last'[p] = Remains(p, At(p, "closed"))
    BY DEF TypeOK, Forget
<1>3. Remains(p, At(p, "closed")) \in Numbers \cup {0, Unknown}
    BY Zenon DEF TypeOK, Remains
<1>4. Frame(p)
    BY <1>3 DEF TypeOK, Forget, Goto, Frame, Same, Labels, history
<1>5. Served(p) /\ Opened(p)' = Opened(p) /\ foreign' = foreign
    BY Keeping DEF Forget, CardKeeps, history
<1>6. UNCHANGED <<driver, chan, got, client, faults, recorded, unsure, unselected, uprooted>>
    BY Zenon DEF Forget, history
<1>7. p \in recorded /\ (driver[p] \in Remembering \ {"at"} => chan[p] = last[p])
      /\ (pc[p] = "unclosed" => p \in unsure)
    BY <1>1 DEF Local, Remembers, Open
<1>8. p \notin unsure => (driver[p] \in Qmis \cup {"mbim"} => last'[p] = Unknown)
    BY <1>1, <1>2, <1>7 DEF Remains, At, Remembering, Qmis
<1>9. driver[p] = "gbinder_hidl" => last'[p] = Unknown
    BY <1>2, <1>7, Zenon DEF Remains, Remembering, Qmis
<1>10. Remembers(p)'
    BY <1>1, <1>6, <1>8, <1>9 DEF Remembers, Early, Open, Unknown
<1>11. Holds(p)'
    BY <1>1, <1>5, <1>6, <1>7, Zenon DEF Local, Holds
<1>12. Owns(p)'
    BY <1>1, Zenon DEF Owns
<1>13. Reader(p)'
    BY <1>1, <1>5, <1>6, Zenon DEF Local, Reader, Linked, Open
<1> QED BY <1>1, <1>4, <1>5, <1>6, <1>10, <1>11, <1>12, <1>13, Whole, Zenon DEF Local, TypeOK, Alive

\* What the drivers' disconnect callbacks have in common.
LEMMA DisconnectedKeeps ==
    ASSUME IInv, NEW p \in Procs, Disconnected(p, driver[p]), Served(p), faults' \in 0 .. MaxFaults,
           NEW id \in Numbers \cup {0, Unknown},
           last' = [last EXCEPT ![p] = id], id \in {0, Unknown, last[p]},
           driver[p] = "gbinder_hidl" => id = Unknown,
           unsure' \in {unsure, unsure \cup {p}},
           Opened(p)' \subseteq Opened(p), driver[p] = "pcsc" => Opened(p)' = {},
           foreign' # {} => foreign # {} \/ Cause(p)'
    PROVE  IInv'
<1> USE DEF IInv
<1>1. Frame(p)
    BY Zenon DEF TypeOK, Disconnected, Goto, Frame, Same, Labels
<1>2. /\ pc[p] = "disconnect" /\ pc'[p] = "fini" /\ client'[p] = "null"
      /\ last'[p] = id
    BY DEF TypeOK, Disconnected, At, Goto
<1>3. UNCHANGED <<driver, recorded, unselected>> /\ unsure \subseteq unsure'
    BY DEF Disconnected
<1>4. id > 0 => id = last[p]
    BY DEF Unknown
<1>5. Remembers(p)'
    BY <1>2, <1>3, <1>4, Zenon DEF Local, Remembers, Early, Open
<1>6. Holds(p)'
    BY <1>2, <1>3, Zenon DEF Local, Holds
<1>7. Owns(p)'
    BY <1>2, Zenon DEF Owns
<1>8. Reader(p)'
    BY <1>2, <1>3 DEF Reader, Linked, Open
<1> QED BY <1>1, <1>2, <1>3, <1>5, <1>6, <1>7, <1>8, Whole, Zenon DEF Local, Alive

\* The drivers that only give the link up.
LEMMA OnlyDisconnectedKeeps ==
    ASSUME IInv, NEW p \in Procs, NEW d, d \notin {"pcsc", "gbinder_hidl"}, OnlyDisconnected(p, d)
    PROVE  IInv'
<1>1. Served(p) /\ Opened(p)' = Opened(p) /\ foreign' = foreign
    BY Keeping DEF IInv, OnlyDisconnected, Disconnected
<1>2. last[p] \in Numbers \cup {0, Unknown} /\ last' = [last EXCEPT ![p] = last[p]]
    BY DEF IInv, TypeOK, OnlyDisconnected
<1>3. faults' \in 0 .. MaxFaults /\ unsure' = unsure /\ driver[p] = d /\ Disconnected(p, driver[p])
    BY DEF IInv, TypeOK, OnlyDisconnected, Disconnected
<1> QED BY <1>1, <1>2, <1>3, DisconnectedKeeps, Zenon

\* pcsc, alone on its reader, unpowers nobody else.
LEMMA DisconnectPcscKeeps ==
    ASSUME IInv, NEW p \in Procs, DisconnectPcsc(p)
    PROVE  IInv'
<1>1. /\ Served(p) /\ Opened(p)' = {}
      /\ foreign' # {} => foreign # {} \/ \E q \in Procs \ {p} : Opened(q) # {}
  <2>1. TypeOK /\ Unpower(p) /\ uprooted' = uprooted
    BY DEF IInv, DisconnectPcsc, Disconnected
  <2> QED BY <2>1, Unpowering, Zenon
<1>2. driver[p] = "pcsc" /\ Linked(p)
    BY DEF IInv, DisconnectPcsc, Disconnected, At, Local, Reader
<1>3. \A q \in Procs \ {p} : Opened(q) = {}
    BY <1>2 DEF IInv, OneReader, Local, Reader
<1>4. foreign' # {} => foreign # {}
    BY <1>1, <1>3
<1>5. last[p] \in Numbers \cup {0, Unknown} /\ last' = [last EXCEPT ![p] = last[p]]
    BY DEF IInv, TypeOK, DisconnectPcsc
<1>6. faults' \in 0 .. MaxFaults /\ unsure' = unsure /\ Disconnected(p, driver[p])
    BY DEF IInv, TypeOK, DisconnectPcsc, Disconnected
<1>7. Served(p) /\ Opened(p)' = {} /\ Opened(p)' \subseteq Opened(p)
    BY <1>1
<1> QED BY <1>2, <1>4, <1>5, <1>6, <1>7, DisconnectedKeeps, Zenon

\* mbim closes what it still remembers.
LEMMA DisconnectMbimKeeps ==
    ASSUME IInv, NEW p \in Procs, DisconnectMbim(p)
    PROVE  IInv'
<1>1. driver[p] = "mbim" /\ Disconnected(p, driver[p]) /\ pc[p] = "disconnect" /\ pc'[p] = "fini"
      /\ driver' = driver /\ recorded' = recorded
    BY Zenon DEF IInv, TypeOK, DisconnectMbim, Disconnected, At, Goto
<1>2. CASE last[p] > 0
  <2>1. PICK done \in BOOLEAN : CloseRequest(p, last[p], done)
    BY <1>2 DEF DisconnectMbim, CloseLeaked
  <2>2. Asked(p, last[p], done)
    BY <2>1, Asking DEF IInv, DisconnectMbim, Disconnected
  <2>3. Served(p) /\ faults' \in 0 .. MaxFaults /\ Opened(p)' \subseteq Opened(p)
    BY <2>2 DEF Asked
  <2>4. unsure' \in {unsure, unsure \cup {p}} /\ unsure \subseteq unsure'
    BY <2>2, Zenon DEF Asked
  <2>5. p \in unsure \/ p \notin recorded
    BY <1>1, <1>2, Zenon DEF IInv, Local, Remembers
  <2>6. Cause(p)'
    BY <1>1, <2>4, <2>5 DEF Cause
  <2>7. last' = [last EXCEPT ![p] = Unknown]
    BY <1>2 DEF DisconnectMbim, CloseLeaked
  <2> QED BY <1>1, <2>3, <2>4, <2>6, <2>7, DisconnectedKeeps, Zenon
<1>3. CASE ~(last[p] > 0)
  <2>1. OnlyDisconnected(p, "mbim")
    BY <1>3, Zenon DEF DisconnectMbim, CloseLeaked, OnlyDisconnected
  <2> QED BY <2>1, OnlyDisconnectedKeeps
<1> QED BY <1>2, <1>3

\* gbinder_hidl has forgotten its channel by the time it disconnects.
LEMMA DisconnectGbinderKeeps ==
    ASSUME IInv, NEW p \in Procs, DisconnectGbinder(p)
    PROVE  IInv'
<1>1. driver[p] = "gbinder_hidl" /\ Disconnected(p, driver[p]) /\ pc[p] = "disconnect"
    BY DEF DisconnectGbinder, Disconnected, At
<1>2. last[p] = Unknown
    BY <1>1 DEF IInv, Local, Remembers, Open
<1>3. CardKeeps /\ UNCHANGED <<last, faults, unsure>>
    BY <1>2, Zenon DEF DisconnectGbinder, CloseLeaked
<1>4. Served(p) /\ Opened(p)' = Opened(p) /\ foreign' = foreign
    BY <1>1, <1>3, Keeping DEF IInv, Disconnected
<1>5. Unknown \in Numbers \cup {0, Unknown} /\ last' = [last EXCEPT ![p] = Unknown]
    BY <1>2, <1>3 DEF IInv, TypeOK
<1>6. faults' \in 0 .. MaxFaults
    BY <1>3 DEF IInv, TypeOK
<1> QED BY <1>1, <1>3, <1>4, <1>5, <1>6, DisconnectedKeeps, Zenon

\* at clears the entry of its table.
LEMMA DisconnectAtKeeps ==
    ASSUME IInv, NEW p \in Procs, DisconnectAt(p)
    PROVE  IInv'
<1>1. CASE chan[p] = ChannelNextId
  <2>1. Served(p) /\ Opened(p)' = Opened(p) /\ foreign' = foreign
    BY Keeping DEF IInv, DisconnectAt, Disconnected
  <2>2. faults' \in 0 .. MaxFaults /\ unsure' = unsure /\ driver[p] = "at" /\ Disconnected(p, driver[p])
    BY DEF IInv, TypeOK, DisconnectAt, Disconnected
  <2>3. 0 \in Numbers \cup {0, Unknown} /\ last' = [last EXCEPT ![p] = 0]
    BY <1>1 DEF DisconnectAt
  <2> QED BY <2>1, <2>2, <2>3, DisconnectedKeeps, Zenon
<1>2. CASE chan[p] # ChannelNextId
  <2>1. OnlyDisconnected(p, "at")
    BY <1>2 DEF DisconnectAt, OnlyDisconnected
  <2> QED BY <2>1, OnlyDisconnectedKeeps
<1> QED BY <1>1, <1>2

\* Every driver disconnects in one of these ways.
LEMMA DisconnectsKeep ==
    ASSUME IInv, NEW p \in Procs, Disconnects(p)
    PROVE  IInv'
<1>1. CASE DisconnectAtCsim(p) \/ DisconnectQmi(p) \/ DisconnectUqmi(p) \/ DisconnectStdio(p)
    BY <1>1, OnlyDisconnectedKeeps, Zenon
    DEF DisconnectAtCsim, DisconnectQmi, DisconnectUqmi, DisconnectStdio, Qmis
<1> QED BY <1>1, DisconnectPcscKeeps, DisconnectAtKeeps, DisconnectMbimKeeps,
           DisconnectGbinderKeeps DEF Disconnects

\* Freeing the memory of a driver changes nothing on the card.
LEMMA FiniKeeps ==
    ASSUME IInv, NEW p \in Procs, Fini(p)
    PROVE  IInv'
<1> USE DEF IInv
<1>1. Frame(p)
    BY DEF TypeOK, Fini, Goto, At, Frame, Same, Labels, history
<1>2. Served(p) /\ Opened(p)' = Opened(p) /\ foreign' = foreign
    BY Keeping DEF Fini, CardKeeps, history
<1>3. pc[p] = "fini" /\ pc'[p] = "done"
    BY DEF TypeOK, Fini, At, Goto
<1>4. UNCHANGED <<driver, last, client, faults, recorded, unsure, unselected>>
    BY Zenon DEF Fini, history
<1>5. Remembers(p)'
    BY <1>3, <1>4, Zenon DEF Local, Remembers, Early, Open
<1>6. Holds(p)'
    BY <1>2, <1>3, <1>4, Zenon DEF Local, Holds
<1>7. Owns(p)'
    BY <1>3, Zenon DEF Owns
<1>8. Reader(p)'
    BY <1>2, <1>3, <1>4, Zenon DEF Local, Reader, Linked, Open
<1> QED BY <1>1, <1>2, <1>3, <1>4, <1>5, <1>6, <1>7, <1>8, Whole, Zenon DEF Local, TypeOK, Alive

\* qmi_cleanup crashes or hangs on a channel it remembers, and the process is known to be unsure.
LEMMA FiniQmiKeeps ==
    ASSUME IInv, NEW p \in Procs, FiniQmi(p)
    PROVE  IInv'
<1> USE DEF IInv
<1>1. Frame(p)
    BY Zenon DEF TypeOK, FiniQmi, Goto, At, Frame, Same, Labels, history
<1>2. Served(p) /\ Opened(p)' = Opened(p) /\ foreign' = foreign
    BY Keeping, Zenon DEF FiniQmi, CardKeeps, history
<1>3. /\ pc[p] = "fini" /\ pc'[p] \in {"done", "crashed", "stuck"} /\ driver[p] \in Qmis
      /\ pc'[p] \in {"crashed", "stuck"} => ~(last[p] <= 0)
    BY Zenon DEF TypeOK, FiniQmi, At, Goto
<1>4. UNCHANGED <<driver, client, faults, recorded, unsure, unselected>>
    BY Zenon DEF FiniQmi, history
<1>5. last[p] \in Numbers \cup {0, Unknown}
    BY Zenon DEF TypeOK
<1>6. pc'[p] \in {"crashed", "stuck"} => last[p] > 0
    BY <1>3, <1>5 DEF Numbers, Unknown
<1>7. Remembers(p)'
  <2>1. last[p] > 0 => p \in unsure \/ (p \notin recorded /\ driver[p] = "qmi_qrtr")
    BY <1>3, Zenon DEF Local, Remembers, Qmis
  <2>2. /\ pc'[p] \notin Early /\ pc'[p] \notin Open /\ pc'[p] \notin {"unclosed", "disconnect", "fini"}
        /\ driver'[p] # "gbinder_hidl"
    BY <1>3, <1>4 DEF Early, Open, Qmis
  <2> QED BY <1>3, <1>4, <1>6, <2>1, <2>2, Zenon DEF Remembers
<1>8. Holds(p)'
    BY <1>2, <1>3, <1>4, Zenon DEF Local, Holds
<1>9. Owns(p)'
    BY <1>3, Zenon DEF Owns
<1>10. Reader(p)'
    BY <1>3, <1>4 DEF Reader, Qmis
<1>11. driver[p] # "mbim"
    BY <1>3, Zenon DEF Qmis
<1> QED BY <1>1, <1>2, <1>3, <1>4, <1>7, <1>8, <1>9, <1>10, <1>11, Whole, Zenon DEF Local, TypeOK, Alive

\* A killed process leaves its channel; a killed pcsc client leaves an unpowered card.
LEMMA KillKeeps ==
    ASSUME IInv, NEW p \in Procs, Kill(p)
    PROVE  IInv'
<1> USE DEF IInv
<1>1. Frame(p)
    BY DEF TypeOK, Kill, Goto, At, Frame, Same, Labels
<1>2. Alive(p) /\ pc'[p] = "dead" /\ client'[p] = "null"
    BY DEF TypeOK, Kill, Goto
<1>3. UNCHANGED <<driver, recorded, unsure, uprooted>>
    BY DEF Kill
<1>4. Served(p) /\ (foreign' # {} => foreign # {}) /\ (driver[p] = "pcsc" => Opened(p)' = {})
  <2>1. CASE driver[p] = "pcsc" /\ Linked(p)
    <3>1. /\ Served(p) /\ Opened(p)' = {}
          /\ foreign' # {} => foreign # {} \/ \E q \in Procs \ {p} : Opened(q) # {}
      BY <2>1, Unpowering, Zenon DEF Kill
    <3>2. \A q \in Procs \ {p} : Opened(q) = {}
      BY <2>1 DEF OneReader, Local, Reader
    <3> QED BY <3>1, <3>2
  <2>2. CASE ~(driver[p] = "pcsc" /\ Linked(p))
    <3>1. Served(p) /\ Opened(p)' = Opened(p) /\ foreign' = foreign
      BY <2>2, Keeping, Zenon DEF Kill
    <3>2. driver[p] = "pcsc" => Opened(p) = {}
      BY <2>2, Zenon DEF Local, Reader
    <3> QED BY <3>1, <3>2
  <2> QED BY <2>1, <2>2
<1>5. Remembers(p)'
    BY <1>2, Zenon DEF Remembers, Early, Open
<1>6. Holds(p)' /\ Owns(p)'
    BY <1>2, Zenon DEF Holds, Owns
<1>7. Reader(p)'
    BY <1>2, <1>3, <1>4 DEF Reader, Linked, Open
<1>8. faults' \in 0 .. MaxFaults
    BY Counting, Zenon DEF Kill
<1> QED BY <1>1, <1>2, <1>3, <1>4, <1>5, <1>6, <1>7, <1>8, Whole, Zenon DEF Local

\* The atexit hook of gbinder_hidl closes its own channel, or is late.
LEMMA InterruptKeeps ==
    ASSUME IInv, NEW p \in Procs, Interrupt(p)
    PROVE  IInv'
<1> USE DEF IInv
<1>1. Alive(p) /\ pc'[p] = "dead" /\ driver[p] = "gbinder_hidl"
    BY DEF TypeOK, Interrupt, Goto
<1>2. UNCHANGED <<driver, recorded, uprooted>>
    BY DEF Interrupt
<1>3. /\ Served(p) /\ faults' \in 0 .. MaxFaults /\ unsure' \in {unsure, unsure \cup {p}}
      /\ foreign' # {} => foreign # {} \/ Cause(p)'
  <2>1. CASE last[p] = Unknown
    <3>1. CardKeeps /\ UNCHANGED <<faults, unsure>>
      BY <2>1, Zenon DEF Interrupt
    <3>2. faults' \in 0 .. MaxFaults
      BY <3>1 DEF TypeOK
    <3> QED BY <1>2, <3>1, <3>2, Keeping
  <2>2. CASE last[p] # Unknown
    <3>1. PICK done \in BOOLEAN : CloseRequest(p, last[p], done)
      BY <2>2 DEF Interrupt
    <3>2. Asked(p, last[p], done)
      BY <1>2, <3>1, Asking, Zenon
    <3>3. pc[p] \in Open
      BY <1>1, <2>2, Zenon DEF Local, Remembers, Alive
    <3>4. CASE pc[p] \in {"work", "close"}
      <4>1. foreign = {} /\ p \notin uprooted => last[p] \in Opened(p)
        BY <1>1, <3>4, Zenon DEF Local, Owns, Via, Remembering
      <4> QED BY <1>2, <3>2, <4>1, Zenon DEF Asked, Cause
    <3>5. CASE pc[p] \in {"closed", "unclosed"}
      <4>1. p \in late'
        BY <3>5, Zenon DEF Interrupt, At
      <4> QED BY <1>1, <1>2, <3>2, <4>1, Zenon DEF Asked, Cause
    <3> QED BY <3>3, <3>4, <3>5 DEF Open
  <2> QED BY <2>1, <2>2
<1>4. Frame(p)
    BY <1>3, Zenon DEF TypeOK, Interrupt, Goto, Frame, Same, Labels
<1>5. Remembers(p)'
    BY <1>1, <1>2, Zenon DEF Remembers, Early, Open
<1>6. Holds(p)' /\ Owns(p)'
    BY <1>1, Zenon DEF Holds, Owns
<1>7. Reader(p)'
    BY <1>1, <1>2 DEF Reader
<1> QED BY <1>1, <1>2, <1>3, <1>4, <1>5, <1>6, <1>7, Whole, Zenon DEF Local

-----------------------------------------------------------------------------
(* The theorems.                                                           *)

\* Before any process has run, nothing is open.
LEMMA InitKeeps ==
    ASSUME Init
    PROVE  IInv
<1>1. TypeOK
    BY ChannelsAssumption DEF Init, TypeOK, InitialClient, Labels, Drivers
<1>2. \A p \in Procs : Opened(p) = {}
    BY ChannelsAssumption DEF Init, Opened
<1>3. OneReader
    BY DEF Init, OneReader, Linked, InitialClient
<1>4. ASSUME NEW p \in Procs
      PROVE  Local(p)
  <2>1. pc[p] = "setup" /\ last[p] \in InitialIds(driver[p]) /\ client[p] # "live" /\ recorded = {}
    BY DEF Init, InitialClient
  <2>2. Remembers(p)
    BY <2>1, Zenon DEF Remembers, Early, Open, InitialIds, GbinderId
  <2>3. Holds(p) /\ Owns(p) /\ Reader(p)
    BY <1>2, <2>1 DEF Holds, Owns, Reader, Linked, Open
  <2> QED BY <2>2, <2>3 DEF Local
<1>5. Caused
    BY DEF Init, Caused
<1> QED BY <1>1, <1>3, <1>4, <1>5, Zenon DEF IInv

\* No step of any process breaks the invariant.
LEMMA NextKeeps ==
    ASSUME IInv, [Next]_vars
    PROVE  IInv'
<1>1. CASE Next
    BY <1>1, SetupKeeps, ConnectsKeep, OpensKeep, RecordKeeps, WorkKeeps, WorkRefreshKeeps,
       ClosesKeep, ForgetKeeps, DisconnectsKeep, FiniKeeps, FiniQmiKeeps, KillKeeps,
       InterruptKeeps, Zenon DEF Next
<1>2. CASE UNCHANGED vars
    <2> USE <1>2 DEF vars
    <2>1. TypeOK'
        BY Zenon DEF IInv, TypeOK
    <2>2. OneReader'
        BY Zenon DEF IInv, OneReader, Linked
    <2>3. Caused'
        BY DEF IInv, Caused, Cause, Opened, Via, Linked
    <2>4. ASSUME NEW p \in Procs PROVE Local(p)'
        <3>1. Local(p)
            BY Zenon DEF IInv
        <3>2. Same(p) /\ Apart(p)
            BY Zenon DEF Same, Apart
        <3> QED BY <3>1, <3>2, OthersKeep, Zenon
    <2> QED BY <2>1, <2>2, <2>3, <2>4, Zenon DEF IInv
<1> QED BY <1>1, <1>2, Zenon

\* The strengthened invariant holds in every reachable state.
LEMMA Inductive == Spec => []IInv
    BY InitKeeps, NextKeeps, PTL DEF Spec

\* No channel number leaves the range that the drivers' tables and the context
\* field hold, whatever malloc left in a driver's private data.
THEOREM ChannelsTyped == Spec => []TypeOK
<1>1. IInv => TypeOK
    BY Zenon DEF IInv
<1> QED BY <1>1, Inductive, PTL

\* The APDUs of an applet go to a channel that the card opened for its process,
\* in every driver, as long as nobody closed a channel of another and no REFRESH
\* reset the card; or they go to channel zero after mbim's refused open.
THEOREM AppletOnOwnChannel == Spec => []WorksOnOwnChannel
<1>1. IInv => WorksOnOwnChannel
    BY Zenon DEF IInv, Local, Owns, WorksOnOwnChannel, At
<1> QED BY <1>1, Inductive, PTL

\* A process that came to its end with every open answered and every close
\* confirmed leaves no channel open, at_csim after a failed SELECT excepted.
THEOREM EndsWithoutLeak == Spec => []NoLeak
<1>1. IInv => NoLeak
    BY Zenon DEF IInv, Local, Holds, NoLeak, At
<1> QED BY <1>1, Inductive, PTL

\* When a process closes a channel of another, one of the four windows of
\* ClosesOnlyOwn has opened before: there is no fifth, with any number of
\* processes, whatever drivers they use.
THEOREM ForeignCloseExplained == Spec => []ClosesOnlyOwn
<1>1. IInv => ClosesOnlyOwn
    BY Zenon DEF IInv, Caused, Cause, ClosesOnlyOwn
<1> QED BY <1>1, Inductive, PTL

\* qmi_cleanup meets a channel it still remembers only after a close that failed,
\* or in a qmi_qrtr that never opened one; no other teardown can crash or hang.
THEOREM TeardownExplained == Spec => []TeardownSafe
<1>1. IInv => TeardownSafe
    BY DEF IInv, Local, Remembers, TeardownSafe, At
<1> QED BY <1>1, Inductive, PTL
=============================================================================

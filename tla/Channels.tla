------------------------------ MODULE Channels ------------------------------
(***************************************************************************)
(* The logical channels of one eUICC, as the lpac processes that use it    *)
(* open and close them: lpac_main, main_init_euicc, euicc_init and         *)
(* euicc_fini drive the connect / logic_channel_open / logic_channel_close *)
(* / disconnect callbacks of the APDU driver that the process loaded.      *)
(* What the drivers have in common is one action; where they differ (what  *)
(* they remember of the channel, what they do when a step fails) the       *)
(* difference is a set of drivers, named for what it does.                 *)
(*                                                                         *)
(* The card hands out channels and keeps one open until it is closed or    *)
(* the card loses power: a process that goes away without closing its      *)
(* channel leaves it open.                                                 *)
(***************************************************************************)
EXTENDS Integers, FiniteSets

CONSTANTS Procs,      \* lpac processes that share the eUICC
          MaxChannels, \* logical channels the card has besides the basic one
          MaxFaults,  \* bound on lost exchanges, failed steps and kills
          NoOne       \* the holder of a closed channel

ASSUME ChannelsAssumption ==
    MaxChannels \in Nat \ {0} /\ MaxFaults \in Nat /\ NoOne \notin Procs

Numbers == 1 .. MaxChannels
Unknown == -1        \* what the drivers write into a forgotten channel id

\* The drivers under driver/apdu, named as LPAC_APDU names them.
Drivers == {"pcsc", "at", "at_csim", "qmi", "qmi_qrtr", "mbim", "uqmi",
            "gbinder_hidl", "stdio"}

VARIABLES
    driver,   \* driver[p]: the APDU driver p loaded
    pc,       \* pc[p]: where p is in euicc_init / applet / euicc_fini
    chan,     \* chan[p]: ctx->apdu._internal.logic_channel
    got,      \* got[p]: the channel the card answered, not yet recorded
    last,     \* last[p]: the channel id the driver itself remembers
    client,   \* client[p]: the driver's handle: "garbage", "null" or "live"
    held,     \* held[c]: the process for which the card keeps c open
    faults,
    recorded, \* history: processes that got as far as recording a channel
    foreign,  \* history: processes that closed a channel of another
    unsure,   \* history: processes that lost an answer or failed to close
    unselected, \* history: processes whose SELECT of the ISD-R failed
    late,     \* history: processes interrupted before they forgot a close
    uprooted  \* history: processes whose channel a reset of the card closed

vars == <<driver, pc, chan, got, last, client, held, faults,
          recorded, foreign, unsure, unselected, late, uprooted>>
history == <<recorded, foreign, unsure, unselected, late, uprooted>>

-----------------------------------------------------------------------------
\* Drivers that address the channel by the id they keep, not by the context's.
Remembering == {"at", "qmi", "qmi_qrtr", "mbim", "gbinder_hidl"}

\* What malloc may leave in the id of a driver's private data.
Leftovers == Numbers \cup {0, Unknown}

\* The id a driver holds after its init, before any channel was opened: calloc
\* in qmi, memset in at, a static initialiser in gbinder_hidl, malloc in mbim
\* and qmi_qrtr.
QmiId == {0}
AtId == {0}
GbinderId == {Unknown}
MbimId == Leftovers
QrtrId == Leftovers

InitialIds(d) ==
    CASE d = "mbim"         -> MbimId
      [] d = "qmi_qrtr"     -> QrtrId
      [] d = "gbinder_hidl" -> GbinderId
      [] d = "at"           -> AtId
      [] OTHER              -> QmiId

\* qmi_qrtr does not initialise the pointer to its client either.
InitialClient(d) == IF d = "qmi_qrtr" THEN "garbage" ELSE "null"

\* A card in a reader is reached by pcsc alone, a modem's by all the others.
Init ==
    /\ driver \in [Procs -> {"pcsc"}] \cup [Procs -> Drivers \ {"pcsc"}]
    /\ pc = [p \in Procs |-> "setup"]
    /\ chan = [p \in Procs |-> 0]
    /\ got = [p \in Procs |-> 0]
    /\ last \in {l \in [Procs -> Numbers \cup {0, Unknown}] :
                    \A p \in Procs : l[p] \in InitialIds(driver[p])}
    /\ client = [p \in Procs |-> InitialClient(driver[p])]
    /\ held = [c \in Numbers |-> NoOne]
    /\ faults = 0
    /\ recorded = {} /\ foreign = {} /\ unsure = {} /\ unselected = {} /\ late = {}
    /\ uprooted = {}

At(p, label) == pc[p] = label
Goto(p, label) == pc' = [pc EXCEPT ![p] = label]
Fault == faults < MaxFaults /\ faults' = faults + 1
Opened(p) == {c \in Numbers : held[c] = p}

\* The channel number that an APDU of p carries.
Via(p) == IF driver[p] \in Remembering THEN last[p] ELSE chan[p]

\* The card closes channel c at p's request; an unknown number is refused.
CardCloses(p, c) ==
    /\ held' = IF c \in Numbers THEN [held EXCEPT ![c] = NoOne] ELSE held
    /\ foreign' = IF c \in Numbers /\ held[c] \notin {p, NoOne}
                  THEN foreign \cup {p} ELSE foreign
CardKeeps == UNCHANGED <<held, foreign>>

\* A request of p to close c: it is answered; or its answer is lost after the
\* card has closed c; or it never reaches the card.  `done` is what the caller
\* sees.
CloseRequest(p, c, done) ==
    \/ done /\ CardCloses(p, c) /\ UNCHANGED <<faults, unsure>>
    \/ /\ ~done /\ Fault /\ unsure' = unsure \cup {p}
       /\ CardCloses(p, c) \/ CardKeeps

-----------------------------------------------------------------------------
(* main_init_euicc and euicc_init                                          *)

\* A bad AID or MSS in the environment ends main_init_euicc before connect.
Setup(p) ==
    /\ At(p, "setup")
    /\ Goto(p, "connect") \/ Goto(p, "fini")
    /\ UNCHANGED <<driver, chan, got, last, client, held, faults, history>>

Linked(p) == client[p] = "live"

\* The driver d of p is asked to connect, and says that it has...
Connected(p, d) ==
    /\ At(p, "connect") /\ driver[p] = d
    /\ client' = [client EXCEPT ![p] = "live"]
    /\ Goto(p, "open")
    /\ UNCHANGED <<driver, chan, got, last, held, faults, history>>

\* ...or returns -1, keeping handle: euicc_init then returns without a disconnect.
NotConnected(p, d, handle) ==
    /\ At(p, "connect") /\ driver[p] = d
    /\ client' = [client EXCEPT ![p] = handle]
    /\ Goto(p, "fini")
    /\ UNCHANGED <<driver, chan, got, last, held, history>>

\* pcsc connects with SCARD_SHARE_EXCLUSIVE: a taken reader is skipped, and in the
\* end there is no reader left.
ReaderFree == \A q \in Procs : ~Linked(q)
ConnectPcsc(p) ==
    \/ ReaderFree /\ Connected(p, "pcsc")
    \/ ~ReaderFree /\ NotConnected(p, "pcsc", client[p]) /\ UNCHANGED faults
    \/ Fault /\ NotConnected(p, "pcsc", client[p])

\* Only a device that cannot be opened is an error: one that fails its probes
\* makes connect return `false`, which is not negative.
ConnectAt(p) == Connected(p, "at") \/ (Fault /\ NotConnected(p, "at", "null"))
ConnectAtCsim(p) == Connected(p, "at_csim") \/ (Fault /\ NotConnected(p, "at_csim", "null"))

\* The client of qmi is allocated, and the device of mbim open, when the SIM slot
\* turns out not to be selectable.
ConnectQmi(p) ==
    \/ Connected(p, "qmi")
    \/ Fault /\ \E handle \in {"null", "live"} : NotConnected(p, "qmi", handle)
ConnectMbim(p) ==
    \/ Connected(p, "mbim")
    \/ Fault /\ \E handle \in {"null", "live"} : NotConnected(p, "mbim", handle)

\* uimClient is assigned last, so a failure leaves it as it was.
ConnectQrtr(p) == Connected(p, "qmi_qrtr") \/ (Fault /\ NotConnected(p, "qmi_qrtr", client[p]))

ConnectUqmi(p) == Connected(p, "uqmi") \/ (Fault /\ NotConnected(p, "uqmi", "null"))
ConnectStdio(p) == Connected(p, "stdio") \/ (Fault /\ NotConnected(p, "stdio", "null"))

\* gbinder_hidl has nothing to connect before it knows the AID.
ConnectGbinder(p) == Connected(p, "gbinder_hidl")

\* logic_channel_open of p's driver: the card opens a channel and says which...
Granted(p, next) ==
    /\ At(p, "open")
    /\ \E c \in Opened(NoOne) :
          /\ held' = [held EXCEPT ![c] = p]
          /\ got' = [got EXCEPT ![p] = c]
    /\ Goto(p, next)
    /\ UNCHANGED <<driver, chan, last, client, faults, history>>

\* ...or it refuses, having no channel left or for another reason...
Refused(p, next) ==
    /\ At(p, "open")
    /\ IF Opened(NoOne) # {} THEN Fault ELSE UNCHANGED faults
    /\ got' = [got EXCEPT ![p] = 0]
    /\ Goto(p, next)
    /\ UNCHANGED <<driver, chan, last, client, held, history>>

\* ...or the exchange fails after the card has opened one.
Lost(p) ==
    /\ At(p, "open")
    /\ Fault
    /\ \E c \in Opened(NoOne) : held' = [held EXCEPT ![c] = p]
    /\ unsure' = unsure \cup {p}
    /\ Goto(p, "disconnect")
    /\ UNCHANGED <<driver, chan, got, last, client, recorded, foreign, unselected, late, uprooted>>

\* What most drivers make of it: -1 unless there is a channel, and euicc_init
\* disconnects.
OpenOrFail(p, next) == Granted(p, next) \/ Refused(p, "disconnect") \/ Lost(p)

\* pcsc and at_csim open with MANAGE CHANNEL and SELECT the ISD-R themselves, the
\* others leave both to the modem.
OpenPcsc(p) == driver[p] = "pcsc" /\ OpenOrFail(p, "select")
OpenAtCsim(p) == driver[p] = "at_csim" /\ OpenOrFail(p, "select")
OpenAt(p) == driver[p] = "at" /\ OpenOrFail(p, "record")
Qmis == {"qmi", "qmi_qrtr"}
OpenQmi(p) == driver[p] \in Qmis /\ OpenOrFail(p, "record")
OpenUqmi(p) == driver[p] = "uqmi" /\ OpenOrFail(p, "record")
OpenGbinder(p) == driver[p] = "gbinder_hidl" /\ OpenOrFail(p, "record")
OpenStdio(p) == driver[p] = "stdio" /\ OpenOrFail(p, "record")

\* mbim reads no status: it takes the channel number of a refusal, zero, for the
\* channel it was given.
OpenMbim(p) ==
    /\ driver[p] = "mbim"
    /\ Granted(p, "record") \/ Refused(p, "record") \/ Refused(p, "disconnect") \/ Lost(p)

Selected(p) ==
    /\ At(p, "select")
    /\ Goto(p, "record")
    /\ UNCHANGED <<driver, chan, got, last, client, held, faults, history>>
NotSelected(p) ==
    /\ At(p, "select")
    /\ unselected' = unselected \cup {p}
    /\ Goto(p, "disconnect")
    /\ UNCHANGED <<driver, chan, got, last, client, recorded, late, uprooted>>

\* When the SELECT fails pcsc closes the channel again, at_csim just returns -1.
SelectPcsc(p) ==
    /\ driver[p] = "pcsc"
    /\ \/ Selected(p)
       \/ NotSelected(p) /\ \E done \in BOOLEAN : CloseRequest(p, got[p], done)
SelectAtCsim(p) ==
    /\ driver[p] = "at_csim"
    /\ Selected(p) \/ (NotSelected(p) /\ CardKeeps /\ UNCHANGED <<faults, unsure>>)

\* The driver keeps id, and returns channel to euicc_init.
RecordWith(p, id, channel) ==
    /\ At(p, "record")
    /\ last' = IF driver[p] \in Remembering THEN [last EXCEPT ![p] = id] ELSE last
    /\ chan' = [chan EXCEPT ![p] = channel]
    /\ recorded' = recorded \cup {p}
    /\ Goto(p, "work")
    /\ UNCHANGED <<driver, got, client, held, faults, foreign, unsure,
                   unselected, late, uprooted>>

\* Mutants of Record: a zero-based number is taken for a one-based one; the
\* driver does not store the channel.
RecordShifted(p) == RecordWith(p, got[p], got[p] + 1)
RecordForgets(p) == RecordWith(p, last[p], got[p])

\* The index that at stores the identifier of its first channel under.
ChannelNextId == 1

\* Every driver returns the channel of the card, except at, which returns the
\* index of its table where it stored the identifier.
Record(p) == RecordWith(p, got[p], IF driver[p] = "at" THEN ChannelNextId ELSE got[p])

-----------------------------------------------------------------------------
(* The end of the applet: euicc_fini, then the driver's fini               *)

\* The applet has returned.
Work(p) ==
    /\ At(p, "work")
    /\ Goto(p, "close")
    /\ UNCHANGED <<driver, chan, got, last, client, held, faults, history>>

\* The applet was enable or disable with the refreshFlag: the terminal resets the
\* card, and with that closes every channel, of p and of whoever else has one.
\* The context and the driver go on as if theirs were open.  In a reader there is
\* no terminal that would follow the REFRESH.
WorkRefresh(p) ==
    /\ At(p, "work") /\ driver[p] # "pcsc"
    /\ Goto(p, "close")
    /\ held' = [c \in Numbers |-> NoOne]
    /\ uprooted' = uprooted \cup {q \in Procs : Opened(q) # {}}
    /\ UNCHANGED <<driver, chan, got, last, client, faults, recorded, foreign, unsure,
                   unselected, late>>

\* logic_channel_close of p's driver asks for c to be closed.
CloseWith(p, c) ==
    /\ At(p, "close")
    /\ \E done \in BOOLEAN :
          /\ CloseRequest(p, c, done)
          /\ Goto(p, IF done THEN "closed" ELSE "unclosed")
    /\ UNCHANGED <<driver, chan, got, last, client, recorded, unselected, late, uprooted>>

\* Mutant of CloseAtCsim: MANAGE CHANNEL without the number of the channel.
CloseAtCsimZero(p) == driver[p] = "at_csim" /\ CloseWith(p, 0)

\* mbim does not read the status of the close either: a refused one counts as done.
CloseUnread(p) ==
    /\ At(p, "close")
    /\ Fault /\ unsure' = unsure \cup {p} /\ CardKeeps
    /\ Goto(p, "closed")
    /\ UNCHANGED <<driver, chan, got, last, client, recorded, unselected, late, uprooted>>

\* at closes the identifier in its table, the other drivers the given number.
ClosePcsc(p) == driver[p] = "pcsc" /\ CloseWith(p, chan[p])
CloseAtCsim(p) == driver[p] = "at_csim" /\ CloseWith(p, chan[p])
CloseAt(p) == driver[p] = "at" /\ CloseWith(p, last[p])
CloseQmi(p) == driver[p] \in Qmis /\ CloseWith(p, chan[p])
CloseMbim(p) == driver[p] = "mbim" /\ (CloseWith(p, chan[p]) \/ CloseUnread(p))
CloseUqmi(p) == driver[p] = "uqmi" /\ CloseWith(p, chan[p])
CloseGbinder(p) == driver[p] = "gbinder_hidl" /\ CloseWith(p, chan[p])
CloseStdio(p) == driver[p] = "stdio" /\ CloseWith(p, chan[p])

\* Mutant of Remains: a driver never forgets the channel it closed.
RemainsAlways(p, done) == last[p]

\* What the driver remembers after its logic_channel_close(chan): qmi and mbim
\* forget a channel they know to be closed, at and gbinder_hidl forget it
\* whatever was answered.
Remains(p, done) ==
    CASE driver[p] \in Qmis \cup {"mbim"} ->
            IF done /\ chan[p] = last[p] THEN Unknown ELSE last[p]
      [] driver[p] = "gbinder_hidl" ->
            IF chan[p] = last[p] THEN Unknown ELSE last[p]
      [] driver[p] = "at" -> 0
      [] OTHER -> last[p]

Forget(p) ==
    /\ At(p, "closed") \/ At(p, "unclosed")
    /\ last' = [last EXCEPT ![p] = Remains(p, At(p, "closed"))]
    /\ Goto(p, "disconnect")
    /\ UNCHANGED <<driver, chan, got, client, held, faults, history>>

\* The link is given up, and with it the context's channel.
Disconnected(p, d) ==
    /\ At(p, "disconnect") /\ driver[p] = d
    /\ client' = [client EXCEPT ![p] = "null"]
    /\ chan' = [chan EXCEPT ![p] = 0]
    /\ Goto(p, "fini")
    /\ UNCHANGED <<driver, got, recorded, unselected, late, uprooted>>

OnlyDisconnected(p, d) ==
    Disconnected(p, d) /\ CardKeeps /\ UNCHANGED <<last, faults, unsure>>

\* The channel that is still remembered is closed, then forgotten.
CloseLeaked(p, leaked) ==
    IF leaked
    THEN /\ \E done \in BOOLEAN : CloseRequest(p, last[p], done)
         /\ last' = [last EXCEPT ![p] = Unknown]
    ELSE CardKeeps /\ UNCHANGED <<last, faults, unsure>>

\* pcsc unpowers the card, which closes every channel of it.
Unpower(p) ==
    /\ held' = [c \in Numbers |-> NoOne]
    /\ foreign' = IF \E c \in Numbers : held[c] \notin {p, NoOne}
                  THEN foreign \cup {p} ELSE foreign

DisconnectPcsc(p) == Disconnected(p, "pcsc") /\ Unpower(p) /\ UNCHANGED <<last, faults, unsure>>
DisconnectMbim(p) == Disconnected(p, "mbim") /\ CloseLeaked(p, last[p] > 0)
DisconnectGbinder(p) == Disconnected(p, "gbinder_hidl") /\ CloseLeaked(p, last[p] # Unknown)
DisconnectQmi(p) == \E d \in Qmis : OnlyDisconnected(p, d)
DisconnectAtCsim(p) == OnlyDisconnected(p, "at_csim")
DisconnectUqmi(p) == OnlyDisconnected(p, "uqmi")
DisconnectStdio(p) == OnlyDisconnected(p, "stdio")

\* at also clears the entry of its table that the context's channel names.
DisconnectAt(p) ==
    /\ Disconnected(p, "at") /\ CardKeeps
    /\ last' = IF chan[p] = ChannelNextId THEN [last EXCEPT ![p] = 0] ELSE last
    /\ UNCHANGED <<faults, unsure>>

\* euicc_driver_fini: most drivers only free their memory.
Fini(p) ==
    /\ At(p, "fini") /\ driver[p] \notin Qmis
    /\ Goto(p, "done")
    /\ UNCHANGED <<driver, chan, got, last, client, held, faults, history>>

\* qmi_cleanup closes a channel that is still remembered.  By then disconnect has
\* given up the client, or there never was one: what libqmi makes of a null client
\* (answer with an error, crash, or refuse the call without calling back, which
\* leaves the _sync function waiting for ever) is not lpac's to say, an
\* uninitialised one crashes.
FiniQmi(p) ==
    /\ At(p, "fini") /\ driver[p] \in Qmis
    /\ IF last[p] <= 0 THEN Goto(p, "done") /\ UNCHANGED last
       ELSE \/ Goto(p, "crashed") /\ UNCHANGED last
            \/ client[p] = "null" /\ Goto(p, "stuck") /\ UNCHANGED last
            \/ client[p] = "null" /\ Goto(p, "done") /\ last' = [last EXCEPT ![p] = Unknown]
    /\ UNCHANGED <<driver, chan, got, client, held, faults, history>>

-----------------------------------------------------------------------------
Alive(p) == pc[p] \notin {"done", "dead", "crashed"}

\* The process is killed; the reader daemon resets the card of a pcsc client.
Kill(p) ==
    /\ Alive(p)
    /\ Fault
    /\ Goto(p, "dead")
    /\ client' = [client EXCEPT ![p] = "null"]
    /\ IF driver[p] = "pcsc" /\ Linked(p) THEN Unpower(p) ELSE CardKeeps
    /\ UNCHANGED <<driver, chan, got, last, recorded, unsure, unselected, late, uprooted>>

\* SIGINT under gbinder_hidl: exit(0), and so the atexit hook `cleanup`.
Interrupt(p) ==
    /\ Alive(p)
    /\ driver[p] = "gbinder_hidl"
    /\ IF last[p] # Unknown
       THEN \E done \in BOOLEAN : CloseRequest(p, last[p], done)
       ELSE CardKeeps /\ UNCHANGED <<faults, unsure>>
    /\ last' = [last EXCEPT ![p] = Unknown]
    /\ late' = IF At(p, "closed") \/ At(p, "unclosed")
               THEN late \cup {p} ELSE late
    /\ Goto(p, "dead")
    /\ UNCHANGED <<driver, chan, got, client, recorded, unselected, uprooted>>

Connects(p) ==
    \/ ConnectPcsc(p) \/ ConnectAt(p) \/ ConnectAtCsim(p) \/ ConnectQmi(p)
    \/ ConnectQrtr(p) \/ ConnectMbim(p) \/ ConnectUqmi(p) \/ ConnectGbinder(p)
    \/ ConnectStdio(p)
Opens(p) ==
    \/ OpenPcsc(p) \/ SelectPcsc(p) \/ OpenAt(p) \/ OpenAtCsim(p) \/ SelectAtCsim(p)
    \/ OpenQmi(p) \/ OpenMbim(p) \/ OpenUqmi(p) \/ OpenGbinder(p) \/ OpenStdio(p)
Closes(p) ==
    \/ ClosePcsc(p) \/ CloseAt(p) \/ CloseAtCsim(p) \/ CloseQmi(p)
    \/ CloseMbim(p) \/ CloseUqmi(p) \/ CloseGbinder(p) \/ CloseStdio(p)
Disconnects(p) ==
    \/ DisconnectPcsc(p) \/ DisconnectAt(p) \/ DisconnectAtCsim(p) \/ DisconnectQmi(p)
    \/ DisconnectMbim(p) \/ DisconnectUqmi(p) \/ DisconnectGbinder(p) \/ DisconnectStdio(p)

Next == \E p \in Procs :
    \/ Setup(p) \/ Connects(p) \/ Opens(p) \/ Record(p) \/ Work(p) \/ WorkRefresh(p)
    \/ Closes(p) \/ Forget(p) \/ Disconnects(p) \/ Fini(p) \/ FiniQmi(p)
    \/ Kill(p) \/ Interrupt(p)

Spec == Init /\ [][Next]_vars

-----------------------------------------------------------------------------
Labels == {"setup", "connect", "open", "select", "record", "work", "close",
           "closed", "unclosed", "disconnect", "fini",
           "done", "dead", "crashed", "stuck"}

\* Every variable keeps its type; in particular no channel number leaves the
\* range that the drivers' tables and the context field hold.
TypeOK ==
    /\ driver \in [Procs -> Drivers]
    /\ pc \in [Procs -> Labels]
    /\ chan \in [Procs -> Numbers \cup {0}]
    /\ got \in [Procs -> Numbers \cup {0}]
    /\ last \in [Procs -> Numbers \cup {0, Unknown}]
    /\ client \in [Procs -> {"garbage", "null", "live"}]
    /\ held \in [Numbers -> Procs \cup {NoOne}]
    /\ faults \in 0 .. MaxFaults
    /\ recorded \subseteq Procs /\ foreign \subseteq Procs
    /\ unsure \subseteq Procs /\ unselected \subseteq Procs /\ late \subseteq Procs
    /\ uprooted \subseteq Procs

\* While the applet runs, its APDUs go to a channel that the card opened for
\* this process (euicc_apdu_transmit and the transmit of each driver), as long
\* as nobody closed a channel of another and no REFRESH reset the card under it.
\* The exception is mbim after a refused open, which runs the applet on channel
\* zero.
WorksOnOwnChannel ==
    \A p \in Procs : At(p, "work") /\ foreign = {} /\ p \notin uprooted =>
        \/ Via(p) \in Opened(p)
        \/ driver[p] = "mbim" /\ Via(p) = 0

\* A process that ran to its end, whose open was answered and whose close was
\* confirmed, leaves no channel open on the card, whichever step of euicc_init
\* failed.  The exception is at_csim when the ISD-R cannot be selected.
NoLeak ==
    \A p \in Procs : At(p, "done") /\ p \notin unsure =>
        Opened(p) = {} \/ (driver[p] = "at_csim" /\ p \in unselected)

\* A channel is only closed for the process that opened it.  Four windows break
\* this, and once one has opened, the channel's next holder can be hit in turn:
\* a process whose channel a REFRESH closed still closes its number at the end,
\* mbim disconnecting with the id it never initialised, mbim closing again after
\* the answer to its close was lost, and SIGINT under gbinder_hidl between the
\* close and the assignment that forgets the channel.
ClosesOnlyOwn ==
    foreign # {} =>
        \E p \in Procs :
            \/ p \in uprooted
            \/ driver[p] = "mbim" /\ (p \notin recorded \/ p \in unsure)
            \/ driver[p] = "gbinder_hidl" /\ p \in late

\* Tearing the driver down can crash or hang only in the QMI drivers (qmi_cleanup runs
\* after disconnect gave the client up), and there only when the close before it
\* failed, or when qmi_qrtr never opened a channel and reads what malloc left.
\* After a confirmed close the teardown of every driver is safe.
TeardownSafe ==
    \A p \in Procs : At(p, "crashed") \/ At(p, "stuck") =>
        \/ driver[p] \in Qmis /\ p \in unsure
        \/ driver[p] = "qmi_qrtr" /\ p \notin recorded
=============================================================================

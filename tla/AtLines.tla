------------------------------- MODULE AtLines -------------------------------
(***************************************************************************)
(* The AT command line between lpac and a modem: at_emit_command writes a  *)
(* command, at_expect reads lines from the serial port until "OK" or       *)
(* "ERROR".  The port is a stream of bytes that knows nothing of commands: *)
(* a line belongs to the command that is waiting when it is read.  The     *)
(* read buffer of the driver outlives the commands, and nothing empties    *)
(* the port between two of them.                                           *)
(*                                                                         *)
(* A line travels in pieces, of which the first carries what is matched    *)
(* and the last ends in the newline.                                       *)
(***************************************************************************)
EXTENDS Integers, Sequences

CONSTANTS
    Prefixes,   \* the intermediate answers that commands expect
    Room,       \* AT_BUFFER_SIZE, in pieces
    MaxPieces,  \* bound: pieces of an intermediate answer
    MaxCommands, MaxFaults, MaxUnsolicited

ASSUME AtLinesAssumption ==
    /\ Room \in Nat \ {0} /\ MaxPieces \in Nat \ {0}
    /\ MaxCommands \in Nat /\ MaxFaults \in Nat /\ MaxUnsolicited \in Nat
    /\ Prefixes \cap {"none", "OK", "ERROR", "CME", "URC"} = {}

VARIABLES
    pc,         \* "idle", "expect"
    cur,        \* commands emitted so far; the waiting one is number cur
    expected,   \* its prefix
    found,      \* found_response_data: the command it answers, 0 for NULL
    result,     \* [ret, response] of the last command that ended
    buffer,     \* at_read_buffer: pieces
    wire,       \* pieces sent by the modem and not yet read
    todo,       \* modem: commands it has been given
    faults, unsolicited,
    owed,       \* history: commands the modem was given whose end is still to be read
    slipped,    \* history: some command was given up before its end
    ended       \* history: the command that the last final line belonged to

host == <<pc, cur, expected, found, result, buffer>>
modem == <<wire, todo, unsolicited>>
vars == <<host, modem, faults, owed, slipped, ended>>

Final == {"OK", "ERROR", "CME"}

\* The pieces of a line of n pieces of what `of` was answered.
Line(text, of, n) == [k \in 1 .. n |-> [text |-> text, of |-> of, first |-> k = 1, last |-> k = n]]

Init ==
    /\ pc = "idle" /\ cur = 0 /\ expected = "none" /\ found = 0
    /\ result = [ret |-> 0, response |-> 0]
    /\ buffer = <<>> /\ wire = <<>> /\ todo = <<>>
    /\ faults = 0 /\ unsolicited = 0
    /\ owed = {} /\ slipped = FALSE /\ ended = 0

Fault == faults < MaxFaults /\ faults' = faults + 1

-----------------------------------------------------------------------------
(* The modem and the port (external).                                      *)

\* A command is worked off: an intermediate answer or none, then the end.  With
\* AT+CMEE an error is reported as +CME ERROR in place of ERROR.
Answer ==
    /\ todo # <<>> /\ todo' = Tail(todo)
    /\ LET c == Head(todo) IN
       \E final \in Final, n \in 0 .. MaxPieces :
          /\ final = "OK" \/ n = 0
          /\ c.expected = "none" => n = 0
          /\ wire' = wire \o Line(c.expected, c.of, n) \o Line(final, c.of, 1)
          /\ owed' = IF final = "CME" THEN owed \ {c.of} ELSE owed
    /\ UNCHANGED <<host, unsolicited, faults, slipped, ended>>

\* An unsolicited result code.
Unsolicited ==
    /\ unsolicited < MaxUnsolicited /\ unsolicited' = unsolicited + 1
    /\ wire' = wire \o Line("URC", 0, 1)
    /\ UNCHANGED <<host, todo, faults, owed, slipped, ended>>

-----------------------------------------------------------------------------
(* The driver.                                                             *)

\* at_emit_command, then at_expect up to its loop.  No caller looks at what
\* at_emit_command returns, so a command that was not written is waited for too.
Emit ==
    /\ pc = "idle" /\ cur < MaxCommands
    /\ cur' = cur + 1 /\ pc' = "expect" /\ found' = 0
    /\ \E e \in Prefixes \cup {"none"} :
          /\ expected' = e
          /\ \/ /\ todo' = Append(todo, [of |-> cur + 1, expected |-> e])
                /\ owed' = owed \cup {cur + 1} /\ UNCHANGED faults
             \/ Fault /\ UNCHANGED <<todo, owed>>
    /\ UNCHANGED <<result, buffer, wire, unsolicited, slipped, ended>>

Newlines == {k \in 1 .. Len(buffer) : buffer[k].last}

\* The end of at_expect; a caller that wants a response and has none fails too.
Ends(ret) ==
    /\ pc' = "idle"
    /\ result' = IF ret = 0 /\ (expected = "none" \/ found # 0)
                 THEN [ret |-> 0, response |-> found] ELSE [ret |-> -1, response |-> 0]
    /\ UNCHANGED <<cur, expected, found>>

\* The command is given up while its end may still arrive.
GivesUp ==
    Ends(-1) /\ slipped' = TRUE /\ UNCHANGED <<owed, ended>>

\* poll and read: as much as there is room for, or as has arrived.
Read ==
    /\ pc = "expect" /\ Newlines = {} /\ Len(buffer) < Room
    /\ \E n \in 1 .. Room - Len(buffer) :
          /\ n <= Len(wire)
          /\ buffer' = buffer \o SubSeq(wire, 1, n)
          /\ wire' = SubSeq(wire, n + 1, Len(wire))
    /\ UNCHANGED <<pc, cur, expected, found, result, todo, unsolicited, faults, owed, slipped, ended>>

\* poll is interrupted by a signal, or read fails or finds the port closed.
PollOrReadFails ==
    /\ pc = "expect" /\ Newlines = {} /\ Len(buffer) < Room /\ Fault
    /\ GivesUp
    /\ UNCHANGED <<buffer, modem>>

\* A buffer full without a newline is dropped, and the command given up.
LineTooLong ==
    /\ pc = "expect" /\ Newlines = {} /\ Len(buffer) >= Room
    /\ buffer' = <<>> /\ GivesUp
    /\ UNCHANGED <<modem, faults>>

\* Mutants of IsFinal: ERROR is forgotten; the expected answer ends the wait.
IsOk(line) == line.first /\ line.text = "OK"
IsOkOrExpected(line) == line.first /\ line.text \in {"OK", "ERROR", expected}

\* A line is compared as a whole with OK and ERROR, and from its start with the
\* prefix; the rest of a line whose start was dropped is like none of them.
IsFinal(line) == line.first /\ line.text \in {"OK", "ERROR"}
Matches(line) == line.first /\ expected # "none" /\ line.text = expected

\* The line up to the first newline.
TakeLine ==
    /\ pc = "expect" /\ Newlines # {}
    /\ \E nl \in Newlines :
          (\A j \in Newlines : nl <= j) /\ buffer' = SubSeq(buffer, nl + 1, Len(buffer))
    /\ LET line == buffer[1] IN
       IF IsFinal(line)
       THEN /\ Ends(IF line.text = "OK" THEN 0 ELSE -1)
            /\ ended' = line.of /\ owed' = owed \ {line.of}
       ELSE /\ found' = IF Matches(line) THEN line.of ELSE found
            /\ UNCHANGED <<pc, cur, expected, result, owed, ended>>
    /\ UNCHANGED <<modem, faults, slipped>>

Host == Emit \/ Read \/ PollOrReadFails \/ LineTooLong \/ TakeLine
Next == Host \/ Answer \/ Unsolicited

\* The modem answers in the end, and at_expect goes on as long as it can: lpac
\* has one thread, and nothing else to do.
Fairness == WF_vars(Read) /\ WF_vars(LineTooLong) /\ WF_vars(TakeLine) /\ WF_vars(Answer)

Spec == Init /\ [][Next]_vars /\ Fairness

-----------------------------------------------------------------------------
\* As long as no command was given up early, a command that succeeds has its own
\* answer and its own OK, however the stream was cut into reads and whatever was
\* unsolicited.  Once one was (SIGINT during a download interrupts poll), the
\* answer that it did not wait for is there for the next.
AnswersMatch ==
    pc = "idle" /\ cur > 0 /\ result.ret = 0 /\ ~slipped =>
        ended = cur /\ result.response \in {0, cur}

\* Ends are taken in the order of the commands and none is skipped, so a session
\* that has slipped stays behind by the commands it gave up: an OK that ends a
\* command belongs to it or to the oldest command whose end was not read.
EndsInOrder ==
    [][ended' # ended => ended' \in owed /\ \A o \in owed : ended' <= o]_vars

\* A wait ends once "OK" or "ERROR" is under way to it, for any command: neither
\* an overlong line nor an unsolicited one can make at_expect miss its end.  With
\* +CME ERROR in their place it waits for ever, as poll has no timeout.
WaitEnds ==
    pc = "expect" /\ (\E k \in 1 .. Len(wire) : wire[k].text \in {"OK", "ERROR"})
        ~> pc = "idle"
=============================================================================

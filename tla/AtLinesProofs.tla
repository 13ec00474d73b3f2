--------------------------- MODULE AtLinesProofs ---------------------------
(***************************************************************************)
(* A session in which no command was given up has every answer with its    *)
(* command, for every buffer size, however the stream is cut into reads.   *)
(* The invariant says whose pieces are under way: those of the waiting     *)
(* command only, and nothing of it behind its end.                         *)
(*                                                                         *)
(* Whatever was given up, ends are taken in the order of the commands.     *)
(* The invariant is a queue: the ends under way, then the commands that    *)
(* the modem has yet to answer, are the ends that are owed, oldest first.  *)
(***************************************************************************)
EXTENDS AtLines, TLAPS

Ending == {"OK", "ERROR"}

Piece == [text : Prefixes \cup Final \cup {"none", "URC"}, of : Nat, first : BOOLEAN, last : BOOLEAN]

Command == [of : Nat, expected : Prefixes \cup {"none"}]

Types ==
    /\ pc \in {"idle", "expect"} /\ cur \in Nat /\ expected \in Prefixes \cup {"none"}
    /\ found \in Nat
    /\ buffer \in Seq(Piece) /\ wire \in Seq(Piece)
    /\ todo \in Seq(Command)

\* Every piece of s is unsolicited or of command c, an end is of c, and nothing of
\* c comes behind it.
Belongs(s, c) ==
    /\ \A i \in 1 .. Len(s) : s[i].of \in {0, c}
    /\ \A i \in 1 .. Len(s) : s[i].text \in Ending => s[i].of = c
    /\ \A i, j \in 1 .. Len(s) : i < j /\ s[i].text \in Ending => s[j].of = 0

\* Nothing in s is of any command.
Nobodys(s) == \A i \in 1 .. Len(s) : s[i].of = 0 /\ s[i].text \notin Ending

HasEnd(s) == \E i \in 1 .. Len(s) : s[i].text \in Ending

InStep ==
    /\ pc = "idle" => todo = <<>> /\ Nobodys(buffer) /\ Nobodys(wire)
    /\ pc = "expect" =>
        /\ Belongs(buffer, cur) /\ Belongs(wire, cur)
        /\ HasEnd(buffer) => Nobodys(wire)
        /\ todo # <<>> => Len(todo) = 1 /\ todo[1].of = cur /\ Nobodys(buffer) /\ Nobodys(wire)
        /\ found \in {0, cur} /\ cur > 0
    /\ AnswersMatch

\* What the modem has sent and at_expect has not taken.
Stream == buffer \o wire

\* Lines follow each other whole: where one begins, the one before it has ended, and
\* the last has ended.  Only the first may have lost its beginning.
Whole(s) ==
    /\ \A i \in 2 .. Len(s) : s[i].first => s[i - 1].last
    /\ s # <<>> => s[Len(s)].last

IsEnd(piece) == piece.text \in Ending

\* The ends in stream s and then the commands of t are, in the order in which they
\* were given, the commands of o.
Queued(s, o, t) ==
    /\ \A i \in 1 .. Len(s) : IsEnd(s[i]) => s[i].first /\ s[i].last /\ s[i].of \in o
    /\ \A i, j \in 1 .. Len(s) : i < j /\ IsEnd(s[i]) /\ IsEnd(s[j]) => s[i].of < s[j].of
    /\ \A i \in 1 .. Len(t) : t[i].of \in o
    /\ \A i, j \in 1 .. Len(t) : i < j => t[i].of < t[j].of
    /\ \A i \in 1 .. Len(s), j \in 1 .. Len(t) : IsEnd(s[i]) => s[i].of < t[j].of
    /\ \A c \in o : \/ \E i \in 1 .. Len(s) : IsEnd(s[i]) /\ s[i].of = c
                    \/ \E j \in 1 .. Len(t) : t[j].of = c

Queue == owed \in SUBSET (1 .. cur) /\ Whole(Stream) /\ Queued(Stream, owed, todo)

IInv == Types /\ (~slipped => InStep)

-----------------------------------------------------------------------------
\* Two streams one behind the other, of which at most one has something of c.
LEMMA JoinBelongs ==
    ASSUME NEW c \in Nat, NEW s \in Seq(Piece), NEW t \in Seq(Piece),
           Belongs(s, c), Belongs(t, c), HasEnd(s) => Nobodys(t)
    PROVE  Belongs(s \o t, c)
<1> DEFINE u == s \o t
<1>1. Len(u) = Len(s) + Len(t) /\ Len(s) \in Nat /\ Len(t) \in Nat
    OBVIOUS
<1>2. ASSUME NEW i \in 1 .. Len(u)
      PROVE  \/ i \in 1 .. Len(s) /\ u[i] = s[i]
             \/ i > Len(s) /\ i - Len(s) \in 1 .. Len(t) /\ u[i] = t[i - Len(s)]
    BY <1>1
<1> HIDE DEF u
<1>3. ASSUME NEW i \in 1 .. Len(u) PROVE u[i].of \in {0, c} /\ (u[i].text \in Ending => u[i].of = c)
    BY <1>2, <1>3, Zenon DEF Belongs
<1>4. ASSUME NEW i \in 1 .. Len(u), NEW j \in 1 .. Len(u), i < j, u[i].text \in Ending PROVE u[j].of = 0
    <2>1. CASE j \in 1 .. Len(s)
        <3>1. u[j] = s[j] /\ i \in 1 .. Len(s) /\ u[i] = s[i]
            BY <1>1, <1>2, <1>4, <2>1
        <3> QED BY <1>4, <2>1, <3>1 DEF Belongs
    <2>2. CASE i \in 1 .. Len(s) /\ j > Len(s)
        <3>1. u[i] = s[i] /\ j - Len(s) \in 1 .. Len(t) /\ u[j] = t[j - Len(s)]
            BY <1>1, <1>2, <1>4, <2>2
        <3> QED BY <1>4, <2>2, <3>1, Zenon DEF HasEnd, Nobodys
    <2>3. CASE i > Len(s)
        <3>1. /\ i - Len(s) \in 1 .. Len(t) /\ u[i] = t[i - Len(s)]
              /\ j - Len(s) \in 1 .. Len(t) /\ u[j] = t[j - Len(s)]
            BY <1>1, <1>2, <1>4, <2>3
        <3>2. i - Len(s) < j - Len(s)
            BY <1>1, <1>4
        <3> QED BY <1>4, <3>1, <3>2, Zenon DEF Belongs
    <2> QED BY <1>1, <1>4, <2>1, <2>2, <2>3
<1>5. Belongs(u, c)
    BY <1>3, <1>4 DEF Belongs
<1> QED BY <1>5 DEF u

\* The same for two streams with nothing of any command.
LEMMA JoinNobodys ==
    ASSUME NEW s \in Seq(Piece), NEW t \in Seq(Piece), Nobodys(s), Nobodys(t)
    PROVE  Nobodys(s \o t)
<1>1. ASSUME NEW i \in 1 .. Len(s \o t)
      PROVE  \/ i \in 1 .. Len(s) /\ (s \o t)[i] = s[i]
             \/ i - Len(s) \in 1 .. Len(t) /\ (s \o t)[i] = t[i - Len(s)]
    OBVIOUS
<1> QED BY <1>1 DEF Nobodys

\* A part of a stream has what the stream has.
LEMMA PartBelongs ==
    ASSUME NEW c \in Nat, NEW s \in Seq(Piece), NEW a \in Nat \ {0}, NEW b \in Nat, b <= Len(s)
    PROVE  /\ SubSeq(s, a, b) \in Seq(Piece)
           /\ Belongs(s, c) => Belongs(SubSeq(s, a, b), c)
           /\ Nobodys(s) => Nobodys(SubSeq(s, a, b))
<1> DEFINE u == SubSeq(s, a, b)
<1>1. u \in Seq(Piece)
    OBVIOUS
<1>2. ASSUME NEW i \in 1 .. Len(u) PROVE u[i] = s[a + i - 1] /\ a + i - 1 \in 1 .. Len(s)
    OBVIOUS
<1> HIDE DEF u
<1>3. Len(u) \in Nat
    BY <1>1
<1>4. Nobodys(s) => Nobodys(u)
    BY <1>2, Zenon DEF Nobodys
<1>5. ASSUME Belongs(s, c) PROVE Belongs(u, c)
    <2>1. ASSUME NEW i \in 1 .. Len(u), NEW j \in 1 .. Len(u), i < j, u[i].text \in Ending PROVE u[j].of = 0
        <3>1. /\ u[i] = s[a + i - 1] /\ a + i - 1 \in 1 .. Len(s)
              /\ u[j] = s[a + j - 1] /\ a + j - 1 \in 1 .. Len(s)
            BY <1>2
        <3>2. a + i - 1 < a + j - 1
            BY <1>3, <2>1
        <3> QED BY <1>5, <2>1, <3>1, <3>2, Zenon DEF Belongs
    <2> QED BY <1>2, <1>5, <2>1, Zenon DEF Belongs
<1> QED BY <1>1, <1>4, <1>5 DEF u

\* What is nobody's disturbs no command, and has no end.
LEMMA NobodysIsHarmless ==
    ASSUME NEW s \in Seq(Piece), Nobodys(s), NEW c
    PROVE  Belongs(s, c) /\ ~HasEnd(s)
    BY DEF Nobodys, Belongs, HasEnd

\* An end in a joined stream, or in a part of one, was there before.
LEMMA EndsComeFrom ==
    ASSUME NEW s \in Seq(Piece), NEW t \in Seq(Piece)
    PROVE  /\ HasEnd(s \o t) => HasEnd(s) \/ HasEnd(t)
           /\ \A a \in Nat \ {0}, b \in Nat : b <= Len(s) /\ HasEnd(SubSeq(s, a, b)) => HasEnd(s)
<1>1. ASSUME NEW i \in 1 .. Len(s \o t)
      PROVE  \/ i \in 1 .. Len(s) /\ (s \o t)[i] = s[i]
             \/ i - Len(s) \in 1 .. Len(t) /\ (s \o t)[i] = t[i - Len(s)]
    OBVIOUS
<1>2. ASSUME NEW a \in Nat \ {0}, NEW b \in Nat, b <= Len(s), NEW i \in 1 .. Len(SubSeq(s, a, b))
      PROVE  SubSeq(s, a, b)[i] = s[a + i - 1] /\ a + i - 1 \in 1 .. Len(s)
    BY <1>2
<1>3. HasEnd(s \o t) => HasEnd(s) \/ HasEnd(t)
    BY <1>1 DEF HasEnd
<1>4. ASSUME NEW a \in Nat \ {0}, NEW b \in Nat, b <= Len(s), HasEnd(SubSeq(s, a, b)) PROVE HasEnd(s)
    BY <1>2, <1>4 DEF HasEnd
<1> QED BY <1>3, <1>4

\* Behind the end of the waiting command there is nothing of any command.
LEMMA BehindTheEnd ==
    ASSUME NEW c \in Nat \ {0}, NEW s \in Seq(Piece), Belongs(s, c), NEW n \in 1 .. Len(s),
           NEW i \in 1 .. n, s[i].text \in Ending
    PROVE  Nobodys(SubSeq(s, n + 1, Len(s)))
<1> DEFINE u == SubSeq(s, n + 1, Len(s))
<1>1. ASSUME NEW k \in 1 .. Len(u) PROVE u[k] = s[n + k] /\ n + k \in 1 .. Len(s) /\ i < n + k /\ i \in 1 .. Len(s)
    OBVIOUS
<1> HIDE DEF u
<1>2. ASSUME NEW k \in 1 .. Len(u) PROVE u[k].of = 0 /\ u[k].text \notin Ending
    <2>1. u[k] = s[n + k] /\ n + k \in 1 .. Len(s) /\ i < n + k /\ i \in 1 .. Len(s)
        BY <1>1
    <2>2. s[n + k].of = 0
        BY <2>1 DEF Belongs
    <2>3. s[n + k].text \in Ending => s[n + k].of = c
        BY <2>1 DEF Belongs
    <2> QED BY <2>1, <2>2, <2>3, Zenon
<1>3. Nobodys(u)
    BY <1>2 DEF Nobodys
<1> QED BY <1>3 DEF u

-----------------------------------------------------------------------------
\* The session starts in step.
LEMMA InitEstablishes == Init => IInv
<1> SUFFICES ASSUME Init PROVE IInv
    OBVIOUS
<1>1. Types
    BY DEF Init, Types
<1>2. Nobodys(buffer) /\ Nobodys(wire)
    BY DEF Init, Nobodys
<1> QED BY <1>1, <1>2 DEF Init, IInv, InStep, AnswersMatch

\* A command is emitted (Emit) into a stream that is nobody's.
LEMMA EmitKeeps ==
    ASSUME IInv, Emit
    PROVE  IInv'
<1>1. PICK e \in Prefixes \cup {"none"} :
        /\ expected' = e
        /\ \/ todo' = Append(todo, [of |-> cur + 1, expected |-> e])
           \/ UNCHANGED todo
    BY Zenon DEF Emit
<1>2. Types'
    <2>1. [of |-> cur + 1, expected |-> e] \in Command
        BY DEF IInv, Types, Command
    <2> DEFINE new == [of |-> cur + 1, expected |-> e]
    <2> HIDE DEF new
    <2>2. todo' \in Seq(Command)
        <3>1. new \in Command /\ todo \in Seq(Command) /\ (todo' = Append(todo, new) \/ todo' = todo)
            BY <1>1, <2>1 DEF IInv, Types, new
        <3> QED BY <3>1
    <2> QED BY <2>2, <1>1, <2>1 DEF IInv, Types, Emit
<1>3. ASSUME ~slipped' PROVE InStep'
    <2>1. todo = <<>> /\ Nobodys(buffer) /\ Nobodys(wire) /\ pc' = "expect" /\ cur' = cur + 1
          /\ found' = 0 /\ buffer' = buffer /\ wire' = wire
        BY <1>3 DEF IInv, InStep, Emit
    <2>2. Belongs(buffer, cur + 1) /\ Belongs(wire, cur + 1) /\ ~HasEnd(buffer)
        BY <2>1, NobodysIsHarmless DEF IInv, Types
    <2>3. todo' # <<>> => Len(todo') = 1 /\ todo'[1].of = cur + 1
        BY <1>1, <2>1
    <2>4. AnswersMatch'
        BY <2>1 DEF AnswersMatch
    <2> QED BY <2>1, <2>2, <2>3, <2>4 DEF InStep, IInv, Types
<1> QED BY <1>2, <1>3 DEF IInv

\* The modem answers (Answer): the pieces are of the waiting command, its end last.
LEMMA AnswerKeeps ==
    ASSUME IInv, Answer
    PROVE  IInv'
<1> DEFINE c == Head(todo)
<1>1. PICK final \in Final, n \in 0 .. MaxPieces :
        /\ c.expected = "none" => n = 0
        /\ wire' = wire \o Line(c.expected, c.of, n) \o Line(final, c.of, 1)
    BY Zenon DEF Answer
<1>2. todo \in Seq(Command) /\ todo # <<>> /\ todo' = Tail(todo)
    BY DEF IInv, Types, Answer
<1>3. c \in Command /\ c = todo[1] /\ todo' \in Seq(Command)
    BY <1>2
<1>31. c.expected \in Prefixes \cup {"none"} /\ c.of \in Nat
    BY <1>3 DEF Command
<1> HIDE DEF c
<1> DEFINE body == Line(c.expected, c.of, n)
           end == Line(final, c.of, 1)
<1>4. body \in Seq(Piece) /\ Len(body) = n /\ \A i \in 1 .. n : body[i].text = c.expected /\ body[i].of = c.of
    <2>1. c.expected \in Prefixes \cup Final \cup {"none", "URC"} /\ n \in Nat
        BY <1>31, AtLinesAssumption
    <2>2. \A k \in 1 .. n : [text |-> c.expected, of |-> c.of, first |-> k = 1, last |-> k = n] \in Piece
        BY <1>31, <2>1 DEF Piece
    <2> QED BY <2>1, <2>2 DEF Line
<1>5. end \in Seq(Piece) /\ Len(end) = 1 /\ end[1].text = final /\ end[1].of = c.of
    BY <1>31 DEF Line, Piece
<1>6. wire' = wire \o body \o end
    BY <1>1
<1> HIDE DEF body, end
<1>7. wire \o body \in Seq(Piece) /\ wire' \in Seq(Piece)
    BY <1>4, <1>5, <1>6 DEF IInv, Types
<1>8. Types'
    BY <1>3, <1>7 DEF IInv, Types, Answer, host
<1>9. ASSUME ~slipped' PROVE InStep'
    <2>1. InStep /\ UNCHANGED <<host, ended, slipped>>
        BY <1>9 DEF IInv, Answer
    <2>2. pc = "expect" /\ Len(todo) = 1 /\ c.of = cur /\ Nobodys(buffer) /\ Nobodys(wire) /\ cur > 0 /\ cur \in Nat
        BY <1>2, <1>3, <2>1 DEF InStep, IInv, Types
    <2>3. Belongs(body, cur) /\ ~HasEnd(body)
        <3>1. n > 0 => c.expected \notin Ending
            BY <1>1, <1>31, AtLinesAssumption DEF Ending
        <3> QED BY <1>1, <1>4, <2>2, <3>1 DEF Belongs, HasEnd
    <2>4. Belongs(end, cur)
        BY <1>5, <2>2 DEF Belongs
    <2>5. Belongs(wire, cur) /\ ~HasEnd(wire) /\ ~HasEnd(buffer) /\ Belongs(buffer, cur)
        BY <2>2, NobodysIsHarmless DEF IInv, Types
    <2>6. Belongs(wire \o body, cur) /\ ~HasEnd(wire \o body)
        BY <1>4, <2>2, <2>3, <2>5, JoinBelongs, EndsComeFrom, Zenon DEF IInv, Types
    <2>7. Belongs(wire', cur)
        BY <1>5, <1>6, <1>7, <2>2, <2>4, <2>6, JoinBelongs, Zenon
    <2>8. todo' = <<>>
        BY <1>2, <2>2 DEF IInv, Types
    <2> QED BY <2>1, <2>2, <2>5, <2>7, <2>8 DEF InStep, AnswersMatch, host
<1> QED BY <1>8, <1>9 DEF IInv

\* An unsolicited line is nobody's.
LEMMA UnsolicitedKeeps ==
    ASSUME IInv, Unsolicited
    PROVE  IInv'
<1> DEFINE urc == Line("URC", 0, 1)
<1>1. urc \in Seq(Piece) /\ Len(urc) = 1 /\ urc[1].of = 0 /\ urc[1].text = "URC"
    BY DEF Line, Piece
<1>2. wire' = wire \o urc /\ UNCHANGED <<host, todo, slipped, ended>>
    BY DEF Unsolicited
<1> HIDE DEF urc
<1>3. Nobodys(urc)
    BY <1>1 DEF Nobodys, Ending
<1>4. Types'
    BY <1>1, <1>2 DEF IInv, Types, host
<1>5. Nobodys(wire) => Nobodys(wire')
    BY <1>1, <1>2, <1>3, JoinNobodys DEF IInv, Types
<1>6. Belongs(wire, cur) => Belongs(wire', cur)
    BY <1>1, <1>2, <1>3, JoinBelongs, NobodysIsHarmless DEF IInv, Types
<1>7. InStep => InStep'
    BY <1>2, <1>5, <1>6 DEF InStep, AnswersMatch, host
<1> QED BY <1>2, <1>4, <1>7 DEF IInv

\* However much is read (Read), the stream stays in order across the cut.
LEMMA ReadKeeps ==
    ASSUME IInv, Read
    PROVE  IInv'
<1>1. PICK n \in 1 .. Room - Len(buffer) :
        /\ n <= Len(wire)
        /\ buffer' = buffer \o SubSeq(wire, 1, n)
        /\ wire' = SubSeq(wire, n + 1, Len(wire))
    BY Zenon DEF Read
<1>2. /\ pc = "expect" /\ UNCHANGED <<pc, cur, expected, found, result, todo, slipped, ended>>
      /\ buffer \in Seq(Piece) /\ wire \in Seq(Piece) /\ cur \in Nat
    BY DEF IInv, Types, Read
<1>3. n \in 1 .. Len(wire) /\ n \in Nat \ {0} /\ 1 \in Nat \ {0} /\ n + 1 \in Nat \ {0} /\ Len(wire) \in Nat
    BY <1>1, <1>2, AtLinesAssumption
<1> DEFINE head == SubSeq(wire, 1, n)
<1>4. /\ head \in Seq(Piece) /\ wire' \in Seq(Piece) /\ buffer' \in Seq(Piece)
      /\ Belongs(wire, cur) => Belongs(head, cur) /\ Belongs(wire', cur)
      /\ Nobodys(wire) => Nobodys(head) /\ Nobodys(wire')
    BY <1>1, <1>2, <1>3, PartBelongs
<1>5. Types'
    BY <1>2, <1>4 DEF IInv, Types
<1>6. ASSUME InStep PROVE InStep'
    <2>1. Belongs(buffer, cur) /\ Belongs(wire, cur) /\ (HasEnd(buffer) => Nobodys(wire)) /\ cur > 0
        BY <1>2, <1>6 DEF InStep
    <2>2. Belongs(buffer', cur)
        BY <1>1, <1>2, <1>4, <2>1, JoinBelongs, Zenon
    <2>3. ASSUME HasEnd(head) PROVE Nobodys(wire')
        <3>1. PICK i \in 1 .. n : wire[i].text \in Ending
            BY <1>2, <1>3, <2>3 DEF HasEnd
        <3> QED BY <1>1, <1>2, <1>3, <2>1, <3>1, BehindTheEnd
    <2>4. HasEnd(buffer') => Nobodys(wire')
        BY <1>1, <1>2, <1>4, <2>1, <2>3, EndsComeFrom, Zenon
    <2>5. Nobodys(buffer) /\ Nobodys(wire) => Nobodys(buffer') /\ Nobodys(wire')
        BY <1>1, <1>2, <1>4, JoinNobodys, Zenon
    <2> QED BY <1>2, <1>4, <1>6, <2>1, <2>2, <2>4, <2>5 DEF InStep, AnswersMatch
<1> QED BY <1>2, <1>5, <1>6 DEF IInv

\* A command that is given up ends the claim.
LEMMA GivesUpKeeps ==
    ASSUME IInv, PollOrReadFails \/ LineTooLong
    PROVE  IInv'
<1>1. slipped' = TRUE
    BY DEF PollOrReadFails, LineTooLong, GivesUp
<1>2. pc' = "idle" /\ UNCHANGED <<cur, expected, found, wire, todo>> /\ (buffer' = buffer \/ buffer' = <<>>)
    BY DEF PollOrReadFails, LineTooLong, GivesUp, Ends, modem
<1>3. buffer' \in Seq(Piece)
    <2>1. CASE buffer' = buffer
        BY <2>1 DEF IInv, Types
    <2>2. CASE buffer' = <<>>
        BY <2>2
    <2> QED BY <1>2, <2>1, <2>2
<1>4. Types'
    BY <1>2, <1>3 DEF IInv, Types
<1> QED BY <1>1, <1>4 DEF IInv

\* A line is taken (TakeLine): the end of the waiting command leaves nothing of it,
\* any other line leaves the command waiting with an answer of its own.
LEMMA TakeLineKeeps ==
    ASSUME IInv, TakeLine
    PROVE  IInv'
<1> DEFINE line == buffer[1]
<1>1. PICK nl \in Newlines : buffer' = SubSeq(buffer, nl + 1, Len(buffer))
    BY Zenon DEF TakeLine
<1>11. /\ IsFinal(line) => Ends(IF line.text = "OK" THEN 0 ELSE -1) /\ ended' = line.of
       /\ ~IsFinal(line) => /\ found' = IF Matches(line) THEN line.of ELSE found
                            /\ UNCHANGED <<pc, cur, expected, result, ended>>
    BY DEF TakeLine
<1>2. /\ pc = "expect" /\ UNCHANGED <<wire, todo, slipped>>
      /\ buffer \in Seq(Piece) /\ wire \in Seq(Piece) /\ cur \in Nat /\ found \in Nat
    BY DEF IInv, Types, TakeLine, modem
<1>3. nl \in 1 .. Len(buffer) /\ 1 \in 1 .. nl /\ 1 \in 1 .. Len(buffer) /\ nl + 1 \in Nat \ {0} /\ Len(buffer) \in Nat
    BY <1>2 DEF Newlines
<1>4. line \in Piece
    BY <1>2, <1>3
<1>41. line.of \in Nat
    BY <1>4 DEF Piece
<1>5. /\ buffer' \in Seq(Piece)
      /\ Belongs(buffer, cur) => Belongs(buffer', cur)
      /\ Nobodys(buffer) => Nobodys(buffer')
      /\ HasEnd(buffer') => HasEnd(buffer)
    <2>1. Len(buffer) <= Len(buffer)
        BY <1>3
    <2>2. \A a \in Nat \ {0}, b \in Nat : b <= Len(buffer) /\ HasEnd(SubSeq(buffer, a, b)) => HasEnd(buffer)
        BY <1>2, EndsComeFrom
    <2> QED BY <1>1, <1>2, <1>3, <2>1, <2>2, PartBelongs
<1> HIDE DEF line
<1>6. Types'
    BY <1>11, <1>2, <1>41, <1>5 DEF IInv, Types, Ends
<1>7. ASSUME InStep, IsFinal(line) PROVE InStep'
    <2>1. Belongs(buffer, cur) /\ cur > 0 /\ line.text \in Ending /\ found \in {0, cur}
        BY <1>2, <1>7 DEF InStep, IsFinal, Ending
    <2>2. HasEnd(buffer) /\ ~Nobodys(buffer) /\ line.of = cur
        BY <1>3, <2>1 DEF HasEnd, Nobodys, Belongs, line
    <2>3. Nobodys(wire) /\ todo = <<>>
        BY <1>2, <1>7, <2>2 DEF InStep
    <2>4. Nobodys(buffer')
        BY <1>1, <1>2, <1>3, <2>1, BehindTheEnd DEF line
    <2>5. pc' = "idle" /\ cur' = cur /\ ended' = cur /\ result'.response \in {0, cur}
        BY <1>11, <1>7, <2>1, <2>2 DEF Ends
    <2> QED BY <1>2, <2>3, <2>4, <2>5 DEF InStep, AnswersMatch
<1>8. ASSUME InStep, ~IsFinal(line) PROVE InStep'
    <2>1. Belongs(buffer, cur) /\ found \in {0, cur}
        BY <1>2, <1>8 DEF InStep
    <2>2. line.of \in {0, cur}
        BY <1>3, <2>1 DEF Belongs, line
    <2>3. found' \in {0, cur} /\ UNCHANGED <<pc, cur, result, ended>>
        BY <1>11, <1>8, <2>1, <2>2
    <2> QED BY <1>2, <1>5, <1>8, <2>3 DEF InStep, AnswersMatch
<1> QED BY <1>2, <1>6, <1>7, <1>8 DEF IInv

\* Every step keeps the invariant.
LEMMA NextPreserves == IInv /\ [Next]_vars => IInv'
<1> SUFFICES ASSUME IInv, [Next]_vars PROVE IInv'
    OBVIOUS
<1>1. CASE UNCHANGED vars
    BY <1>1 DEF vars, host, modem, IInv, Types, InStep, AnswersMatch
<1>2. CASE Next
    BY <1>2, EmitKeeps, ReadKeeps, GivesUpKeeps, TakeLineKeeps, AnswerKeeps, UnsolicitedKeeps DEF Next, Host
<1> QED BY <1>1, <1>2

\* As long as no command was given up, at_expect hands every command its own
\* answer and ends it with its own OK, for every size of the buffer and of lines,
\* and however many commands and unsolicited lines there are.
THEOREM AnswersAlwaysMatch == Spec => []AnswersMatch
<1>1. Init => IInv
    BY InitEstablishes
<1>2. IInv /\ [Next]_vars => IInv'
    BY NextPreserves
<1>3. IInv => AnswersMatch
    BY Zenon DEF IInv, InStep, AnswersMatch
<1> QED BY <1>1, <1>2, <1>3, PTL DEF Spec

-----------------------------------------------------------------------------
(* Ends are taken in order, whatever was given up.                         *)

\* What is left of a stream that is cut at its front.
LEMMA CutPieces ==
    ASSUME NEW s \in Seq(Piece), NEW n \in 0 .. Len(s)
    PROVE  /\ SubSeq(s, n + 1, Len(s)) \in Seq(Piece) /\ Len(SubSeq(s, n + 1, Len(s))) = Len(s) - n
           /\ \A i \in 1 .. Len(SubSeq(s, n + 1, Len(s))) : SubSeq(s, n + 1, Len(s))[i] = s[n + i]
    OBVIOUS

\* A stream is cut at its front (LineTooLong, TakeLine): what remains is whole.
LEMMA CutWhole ==
    ASSUME NEW s \in Seq(Piece), NEW n \in 0 .. Len(s), Whole(s)
    PROVE  Whole(SubSeq(s, n + 1, Len(s))) /\ SubSeq(s, n + 1, Len(s)) \in Seq(Piece)
<1> DEFINE u == SubSeq(s, n + 1, Len(s))
<1>1. u \in Seq(Piece) /\ Len(u) = Len(s) - n /\ Len(s) \in Nat /\ n \in Nat
    OBVIOUS
<1>2. ASSUME NEW i \in 1 .. Len(u) PROVE u[i] = s[n + i] /\ n + i \in 1 .. Len(s)
    BY <1>1
<1> HIDE DEF u
<1>3. ASSUME NEW i \in 2 .. Len(u), u[i].first PROVE u[i - 1].last
    <2>1. i \in 1 .. Len(u) /\ i - 1 \in 1 .. Len(u) /\ n + i \in 2 .. Len(s) /\ n + (i - 1) = (n + i) - 1
        BY <1>1
    <2>2. u[i] = s[n + i] /\ u[i - 1] = s[(n + i) - 1]
        BY <1>2, <2>1
    <2> QED BY <1>3, <2>1, <2>2 DEF Whole
<1>4. ASSUME u # <<>> PROVE u[Len(u)].last
    <2>1. Len(u) \in 1 .. Len(u) /\ n + Len(u) = Len(s) /\ s # <<>>
        BY <1>1, <1>4
    <2> QED BY <1>2, <2>1 DEF Whole
<1>5. Whole(u)
    BY <1>3, <1>4 DEF Whole
<1> QED BY <1>1, <1>5 DEF u

\* A whole stream behind a whole stream is whole.
LEMMA JoinWhole ==
    ASSUME NEW s \in Seq(Piece), NEW t \in Seq(Piece), Whole(s), Whole(t)
    PROVE  Whole(s \o t)
<1> DEFINE u == s \o t
<1>1. u \in Seq(Piece) /\ Len(u) = Len(s) + Len(t) /\ Len(s) \in Nat /\ Len(t) \in Nat
    OBVIOUS
<1>2. \A i \in 1 .. Len(s) : u[i] = s[i]
    OBVIOUS
<1>3. \A i \in 1 .. Len(u) : i > Len(s) => u[i] = t[i - Len(s)]
    BY <1>1
<1>4. s = <<>> <=> Len(s) = 0
    OBVIOUS
<1>5. t = <<>> <=> Len(t) = 0
    OBVIOUS
<1>6. u = <<>> <=> Len(u) = 0
    BY <1>1
<1> HIDE DEF u
<1>7. ASSUME NEW i \in 2 .. Len(u), u[i].first PROVE u[i - 1].last
    <2>1. CASE i <= Len(s)
        BY <1>1, <1>2, <1>7, <2>1 DEF Whole
    <2>2. CASE i = Len(s) + 1
        BY <1>1, <1>2, <1>4, <1>7, <2>2 DEF Whole
    <2>3. CASE i > Len(s) + 1
        <3>1. /\ i - Len(s) \in 2 .. Len(t) /\ (i - 1) - Len(s) = (i - Len(s)) - 1
              /\ i \in 1 .. Len(u) /\ i - 1 \in 1 .. Len(u) /\ i - 1 > Len(s) /\ i > Len(s)
            BY <1>1, <2>3
        <3>2. u[i] = t[i - Len(s)]
            BY <1>3, <3>1
        <3>3. u[i - 1] = t[(i - 1) - Len(s)]
            BY <1>3, <3>1
        <3> QED BY <1>7, <3>1, <3>2, <3>3, Zenon DEF Whole
    <2> QED BY <1>1, <2>1, <2>2, <2>3
<1>8. ASSUME u # <<>> PROVE u[Len(u)].last
    <2>1. CASE t = <<>>
        BY <1>1, <1>2, <1>4, <1>5, <1>6, <1>8, <2>1 DEF Whole
    <2>2. CASE t # <<>>
        <3>1. Len(u) \in 1 .. Len(u) /\ Len(u) > Len(s) /\ Len(u) - Len(s) = Len(t)
            BY <1>1, <1>5, <2>2
        <3>2. u[Len(u)] = t[Len(t)]
            BY <1>3, <3>1
        <3> QED BY <2>2, <3>2 DEF Whole
    <2> QED BY <2>1, <2>2
<1>9. Whole(u)
    BY <1>7, <1>8 DEF Whole
<1> QED BY <1>9 DEF u

\* A stream loses a part at its front that has no end: the queue stays.
LEMMA CutQueued ==
    ASSUME NEW s \in Seq(Piece), NEW t \in Seq(Command), NEW o, NEW n \in 0 .. Len(s), Queued(s, o, t),
           \A i \in 1 .. n : ~IsEnd(s[i])
    PROVE  Queued(SubSeq(s, n + 1, Len(s)), o, t)
<1> DEFINE u == SubSeq(s, n + 1, Len(s))
<1>1. u \in Seq(Piece) /\ Len(u) = Len(s) - n /\ Len(s) \in Nat /\ n \in Nat
    OBVIOUS
<1>2. \A i \in 1 .. Len(u) : u[i] = s[n + i] /\ n + i \in 1 .. Len(s)
    BY <1>1
<1> HIDE DEF u
<1>3. \A i \in 1 .. Len(u) : IsEnd(u[i]) => u[i].first /\ u[i].last /\ u[i].of \in o
    BY <1>2 DEF Queued
<1>4. ASSUME NEW i \in 1 .. Len(u), NEW j \in 1 .. Len(u), i < j, IsEnd(u[i]), IsEnd(u[j]) PROVE u[i].of < u[j].of
    <2>1. u[i] = s[n + i] /\ u[j] = s[n + j] /\ n + i \in 1 .. Len(s) /\ n + j \in 1 .. Len(s)
        BY <1>2, Zenon
    <2>2. n + i < n + j
        BY <1>1, <1>4
    <2> QED BY <1>4, <2>1, <2>2 DEF Queued
<1>5. \A i \in 1 .. Len(u), j \in 1 .. Len(t) : IsEnd(u[i]) => u[i].of < t[j].of
    BY <1>2, Zenon DEF Queued
<1>6. ASSUME NEW c \in o, ~\E j \in 1 .. Len(t) : t[j].of = c PROVE \E i \in 1 .. Len(u) : IsEnd(u[i]) /\ u[i].of = c
    <2>1. PICK i \in 1 .. Len(s) : IsEnd(s[i]) /\ s[i].of = c
        BY <1>6 DEF Queued
    <2>2. i - n \in 1 .. Len(u) /\ n + (i - n) = i
        BY <1>1, <2>1
    <2>3. u[i - n] = s[i]
        BY <1>2, <2>2
    <2> QED BY <2>1, <2>2, <2>3
<1>7. /\ \A i \in 1 .. Len(t) : t[i].of \in o
      /\ \A i, j \in 1 .. Len(t) : i < j => t[i].of < t[j].of
    BY DEF Queued
<1>8. Queued(u, o, t)
    BY <1>3, <1>4, <1>5, <1>6, <1>7 DEF Queued
<1> QED BY <1>8 DEF u

\* An end is taken from the front (TakeLine): it is the oldest, and the others stay.
LEMMA TakeEnd ==
    ASSUME NEW s \in Seq(Piece), NEW t \in Seq(Command), NEW o \in SUBSET Nat, Queued(s, o, t),
           s # <<>>, IsEnd(s[1])
    PROVE  /\ s[1].of \in o /\ \A c \in o : s[1].of <= c
           /\ Queued(SubSeq(s, 2, Len(s)), o \ {s[1].of}, t)
<1> DEFINE u == SubSeq(s, 2, Len(s))
           rest == o \ {s[1].of}
<1>0. Len(s) \in Nat /\ Len(s) >= 1
    OBVIOUS
<1>01. u \in Seq(Piece)
    OBVIOUS
<1>02. Len(u) = Len(s) - 1
    <2>1. 1 \in 0 .. Len(s) /\ 1 + 1 = 2
        BY <1>0
    <2> QED BY <2>1, CutPieces, Zenon
<1>1. u \in Seq(Piece) /\ Len(u) = Len(s) - 1 /\ Len(s) \in Nat /\ 1 \in 1 .. Len(s)
    BY <1>0, <1>01, <1>02
<1>2. \A i \in 1 .. Len(u) : u[i] = s[i + 1] /\ i + 1 \in 1 .. Len(s)
    BY <1>1
<1>3. s[1].of \in o /\ s[1].of \in Nat /\ \A c \in o : c \in Nat
    BY <1>1, Zenon DEF Queued
<1>4. \A i \in 1 .. Len(s) : IsEnd(s[i]) => s[i].of \in o
    BY DEF Queued
<1>5. \A j \in 1 .. Len(t) : t[j].of \in o /\ s[1].of < t[j].of
    BY <1>1 DEF Queued
<1>6. \A i \in 2 .. Len(s) : IsEnd(s[i]) => s[1].of < s[i].of
    BY <1>1 DEF Queued
<1> HIDE DEF u
<1>7. ASSUME NEW c \in o PROVE s[1].of <= c
    <2>1. CASE \E j \in 1 .. Len(t) : t[j].of = c
        <3>1. PICK j \in 1 .. Len(t) : t[j].of = c
            BY <2>1
        <3>2. s[1].of < c
            BY <1>5, <3>1
        <3> QED BY <1>3, <3>2
    <2>2. CASE \E i \in 1 .. Len(s) : IsEnd(s[i]) /\ s[i].of = c
        <3>1. PICK i \in 1 .. Len(s) : IsEnd(s[i]) /\ s[i].of = c
            BY <2>2
        <3>2. i = 1 \/ i \in 2 .. Len(s)
            BY <1>1
        <3>3. s[1].of = c \/ s[1].of < c
            BY <1>6, <3>1, <3>2
        <3> QED BY <1>3, <3>3
    <2> QED BY <2>1, <2>2 DEF Queued
<1>8. \A i \in 1 .. Len(u) : IsEnd(u[i]) => u[i].first /\ u[i].last /\ u[i].of \in rest
    <2>1. ASSUME NEW i \in 1 .. Len(u), IsEnd(u[i]) PROVE u[i].first /\ u[i].last /\ u[i].of \in rest
        <3>1. u[i] = s[i + 1] /\ i + 1 \in 1 .. Len(s) /\ i + 1 \in 2 .. Len(s)
            BY <1>1, <1>2
        <3>2. s[i + 1].of \in o /\ s[1].of < s[i + 1].of /\ s[i + 1].first /\ s[i + 1].last
            BY <1>6, <2>1, <3>1 DEF Queued
        <3>3. s[i + 1].of # s[1].of
            BY <1>3, <3>2
        <3> QED BY <3>1, <3>2, <3>3
    <2> QED BY <2>1
<1>9. ASSUME NEW i \in 1 .. Len(u), NEW j \in 1 .. Len(u), i < j, IsEnd(u[i]), IsEnd(u[j]) PROVE u[i].of < u[j].of
    <2>1. u[i] = s[i + 1] /\ u[j] = s[j + 1] /\ i + 1 \in 1 .. Len(s) /\ j + 1 \in 1 .. Len(s)
        BY <1>2
    <2>2. i + 1 < j + 1
        BY <1>1, <1>9
    <2> QED BY <1>9, <2>1, <2>2, Zenon DEF Queued
<1>10. \A i \in 1 .. Len(u), j \in 1 .. Len(t) : IsEnd(u[i]) => u[i].of < t[j].of
    BY <1>2, Zenon DEF Queued
<1>11. ASSUME NEW i \in 1 .. Len(t) PROVE t[i].of \in rest
    <2>1. t[i].of \in o /\ s[1].of < t[i].of
        BY <1>5
    <2>2. t[i].of # s[1].of
        BY <1>3, <2>1
    <2> QED BY <2>1, <2>2
<1>12. ASSUME NEW c \in rest, ~\E j \in 1 .. Len(t) : t[j].of = c PROVE \E i \in 1 .. Len(u) : IsEnd(u[i]) /\ u[i].of = c
    <2>1. PICK i \in 1 .. Len(s) : IsEnd(s[i]) /\ s[i].of = c
        BY <1>12, Zenon DEF Queued
    <2>2. i - 1 \in 1 .. Len(u) /\ (i - 1) + 1 = i
        <3>1. i # 1
            BY <2>1
        <3> QED BY <1>1, <3>1
    <2>3. u[i - 1] = s[i]
        BY <1>2, <2>2
    <2> QED BY <2>1, <2>2, <2>3, Zenon
<1>13. \A i, j \in 1 .. Len(t) : i < j => t[i].of < t[j].of
    BY DEF Queued
<1> HIDE DEF rest
<1>14. Queued(u, rest, t)
    BY <1>8, <1>9, <1>10, <1>11, <1>12, <1>13 DEF Queued
<1> QED BY <1>3, <1>7, <1>14 DEF u, rest

\* Pieces without an end come in (Answer, Unsolicited): the queue stays.
LEMMA JoinQueued ==
    ASSUME NEW s \in Seq(Piece), NEW b \in Seq(Piece), NEW t \in Seq(Command), NEW o, Queued(s, o, t),
           \A i \in 1 .. Len(b) : ~IsEnd(b[i])
    PROVE  Queued(s \o b, o, t)
<1> DEFINE u == s \o b
<1>1. Len(u) = Len(s) + Len(b) /\ Len(s) \in Nat /\ Len(b) \in Nat
    OBVIOUS
<1>2. \A i \in 1 .. Len(u) :
        \/ i \in 1 .. Len(s) /\ u[i] = s[i]
        \/ i > Len(s) /\ i - Len(s) \in 1 .. Len(b) /\ u[i] = b[i - Len(s)]
    BY <1>1
<1>3. \A i \in 1 .. Len(s) : i \in 1 .. Len(u) /\ u[i] = s[i]
    BY <1>1
<1> HIDE DEF u
<1>4. \A i \in 1 .. Len(u) : IsEnd(u[i]) => i \in 1 .. Len(s) /\ u[i] = s[i]
    BY <1>2, Zenon
<1>5. Queued(u, o, t)
    BY <1>3, <1>4, Zenon DEF Queued
<1> QED BY <1>5 DEF u

\* The end of the modem's next command comes in (Answer): it moves from the
\* commands to the stream, the last end there.
LEMMA EndQueued ==
    ASSUME NEW s \in Seq(Piece), NEW e \in Piece, NEW t \in Seq(Command), NEW o, Queued(s, o, t),
           t # <<>>, IsEnd(e), e.first, e.last, e.of = t[1].of
    PROVE  Queued(Append(s, e), o, Tail(t))
<1> DEFINE u == Append(s, e)
           r == Tail(t)
<1>1. Len(u) = Len(s) + 1 /\ Len(s) \in Nat /\ Len(t) \in Nat
    OBVIOUS
<1>2. \A i \in 1 .. Len(s) : i \in 1 .. Len(u) /\ u[i] = s[i]
    BY <1>1
<1>3. u[Len(u)] = e /\ Len(u) \in 1 .. Len(u)
    BY <1>1
<1>4. \A i \in 1 .. Len(u) : i = Len(u) \/ i \in 1 .. Len(s)
    BY <1>1
<1>5. Len(r) = Len(t) - 1 /\ Len(t) >= 1
    OBVIOUS
<1>6. \A i \in 1 .. Len(r) : r[i] = t[i + 1] /\ i + 1 \in 1 .. Len(t) /\ 1 < i + 1
    BY <1>5
<1>7. \A i \in 1 .. Len(t) : i = 1 \/ (i - 1 \in 1 .. Len(r) /\ r[i - 1] = t[i])
    BY <1>5, <1>6
<1>8. 1 \in 1 .. Len(t)
    BY <1>1, <1>5
<1> HIDE DEF u, r
<1>9. \A i \in 1 .. Len(u) : IsEnd(u[i]) => u[i].first /\ u[i].last /\ u[i].of \in o
    BY <1>2, <1>3, <1>4, <1>8 DEF Queued
<1>10. ASSUME NEW i \in 1 .. Len(u), NEW j \in 1 .. Len(u), i < j, IsEnd(u[i]), IsEnd(u[j]) PROVE u[i].of < u[j].of
    <2>1. i \in 1 .. Len(s) /\ u[i] = s[i]
        BY <1>1, <1>2, <1>4, <1>10
    <2>2. CASE j = Len(u)
        BY <1>3, <1>8, <1>10, <2>1, <2>2, Zenon DEF Queued
    <2>3. CASE j \in 1 .. Len(s)
        BY <1>2, <1>10, <2>1, <2>3, Zenon DEF Queued
    <2> QED BY <1>4, <2>2, <2>3
<1>11. \A i \in 1 .. Len(r) : r[i].of \in o
    BY <1>6, Zenon DEF Queued
<1>12. ASSUME NEW i \in 1 .. Len(r), NEW j \in 1 .. Len(r), i < j PROVE r[i].of < r[j].of
    <2>1. r[i] = t[i + 1] /\ r[j] = t[j + 1] /\ i + 1 \in 1 .. Len(t) /\ j + 1 \in 1 .. Len(t)
        BY <1>6
    <2>2. i + 1 < j + 1
        BY <1>1, <1>5, <1>12
    <2> QED BY <2>1, <2>2 DEF Queued
<1>13. ASSUME NEW i \in 1 .. Len(u), NEW j \in 1 .. Len(r), IsEnd(u[i]) PROVE u[i].of < r[j].of
    <2>1. r[j] = t[j + 1] /\ j + 1 \in 1 .. Len(t) /\ 1 < j + 1
        BY <1>6, Zenon
    <2>2. CASE i = Len(u)
        BY <1>3, <1>8, <2>1, <2>2, Zenon DEF Queued
    <2>3. CASE i \in 1 .. Len(s)
        BY <1>2, <1>13, <2>1, <2>3, Zenon DEF Queued
    <2> QED BY <1>4, <2>2, <2>3
<1>14. ASSUME NEW c \in o
       PROVE  \/ \E i \in 1 .. Len(u) : IsEnd(u[i]) /\ u[i].of = c
              \/ \E j \in 1 .. Len(r) : r[j].of = c
    <2>1. CASE \E i \in 1 .. Len(s) : IsEnd(s[i]) /\ s[i].of = c
        BY <1>2, <2>1, Zenon
    <2>2. CASE \E j \in 1 .. Len(t) : t[j].of = c
        BY <1>3, <1>7, <2>2, Zenon
    <2> QED BY <2>1, <2>2, Zenon DEF Queued
<1>15. Queued(u, o, r)
    BY <1>9, <1>10, <1>11, <1>12, <1>13, <1>14, Zenon DEF Queued
<1> QED BY <1>15 DEF u, r

\* The modem's next command ends in +CME ERROR (Answer), which is no end for
\* at_expect: it leaves the queue.
LEMMA DropQueued ==
    ASSUME NEW s \in Seq(Piece), NEW t \in Seq(Command), NEW o \in SUBSET Nat, Queued(s, o, t), t # <<>>
    PROVE  Queued(s, o \ {t[1].of}, Tail(t))
<1> DEFINE r == Tail(t)
           rest == o \ {t[1].of}
<1>1. Len(r) = Len(t) - 1 /\ Len(t) >= 1 /\ Len(t) \in Nat
    OBVIOUS
<1>2. \A i \in 1 .. Len(r) : r[i] = t[i + 1] /\ i + 1 \in 1 .. Len(t) /\ 1 < i + 1
    BY <1>1
<1>3. \A i \in 1 .. Len(t) : i = 1 \/ (i - 1 \in 1 .. Len(r) /\ r[i - 1] = t[i])
    BY <1>1, <1>2
<1>4. 1 \in 1 .. Len(t)
    BY <1>1
<1>5. t[1].of \in o /\ t[1].of \in Nat
    BY <1>4, Zenon DEF Queued
<1> HIDE DEF r
<1>6. ASSUME NEW i \in 1 .. Len(s), IsEnd(s[i]) PROVE s[i].first /\ s[i].last /\ s[i].of \in rest
    <2>1. s[i].first /\ s[i].last /\ s[i].of \in o /\ s[i].of < t[1].of
        BY <1>4, <1>6 DEF Queued
    <2>2. s[i].of # t[1].of
        BY <1>5, <2>1
    <2> QED BY <2>1, <2>2
<1>7. ASSUME NEW i \in 1 .. Len(r) PROVE r[i].of \in rest
    <2>1. r[i] = t[i + 1] /\ i + 1 \in 1 .. Len(t) /\ 1 < i + 1
        BY <1>2
    <2>2. t[i + 1].of \in o /\ t[1].of < t[i + 1].of
        BY <1>4, <2>1 DEF Queued
    <2>3. t[i + 1].of # t[1].of
        BY <1>5, <2>2
    <2> QED BY <2>1, <2>2, <2>3
<1>8. ASSUME NEW i \in 1 .. Len(r), NEW j \in 1 .. Len(r), i < j PROVE r[i].of < r[j].of
    <2>1. r[i] = t[i + 1] /\ r[j] = t[j + 1] /\ i + 1 \in 1 .. Len(t) /\ j + 1 \in 1 .. Len(t)
        BY <1>2
    <2>2. i + 1 < j + 1
        BY <1>1, <1>8
    <2> QED BY <2>1, <2>2 DEF Queued
<1>9. \A i \in 1 .. Len(s), j \in 1 .. Len(r) : IsEnd(s[i]) => s[i].of < r[j].of
    BY <1>2, Zenon DEF Queued
<1>10. ASSUME NEW c \in rest
       PROVE  \/ \E i \in 1 .. Len(s) : IsEnd(s[i]) /\ s[i].of = c
              \/ \E j \in 1 .. Len(r) : r[j].of = c
    <2>1. c \in o /\ c # t[1].of
        OBVIOUS
    <2>2. CASE \E j \in 1 .. Len(t) : t[j].of = c
        BY <1>3, <2>1, <2>2, Zenon
    <2> QED BY <2>1, <2>2, Zenon DEF Queued
<1>11. \A i, j \in 1 .. Len(s) : i < j /\ IsEnd(s[i]) /\ IsEnd(s[j]) => s[i].of < s[j].of
    BY Zenon DEF Queued
<1> HIDE DEF rest
<1>12. Queued(s, rest, r)
    BY <1>6, <1>7, <1>8, <1>9, <1>10, <1>11 DEF Queued
<1> QED BY <1>12 DEF r, rest

\* A command is given (Emit): it is the youngest, the last of the queue.
LEMMA GiveQueued ==
    ASSUME NEW s \in Seq(Piece), NEW t \in Seq(Command), NEW n \in Nat, NEW o \in SUBSET (1 .. n),
           Queued(s, o, t), NEW c \in Command, c.of = n + 1
    PROVE  Queued(s, o \cup {n + 1}, Append(t, c))
<1> DEFINE r == Append(t, c)
           more == o \cup {n + 1}
<1>1. Len(r) = Len(t) + 1 /\ Len(t) \in Nat
    OBVIOUS
<1>2. \A i \in 1 .. Len(t) : i \in 1 .. Len(r) /\ r[i] = t[i]
    BY <1>1
<1>3. r[Len(r)] = c /\ Len(r) \in 1 .. Len(r)
    BY <1>1
<1>4. \A i \in 1 .. Len(r) : i = Len(r) \/ i \in 1 .. Len(t)
    BY <1>1
<1>5. \A k \in o : k \in Nat /\ k < n + 1
    OBVIOUS
<1> HIDE DEF r
<1>6. \A i \in 1 .. Len(s) : IsEnd(s[i]) => s[i].first /\ s[i].last /\ s[i].of \in more /\ s[i].of < n + 1
    BY <1>5, Zenon DEF Queued
<1>7. \A i \in 1 .. Len(t) : t[i].of \in more /\ t[i].of < n + 1
    BY <1>5, Zenon DEF Queued
<1>8. \A i \in 1 .. Len(r) : r[i].of \in more
    BY <1>2, <1>3, <1>4, <1>7
<1>9. ASSUME NEW i \in 1 .. Len(r), NEW j \in 1 .. Len(r), i < j PROVE r[i].of < r[j].of
    <2>1. i \in 1 .. Len(t) /\ r[i] = t[i]
        BY <1>1, <1>2, <1>4, <1>9
    <2>2. CASE j = Len(r)
        BY <1>3, <1>7, <2>1, <2>2, Zenon
    <2>3. CASE j \in 1 .. Len(t)
        BY <1>2, <1>9, <2>1, <2>3 DEF Queued
    <2> QED BY <1>4, <2>2, <2>3
<1>10. ASSUME NEW i \in 1 .. Len(s), NEW j \in 1 .. Len(r), IsEnd(s[i]) PROVE s[i].of < r[j].of
    <2>1. CASE j = Len(r)
        BY <1>3, <1>6, <1>10, <2>1, Zenon
    <2>2. CASE j \in 1 .. Len(t)
        BY <1>2, <1>10, <2>2, Zenon DEF Queued
    <2> QED BY <1>4, <2>1, <2>2, Zenon
<1>11. ASSUME NEW k \in more
       PROVE  \/ \E i \in 1 .. Len(s) : IsEnd(s[i]) /\ s[i].of = k
              \/ \E j \in 1 .. Len(r) : r[j].of = k
    <2>1. CASE k = n + 1
        BY <1>3, <2>1, Zenon
    <2>2. CASE k \in o
        BY <1>2, <2>2, Zenon DEF Queued
    <2> QED BY <2>1, <2>2
<1>12. \A i, j \in 1 .. Len(s) : i < j /\ IsEnd(s[i]) /\ IsEnd(s[j]) => s[i].of < s[j].of
    BY DEF Queued
<1> HIDE DEF more
<1>13. Queued(s, more, r)
    BY <1>6, <1>8, <1>9, <1>10, <1>11, <1>12 DEF Queued
<1> QED BY <1>13 DEF r, more

\* The queue is empty at first.
LEMMA InitQueue == Init => Queue
<1> SUFFICES ASSUME Init PROVE Queue
    OBVIOUS
<1>1. Stream = <<>> /\ todo = <<>> /\ owed = {} /\ cur = 0
    BY DEF Init, Stream
<1>2. Len(Stream) = 0 /\ Len(todo) = 0
    BY <1>1
<1>3. Whole(Stream)
    BY <1>1, <1>2 DEF Whole
<1>4. Queued(Stream, owed, todo)
    BY <1>1, <1>2 DEF Queued
<1> QED BY <1>1, <1>3, <1>4 DEF Queue

\* Emit gives a command, or fails to.
LEMMA EmitQueue ==
    ASSUME Types, Queue, Emit
    PROVE  Queue'
<1>1. Stream' = Stream /\ cur' = cur + 1 /\ cur \in Nat
    BY DEF Emit, Stream, Types
<1>2. Stream \in Seq(Piece) /\ todo \in Seq(Command)
    BY DEF Stream, Types
<1>3. PICK e \in Prefixes \cup {"none"} :
        \/ todo' = Append(todo, [of |-> cur + 1, expected |-> e]) /\ owed' = owed \cup {cur + 1}
        \/ UNCHANGED <<todo, owed>>
    BY Zenon DEF Emit
<1> DEFINE c == [of |-> cur + 1, expected |-> e]
<1>4. c \in Command /\ c.of = cur + 1
    BY <1>1 DEF Command
<1> HIDE DEF c
<1>5. owed \in SUBSET (1 .. cur) /\ Whole(Stream) /\ Queued(Stream, owed, todo)
    BY DEF Queue
<1>6. CASE todo' = Append(todo, c) /\ owed' = owed \cup {cur + 1}
    <2>1. Queued(Stream, owed', todo')
        BY <1>1, <1>2, <1>4, <1>5, <1>6, GiveQueued, Zenon
    <2>2. owed' \in SUBSET (1 .. cur')
        BY <1>1, <1>5, <1>6
    <2> QED BY <1>1, <1>5, <2>1, <2>2 DEF Queue
<1>7. CASE UNCHANGED <<todo, owed>>
    <2>1. owed' \in SUBSET (1 .. cur')
        BY <1>1, <1>5, <1>7
    <2> QED BY <1>1, <1>5, <1>7, <2>1 DEF Queue
<1> QED BY <1>3, <1>6, <1>7 DEF c

\* Answer puts a whole answer behind the stream, and an end unless it is +CME ERROR.
LEMMA AnswerQueue ==
    ASSUME Types, Queue, Answer
    PROVE  Queue'
<1> DEFINE c == Head(todo)
<1>1. PICK final \in Final, n \in 0 .. MaxPieces :
        /\ c.expected = "none" => n = 0
        /\ wire' = wire \o Line(c.expected, c.of, n) \o Line(final, c.of, 1)
        /\ owed' = IF final = "CME" THEN owed \ {c.of} ELSE owed
    BY Zenon DEF Answer
<1>2. todo \in Seq(Command) /\ todo # <<>> /\ todo' = Tail(todo) /\ UNCHANGED <<buffer, cur>>
    BY DEF Types, Answer, host
<1>3. c \in Command /\ c = todo[1] /\ todo' \in Seq(Command)
    BY <1>2
<1>4. c.expected \in Prefixes \cup {"none"} /\ c.of \in Nat
    BY <1>3 DEF Command
<1>5. n \in Nat
    BY AtLinesAssumption
<1> HIDE DEF c
<1> DEFINE body == Line(c.expected, c.of, n)
           end == [text |-> final, of |-> c.of, first |-> TRUE, last |-> TRUE]
<1>6. /\ body \in Seq(Piece) /\ Len(body) = n
      /\ \A i \in 1 .. n : body[i].text = c.expected /\ body[i].first = (i = 1) /\ body[i].last = (i = n)
    <2>1. c.expected \in Prefixes \cup Final \cup {"none", "URC"}
        BY <1>4
    <2>2. \A k \in 1 .. n : [text |-> c.expected, of |-> c.of, first |-> k = 1, last |-> k = n] \in Piece
        BY <1>4, <2>1 DEF Piece
    <2> QED BY <1>5, <2>2 DEF Line
<1>7. end \in Piece
    BY <1>4 DEF Piece
<1>8. Line(final, c.of, 1) = <<end>>
    <2>1. ASSUME NEW k \in 1 .. 1 PROVE k = 1
        OBVIOUS
    <2>2. \A k \in 1 .. 1 : [text |-> final, of |-> c.of, first |-> k = 1, last |-> k = 1] = end
        BY <2>1, Zenon
    <2>3. Line(final, c.of, 1) = [k \in 1 .. 1 |-> end]
        BY <2>2, Zenon DEF Line
    <2> HIDE DEF end
    <2>4. <<end>> = [k \in 1 .. 1 |-> end]
        OBVIOUS
    <2> QED BY <2>3, <2>4, Zenon
<1>9. end.text = final /\ end.first /\ end.last /\ end.of = c.of
    BY Zenon
<1>10. wire' = wire \o body \o <<end>>
    BY <1>1, <1>8, Zenon
<1>11. buffer \in Seq(Piece) /\ wire \in Seq(Piece) /\ Stream \in Seq(Piece)
    BY DEF Types, Stream
<1> HIDE DEF body, end
<1>12. Stream' = Append(Stream \o body, end) /\ Stream' = (Stream \o body) \o <<end>> /\ Stream \o body \in Seq(Piece)
    <2>1. Stream' = buffer \o (wire \o body \o <<end>>)
        BY <1>2, <1>10 DEF Stream
    <2>2. buffer \o (wire \o body \o <<end>>) = ((buffer \o wire) \o body) \o <<end>>
        BY <1>6, <1>7, <1>11
    <2>3. Stream \o body \in Seq(Piece)
        BY <1>6, <1>11
    <2>4. (Stream \o body) \o <<end>> = Append(Stream \o body, end)
        BY <1>7, <2>3
    <2> QED BY <2>1, <2>2, <2>3, <2>4, Zenon DEF Stream
<1>13. owed \in SUBSET (1 .. cur) /\ Whole(Stream) /\ Queued(Stream, owed, todo) /\ owed \in SUBSET Nat
    BY DEF Queue, Types
<1>14. Whole(body)
    <2>1. \A i \in 2 .. n : i \in 1 .. n /\ i # 1
        BY <1>5
    <2>2. body # <<>> => n \in 1 .. n
        BY <1>5, <1>6
    <2> QED BY <1>6, <2>1, <2>2, Zenon DEF Whole
<1>15. <<end>> \in Seq(Piece) /\ Whole(<<end>>)
    BY <1>7, <1>9 DEF Whole
<1>16. Whole(Stream')
    <2>1. Whole(Stream \o body)
        BY <1>6, <1>11, <1>13, <1>14, JoinWhole
    <2> QED BY <1>12, <1>15, <2>1, JoinWhole, Zenon
<1>17. Queued(Stream \o body, owed, todo)
    <2>1. \A i \in 1 .. Len(body) : ~IsEnd(body[i])
        BY <1>1, <1>4, <1>6, AtLinesAssumption DEF IsEnd, Ending
    <2> QED BY <1>2, <1>6, <1>11, <1>13, <2>1, JoinQueued, Zenon
<1>18. CASE final = "CME"
    <2>1. owed' = owed \ {todo[1].of}
        BY <1>1, <1>3, <1>18, Zenon
    <2>2. Queued(Stream \o body, owed', todo')
        BY <1>2, <1>12, <1>13, <1>17, <2>1, DropQueued, Zenon
    <2>3. \A i \in 1 .. Len(<<end>>) : ~IsEnd(<<end>>[i])
        BY <1>9, <1>18 DEF IsEnd, Ending
    <2>4. Queued(Stream', owed', todo')
        BY <1>3, <1>12, <1>15, <2>2, <2>3, JoinQueued, Zenon
    <2>5. owed' \in SUBSET (1 .. cur')
        BY <1>2, <1>13, <2>1, Zenon
    <2> QED BY <1>16, <2>4, <2>5 DEF Queue
<1>19. CASE final # "CME"
    <2>1. owed' = owed
        BY <1>1, <1>19
    <2>2. IsEnd(end)
        BY <1>9, <1>19 DEF IsEnd, Ending, Final
    <2>3. Queued(Stream', owed, todo')
        BY <1>2, <1>3, <1>7, <1>9, <1>12, <1>17, <2>2, EndQueued, Zenon
    <2> QED BY <1>2, <1>13, <1>16, <2>1, <2>3 DEF Queue
<1> QED BY <1>18, <1>19

\* Unsolicited puts a line behind the stream that is no end.
LEMMA UnsolicitedQueue ==
    ASSUME Types, Queue, Unsolicited
    PROVE  Queue'
<1> DEFINE urc == Line("URC", 0, 1)
<1>1. urc \in Seq(Piece) /\ Len(urc) = 1 /\ urc[1].text = "URC" /\ urc[1].last = TRUE
    <2>1. urc \in Seq(Piece) /\ Len(urc) = 1 /\ urc[1].text = "URC"
        BY DEF Line, Piece
    <2>2. \A i \in 1 .. 1 : urc[i].last = (i = 1)
        BY DEF Line
    <2>3. 1 \in 1 .. 1
        OBVIOUS
    <2>4. urc[1].last = TRUE
        BY <2>2, <2>3, Zenon
    <2> QED BY <2>1, <2>4, Zenon
<1>2. wire' = wire \o urc /\ UNCHANGED <<buffer, cur, todo, owed>>
    BY DEF Unsolicited, host
<1> HIDE DEF urc
<1>3. buffer \in Seq(Piece) /\ wire \in Seq(Piece) /\ Stream \in Seq(Piece) /\ todo \in Seq(Command)
    BY DEF Types, Stream
<1>4. Stream' = Stream \o urc
    <2>1. urc \in Seq(Piece)
        BY <1>1
    <2>2. buffer \o (wire \o urc) = (buffer \o wire) \o urc
        BY <1>3, <2>1
    <2> QED BY <1>2, <2>2, Zenon DEF Stream
<1>5. Whole(urc)
    BY <1>1 DEF Whole
<1>6. \A i \in 1 .. Len(urc) : ~IsEnd(urc[i])
    BY <1>1 DEF IsEnd, Ending
<1>7. Whole(Stream') /\ Queued(Stream', owed, todo)
    BY <1>1, <1>3, <1>4, <1>5, <1>6, JoinWhole, JoinQueued, Zenon DEF Queue
<1> QED BY <1>2, <1>7 DEF Queue

\* Read moves the cut between the buffer and the port, not the stream.
LEMMA ReadQueue ==
    ASSUME Types, Queue, Read
    PROVE  Queue'
<1>1. PICK n \in 1 .. Room - Len(buffer) :
        /\ n <= Len(wire)
        /\ buffer' = buffer \o SubSeq(wire, 1, n)
        /\ wire' = SubSeq(wire, n + 1, Len(wire))
    BY Zenon DEF Read
<1>2. buffer \in Seq(Piece) /\ wire \in Seq(Piece) /\ UNCHANGED <<cur, todo, owed>>
    BY DEF Types, Read
<1>3. n \in 1 .. Len(wire)
    BY <1>1, <1>2, AtLinesAssumption
<1> DEFINE a == SubSeq(wire, 1, n)
           b == SubSeq(wire, n + 1, Len(wire))
<1>4. a \in Seq(Piece) /\ b \in Seq(Piece)
    BY <1>2, <1>3
<1>5. a \o b = wire
    BY <1>2, <1>3
<1> HIDE DEF a, b
<1>6. (buffer \o a) \o b = buffer \o (a \o b)
    BY <1>2, <1>4
<1>7. Stream' = Stream
    BY <1>1, <1>5, <1>6, Zenon DEF Stream, a, b
<1> QED BY <1>2, <1>7 DEF Queue

\* What is cut from the buffer is cut from the stream.
LEMMA CutStream ==
    ASSUME Types, NEW n \in 0 .. Len(buffer)
    PROVE  /\ SubSeq(buffer, n + 1, Len(buffer)) \o wire = SubSeq(Stream, n + 1, Len(Stream))
           /\ Stream \in Seq(Piece) /\ n \in 0 .. Len(Stream)
           /\ \A i \in 1 .. Len(buffer) : Stream[i] = buffer[i]
<1>1. buffer \in Seq(Piece) /\ wire \in Seq(Piece)
    BY DEF Types
<1>2. Stream \in Seq(Piece) /\ Len(Stream) = Len(buffer) + Len(wire) /\ n \in 0 .. Len(Stream)
    BY <1>1 DEF Stream
<1>3. \A i \in 1 .. Len(buffer) : Stream[i] = buffer[i]
    BY <1>1 DEF Stream
<1>4. SubSeq(buffer, n + 1, Len(buffer)) \o wire = SubSeq(Stream, n + 1, Len(Stream))
    <2> DEFINE a == SubSeq(buffer, n + 1, Len(buffer))
               b == SubSeq(Stream, n + 1, Len(Stream))
    <2>1. a \in Seq(Piece) /\ Len(a) = Len(buffer) - n /\ \A i \in 1 .. Len(a) : a[i] = buffer[n + i]
        BY <1>1
    <2>2. b \in Seq(Piece) /\ Len(b) = Len(Stream) - n /\ \A i \in 1 .. Len(b) : b[i] = Stream[n + i]
        BY <1>2, CutPieces
    <2>3. \A i \in 1 .. Len(Stream) : i > Len(buffer) => Stream[i] = wire[i - Len(buffer)]
        BY <1>1, <1>2 DEF Stream
    <2> HIDE DEF a, b
    <2>4. a \o wire \in Seq(Piece) /\ Len(a \o wire) = Len(b)
        <3>1. a \o wire \in Seq(Piece) /\ Len(a \o wire) = Len(a) + Len(wire)
            BY <1>1, <2>1
        <3>2. Len(buffer) \in Nat /\ Len(wire) \in Nat
            BY <1>1
        <3> QED BY <1>2, <2>1, <2>2, <3>1, <3>2
    <2>5. ASSUME NEW i \in 1 .. Len(b) PROVE (a \o wire)[i] = b[i]
        <3>1. Len(buffer) \in Nat /\ Len(wire) \in Nat /\ Len(a) \in Nat /\ Len(b) = Len(a) + Len(wire)
            BY <1>1, <1>2, <2>1, <2>2
        <3>2. CASE i <= Len(a)
            <4>1. i \in 1 .. Len(a) /\ n + i \in 1 .. Len(buffer)
                BY <2>1, <3>1, <3>2
            <4>2. (a \o wire)[i] = a[i]
                BY <1>1, <2>1, <4>1
            <4> QED BY <1>3, <2>1, <2>2, <4>1, <4>2
        <3>3. CASE i > Len(a)
            <4>1. /\ n + i \in 1 .. Len(Stream) /\ n + i > Len(buffer)
                  /\ (n + i) - Len(buffer) = i - Len(a)
                BY <1>2, <2>1, <3>1, <3>3
            <4>2. (a \o wire)[i] = wire[i - Len(a)]
                BY <1>1, <2>1, <3>1, <3>3
            <4>3. Stream[n + i] = wire[(n + i) - Len(buffer)]
                BY <2>3, <4>1
            <4> QED BY <2>2, <4>1, <4>2, <4>3, Zenon
        <3> QED BY <3>1, <3>2, <3>3
    <2>6. a \o wire = b
        BY <2>2, <2>4, <2>5
    <2> QED BY <2>6, Zenon DEF a, b
<1> QED BY <1>2, <1>3, <1>4, Zenon

\* A command is given up (PollOrReadFails, LineTooLong): a buffer that is dropped
\* has no newline, and so no end.
LEMMA GivesUpQueue ==
    ASSUME Types, Queue, PollOrReadFails \/ LineTooLong
    PROVE  Queue'
<1>1. UNCHANGED <<cur, wire, todo, owed>>
    BY DEF PollOrReadFails, LineTooLong, GivesUp, Ends, modem
<1>2. CASE PollOrReadFails
    <2>1. buffer' = buffer
        BY <1>2 DEF PollOrReadFails
    <2> QED BY <1>1, <2>1 DEF Queue, Stream
<1>3. CASE LineTooLong
    <2>1. buffer' = <<>> /\ Newlines = {}
        BY <1>3 DEF LineTooLong
    <2>2. buffer \in Seq(Piece) /\ wire \in Seq(Piece) /\ todo \in Seq(Command)
        BY DEF Types
    <2> DEFINE n == Len(buffer)
    <2>3. n \in 0 .. Len(buffer)
        BY <2>2
    <2>4. SubSeq(buffer, n + 1, Len(buffer)) = <<>> /\ <<>> \o wire = wire
        BY <2>2
    <2> HIDE DEF n
    <2>5. Stream' = wire
        BY <1>1, <2>1, <2>4 DEF Stream
    <2>6. /\ Stream' = SubSeq(Stream, n + 1, Len(Stream))
          /\ Stream \in Seq(Piece) /\ n \in 0 .. Len(Stream)
          /\ \A i \in 1 .. Len(buffer) : Stream[i] = buffer[i]
        BY <2>3, <2>4, <2>5, CutStream, Zenon
    <2>7. ASSUME NEW i \in 1 .. n PROVE i \in 1 .. Len(Stream) /\ ~Stream[i].last
        <3>1. i \in 1 .. Len(buffer) /\ i \in 1 .. Len(Stream)
            BY <2>2, <2>6 DEF n
        <3>2. ~buffer[i].last
            BY <2>1, <3>1, Zenon DEF Newlines
        <3>3. Stream[i] = buffer[i]
            BY <2>6, <3>1
        <3> QED BY <3>1, <3>2, <3>3, Zenon
    <2>8. \A i \in 1 .. n : ~IsEnd(Stream[i])
        BY <2>7 DEF Queue, Queued
    <2>9. Whole(Stream') /\ Queued(Stream', owed, todo)
        BY <2>2, <2>6, <2>8, CutWhole, CutQueued DEF Queue
    <2> QED BY <1>1, <2>9 DEF Queue
<1> QED BY <1>2, <1>3

\* TakeLine takes the line at the front.  An end is a line of its own, so it is
\* taken as an end, and no other line takes one along.
LEMMA TakeLineQueue ==
    ASSUME Types, Queue, TakeLine
    PROVE  /\ Queue'
           /\ ended' # ended => ended' \in owed /\ \A o \in owed : ended' <= o
<1> DEFINE line == buffer[1]
<1>1. PICK nl \in Newlines : (\A j \in Newlines : nl <= j) /\ buffer' = SubSeq(buffer, nl + 1, Len(buffer))
    BY Zenon DEF TakeLine
<1>2. /\ IsFinal(line) => ended' = line.of /\ owed' = owed \ {line.of}
      /\ ~IsFinal(line) => UNCHANGED <<owed, ended>>
      /\ UNCHANGED <<cur, wire, todo>>
    BY DEF TakeLine, Ends, modem
<1>3. buffer \in Seq(Piece) /\ wire \in Seq(Piece) /\ todo \in Seq(Command)
    BY DEF Types
<1>4. nl \in 1 .. Len(buffer) /\ nl \in 0 .. Len(buffer) /\ 1 \in 1 .. Len(buffer) /\ buffer[nl].last
    BY <1>3 DEF Newlines
<1>5. /\ Stream' = SubSeq(Stream, nl + 1, Len(Stream))
      /\ Stream \in Seq(Piece) /\ nl \in 0 .. Len(Stream)
      /\ \A i \in 1 .. Len(buffer) : Stream[i] = buffer[i]
    <2>1. Stream' = SubSeq(buffer, nl + 1, Len(buffer)) \o wire
        BY <1>1, <1>2 DEF Stream
    <2> QED BY <1>4, <2>1, CutStream, Zenon
<1>6. owed \in SUBSET (1 .. cur) /\ Whole(Stream) /\ Queued(Stream, owed, todo) /\ owed \in SUBSET Nat
    BY DEF Queue, Types
<1>7. Whole(Stream')
    BY <1>5, <1>6, CutWhole
<1>8. ASSUME NEW i \in 1 .. nl, IsEnd(Stream[i]) PROVE i = 1 /\ nl = 1
    <2>1. i \in 1 .. Len(buffer) /\ i \in 1 .. Len(Stream) /\ nl \in Int
        BY <1>4, <1>5
    <2>2. Stream[i].first /\ Stream[i].last
        BY <1>6, <1>8, <2>1 DEF Queued
    <2>3. i \in Newlines
        BY <1>5, <2>1, <2>2 DEF Newlines
    <2>4. i = nl
        BY <1>1, <2>1, <2>3
    <2>5. ASSUME nl # 1 PROVE FALSE
        <3>1. nl \in 2 .. Len(Stream) /\ nl - 1 \in 1 .. Len(buffer) /\ ~(nl <= nl - 1)
            BY <1>4, <1>5, <2>5
        <3>2. Stream[nl - 1].last
            BY <1>6, <2>2, <2>4, <3>1 DEF Whole
        <3>3. nl - 1 \in Newlines
            BY <1>5, <3>1, <3>2, Zenon DEF Newlines
        <3> QED BY <1>1, <3>1, <3>3
    <2> QED BY <2>4, <2>5
<1>9. CASE IsFinal(line)
    <2>1. IsEnd(Stream[1]) /\ Stream[1] = line
        BY <1>4, <1>5, <1>9 DEF IsFinal, IsEnd, Ending
    <2>2. nl = 1 /\ Stream # <<>>
        <3>1. 1 \in 1 .. nl /\ Stream # <<>>
            BY <1>4, <1>5
        <3> QED BY <1>8, <2>1, <3>1
    <2>3. /\ line.of \in owed /\ \A c \in owed : line.of <= c
          /\ Queued(SubSeq(Stream, 2, Len(Stream)), owed \ {line.of}, todo)
        BY <1>3, <1>5, <1>6, <2>1, <2>2, TakeEnd, Zenon
    <2>4. nl + 1 = 2
        BY <2>2
    <2>5. Queued(Stream', owed', todo')
        BY <1>2, <1>5, <1>9, <2>3, <2>4, Zenon
    <2>6. owed' \in SUBSET (1 .. cur')
        BY <1>2, <1>6, <1>9, Zenon
    <2> QED BY <1>2, <1>7, <1>9, <2>3, <2>5, <2>6 DEF Queue
<1>10. CASE ~IsFinal(line)
    <2>1. ASSUME NEW i \in 1 .. nl, IsEnd(Stream[i]) PROVE FALSE
        <3>1. i = 1
            BY <1>8, <2>1
        <3>2. 1 \in 1 .. Len(Stream) /\ Stream[1] = line
            BY <1>4, <1>5
        <3>3. line.first
            BY <1>6, <2>1, <3>1, <3>2 DEF Queued
        <3> QED BY <1>10, <2>1, <3>1, <3>2, <3>3 DEF IsFinal, IsEnd, Ending
    <2>2. Queued(Stream', owed, todo)
        BY <1>3, <1>5, <1>6, <2>1, CutQueued, Zenon
    <2> QED BY <1>2, <1>6, <1>7, <1>10, <2>2, Zenon DEF Queue
<1> QED BY <1>9, <1>10, Zenon

\* Every step keeps the queue, and an end that is taken is the oldest one owed.
LEMMA NextQueue ==
    ASSUME Types, Queue, [Next]_vars
    PROVE  /\ Queue'
           /\ ended' # ended => ended' \in owed /\ \A o \in owed : ended' <= o
<1>1. CASE UNCHANGED vars
    BY <1>1 DEF vars, host, modem, Queue, Stream
<1>2. CASE Emit
    BY <1>2, EmitQueue, Zenon DEF Emit
<1>3. CASE Read
    BY <1>3, ReadQueue, Zenon DEF Read
<1>4. CASE PollOrReadFails \/ LineTooLong
    BY <1>4, GivesUpQueue, Zenon DEF PollOrReadFails, LineTooLong, GivesUp
<1>5. CASE TakeLine
    BY <1>5, TakeLineQueue
<1>6. CASE Answer
    BY <1>6, AnswerQueue, Zenon DEF Answer
<1>7. CASE Unsolicited
    BY <1>7, UnsolicitedQueue DEF Unsolicited
<1> QED BY <1>1, <1>2, <1>3, <1>4, <1>5, <1>6, <1>7 DEF Next, Host

\* Whatever was given up, dropped or unsolicited, at_expect takes the ends in the
\* order of the commands and skips none: a session that has slipped stays behind
\* by the ends it did not wait for.
THEOREM EndsAlwaysInOrder == Spec => EndsInOrder
<1>1. Init => IInv /\ Queue
    BY InitEstablishes, InitQueue
<1>2. IInv /\ Queue /\ [Next]_vars => (IInv /\ Queue)'
    BY NextPreserves, NextQueue DEF IInv
<1>3. IInv /\ Queue /\ [Next]_vars => [ended' # ended => ended' \in owed /\ \A o \in owed : ended' <= o]_vars
    BY NextQueue DEF IInv
<1> QED BY <1>1, <1>2, <1>3, PTL DEF Spec, EndsInOrder
=============================================================================

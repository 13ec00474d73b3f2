--------------------------- MODULE PureOperations ---------------------------
(***************************************************************************)
(* The parts of lpac that keep no state, each applied once to every input  *)
(* of a bounded set and compared with what it is to compute: the DER       *)
(* reader and writer, the text codecs, the parsing of the eUICC's answers  *)
(* and the choices made by environment variables.                          *)
(***************************************************************************)
EXTENDS Responses, Selection

CONSTANTS
    Buffers,      \* byte sequences to unpack
    Tags,         \* tags to pack
    Lengths,      \* lengths of values to pack
    Longs,        \* numbers to convert
    MaxBit,       \* bound: bits 0 .. MaxBit of a bit string
    Digits,       \* texts to convert to BCD
    Padding,      \* field sizes for BCD
    Plains,       \* byte sequences to encode in base64
    MaxItems,     \* bound: elements of a list in an answer
    Iccids,       \* ICCIDs of the profiles and notifications listed
    Environments, \* [ifid, oldIfid, name, ignore]
    ReaderLists,  \* sequences of readers
    Directories,  \* sequences of driver files
    MssTexts      \* values of LPAC_CUSTOM_ES10X_MSS

VARIABLES op, in, out
vars == <<op, in, out>>

Init == op = "none" /\ in = <<>> /\ out = <<>>

Idle == op = "none"

Result(name, args, result) == op' = name /\ in' = args /\ out' = result

-----------------------------------------------------------------------------
(* DER and text.                                                           *)

Fill(n) == [i \in 1 .. n |-> 0]
Leaves == {Leaf(t, Fill(n)) : t \in Tags, n \in Lengths}
Siblings == {<<a>> : a \in Leaves} \cup {<<a, b>> : a, b \in Leaves}

\* Trees as the callers build them: siblings under one tag, one of them
\* headless (a part that was already encoded) or nested once more.
Trees ==
    {<<Parent(t, s)>> : t \in Tags, s \in Siblings}
    \cup {<<Parent(t, <<Headless(Copydata(a)), b>>)>> : t \in Tags, a, b \in Leaves}
    \cup {<<Parent(t, <<Parent(u, <<a>>), b>>)>> : t, u \in Tags, a, b \in Leaves}

Unpack == Idle /\ \E b \in Buffers : Result("unpack", b, UnpackFirst(b, 0, Len(b)))

FindPacked == Idle /\ \E s \in Siblings : \E t \in Tags, n \in Tags :
    LET buffer == Pack(<<Parent(n, s)>>, Huge).buffer
        outer  == UnpackFirst(buffer, 0, Len(buffer))
        inner  == SubSeq(buffer, outer.value + 1, SelfEnd(outer))
    IN Result("find", <<t, s>>, <<inner, FindTag(t, inner)>>)

PackTree == Idle /\ \E tree \in Trees : \E room \in {SizeOf(tree) - 1, SizeOf(tree)} :
    Result("pack", <<tree, room>>, Pack(tree, room))

Convert == Idle /\ \E v \in Longs :
    Result("long", v, LET b == Long2Bin(v, SizeofLong)
                      IN [ret |-> b.ret, buffer |-> b.buffer, back |-> Bin2Long(b.buffer)])

ConvertBits == Idle /\ \E bits \in SUBSET (0 .. MaxBit) :
    Result("bits", bits, Bin2BitsStr(Bits2Bin(bits), MaxBit + 1))

\* A number as set_nickname and enable_disable_delete_profile encode an ICCID,
\* and as the profile list decodes it again.
Bcd == Idle /\ \E s \in Digits, n \in Padding :
    LET room == (Len(s) + 1) \div 2
        bin  == Gsmbcd2Bin(s, IF n > room THEN n ELSE room, n)
    IN Result("bcd", s,
              [ret |-> bin.ret,
               back |-> IF bin.ret > 0 THEN Bin2Gsmbcd(bin.output) ELSE bin])

Base64 == Idle /\ \E p \in Plains :
    Result("base64", p, [coded |-> Encode(p), back |-> Decode(Encode(p))])

-----------------------------------------------------------------------------
(* Answers.  The items of a list are numbers 1, 2, ...; Noise is an element *)
(* of another kind, Broken one that does not parse.                        *)

Noise == 0
Broken == -1

\* The eUICC's own encoding of a tree, in the definite form with the shortest
\* length.
RECURSIVE Bytes(_)
Bytes(node) ==
    LET body   == FoldLeft(LAMBDA sent, child : sent \o Bytes(child), node.value, node.child)
        tag    == IF node.tag >= 256 THEN <<node.tag \div 256, node.tag % 256>> ELSE <<node.tag>>
        length == CASE Len(body) < 128 -> <<Len(body)>>
                    [] Len(body) < 256 -> <<129, Len(body)>>
                    [] OTHER           -> <<130, Len(body) \div 256, Len(body) % 256>>
    IN IF node.headless THEN node.value ELSE tag \o length \o body

Items(elements) == UNION {[1 .. n -> elements] : n \in 0 .. MaxItems}

\* The items in front of the first broken one.
Received(items) ==
    LET broken == {i \in DOMAIN items : items[i] = Broken}
        read   == IF broken = {} THEN items ELSE SubSeq(items, 1, Min(broken) - 1)
    IN SelectSeq(read, LAMBDA k : k # Noise)

\* The bytes of a list: what the eUICC sends for its items.
ListBytes(outer, inner, items, Element(_)) ==
    Bytes(Parent(outer, <<Parent(inner, [i \in DOMAIN items |->
        CASE items[i] = Noise  -> Leaf(\h99, <<0>>)
          [] items[i] = Broken -> Headless(<<\hE3, \h7F>>)
          [] OTHER             -> Element(items[i])])>>))

IccidOf(k) == Iccids[k]
IccidLeaf(k) == Leaf(\h5A, Gsmbcd2Bin(IccidOf(k), 10, 10).output)
AidOf(k) == [i \in 1 .. 16 |-> 160 + k]

\* The fields of an element in either order.
ProfileElement(k) ==
    LET fields == <<IccidLeaf(k), Leaf(\h4F, AidOf(k)), Leaf(\h9F70, <<k % 3>>), Leaf(\h92, <<65, k>>)>>
    IN Parent(\hE3, IF k % 2 = 0 THEN fields ELSE Reverse(fields))
NotificationElement(k) ==
    Parent(\hBF2F, <<Leaf(\h80, Long2Bin(127 + k, SizeofLong).buffer), Leaf(\h81, <<4, 2 ^ (3 + k)>>), IccidLeaf(k)>>)

AnswerProfiles == Idle /\ \E items \in Items({1, 2, Noise, Broken}) :
    Result("profiles", items, GetProfilesInfo(ListBytes(\hBF2D, \hA0, items, ProfileElement)))

AnswerNotifications == Idle /\ \E items \in Items({1, 2, Noise, Broken}) :
    Result("notifications", items, ListNotification(ListBytes(\hBF28, \hA0, items, NotificationElement)))

\* A rule for each item: its number of operators, and the policy rules it names.
RatElement(k) ==
    Parent(\h30, <<Leaf(\h80, Bits2Bin({j \in 0 .. 3 : j <= k})),
                   Parent(\hA1,
                       [j \in 1 .. k |-> Parent(\h30, <<Leaf(\h80, <<0, 0, j>>), Leaf(\h81, <<>>)>>)]),
                   Leaf(\h82, Bits2Bin({0}))>>)
AnswerRat == Idle /\ \E items \in Items(1 .. 4) :
    Result("rat", items, GetRat(ListBytes(\hBF43, \hA0, items, RatElement)))

\* The lists of key identifiers for verification and for signing.
AnswerInfo2 == Idle /\ \E verify, sign \in Items({1, 2}) :
    LET ids(keys) == [i \in DOMAIN keys |-> Leaf(4, <<keys[i], 255>>)]
    IN Result("info2", <<verify, sign>>,
              GetEuiccInfo2(Bytes(Parent(\hBF22, <<Leaf(\h81, <<2, 3, 1>>), Parent(\hA9, ids(verify)),
                                                    Leaf(\h85, Bits2Bin({1, 9})), Parent(\hAA, ids(sign)),
                                                    Parent(\h84, <<Leaf(\h82, <<2, 0>>), Leaf(\h81, <<7>>)>>)>>))))

\* The addresses, either of which may be missing, and the EID.
AnswerAddresses == Idle /\ \E dp, ds \in {Null, <<<<>>>>, <<<<100, 112>>>>} :
    LET leaf(tag, text) == [i \in DOMAIN text |-> Leaf(tag, text[i])]
    IN Result("addresses", <<dp, ds>>,
              GetConfiguredAddresses(Bytes(Parent(\hBF3C, leaf(\h80, dp) \o leaf(\h81, ds)))))
AnswerEid == Idle /\ \E bytes \in {AidOf(1), <<137>>} :
    Result("eid", bytes, GetEid(Bytes(Parent(\hBF3E, <<Leaf(\h5A, bytes)>>))))

\* Access rules, each with some REF-DOs of some hashes and names.
Shapes == [refDos : 0 .. 2, hashes : 0 .. 2, names : 0 .. 2]
RefDo(shape) == Parent(\hE1, [i \in 1 .. shape.hashes |-> Leaf(\hC1, <<i, 1>>)]
                             \o [i \in 1 .. shape.names |-> Leaf(\hCA, <<65>>)])
RulesOf(shapes) == Parent(\hBF76, [i \in DOMAIN shapes |->
    Parent(\hE2, <<Leaf(\hE3, <<>>)>> \o [j \in 1 .. shapes[i].refDos |-> RefDo(shapes[i])])])
AnswerMetadata == Idle /\ \E shapes \in UNION {[1 .. n -> Shapes] : n \in 0 .. 2}, rest \in {1, 2} :
    Result("metadata", <<shapes, rest>>,
           MetadataParse(Encode(Bytes(Parent(\hBF25, <<IccidLeaf(rest), RulesOf(shapes), Leaf(\h95, <<rest + 1>>)>>)))))

-----------------------------------------------------------------------------
(* Choices.                                                                *)

ChooseReader == Idle /\ \E env \in Environments, readers \in ReaderLists :
    \E connect \in [1 .. Len(readers) -> {"ok", "shared", "error"}] :
        Result("reader", [env |-> env, readers |-> readers, connect |-> connect],
               OpenReader(env, readers, connect))

ChooseDrivers == Idle /\ \E dir \in Directories, apdu \in {<<>>, <<"pcsc">>, <<"qmi">>}, http \in {<<>>, <<"curl">>} :
    Result("drivers", [dir |-> dir, apdu |-> apdu, http |-> http], DriverInit(dir, apdu, http))

ListDrivers == Idle /\ \E dir \in Directories : Result("driverList", dir, DriverList(dir))

ChooseMss == Idle /\ \E text \in MssTexts : Result("mss", text, SetupMss(text))

-----------------------------------------------------------------------------
Next ==
    \/ Unpack \/ FindPacked \/ PackTree \/ Convert \/ ConvertBits \/ Bcd \/ Base64
    \/ AnswerProfiles \/ AnswerNotifications \/ AnswerRat \/ AnswerInfo2
    \/ AnswerAddresses \/ AnswerEid \/ AnswerMetadata
    \/ ChooseReader \/ ChooseDrivers \/ ListDrivers \/ ChooseMss

Spec == Init /\ [][Next]_vars

-----------------------------------------------------------------------------
(* Properties.                                                             *)

\* Whatever the bytes, a node that euicc_derutil_unpack_first accepts lies inside
\* the buffer it was given, header and value; a length that wraps at 32 bits or
\* an oversized count of length bytes never makes it point outside.
NodeInsideBuffer ==
    op = "unpack" /\ out.ok => out.value <= Len(in) /\ SelfEnd(out) <= Len(in)

\* The two passes of euicc_derutil_pack agree: the copies cover every byte of the
\* computed size once, none falls outside it, and a buffer that is one byte too
\* short is refused.  And what was packed is found again:
\* euicc_derutil_unpack_find_tag returns the first sibling that carries the tag,
\* with the value that was packed, and fails exactly when no sibling does.
PackedIsFound ==
    /\ op = "pack" =>
        IF in[2] < SizeOf(in[1]) THEN out.ret = -1
        ELSE /\ out.ret = 0
             /\ \A w \in out.writes : w[1] + Len(w[2]) <= Len(out.buffer)
             /\ \A k \in 1 .. Len(out.buffer) : Cardinality(Touching(out.writes, k - 1)) = 1
    /\ op = "find" =>
        LET carriers == {i \in 1 .. Len(in[2]) : in[2][i].tag = in[1]}
            node     == out[2]
        IN /\ node.ok <=> carriers # {}
           /\ node.ok => LET first == in[2][Min(carriers)]
                         IN /\ node.tag = first.tag
                            /\ SubSeq(out[1], node.value + 1, SelfEnd(node)) = first.value

\* The conversions invert each other: long2bin then bin2long gives the number
\* back, in the fewest bytes that keep a positive number's sign bit clear, and the
\* bits that bits2bin encodes are the ones bin2bits_str names, in order.
ConversionsInvert ==
    /\ op = "long" => /\ out.ret = 0 /\ out.back = in
                      /\ in > 0 => out.buffer[1] < 128
                      /\ in > 0 /\ Len(out.buffer) > 1 =>
                            out.buffer[1] > 0 \/ out.buffer[2] >= 128
    /\ op = "bits" => /\ ToSet(out) = in
                      /\ \A i, j \in DOMAIN out : i < j => out[i] < out[j]

\* An ICCID or IMEI survives the trip to the card and back, whatever its parity
\* and the padding: gsmbcd2bin followed by bin2gsmbcd gives the text back, and
\* only a text with a character that is no digit is refused.  base64_decode
\* inverts base64_encode, the length it returns is the number of bytes it stored,
\* and neither writes past the size its _len function gives.
TextRoundTrip ==
    /\ op = "bcd" /\ in # <<>> =>
        IF Other \in ToSet(in) THEN out.ret = -1
        ELSE out.ret > 0 /\ out.back.output = in
    /\ op = "base64" =>
        /\ out.back.stored = in
        /\ out.back.ret = Len(in)
        /\ Len(out.back.stored) + 1 <= DecodeLen(out.coded)
        /\ Len(out.coded) + 1 <= EncodeLen(Len(in))

\* The lists that es10c_get_profiles_info, es10b_list_notification, es10b_get_rat
\* and es10c_ex_get_euiccinfo2 build hold what the eUICC sent, in its order, each
\* field with its own element, up to the first element that does not parse;
\* elements of another kind are passed over.  Of the operators a rule allows this
\* is claimed up to two, and of more only for the first: es10b_get_rat does not
\* advance operations_wptr and loses those between the first and the last.
ListsWhatWasSent ==
    LET received == Received(in) IN
    /\ op = "profiles" =>
        /\ out.ret = 0 /\ Len(out.list) = Len(received)
        /\ \A i \in DOMAIN received : LET k == received[i] p == out.list[i] IN
            /\ p.info.iccid = IccidOf(k) /\ p.isdpAid = Bin2Hex(AidOf(k))
            /\ p.profileState = (IF k % 3 = 2 THEN 255 ELSE k % 3)
            /\ p.info.profileName = <<<<65, k>>>> /\ p.profileNickname = Null
    /\ op = "notifications" =>
        /\ out.ret = 0
        /\ out.list = [i \in DOMAIN received |->
                [seqNumber |-> 127 + received[i], operation |-> 2 ^ (3 + received[i]),
                 notificationAddress |-> Null, iccid |-> <<IccidOf(received[i])>>]]
    /\ op = "rat" =>
        /\ out.ret = 0 /\ Len(out.list) = Len(in)
        /\ \A i \in DOMAIN in : LET k == in[i] r == out.list[i] IN
            /\ r.pprIds = [j \in 1 .. Min({k, 3}) + 1 |-> j - 1] /\ r.pprFlags = <<0>>
            /\ k <= 2 => Len(r.allowedOperators) = k
            /\ \A j \in 1 .. IF k <= 2 THEN k ELSE 1 :
                    r.allowedOperators[j].plmn = <<<<0, 0, 0, 0, 0, j>>>>
    /\ op = "info2" =>
        LET texts(keys) == [i \in DOMAIN keys |-> <<0, keys[i], 15, 15>>] IN
        /\ out.ret = 0
        /\ out.list[1].pkIds = (\hA9 :> texts(in[1])) @@ (\hAA :> texts(in[2]))
        /\ out.list[1].version[\h81] = <<<<2, 3, 1>>>> /\ out.list[1].capability[\h85] = <<1, 9>>
        /\ out.list[1].resource = (\h81 :> 7) @@ (\h82 :> 512) @@ (\h83 :> 0)
    /\ op = "addresses" => out.list = <<[defaultDpAddress |-> in[1], rootDsAddress |-> in[2]]>>
    /\ op = "eid" => out.list = <<Bin2Hex(in)>>

\* Access rules are taken all or not at all: the preview shows metadata exactly
\* when every REF-AR-DO has one REF-DO with one certificate hash and at most one
\* package name ("Each REF-AR-DO must contain EXACTLY 1 REF-DO", es8p.c), and then
\* it has every rule, and the fields around them.
RulesAllOrNothing ==
    op = "metadata" =>
        LET good == \A i \in DOMAIN in[1] :
                in[1][i].refDos = 1 /\ in[1][i].hashes = 1 /\ in[1][i].names <= 1
        IN /\ out.ret = (IF good THEN 0 ELSE -1)
           /\ good => /\ out.list[1].accessRules = [i \in DOMAIN in[1] |->
                            [certificateHash |-> <<0, 1, 0, 1>>,
                             packageName |-> IF in[1][i].names = 0 THEN Null ELSE <<<<65>>>>]]
                      /\ out.list[1].info.iccid = IccidOf(in[2])
                      /\ out.list[1].info.profileClass = (IF in[2] = 2 THEN 255 ELSE in[2] + 1)

\* The readers that the documentation (backends/pcsc.md) says an environment
\* admits: the one with the given index, else those with the given name, else
\* those with no name of the ignore list in theirs.
Admitted(env, readers) ==
    LET index == Current(env.ifid, env.oldIfid)
    IN CASE index >= 0      -> {i \in DOMAIN readers : i = index + 1}
         [] env.name # <<>> -> {i \in DOMAIN readers : env.name[1] \in readers[i]}
         [] OTHER           -> {i \in DOMAIN readers : ToSet(env.ignore) \cap readers[i] = {}}

\* Where the code does otherwise, and nothing is claimed: an index without digits
\* (InvalidMeansDefault), an empty name, which is taken for a name that every reader
\* has, and a list of several names (IgnoredNeverOpened).
Disputed(env) ==
    \/ Current(env.ifid, env.oldIfid) = Junk
    \/ env.name = <<"">>
    \/ Len(env.ignore) > 1

\* pcsc_open_hCard opens a reader that the documentation admits, the first of them
\* that is not in use, and none if one in front of it fails for another reason.  A
\* segment size is the given one within the documented bounds, the default for no
\* or an invalid number, and an error outside the bounds.
ReaderAsConfigured ==
    /\ op = "reader" /\ ~Disputed(in.env) =>
        LET stops == {i \in Admitted(in.env, in.readers) : in.connect[i] # "shared"}
        IN IF stops # {} /\ in.connect[Min(stops)] = "ok" THEN out = Min(stops) - 1 ELSE out = -1
    /\ op = "mss" =>
        /\ in \in {Unset, Empty, Junk} => out = [ok |-> TRUE, mss |-> 120]
        /\ in \in 6 .. 255 => out = [ok |-> TRUE, mss |-> in]
        /\ in \in -1 .. 5 \ {0} \/ in > 255 => ~out.ok

\* The drivers of a type that lpac may work with: the named one, else the first of
\* the fallback order that loads, else any that loads.
Eligible(dir, type, name) ==
    LET loading == {f \in ToSet(dir) : f.type = type /\ f.loads}
        order   == FallbackOrder(type)
        ranked  == {i \in DOMAIN order : \E f \in loading : f.name = order[i]}
    IN CASE name # <<>>  -> {f \in loading : f.name = name[1]}
         [] ranked # {}  -> {f \in loading : f.name = order[Min(ranked)]}
         [] OTHER        -> loading

\* Where the search for a driver crashes instead of finding one or none: it goes
\* past the fallback order, and meets a file that does not load first.
Stumbles(dir, type, name) ==
    /\ name = <<>>
    /\ \A f \in Eligible(dir, type, name) : f.name \notin ToSet(FallbackOrder(type))
    /\ \E i \in DOMAIN dir : ~dir[i].loads /\ \A j \in 1 .. i : dir[j] \notin Eligible(dir, type, name)

\* euicc_driver_init works with an eligible driver of each type and fails exactly
\* when there is none; `lpac driver list` lists every driver under its type.
\* Nothing is claimed where a file that does not load makes them crash.
DriversAsConfigured ==
    /\ op = "drivers" /\ ~Stumbles(in.dir, "apdu", in.apdu) /\ ~Stumbles(in.dir, "http", in.http) =>
        LET apdu == Eligible(in.dir, "apdu", in.apdu)
            http == Eligible(in.dir, "http", in.http)
        IN IF apdu # {} /\ http # {} THEN out.ret = "ok" /\ out.apdu \in apdu /\ out.http \in http
           ELSE out.ret = "err"
    /\ op = "driverList" /\ (\A i \in DOMAIN in : in[i].loads) =>
        /\ out.ret = "ok"
        /\ ToSet(out.apdu) = {f \in ToSet(in) : f.type = "apdu"}
        /\ ToSet(out.http) = {f \in ToSet(in) : f.type = "http"}


\* docs/backends/types.md: of an integer that is "empty or invalid, the default is
\* used": a reader index or a segment size without digits leads to the same choice
\* as none.
InvalidMeansDefault ==
    /\ op = "reader" /\ Current(in.env.ifid, in.env.oldIfid) \in {Empty, Junk} =>
        out = OpenReader([in.env EXCEPT !.ifid = Unset, !.oldIfid = Unset], in.readers, in.connect)
    /\ op = "mss" /\ in \in {Empty, Junk} => out = SetupMss(Unset)

\* docs/backends/pcsc.md: LPAC_APDU_PCSC_DRV_IGNORE_NAME names the readers "which
\* ... will be ignored", a list split at semicolons: with no index and no name
\* given, no reader on the list is opened.
IgnoredNeverOpened ==
    op = "reader" /\ out >= 0 /\ in.env.ifid = Unset /\ in.env.oldIfid = Unset /\ in.env.name = <<>> =>
        \A j \in DOMAIN in.env.ignore : in.env.ignore[j] \notin in.readers[out + 1]
=============================================================================

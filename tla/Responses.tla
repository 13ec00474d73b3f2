----------------------------- MODULE Responses ------------------------------
(***************************************************************************)
(* How the answers of the eUICC are turned into the structures that the    *)
(* applets print: the profile list, the notification list, the rules       *)
(* authorisation table, EUICCInfo2 and the configured addresses; and the   *)
(* profile metadata of the download preview.  Each is an operator on the   *)
(* bytes of the answer, built on the DER reader and on the codecs.         *)
(* A string pointer is <<>> for NULL, else <<text>>; a linked list is the  *)
(* sequence of its elements.  Allocation is assumed to succeed.            *)
(***************************************************************************)
EXTENDS Derutil, TextCodecs

Null == <<>>

\* What a loop over euicc_derutil_unpack_next visits: it ends where the next
\* node does not parse, at the end or before it.
Children(buffer) ==
    LET from[ptr \in 0 .. Len(buffer)] ==
            LET node == UnpackNext([value |-> ptr, length |-> 0], buffer)
            IN IF ~node.ok THEN <<>>
               ELSE <<[tag |-> node.tag, value |-> SubSeq(buffer, node.value + 1, SelfEnd(node))]>>
                    \o from[SelfEnd(node)]
    IN from[0]

\* The value of the first node with the tag, as a pointer.
Find1(tag, buffer) ==
    LET node == FindTag(tag, buffer)
    IN IF node.ok THEN <<SubSeq(buffer, node.value + 1, SelfEnd(node))>> ELSE Null

\* A tag inside a tag.
Find2(outer, inner, buffer) ==
    LET found == Find1(outer, buffer) IN IF found = Null THEN Null ELSE Find1(inner, found[1])

Failed == [ret |-> -1, list |-> <<>>]
Listed(list) == [ret |-> 0, list |-> list]

\* Where the tag is missing the answer is an error; otherwise its value is read.
Within(found, Read(_)) == IF found = Null THEN Failed ELSE Read(found[1])

Tagged(tag, nodes) == SelectSeq(nodes, LAMBDA n : n.tag = tag)
Each(nodes, Read(_)) == [i \in DOMAIN nodes |-> Read(nodes[i].value)]

\* A number that must be one of the known ones, 255 otherwise.
Known(value, known) == LET n == Bin2Long(value) IN IF n \in known THEN n ELSE 255

\* A character array of room bytes keeps what it held if the text does not fit.
Fits(bin, room) == 2 * Len(bin) + 1 <= room

-----------------------------------------------------------------------------
(* Fields that es10c_get_profiles_info and es8p_metadata_parse share.      *)

NoInfo == [iccid |-> <<>>, serviceProviderName |-> Null, profileName |-> Null,
           iconType |-> -1, icon |-> Null, profileClass |-> -1]

InfoField(p, n) ==
    CASE n.tag = \h5A -> IF Fits(n.value, 21) THEN [p EXCEPT !.iccid = Bin2Gsmbcd(n.value).output] ELSE p
      [] n.tag = \h91 -> [p EXCEPT !.serviceProviderName = <<n.value>>]
      [] n.tag = \h92 -> [p EXCEPT !.profileName = <<n.value>>]
      [] n.tag = \h93 -> [p EXCEPT !.iconType = Known(n.value, {0, 1})]
      [] n.tag = \h94 -> [p EXCEPT !.icon = <<Encode(n.value)>>]
      [] n.tag = \h95 -> [p EXCEPT !.profileClass = Known(n.value, {0, 1, 2})]
      [] OTHER        -> p

NoProfile == [info |-> NoInfo, isdpAid |-> <<>>, profileState |-> -1, profileNickname |-> Null]

ProfileField(p, n) ==
    CASE n.tag = \h4F   -> IF Fits(n.value, 33) THEN [p EXCEPT !.isdpAid = Bin2Hex(n.value)] ELSE p
      [] n.tag = \h9F70 -> [p EXCEPT !.profileState = Known(n.value, {0, 1})]
      [] n.tag = \h90   -> [p EXCEPT !.profileNickname = <<n.value>>]
      [] OTHER          -> [p EXCEPT !.info = InfoField(@, n)]

ProfileInfo(value) == FoldLeft(ProfileField, NoProfile, Children(value))

\* Mutant of GetProfilesInfo: what is no ProfileInfo ends the list.
UpToOther(nodes) == LET other == {i \in DOMAIN nodes : nodes[i].tag # \hE3}
                    IN IF other = {} THEN nodes ELSE SubSeq(nodes, 1, Min(other) - 1)
GetProfilesInfoStops(answer) ==
    Within(Find2(\hBF2D, \hA0, answer),
           LAMBDA list : Listed(Each(UpToOther(Children(list)), ProfileInfo)))

GetProfilesInfo(answer) ==
    Within(Find2(\hBF2D, \hA0, answer),
           LAMBDA list : Listed(Each(Tagged(\hE3, Children(list)), ProfileInfo)))

-----------------------------------------------------------------------------
(* Access rules and metadata, es8p.c.                                      *)

\* The REF-DO: exactly one certificate hash and at most one package name.
RuleOf(hashes, names) ==
    IF Len(hashes) # 1 \/ Len(names) > 1 THEN Null
    ELSE <<[certificateHash |-> Bin2Hex(hashes[1].value),
            packageName |-> [i \in DOMAIN names |-> names[i].value]]>>
RefDoRule(inside) == RuleOf(Tagged(\hC1, inside), Tagged(\hCA, inside))

\* Mutant of AccessRule: the last of several REF-DOs counts.
AccessRuleLast(entry) ==
    LET refDos == Tagged(\hE1, Children(entry))
    IN IF refDos = <<>> THEN Null ELSE RefDoRule(Children(Last(refDos).value))

\* One REF-AR-DO: exactly one REF-DO in it.  Null is the jump to err.
AccessRule(entry) ==
    LET refDos == Tagged(\hE1, Children(entry))
    IN IF Len(refDos) # 1 THEN Null ELSE RefDoRule(Children(refDos[1].value))

\* All the rules, or none at the first one in error.
AllRules(rules) ==
    IF \E i \in DOMAIN rules : rules[i] = Null THEN Failed
    ELSE Listed([i \in DOMAIN rules |-> rules[i][1]])
ParseAccessRules(buffer) == AllRules(Each(Tagged(\hE2, Children(buffer)), AccessRule))

\* es8p_metadata_parse: one bad set of access rules fails the whole; of several
\* sets the last one stays.
MetadataOf(fields, rules) ==
    IF \E i \in DOMAIN rules : rules[i] = Failed THEN Failed
    ELSE Listed(<<[info |-> FoldLeft(InfoField, NoInfo, fields),
                   accessRules |-> IF rules = <<>> THEN <<>> ELSE Last(rules).list]>>)
MetadataFields(fields) == MetadataOf(fields, Each(Tagged(\hBF76, fields), ParseAccessRules))
MetadataParse(b64) ==
    Within(Find1(\hBF25, Decode(b64).stored), LAMBDA value : MetadataFields(Children(value)))

-----------------------------------------------------------------------------
(* Notifications, es10b_list_notification.                                 *)

Operations == {\h80, \h40, \h20, \h10}

NotificationField(p, n) ==
    CASE n.tag = \h80 -> [p EXCEPT !.seqNumber = Bin2Long(n.value)]
      [] n.tag = \h81 /\ Len(n.value) >= 2 ->
            [p EXCEPT !.operation = IF n.value[2] \in Operations THEN n.value[2] ELSE 255]
      [] n.tag = \h0C -> [p EXCEPT !.notificationAddress = <<n.value>>]
      [] n.tag = \h5A -> [p EXCEPT !.iccid = <<Bin2Gsmbcd(n.value).output>>]
      [] OTHER        -> p

Notification(value) ==
    FoldLeft(NotificationField,
             [seqNumber |-> 0, operation |-> -1, notificationAddress |-> Null, iccid |-> Null],
             Children(value))

ListNotification(answer) ==
    Within(Find2(\hBF28, \hA0, answer),
           LAMBDA list : Listed(Each(Tagged(\hBF2F, Children(list)), Notification)))

-----------------------------------------------------------------------------
(* The rules authorisation table, es10b_get_rat.                           *)

OperatorField(p, n) ==
    CASE n.value = <<>> -> p
      [] n.tag = \h80   -> [p EXCEPT !.plmn = <<Bin2Hex(n.value)>>]
      [] n.tag = \h81   -> [p EXCEPT !.gid1 = <<Bin2Hex(n.value)>>]
      [] n.tag = \h82   -> [p EXCEPT !.gid2 = <<Bin2Hex(n.value)>>]
      [] OTHER          -> p

\* operations_wptr stays at the first element, so what follows it is replaced
\* by every further one.
LinkOperator(list, p) == IF list = <<>> THEN <<p>> ELSE <<list[1], p>>

AllowedOperators(value) ==
    LET one(n) == FoldLeft(OperatorField, [plmn |-> Null, gid1 |-> Null, gid2 |-> Null], Children(n.value))
    IN FoldLeft(LAMBDA list, n : LinkOperator(list, one(n)), <<>>, Children(value))

\* A bit string without its first byte is an error.
RatField(r, n) ==
    CASE n.tag \in {\h80, \h82} /\ n.value = <<>> -> [r EXCEPT !.bad = TRUE]
      [] n.tag = \h80 -> [r EXCEPT !.pprIds = Bin2BitsStr(n.value, 4)]
      [] n.tag = \hA1 -> [r EXCEPT !.allowedOperators = AllowedOperators(n.value)]
      [] n.tag = \h82 -> [r EXCEPT !.pprFlags = Bin2BitsStr(n.value, 1)]
      [] OTHER        -> r

Rule(value) ==
    FoldLeft(RatField, [bad |-> FALSE, pprIds |-> <<>>, allowedOperators |-> <<>>, pprFlags |-> <<>>],
             Children(value))
Table(rules) == IF \E i \in DOMAIN rules : rules[i].bad THEN Failed ELSE Listed(rules)

GetRat(answer) ==
    Within(Find2(\hBF43, \hA0, answer), LAMBDA list : Table(Each(Children(list), Rule)))

-----------------------------------------------------------------------------
(* EUICCInfo2 and the addresses, es10c_ex.c and es10a.c.                   *)

\* _versiontype2str: three numbers, or nothing; the length is a uint8_t.
Version(old, value) == IF Len(value) % 256 = 3 THEN <<SubSeq(value, 1, 3)>> ELSE old

\* The lists of key identifiers: counted in a first loop, filled in a second.
PkIds(value) == Each(Children(value), Bin2Hex)

VersionTags == {\h81, \h82, \h83, \h86, \h87, \h04}
CapabilityNames == (\h85 :> 26) @@ (\h88 :> 5) @@ (\h99 :> 4)

\* The members of a nested object that were given, by tag, the last of each tag.
Members(value, tags) ==
    FoldLeft(LAMBDA f, n : IF n.tag \in tags THEN [f EXCEPT ![n.tag] = <<n.value>>] ELSE f,
             [t \in tags |-> Null], Children(value))

Info2Field(e, n) ==
    CASE n.tag \in VersionTags -> [e EXCEPT !.version[n.tag] = Version(@, n.value)]
      [] n.tag \in DOMAIN CapabilityNames /\ n.value = <<>> -> [e EXCEPT !.bad = TRUE]
      [] n.tag \in DOMAIN CapabilityNames ->
            [e EXCEPT !.capability[n.tag] = Bin2BitsStr(n.value, CapabilityNames[n.tag])]
      [] n.tag = \h84 ->
            LET given == Members(n.value, {\h81, \h82, \h83})
            IN [e EXCEPT !.resource = [t \in DOMAIN given |->
                    IF given[t] = Null THEN @[t] ELSE Bin2Long(given[t][1])]]
      [] n.tag \in {\hA9, \hAA} -> [e EXCEPT !.pkIds[n.tag] = PkIds(n.value)]
      [] n.tag = \hAB -> [e EXCEPT !.category = LET c == Bin2Long(n.value) IN IF c \in 1 .. 3 THEN c ELSE 0]
      [] n.tag = \h0C -> [e EXCEPT !.sas = <<n.value>>]
      [] n.tag = \hAC ->
            LET given == Members(n.value, {\h80, \h81})
            IN [e EXCEPT !.certification = [t \in DOMAIN given |-> IF given[t] = Null THEN @[t] ELSE given[t]]]
      [] OTHER -> e

NoInfo2 ==
    [bad |-> FALSE, version |-> [t \in VersionTags |-> Null],
     capability |-> [t \in DOMAIN CapabilityNames |-> <<>>],
     resource |-> [t \in {\h81, \h82, \h83} |-> 0],
     pkIds |-> [t \in {\hA9, \hAA} |-> <<>>], category |-> -1, sas |-> Null,
     certification |-> [t \in {\h80, \h81} |-> Null]]
Info2(info) == IF info.bad THEN Failed ELSE Listed(<<info>>)

GetEuiccInfo2(answer) ==
    Within(Find1(\hBF22, answer), LAMBDA value : Info2(FoldLeft(Info2Field, NoInfo2, Children(value))))

GetConfiguredAddresses(answer) ==
    Within(Find1(\hBF3C, answer), LAMBDA value :
        Listed(<<[defaultDpAddress |-> Find1(\h80, value), rootDsAddress |-> Find1(\h81, value)]>>))

\* The EID as text.
GetEid(answer) == Within(Find2(\hBF3E, \h5A, answer), LAMBDA value : Listed(<<Bin2Hex(value)>>))

=============================================================================

----------------------------- MODULE Selection ------------------------------
(***************************************************************************)
(* What lpac works with: the PC/SC reader (driver/apdu/pcsc.c), the        *)
(* drivers (driver/euicc-driver-loader.c) and the settings of an ES10x     *)
(* session (src/lpac.c), chosen by environment variables                   *)
(* (utils/lpac/utils.c).  Each choice is an operator.                      *)
(* A numeric variable is Unset, Empty, Junk (no digits) or its number.  A  *)
(* name is a model value; a reader is the set of the names it contains.    *)
(***************************************************************************)
EXTENDS Integers, Sequences, FiniteSets, SequencesExt

Unset == -1000
Empty == -1001
Junk == -1002

\* strtol gives 0 for a text without digits.
GetenvLong(value, default) ==
    IF value \in {Unset, Empty} THEN default ELSE IF value = Junk THEN 0 ELSE value

\* A deprecated name counts when the new one is not set at all.
Current(value, deprecated) == IF value # Unset THEN value ELSE deprecated

-----------------------------------------------------------------------------
(* The PC/SC reader.                                                       *)

\* What is left of the ignore list once it was looked at: strtok ends the
\* variable's own text after its first name.
CutList(ignore) == IF ignore = <<>> THEN ignore ELSE <<ignore[1]>>


IsIgnored(reader, ignore) == \E i \in DOMAIN ignore : ignore[i] \in reader

\* strstr finds the empty text in every reader's name.
HasName(reader, name) == name = "" \/ name \in reader

\* The callback for one reader: whether it is a candidate.  The index goes
\* before the name, and the name before the ignore list.
Wanted(env, ignore, index, reader) ==
    LET id == GetenvLong(Current(env.ifid, env.oldIfid), -1)
    IN CASE id >= 0          -> id = index
         [] env.name # <<>>  -> HasName(reader, env.name[1])
         [] OTHER            -> ~IsIgnored(reader, ignore)

\* The list is looked at when neither an index nor a name is given.
AfterLook(env, ignore) ==
    IF GetenvLong(Current(env.ifid, env.oldIfid), -1) >= 0 \/ env.name # <<>>
    THEN ignore ELSE CutList(ignore)

\* pcsc_iter_reader over pcsc_open_hCard_iter: the index of the reader that is
\* opened, -1 if none.  SCardConnect answers "ok", "shared" (the reader is in
\* use) or "error", which ends the search.
OpenReader(env, readers, connect) ==
    LET from[i \in 1 .. Len(readers) + 1] ==
            LET ignore == IF i = 1 THEN env.ignore ELSE AfterLook(env, env.ignore)
            IN IF i > Len(readers) THEN -1
               ELSE IF ~Wanted(env, ignore, i - 1, readers[i]) THEN from[i + 1]
               ELSE CASE connect[i] = "ok"     -> i - 1
                      [] connect[i] = "shared" -> from[i + 1]
                      [] OTHER                 -> -1
    IN from[1]

-----------------------------------------------------------------------------
(* The drivers: the directory is a sequence of files                       *)
(* [type, name, loads]; a file may be there and not load.                  *)

NoDriver == [type |-> "none", name |-> "none", loads |-> FALSE]

\* find_driver_by_name and find_driver_by_path.
FindDriverByName(dir, type, name) ==
    LET found == SelectSeq(dir, LAMBDA f : f.type = type /\ f.name = name /\ f.loads)
    IN IF found = <<>> THEN NoDriver ELSE found[1]

FallbackOrder(type) == IF type = "apdu" THEN <<"pcsc", "stdio">> ELSE <<"winhttp", "curl", "stdio">>

\* A file that does not load is on the list of drivers with a NULL pointer,
\* which the loops over the list follow.
FollowsNull(dir, upto) == \E i \in 1 .. upto : ~dir[i].loads

\* The first of the fallback order that loads, else the first of its type in
\* the directory.
FindDriverFallback(dir, type) ==
    LET order  == FallbackOrder(type)
        byName == {i \in DOMAIN order : FindDriverByName(dir, type, order[i]) # NoDriver}
        ofType == {i \in DOMAIN dir : dir[i].loads /\ dir[i].type = type}
        first  == IF ofType = {} THEN Len(dir) ELSE CHOOSE i \in ofType : \A j \in ofType : i <= j
    IN IF byName # {}
       THEN [crashed |-> FALSE,
             driver |-> FindDriverByName(dir, type, order[CHOOSE i \in byName : \A j \in byName : i <= j])]
       ELSE [crashed |-> FollowsNull(dir, first), driver |-> IF ofType = {} THEN NoDriver ELSE dir[first]]

\* name is <<>> when the variable is not set.
FindDriver(dir, type, name) ==
    IF name = <<>> THEN FindDriverFallback(dir, type)
    ELSE [crashed |-> FALSE, driver |-> FindDriverByName(dir, type, name[1])]

\* euicc_driver_init up to the drivers' own init: the APDU driver first.
DriverInit(dir, apdu, http) ==
    LET a == FindDriver(dir, "apdu", apdu)
        h == FindDriver(dir, "http", http)
    IN CASE a.crashed                -> [ret |-> "crash", apdu |-> NoDriver, http |-> NoDriver]
         [] a.driver = NoDriver      -> [ret |-> "err", apdu |-> NoDriver, http |-> NoDriver]
         [] h.crashed                -> [ret |-> "crash", apdu |-> a.driver, http |-> NoDriver]
         [] h.driver = NoDriver      -> [ret |-> "err", apdu |-> a.driver, http |-> NoDriver]
         [] OTHER                    -> [ret |-> "ok", apdu |-> a.driver, http |-> h.driver]

\* `lpac driver list`.
DriverList(dir) ==
    IF FollowsNull(dir, Len(dir)) THEN [ret |-> "crash", apdu |-> <<>>, http |-> <<>>]
    ELSE LET ofType(type) == SelectSeq(dir, LAMBDA f : f.type = type)
         IN [ret |-> "ok", apdu |-> ofType("apdu"), http |-> ofType("http")]

-----------------------------------------------------------------------------
(* The settings of the session.                                            *)

\* setup_es10x_mss, and the default that euicc_init puts for 0.
SetupMss(value) ==
    LET mss == GetenvLong(value, 0)
    IN IF mss = 0 THEN [ok |-> TRUE, mss |-> 120]
       ELSE IF mss \in 6 .. 255 THEN [ok |-> TRUE, mss |-> mss] ELSE [ok |-> FALSE, mss |-> 0]

=============================================================================

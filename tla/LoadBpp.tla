------------------------------- MODULE LoadBpp -------------------------------
(***************************************************************************)
(* es10b_load_bound_profile_package_r: how a bound profile package is cut  *)
(* into the segments the eUICC wants, and what becomes of the result.      *)
(*                                                                         *)
(* A package is BF36 { BF23, A0, A1 { 87* }, [A2], A3 { 86* } }.  Its      *)
(* bytes are modelled as pieces: <<tag, 0>> is an opaque element or the    *)
(* tag and length of a container, <<container, i>> is its i-th child.      *)
(***************************************************************************)
EXTENDS Integers, Sequences, SequencesExt

CONSTANT MaxChildren    \* bound: children of A1 and of A3

ASSUME MaxChildrenAssumption == MaxChildren \in Nat

VARIABLES
    pkg,        \* the package that came from the server
    elem,       \* the element sent last (its tag, or its whole), 0 for none
    child,      \* how many of its children have been sent
    result,     \* *result: reset, or filled in from an answer of the eUICC
    ret,        \* none while under way, then ok or err
    wire,       \* pieces sent so far
    euicc,      \* eUICC: loading, installed or failed
    lost        \* history: the answer to the last segment did not arrive

vars == <<pkg, elem, child, result, ret, wire, euicc, lost>>

\* The elements in the order in which the function looks for them.
Order == <<"BF23", "A0", "A1", "A2", "A3">>
Tags == {"BF23", "A0", "A1", "A2", "A3"}
Mandatory == Tags \ {"A2"}
Containers == {"A1", "A3"}

\* children: how many children the length of a container covers; parsed: how
\* many of them euicc_derutil_unpack_next gets through before it fails.
Packages ==
    [present  : SUBSET Tags,
     children : [Containers -> 0..MaxChildren],
     parsed   : [Containers -> 0..MaxChildren]]

Init ==
    /\ pkg \in {p \in Packages : \A c \in Containers : p.parsed[c] <= p.children[c]}
    /\ elem = 0 /\ child = 0 /\ result = "reset" /\ ret = "none"
    /\ wire = <<>> /\ euicc = "loading" /\ lost = FALSE

-----------------------------------------------------------------------------
Piece(tag) == <<tag, 0>>

\* The children that `count` gives element k.
Of(count, k) == IF k \in {3, 5} THEN count[Order[k]] ELSE 0

\* Element k without its children.  BF36's tag and length go out with BF23.
Opening(k) == IF k = 1 THEN <<Piece("BF36"), Piece("BF23")>> ELSE <<Piece(Order[k])>>

\* The children of element k behind the first n, and the elements of the package,
\* byte for byte, for the eUICC, which reads the lengths.
Children(k, n) == [i \in 1..Of(pkg.children, k) - n |-> <<Order[k], n + i>>]
Element(k) == IF Order[k] \in pkg.present THEN Opening(k) \o Children(k, 0) ELSE <<>>
Package == Element(1) \o (Element(2) \o (Element(3) \o (Element(4) \o Element(5))))

\* The eUICC (external): out of order or unacceptable, and it ends with an
\* error result; complete, and it ends with a success result; else it takes
\* the segment and answers nothing.
EuiccMay(sent) ==
    IF ~IsPrefix(sent, Package) THEN {"failed"}
    ELSE {"failed", IF sent = Package /\ Mandatory \subseteq pkg.present THEN "installed" ELSE "loading"}

\* Mutants of Transmit: an ErrorResult does not end the call; the reason in it
\* is not read.
TransmitWith(segment, onError, reason) ==
    /\ wire' = wire \o segment
    /\ euicc' \in EuiccMay(wire')
    /\ \/ /\ lost' = FALSE
          /\ result' = CASE euicc' = "installed" -> "success"
                         [] euicc' = "failed"    -> reason
                         [] OTHER                -> "reset"
          /\ ret' = IF euicc' = "failed" THEN onError ELSE "none"
       \/ lost' = TRUE /\ result' = "reset" /\ ret' = "err"
TransmitIgnoresError(segment) == TransmitWith(segment, "none", "error")
TransmitDropsReason(segment) == TransmitWith(segment, "err", "reset")

\* es10b_load_bound_profile_package_tx: *result is reset, the segment sent,
\* and an answer, if there is one, read into *result.
Transmit(segment) ==
    /\ wire' = wire \o segment
    /\ euicc' \in EuiccMay(wire')
    /\ \/ /\ lost' = FALSE
          /\ result' = CASE euicc' = "installed" -> "success"
                         [] euicc' = "failed"    -> "error"
                         [] OTHER                -> "reset"
          /\ ret' = IF euicc' = "failed" THEN "err" ELSE "none"
       \/ lost' = TRUE /\ result' = "reset" /\ ret' = "err"

\* euicc_derutil_unpack_next finds another child of the container.
HasNext == child < Of(pkg.parsed, elem)

\* The element that is looked for next; A2 may be absent.
Following == IF elem = 3 /\ "A2" \notin pkg.present THEN 5 ELSE elem + 1
Found == Following <= 5 /\ Order[Following] \in pkg.present

\* Mutant of SendElement: A1 and A3 are sent with their children, then the children.
SendElementWhole ==
    /\ ret = "none" /\ ~HasNext /\ Found
    /\ Transmit(Element(Following))
    /\ elem' = Following /\ child' = 0
    /\ UNCHANGED pkg

\* An element is sent, a container without its children.
SendElement ==
    /\ ret = "none" /\ ~HasNext /\ Found
    /\ Transmit(Opening(Following))
    /\ elem' = Following /\ child' = 0
    /\ UNCHANGED pkg

\* Mutant of SendChild: one child too many is read.
SendChildPast ==
    /\ ret = "none" /\ elem \in {3, 5} /\ child <= Of(pkg.parsed, elem)
    /\ Transmit(<< <<Order[elem], child + 1>> >>)
    /\ child' = child + 1
    /\ UNCHANGED <<pkg, elem>>

\* A child of a container is sent, as a segment of its own.
SendChild ==
    /\ ret = "none" /\ HasNext
    /\ Transmit(<< <<Order[elem], child + 1>> >>)
    /\ child' = child + 1
    /\ UNCHANGED <<pkg, elem>>

\* The command does not reach the eUICC.
TransmitFails ==
    /\ ret = "none" /\ (HasNext \/ Found)
    /\ result' = "reset" /\ ret' = "err"
    /\ UNCHANGED <<pkg, elem, child, wire, euicc, lost>>

\* Everything is sent, or a mandatory element is not in the package.
Finish ==
    /\ ret = "none" /\ ~HasNext /\ ~Found
    /\ ret' = IF Following = 6 THEN "ok" ELSE "err"
    /\ UNCHANGED <<pkg, elem, child, result, wire, euicc, lost>>

Next == SendElement \/ SendChild \/ TransmitFails \/ Finish

Spec == Init /\ [][Next]_vars
-----------------------------------------------------------------------------
(* Properties.                                                             *)

\* Every variable keeps its type; in particular the walk over the package never
\* goes past the last child that parses, nor past A3.
TypeOK ==
    /\ pkg \in Packages /\ elem \in 0..5 /\ child \in 0..Of(pkg.parsed, elem)
    /\ result \in {"reset", "success", "error"}
    /\ ret \in {"none", "ok", "err"}
    /\ euicc \in {"loading", "installed", "failed"} /\ lost \in BOOLEAN

Whole == Mandatory \subseteq pkg.present /\ pkg.parsed = pkg.children

\* The segments of a whole package, put together again, are the package byte
\* for byte: no element is left out, sent twice or sent out of order.
SegmentsAreThePackage == Whole => IsPrefix(wire, Package) /\ (ret = "ok" => wire = Package)

\* The outcome is the eUICC's.  For a whole package success means that it installed
\* the profile and *result is its final answer, not one of an earlier segment; a
\* child of A1 that cannot be parsed never passes for success, as what follows it
\* is out of order for the eUICC.  When the call fails *result holds the error the
\* eUICC gave, and nothing if the segment or its answer was lost.
ResultIsTheEuiccs ==
    /\ ret = "ok" =>
        /\ Whole => euicc = "installed" /\ result = "success"
        /\ pkg.parsed["A1"] = pkg.children["A1"]
    /\ ret = "err" => (result = "error" <=> euicc = "failed" /\ ~lost) /\ result # "success"

\* After an answer that ends the installation nothing more is sent.
StopsAtTheEnd == [][euicc # "loading" => wire' = wire]_vars

\* docs/USAGE.md: code 0 indicates successful execution, for a download that
\* the profile is installed.
CodeZeroMeansInstalled == ret = "ok" => euicc = "installed"
=============================================================================

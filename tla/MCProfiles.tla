----------------------------- MODULE MCProfiles -----------------------------
(***************************************************************************)
(* Two processes, and two profiles of which one has an ICCID of eighteen   *)
(* digits and the other one of nineteen that begins with it.  Besides what *)
(* a list shows, a user may give the shorter ICCID with its filler, and a  *)
(* text with a character that is no digit.                                 *)
(***************************************************************************)
EXTENDS Profiles, TLC

Eighteen == [i \in 1 .. 18 |-> (i * 7) % 10]
Digits == ("a" :> Eighteen) @@ ("b" :> Append(Eighteen, 3))
MCProfileSet == {"a", "b"}
MCIccid == [q \in MCProfileSet |-> Gsmbcd2Bin(Digits[q], 10, 10).output]
MCAid == [q \in MCProfileSet |-> [i \in 1 .. 16 |-> IF i < 16 THEN 160 ELSE Len(Digits[q])]]
MCTexts == {Append(Eighteen, 15), Append(Eighteen, Other)}
Interchangeable == Permutations(Procs)
=============================================================================

--------------------------- MODULE LoadBppProofs ---------------------------
(***************************************************************************)
(* For every package, with any elements and any number of children: what   *)
(* was sent, followed by what is still ahead of the walk, is the package.  *)
(* The rest ahead counts the children that do not parse, so the first      *)
(* element that is sent in their place is out of order for the eUICC.      *)
(***************************************************************************)
EXTENDS LoadBpp, TLAPS

Pieces == (Tags \cup {"BF36"}) \X Nat

\* The elements behind element k.
After(k) ==
    IF k = 0 THEN Element(1) \o (Element(2) \o (Element(3) \o (Element(4) \o Element(5))))
    ELSE IF k = 1 THEN Element(2) \o (Element(3) \o (Element(4) \o Element(5)))
    ELSE IF k = 2 THEN Element(3) \o (Element(4) \o Element(5))
    ELSE IF k = 3 THEN Element(4) \o Element(5)
    ELSE IF k = 4 THEN Element(5)
    ELSE <<>>

\* What is ahead of the walk.
Rest == Children(elem, child) \o After(elem)

Complete == wire = Package /\ Mandatory \subseteq pkg.present

\* The walk is in order.
InOrder ==
    /\ ret # "err" \/ Whole => Package = wire \o Rest
    /\ ret # "err" /\ elem > 3 => pkg.parsed["A1"] = pkg.children["A1"]
    /\ ret = "ok" => elem = 5 /\ ~HasNext

\* What the eUICC has done, and what is known of it.
Outcome ==
    /\ euicc = "installed" => Complete
    /\ ret # "err" =>
        /\ euicc # "failed" /\ (Complete => euicc = "installed")
        /\ result = IF euicc = "installed" THEN "success" ELSE "reset"
    /\ ret = "err" => (result = "error" <=> euicc = "failed" /\ ~lost) /\ result # "success"

IInv ==
    /\ TypeOK /\ wire \in Seq(Pieces)
    /\ \A c \in Containers : pkg.parsed[c] <= pkg.children[c]
    /\ InOrder /\ Outcome

-----------------------------------------------------------------------------
(* Sequences of pieces.                                                    *)

\* A sequence that is continued is a prefix of the whole.
LEMMA Prefixed ==
    ASSUME NEW s \in Seq(Pieces), NEW r \in Seq(Pieces)
    PROVE  IsPrefix(s, s \o r)
<1>1. Len(s) \in Nat /\ Len(r) \in Nat /\ Len(s \o r) = Len(s) + Len(r)
    OBVIOUS
<1>2. SubSeq(s, 1, Len(s)) = SubSeq(s \o r, 1, Len(s))
    BY <1>1
<1> QED BY <1>1, <1>2 DEF IsPrefix

\* A prefix has the pieces of the whole.
LEMMA PrefixPiece ==
    ASSUME NEW s \in Seq(Pieces), NEW t \in Seq(Pieces), IsPrefix(s, t), NEW i \in 1..Len(s)
    PROVE  s[i] = t[i]
<1>1. Len(s) \in Nat /\ Len(s) <= Len(t) /\ Len(t) \in Nat
    BY DEF IsPrefix
<1>2. SubSeq(s, 1, Len(s))[i] = s[i] /\ SubSeq(t, 1, Len(s))[i] = t[i]
    BY <1>1
<1> QED BY <1>2 DEF IsPrefix

\* What follows is not changed by where the brackets are, and nothing is dropped.
LEMMA Joined ==
    ASSUME NEW s \in Seq(Pieces), NEW t \in Seq(Pieces), NEW u \in Seq(Pieces)
    PROVE  /\ s \o t \in Seq(Pieces) /\ (s \o t) \o u = s \o (t \o u)
           /\ <<>> \o s = s /\ s \o <<>> = s /\ <<>> \in Seq(Pieces)
           /\ (s = s \o t => t = <<>>)
<1>1. s \o t \in Seq(Pieces) /\ (s \o t) \o u = s \o (t \o u)
    OBVIOUS
<1>2. <<>> \o s = s /\ s \o <<>> = s /\ <<>> \in Seq(Pieces)
    OBVIOUS
<1>3. ASSUME s = s \o t PROVE t = <<>>
    <2>1. Len(s \o t) = Len(s) + Len(t) /\ Len(s) \in Nat /\ Len(t) \in Nat
        OBVIOUS
    <2>2. Len(t) = 0
        BY <1>3, <2>1
    <2> QED BY <2>2
<1> QED BY <1>1, <1>2, <1>3, Zenon

\* Sequences with the same pieces are the same.
LEMMA SamePieces ==
    ASSUME NEW s \in Seq(Pieces), NEW t \in Seq(Pieces), Len(s) = Len(t), \A i \in 1..Len(s) : s[i] = t[i]
    PROVE  s = t
    OBVIOUS

\* The piece behind a sequence is the first of what follows.
LEMMA Behind ==
    ASSUME NEW s \in Seq(Pieces), NEW t \in Seq(Pieces), t # <<>>
    PROVE  (s \o t)[Len(s) + 1] = t[1] /\ Len(s) + 1 \in 1..Len(s \o t)
<1>1. Len(s) \in Nat /\ Len(t) \in Nat /\ Len(t) >= 1 /\ Len(s \o t) = Len(s) + Len(t)
    OBVIOUS
<1> QED BY <1>1

-----------------------------------------------------------------------------
(* The package.                                                            *)

\* Its constants, written out.
LEMMA Ordered ==
    /\ Order[1] = "BF23" /\ Order[2] = "A0" /\ Order[3] = "A1" /\ Order[4] = "A2" /\ Order[5] = "A3"
    /\ \A k \in 1..5 : Order[k] \in Tags
    BY DEF Order, Tags

\* How many children an element has.
LEMMA Counted ==
    ASSUME TypeOK, NEW k \in 0..5
    PROVE  Of(pkg.children, k) \in Nat /\ Of(pkg.parsed, k) \in Nat
<1>1. pkg.children \in [Containers -> 0..MaxChildren] /\ pkg.parsed \in [Containers -> 0..MaxChildren]
    BY DEF TypeOK, Packages
<1>2. k \in {3, 5} => Order[k] \in Containers
    BY Ordered DEF Containers
<1>3. \A n \in 0..MaxChildren : n \in Nat
    BY MaxChildrenAssumption
<1> QED BY <1>1, <1>2, <1>3, Zenon DEF Of

\* The walk stays within the children of the element it is at.
LEMMA Within ==
    ASSUME TypeOK, \A c \in Containers : pkg.parsed[c] <= pkg.children[c]
    PROVE  /\ elem \in 0..5 /\ child \in Nat /\ child <= Of(pkg.parsed, elem)
           /\ Of(pkg.parsed, elem) <= Of(pkg.children, elem) /\ child <= Of(pkg.children, elem)
<1>1. elem \in 0..5 /\ child \in 0..Of(pkg.parsed, elem)
    BY DEF TypeOK
<1>2. Of(pkg.children, elem) \in Nat /\ Of(pkg.parsed, elem) \in Nat
    BY <1>1, Counted, Zenon
<1>3. Of(pkg.parsed, elem) <= Of(pkg.children, elem)
    <2>1. elem \in {3, 5} => Order[elem] \in Containers
        BY Ordered, Zenon DEF Containers
    <2> QED BY <2>1 DEF Of
<1> QED BY <1>1, <1>2, <1>3

\* Children are taken one at a time, until there is none.
LEMMA ChildByChild ==
    ASSUME TypeOK, NEW k \in 0..5, NEW n \in Nat
    PROVE  /\ Children(k, n) \in Seq(Pieces)
           /\ n < Of(pkg.children, k) =>
                /\ Children(k, n) = << <<Order[k], n + 1>> >> \o Children(k, n + 1)
                /\ Children(k, n) # <<>> /\ Children(k, n)[1] = <<Order[k], n + 1>>
                /\ << <<Order[k], n + 1>> >> \in Seq(Pieces)
           /\ n = Of(pkg.children, k) => Children(k, n) = <<>>
<1> DEFINE m == Of(pkg.children, k)
           a == Children(k, n)
           b == Children(k, n + 1)
           p(i) == <<Order[k], i>>
<1>1. m \in Nat
    BY Counted
<1>2. k = 0 => m = 0
    BY DEF Of
<1>3. ASSUME NEW i \in Nat, k # 0 PROVE p(i) \in Pieces
    <2>1. Order[k] \in Tags
        BY <1>3, Ordered
    <2> QED BY <2>1 DEF Pieces
<1>4. a = [i \in 1..m - n |-> p(n + i)] /\ b = [i \in 1..m - (n + 1) |-> p((n + 1) + i)]
    BY DEF Children
<1> HIDE DEF m, a, b, p
<1>5. ASSUME NEW i \in 1..m - n PROVE p(n + i) \in Pieces
    <2>1. n + i \in Nat /\ m # 0
        BY <1>1
    <2> QED BY <1>2, <1>3, <2>1, Zenon
<1>6. a \in Seq(Pieces)
    <2>1. CASE m >= n
        <3>1. m - n \in Nat
            BY <1>1, <2>1
        <3> QED BY <1>4, <1>5, <3>1
    <2>2. CASE m < n
        <3>1. 1..m - n = {}
            BY <1>1, <2>2
        <3>2. a = <<>>
            BY <1>4, <3>1
        <3> QED BY <3>2
    <2> QED BY <1>1, <2>1, <2>2
<1>7. ASSUME n = m PROVE a = <<>>
    <2>1. 1..m - n = {}
        BY <1>1, <1>7
    <2> QED BY <1>4, <2>1
<1>8. ASSUME n < m PROVE a = <<p(n + 1)>> \o b /\ a # <<>> /\ a[1] = p(n + 1) /\ <<p(n + 1)>> \in Seq(Pieces)
    <2>1. /\ m - n \in Nat /\ m - n >= 1 /\ m - (n + 1) \in Nat /\ 1 \in 1..m - n /\ 1 + (m - (n + 1)) = m - n
          /\ k # 0 /\ n + 1 \in Nat
        BY <1>1, <1>2, <1>8
    <2>2. p(n + 1) \in Pieces
        BY <1>3, <2>1, Zenon
    <2>3. a[1] = p(n + 1) /\ Len(a) = m - n /\ a # <<>>
        BY <1>4, <2>1
    <2>4. b \in Seq(Pieces) /\ Len(b) = m - (n + 1)
        <3>1. ASSUME NEW i \in 1..m - (n + 1) PROVE p((n + 1) + i) \in Pieces
            <4>1. (n + 1) + i \in Nat
                BY <2>1
            <4> QED BY <1>3, <2>1, <4>1
        <3> QED BY <1>4, <2>1, <3>1
    <2>5. <<p(n + 1)>> \in Seq(Pieces) /\ Len(<<p(n + 1)>>) = 1 /\ <<p(n + 1)>>[1] = p(n + 1)
        BY <2>2
    <2> DEFINE c == <<p(n + 1)>>
    <2> HIDE DEF c
    <2>6. c \o b \in Seq(Pieces) /\ Len(c \o b) = Len(a)
        BY <2>1, <2>3, <2>4, <2>5 DEF c
    <2>7. ASSUME NEW i \in 1..Len(a) PROVE a[i] = (c \o b)[i]
        <3>1. CASE i = 1
            BY <2>3, <2>4, <2>5, <3>1 DEF c
        <3>2. CASE i > 1
            <4>1. i - 1 \in 1..m - (n + 1) /\ i \in 1..m - n /\ (n + 1) + (i - 1) = n + i
                BY <1>1, <2>1, <2>3, <3>2
            <4>2. a[i] = p(n + i) /\ b[i - 1] = p(n + i)
                BY <1>4, <4>1, Zenon
            <4>3. (c \o b)[i] = b[i - 1]
                BY <2>4, <2>5, <3>2, <4>1 DEF c
            <4> QED BY <4>2, <4>3
        <3>3. i = 1 \/ i > 1
            OBVIOUS
        <3> QED BY <3>1, <3>2, <3>3, Zenon
    <2>8. a = c \o b
        BY <1>6, <2>6, <2>7, SamePieces, Zenon
    <2> QED BY <2>3, <2>5, <2>8, Zenon DEF c
<1> QED BY <1>6, <1>7, <1>8, Zenon DEF m, a, b, p

\* What opens an element is never a child.
LEMMA Opens ==
    ASSUME NEW k \in 1..5
    PROVE  Opening(k) \in Seq(Pieces) /\ Opening(k) # <<>> /\ \A t, n : n # 0 => Opening(k)[1] # <<t, n>>
<1>1. CASE k = 1
    <2>1. Opening(k) = << <<"BF36", 0>>, <<"BF23", 0>> >>
        BY <1>1 DEF Opening, Piece
    <2>2. <<"BF36", 0>> \in Pieces /\ <<"BF23", 0>> \in Pieces
        BY DEF Pieces, Tags
    <2> QED BY <2>1, <2>2
<1>2. CASE k # 1
    <2>1. Opening(k) = << <<Order[k], 0>> >>
        BY <1>2 DEF Opening, Piece
    <2>2. <<Order[k], 0>> \in Pieces
        BY Ordered, Zenon DEF Pieces
    <2> QED BY <2>1, <2>2
<1> QED BY <1>1, <1>2

\* An element that is there is what opens it and its children.
LEMMA ElementParts ==
    ASSUME TypeOK, NEW k \in 1..5
    PROVE  /\ Element(k) \in Seq(Pieces)
           /\ Order[k] \in pkg.present => Element(k) = Opening(k) \o Children(k, 0) /\ Element(k) # <<>>
           /\ Order[k] \notin pkg.present => Element(k) = <<>>
<1>1. Opening(k) \in Seq(Pieces) /\ Opening(k) # <<>>
    BY Opens, Zenon
<1>2. Children(k, 0) \in Seq(Pieces)
    <2>1. k \in 0..5 /\ 0 \in Nat
        OBVIOUS
    <2> QED BY <2>1, ChildByChild, Zenon
<1> DEFINE o == Opening(k)
           c == Children(k, 0)
<1> HIDE DEF o, c
<1>3. o \in Seq(Pieces) /\ o # <<>> /\ c \in Seq(Pieces)
    BY <1>1, <1>2, Zenon DEF o, c
<1>4. o \o c \in Seq(Pieces) /\ o \o c # <<>>
    BY <1>3
<1> QED BY <1>4 DEF Element, o, c

\* Behind an element comes the next one, and what is behind that.
LEMMA AfterNext ==
    ASSUME TypeOK
    PROVE  /\ \A k \in 0..5 : After(k) \in Seq(Pieces)
           /\ \A k \in 0..4 : After(k) = Element(k + 1) \o After(k + 1)
           /\ After(5) = <<>> /\ Package = After(0)
<1>1. \A k \in 1..5 : Element(k) \in Seq(Pieces)
    BY ElementParts
<1> DEFINE e1 == Element(1)
           e2 == Element(2)
           e3 == Element(3)
           e4 == Element(4)
           e5 == Element(5)
<1>2. e1 \in Seq(Pieces) /\ e2 \in Seq(Pieces) /\ e3 \in Seq(Pieces) /\ e4 \in Seq(Pieces) /\ e5 \in Seq(Pieces)
    BY <1>1
<1>3. /\ After(0) = e1 \o After(1) /\ After(1) = e2 \o After(2) /\ After(2) = e3 \o After(3)
      /\ After(3) = e4 \o After(4) /\ After(4) = e5 /\ After(5) = <<>> /\ Package = After(0)
    BY DEF After, Package
<1> HIDE DEF e1, e2, e3, e4, e5
<1>31. (\A s, t \in Seq(Pieces) : s \o t \in Seq(Pieces)) /\ <<>> \in Seq(Pieces)
    OBVIOUS
<1>4. After(4) = e5 \o After(5)
    BY <1>2, <1>3, Joined, Zenon
<1>5. After(5) \in Seq(Pieces) /\ After(4) \in Seq(Pieces)
    BY <1>2, <1>3, <1>31, Zenon
<1>6. After(3) \in Seq(Pieces)
    BY <1>2, <1>3, <1>31, <1>5, Zenon
<1>7. After(2) \in Seq(Pieces)
    BY <1>2, <1>3, <1>31, <1>6, Zenon
<1>8. After(1) \in Seq(Pieces)
    BY <1>2, <1>3, <1>31, <1>7, Zenon
<1>9. After(0) \in Seq(Pieces)
    BY <1>2, <1>3, <1>31, <1>8, Zenon
<1>10. ASSUME NEW k \in 0..5 PROVE After(k) \in Seq(Pieces)
    <2>1. k = 0 \/ k = 1 \/ k = 2 \/ k = 3 \/ k = 4 \/ k = 5
        OBVIOUS
    <2> QED BY <1>5, <1>6, <1>7, <1>8, <1>9, <2>1, Zenon
<1>11. ASSUME NEW k \in 0..4 PROVE After(k) = Element(k + 1) \o After(k + 1)
    <2>1. k = 0 \/ k = 1 \/ k = 2 \/ k = 3 \/ k = 4
        OBVIOUS
    <2>2. 0 + 1 = 1 /\ 1 + 1 = 2 /\ 2 + 1 = 3 /\ 3 + 1 = 4 /\ 4 + 1 = 5
        OBVIOUS
    <2> QED BY <1>3, <1>4, <2>1, <2>2, Zenon DEF e1, e2, e3, e4, e5
<1> QED BY <1>3, <1>10, <1>11, Zenon

\* Ahead of the walk is a sequence of pieces, and as long as A3 is there and not
\* sent to its last child it is not empty.
LEMMA Ahead ==
    ASSUME TypeOK, \A c \in Containers : pkg.parsed[c] <= pkg.children[c]
    PROVE  /\ Rest \in Seq(Pieces)
           /\ "A3" \in pkg.present /\ Rest = <<>> => elem = 5 /\ child = Of(pkg.children, 5)
<1>1. elem \in 0..5 /\ child \in Nat /\ child <= Of(pkg.children, elem)
    BY Within, Zenon
<1> DEFINE c == Children(elem, child)
           a == After(elem)
<1>2. c \in Seq(Pieces) /\ a \in Seq(Pieces) /\ Rest = c \o a
    BY <1>1, ChildByChild, AfterNext, Zenon DEF Rest
<1>3. ASSUME "A3" \in pkg.present, elem # 5 PROVE a # <<>>
    <2>1. Element(5) # <<>> /\ After(4) = Element(5)
        <3>1. 5 \in 1..5 /\ Order[5] = "A3"
            BY Ordered
        <3>2. After(4) = Element(5)
            BY DEF After
        <3> QED BY <1>3, <3>1, <3>2, ElementParts, Zenon
    <2>2. \A s, t \in Seq(Pieces) : t # <<>> => s \o t # <<>>
        OBVIOUS
    <2>3. \A k \in 1..5 : Element(k) \in Seq(Pieces)
        BY ElementParts
    <2>4. After(4) # <<>> /\ After(4) \in Seq(Pieces)
        BY <2>1, <2>3
    <2>5. After(3) # <<>> /\ After(3) \in Seq(Pieces)
        BY <2>2, <2>3, <2>4, AfterNext
    <2>6. After(2) # <<>> /\ After(2) \in Seq(Pieces)
        BY <2>2, <2>3, <2>5, AfterNext
    <2>7. After(1) # <<>> /\ After(1) \in Seq(Pieces)
        BY <2>2, <2>3, <2>6, AfterNext
    <2>8. After(0) # <<>>
        BY <2>2, <2>3, <2>7, AfterNext
    <2>9. elem = 0 \/ elem = 1 \/ elem = 2 \/ elem = 3 \/ elem = 4
        BY <1>1, <1>3
    <2> QED BY <2>4, <2>5, <2>6, <2>7, <2>8, <2>9, Zenon
<1>4. child < Of(pkg.children, elem) => c # <<>>
    BY <1>1, ChildByChild, Zenon
<1>5. Of(pkg.children, elem) \in Nat
    BY <1>1, Counted
<1> HIDE DEF c, a
<1>6. Rest \in Seq(Pieces) /\ (Rest = <<>> => c = <<>> /\ a = <<>>)
    BY <1>2
<1> QED BY <1>1, <1>3, <1>4, <1>5, <1>6

-----------------------------------------------------------------------------
(* The steps.                                                              *)

\* The package is that of the server throughout.
LEMMA Stays ==
    ASSUME pkg' = pkg
    PROVE  /\ Package' = Package /\ Whole' = Whole /\ (Mandatory \subseteq pkg.present)' = (Mandatory \subseteq pkg.present)
           /\ \A k, n : Children(k, n)' = Children(k, n)
           /\ \A k : After(k)' = After(k) /\ Of(pkg.parsed, k)' = Of(pkg.parsed, k)
    BY DEF Package, Whole, After, Element, Children, Of

\* What a transmission does (es10b_load_bound_profile_package_tx).
LEMMA Transmitted ==
    ASSUME NEW s, Transmit(s), pkg' = pkg
    PROVE  /\ wire' = wire \o s /\ ret' \in {"none", "err"}
           /\ result' \in {"reset", "success", "error"} /\ lost' \in BOOLEAN
           /\ euicc' \in {"loading", "installed", "failed"}
           /\ ret' = "none" => IsPrefix(wire', Package)
           /\ Outcome'
<1> DEFINE full == wire' = Package /\ Mandatory \subseteq pkg.present
<1>1. Complete' <=> full
    BY DEF Complete, Package, Element, Children, Of
<1>2. /\ wire' = wire \o s
      /\ \/ euicc' = "failed"
         \/ IsPrefix(wire', Package) /\ euicc' = IF full THEN "installed" ELSE "loading"
    BY DEF Transmit, EuiccMay
<1>3. \/ /\ lost' = FALSE
         /\ euicc' = "installed" => result' = "success"
         /\ euicc' = "failed" => result' = "error"
         /\ euicc' = "loading" => result' = "reset"
         /\ ret' = IF euicc' = "failed" THEN "err" ELSE "none"
      \/ lost' = TRUE /\ result' = "reset" /\ ret' = "err"
    <2>1. CASE /\ lost' = FALSE
               /\ result' = CASE euicc' = "installed" -> "success"
                              [] euicc' = "failed"    -> "error"
                              [] OTHER                -> "reset"
               /\ ret' = IF euicc' = "failed" THEN "err" ELSE "none"
        BY <2>1
    <2> QED BY <2>1 DEF Transmit
<1> HIDE DEF full
<1> QED BY <1>1, <1>2, <1>3, Zenon DEF Outcome

\* At the start everything is ahead.
LEMMA InitEstablishes == Init => IInv
<1> SUFFICES ASSUME Init PROVE IInv
    BY Zenon
<1>1. /\ pkg \in Packages /\ \A c \in Containers : pkg.parsed[c] <= pkg.children[c]
      /\ elem = 0 /\ child = 0 /\ result = "reset" /\ ret = "none" /\ wire = <<>> /\ euicc = "loading" /\ lost = FALSE
    BY DEF Init
<1>2. Of(pkg.parsed, elem) = 0 /\ Of(pkg.children, elem) = 0
    BY <1>1 DEF Of
<1>21. 0 \in 0..5 /\ 0 \in 0..0 /\ 0 \in Nat
    OBVIOUS
<1>3. TypeOK
    BY <1>1, <1>2, <1>21, Zenon DEF TypeOK
<1>4. wire \in Seq(Pieces)
    BY <1>1
<1>5. Package \in Seq(Pieces) /\ Rest = Package
    <2>1. After(0) \in Seq(Pieces) /\ Package = After(0)
        BY <1>3, AfterNext
    <2>2. Children(elem, child) = <<>>
        BY <1>1, <1>2, <1>21, <1>3, ChildByChild, Zenon
    <2> QED BY <1>1, <2>1, <2>2, Joined, Zenon DEF Rest
<1>6. Package = wire \o Rest
    BY <1>1, <1>5, Joined, Zenon
<1>7. ~Complete
    <2>1. Rest = <<>> /\ "A3" \in pkg.present => FALSE
        BY <1>1, <1>3, Ahead
    <2>2. Complete => Rest = <<>> /\ "A3" \in pkg.present
        BY <1>1, <1>5, Zenon DEF Complete, Mandatory, Tags
    <2> QED BY <2>1, <2>2, Zenon
<1> QED BY <1>1, <1>3, <1>4, <1>6, <1>7 DEF IInv, InOrder, Outcome

\* A child is sent: it is the next piece of the package.
LEMMA SendChildKeeps ==
    ASSUME IInv, SendChild
    PROVE  IInv'
<1> DEFINE s == << <<Order[elem], child + 1>> >>
<1>1. /\ TypeOK /\ wire \in Seq(Pieces) /\ ret = "none" /\ pkg' = pkg /\ elem' = elem /\ child' = child + 1
      /\ Transmit(s) /\ HasNext /\ \A c \in Containers : pkg.parsed[c] <= pkg.children[c]
    BY DEF IInv, SendChild
<1>2. /\ elem \in 0..5 /\ child \in Nat /\ child < Of(pkg.parsed, elem) /\ child < Of(pkg.children, elem)
      /\ Of(pkg.parsed, elem) \in Nat /\ Of(pkg.children, elem) \in Nat /\ child + 1 \in Nat
    <2>1. elem \in 0..5 /\ child \in Nat /\ Of(pkg.parsed, elem) <= Of(pkg.children, elem)
        BY <1>1, Within, Zenon
    <2>2. Of(pkg.parsed, elem) \in Nat /\ Of(pkg.children, elem) \in Nat
        BY <1>1, <2>1, Counted, Zenon
    <2>3. child < Of(pkg.parsed, elem)
        BY <1>1 DEF HasNext
    <2> QED BY <2>1, <2>2, <2>3
<1>3. s \in Seq(Pieces) /\ Children(elem, child) = s \o Children(elem, child + 1)
      /\ Children(elem, child + 1) \in Seq(Pieces)
    BY <1>1, <1>2, ChildByChild, Zenon
<1> HIDE DEF s
<1>4. After(elem) \in Seq(Pieces)
    BY <1>1, <1>2, AfterNext, Zenon
<1>5. Rest = s \o Rest' /\ Rest' \in Seq(Pieces)
    <2>1. Rest' = Children(elem, child + 1) \o After(elem)
        BY <1>1, Stays, Zenon DEF Rest
    <2> QED BY <1>3, <1>4, <2>1, Joined DEF Rest
<1>6. wire' = wire \o s /\ Outcome'
    BY <1>1, Transmitted
<1>7. wire' \in Seq(Pieces)
    BY <1>1, <1>3, <1>6
<1>8. Package = wire' \o Rest'
    <2>1. Package = wire \o Rest
        BY <1>1, Zenon DEF IInv, InOrder
    <2>2. wire \o (s \o Rest') = (wire \o s) \o Rest'
        <3>1. \A a, b, c \in Seq(Pieces) : a \o (b \o c) = (a \o b) \o c
            OBVIOUS
        <3> QED BY <1>1, <1>3, <1>5, <3>1, Zenon
    <2> QED BY <1>5, <1>6, <2>1, <2>2, Zenon
<1>9. TypeOK'
    <2>1. child + 1 \in 0..Of(pkg.parsed, elem)
        BY <1>2
    <2>2. (child \in 0..Of(pkg.parsed, elem))'
        BY <1>1, <2>1, Stays, Zenon
    <2>3. ret' \in {"none", "ok", "err"} /\ result' \in {"reset", "success", "error"} /\ lost' \in BOOLEAN
          /\ euicc' \in {"loading", "installed", "failed"}
        BY <1>1, Transmitted, Zenon
    <2> QED BY <1>1, <1>2, <2>2, <2>3 DEF TypeOK
<1>10. InOrder'
    <2>1. (elem > 3 => pkg.parsed["A1"] = pkg.children["A1"])'
        BY <1>1, Zenon DEF IInv, InOrder
    <2>2. ret' # "ok"
        BY <1>1, Transmitted, Zenon
    <2>3. Package' = wire' \o Rest'
        BY <1>1, <1>8, Stays, Zenon
    <2> QED BY <2>1, <2>2, <2>3, Zenon DEF InOrder
<1> QED BY <1>1, <1>6, <1>7, <1>9, <1>10, Zenon DEF IInv

\* An element is sent.  With the children before it all sent it is the next piece
\* of the package; else it is out of order, and the eUICC refuses it.
LEMMA SendElementKeeps ==
    ASSUME IInv, SendElement
    PROVE  IInv'
<1> DEFINE f == Following
           s == Opening(f)
<1>1. /\ TypeOK /\ wire \in Seq(Pieces) /\ ret = "none" /\ pkg' = pkg /\ elem' = f /\ child' = 0
      /\ Transmit(s) /\ ~HasNext /\ \A c \in Containers : pkg.parsed[c] <= pkg.children[c]
      /\ f <= 5 /\ Order[f] \in pkg.present
    BY DEF IInv, SendElement, Found
<1>2. /\ elem \in 0..5 /\ child \in Nat /\ child = Of(pkg.parsed, elem) /\ child <= Of(pkg.children, elem)
      /\ Of(pkg.parsed, elem) \in Nat /\ Of(pkg.children, elem) \in Nat
    <2>1. elem \in 0..5 /\ child \in Nat /\ child <= Of(pkg.parsed, elem) /\ child <= Of(pkg.children, elem)
        BY <1>1, Within, Zenon
    <2>2. Of(pkg.parsed, elem) \in Nat /\ Of(pkg.children, elem) \in Nat
        BY <1>1, <2>1, Counted, Zenon
    <2>3. ~(child < Of(pkg.parsed, elem))
        BY <1>1 DEF HasNext
    <2> QED BY <2>1, <2>2, <2>3
<1>3. f \in 1..5 /\ (f = elem + 1 \/ (f = elem + 2 /\ elem = 3 /\ "A2" \notin pkg.present))
    <2>1. f = IF elem = 3 /\ "A2" \notin pkg.present THEN 5 ELSE elem + 1
        BY DEF Following
    <2> HIDE DEF f
    <2> QED BY <1>1, <1>2, <2>1
<1>31. f \in 0..5 /\ 0 \in Nat
    BY <1>3
<1> HIDE DEF f
<1>4. s \in Seq(Pieces) /\ s # <<>> /\ \A t, n : n # 0 => s[1] # <<t, n>>
    BY <1>3, Opens, Zenon
<1>5. /\ Element(f) = s \o Children(f, 0) /\ Children(f, 0) \in Seq(Pieces)
      /\ After(f) \in Seq(Pieces) /\ After(elem) \in Seq(Pieces) /\ Children(elem, child) \in Seq(Pieces)
    <2>1. Element(f) = s \o Children(f, 0)
        BY <1>1, <1>3, ElementParts, Zenon
    <2>2. Children(f, 0) \in Seq(Pieces) /\ Children(elem, child) \in Seq(Pieces)
        BY <1>1, <1>2, <1>31, ChildByChild, Zenon
    <2> QED BY <1>1, <1>2, <1>31, <2>1, <2>2, AfterNext, Zenon
<1>6. After(elem) = Element(f) \o After(f)
    <2>1. CASE f = elem + 1
        <3>1. elem \in 0..4
            BY <1>2, <1>3, <2>1
        <3> QED BY <1>1, <2>1, <3>1, AfterNext, Zenon
    <2>2. CASE f = elem + 2 /\ elem = 3 /\ "A2" \notin pkg.present
        <3>0. 3 \in 0..4 /\ 4 \in 0..4 /\ 4 \in 0..5 /\ 3 + 1 = 4 /\ 4 + 1 = 5 /\ f = 5
            BY <2>2
        <3>1. After(3) = Element(4) \o After(4) /\ After(4) = Element(5) \o After(5) /\ After(4) \in Seq(Pieces)
            BY <1>1, <3>0, AfterNext, Zenon
        <3>2. Element(4) = <<>>
            BY <1>1, <2>2, ElementParts, Ordered
        <3> QED BY <2>2, <3>0, <3>1, <3>2, Joined, Zenon
    <2> QED BY <1>3, <2>1, <2>2
<1> HIDE DEF s
<1>7. Rest' = Children(f, 0) \o After(f) /\ Rest' \in Seq(Pieces)
    <2>1. Rest' = Children(f, 0) \o After(f)
        BY <1>1, Stays, Zenon DEF Rest
    <2> QED BY <1>5, <2>1
<1>8. After(elem) = s \o Rest'
  <2>1. (s \o Children(f, 0)) \o After(f) = s \o (Children(f, 0) \o After(f))
    <3>1. s \in Seq(Pieces) /\ Children(f, 0) \in Seq(Pieces) /\ After(f) \in Seq(Pieces)
      BY <1>4, <1>5, Zenon
    <3> QED BY <3>1
  <2>2. After(elem) = (s \o Children(f, 0)) \o After(f)
    BY <1>5, <1>6, Zenon
  <2> QED BY <1>7, <2>1, <2>2, Zenon
<1>9. wire' = wire \o s /\ Outcome' /\ (ret' = "none" => IsPrefix(wire', Package)) /\ ret' \in {"none", "err"}
    BY <1>1, Transmitted, Zenon
<1>10. wire' \in Seq(Pieces)
    BY <1>1, <1>4, <1>9
<1>11. Package = wire \o Rest /\ Rest = Children(elem, child) \o After(elem)
    BY <1>1, Zenon DEF IInv, InOrder, Rest
<1>12. ASSUME child = Of(pkg.children, elem) PROVE Package = wire' \o Rest'
    <2>1. Children(elem, child) = <<>>
        BY <1>1, <1>2, <1>12, ChildByChild, Zenon
    <2>2. Rest = s \o Rest'
        BY <1>5, <1>8, <1>11, <2>1, Joined
    <2>3. wire \o (s \o Rest') = (wire \o s) \o Rest'
        <3>1. \A a, b, c \in Seq(Pieces) : a \o (b \o c) = (a \o b) \o c
            OBVIOUS
        <3> QED BY <1>1, <1>4, <1>7, <3>1, Zenon
    <2> QED BY <1>9, <1>11, <2>2, <2>3, Zenon
<1>13. ASSUME child # Of(pkg.children, elem) PROVE ret' = "err"
    <2> DEFINE c == Children(elem, child)
    <2>1. child < Of(pkg.children, elem)
        BY <1>2, <1>13
    <2>2. c # <<>> /\ c[1] = <<Order[elem], child + 1>>
        BY <1>1, <1>2, <2>1, ChildByChild, Zenon
    <2>3. c \in Seq(Pieces)
        BY <1>5
    <2>4. child + 1 # 0
        BY <1>2
    <2> HIDE DEF c
    <2>5. Rest \in Seq(Pieces) /\ Rest # <<>> /\ Rest[1] = c[1]
        <3>1. Rest = c \o After(elem)
            BY <1>11, Zenon DEF c
        <3> QED BY <1>5, <2>2, <2>3, <3>1
    <2>6. Package[Len(wire) + 1] = c[1] /\ Package \in Seq(Pieces)
        BY <1>1, <1>11, <2>5, Behind, Joined, Zenon
    <2>7. wire'[Len(wire) + 1] = s[1] /\ Len(wire) + 1 \in 1..Len(wire')
        BY <1>1, <1>4, <1>9, Behind, Zenon
    <2>8. s[1] # c[1]
        BY <1>4, <2>2, <2>4, Zenon
    <2>9. ~IsPrefix(wire', Package)
        BY <1>10, <2>6, <2>7, <2>8, PrefixPiece, Zenon
    <2> QED BY <1>9, <2>9, Zenon
<1>14. TypeOK'
    <2>1. Of(pkg.parsed, f) \in Nat
        BY <1>1, <1>31, Counted, Zenon
    <2>2. 0 \in 0..Of(pkg.parsed, f)
        BY <2>1
    <2>3. (child \in 0..Of(pkg.parsed, elem))'
        BY <1>1, <2>2, Stays
    <2>4. ret' \in {"none", "ok", "err"} /\ result' \in {"reset", "success", "error"} /\ lost' \in BOOLEAN
          /\ euicc' \in {"loading", "installed", "failed"}
        BY <1>1, Transmitted, Zenon
    <2> QED BY <1>1, <1>31, <2>3, <2>4, Zenon DEF TypeOK
<1>15. InOrder'
    <2>1. ASSUME ret' # "err" PROVE child = Of(pkg.children, elem)
        BY <1>13, <2>1, Zenon
    <2>2. ASSUME Whole PROVE child = Of(pkg.children, elem)
        BY <1>2, <2>2, Zenon DEF Whole
    <2>3. ret' # "err" \/ Whole' => Package' = wire' \o Rest'
        BY <1>1, <1>12, <2>1, <2>2, Stays, Zenon
    <2>4. ASSUME ret' # "err", elem' > 3 PROVE pkg.parsed["A1"] = pkg.children["A1"]
        <3>1. elem > 3 \/ elem = 3
            BY <1>1, <1>2, <1>3, <2>4
        <3>2. CASE elem = 3
            BY <1>2, <2>1, <2>4, <3>2, Ordered, Zenon DEF Of
        <3> QED BY <1>1, <3>1, <3>2, Zenon DEF IInv, InOrder
    <2>5. ret' # "ok"
        BY <1>9, Zenon
    <2> QED BY <1>1, <2>3, <2>4, <2>5, Zenon DEF InOrder
<1> QED BY <1>1, <1>9, <1>10, <1>14, <1>15, Zenon DEF IInv

\* A segment that does not arrive ends the call, and leaves the eUICC as it is.
LEMMA TransmitFailsKeeps ==
    ASSUME IInv, TransmitFails
    PROVE  IInv'
<1>1. /\ ret = "none" /\ result' = "reset" /\ ret' = "err" /\ UNCHANGED <<pkg, elem, child, wire, euicc, lost>>
    BY Zenon DEF TransmitFails
<1>2. TypeOK'
    BY <1>1, Zenon DEF IInv, TypeOK, Of
<1>3. Rest' = Rest /\ Package' = Package /\ Whole' = Whole /\ Complete' = Complete
    BY <1>1 DEF Rest, Package, Whole, Complete, After, Element, Children, Of
<1>4. InOrder'
    BY <1>1, <1>3, Zenon DEF IInv, InOrder
<1>5. Outcome'
    BY <1>1, <1>3, Zenon DEF IInv, Outcome
<1> QED BY <1>1, <1>2, <1>4, <1>5, Zenon DEF IInv

\* The call ends: at the end of A3, or at a mandatory element that is not there,
\* in which case the eUICC cannot have installed the package.
LEMMA FinishKeeps ==
    ASSUME IInv, Finish
    PROVE  IInv'
<1>1. /\ ret = "none" /\ ~HasNext /\ ~Found /\ ret' = IF Following = 6 THEN "ok" ELSE "err"
      /\ UNCHANGED <<pkg, elem, child, result, wire, euicc, lost>>
    BY Zenon DEF Finish
<1>2. TypeOK'
    BY <1>1, Zenon DEF IInv, TypeOK, Of
<1>3. Rest' = Rest /\ Package' = Package /\ Whole' = Whole /\ Complete' = Complete /\ HasNext' = HasNext
    BY <1>1 DEF Rest, Package, Whole, Complete, After, Element, Children, Of, HasNext
<1>4. elem \in 0..5
    BY DEF IInv, TypeOK
<1>5. Following = 6 => elem = 5
    BY <1>4 DEF Following
<1>6. InOrder'
    BY <1>1, <1>3, <1>5, Zenon DEF IInv, InOrder
<1>7. Following # 6 => ~(Mandatory \subseteq pkg.present)
    <2>1. ASSUME Following # 6 PROVE Following \in 1..5 /\ Order[Following] \notin pkg.present
        BY <1>1, <1>4, <2>1 DEF Found, Following
    <2>2. ASSUME Following = 4 PROVE "A2" \in pkg.present
        BY <1>4, <2>2 DEF Following
    <2>3. ASSUME NEW k \in 1..5, k # 4 PROVE Order[k] \in Mandatory
        BY <2>3, Ordered DEF Mandatory, Tags
    <2> QED BY <2>1, <2>2, <2>3, Ordered, Zenon
<1>8. Outcome'
    BY <1>1, <1>3, <1>7, Zenon DEF IInv, Outcome, Complete
<1> QED BY <1>1, <1>2, <1>6, <1>8, Zenon DEF IInv

\* Every step keeps the invariant.
LEMMA NextPreserves == IInv /\ [Next]_vars => IInv'
<1> SUFFICES ASSUME IInv, [Next]_vars PROVE IInv'
    BY Zenon
<1>1. CASE UNCHANGED vars
    <2>1. UNCHANGED <<pkg, elem, child, result, ret, wire, euicc, lost>>
        BY <1>1, Zenon DEF vars
    <2>2. Rest' = Rest /\ Package' = Package /\ Whole' = Whole /\ Complete' = Complete /\ HasNext' = HasNext
        BY <2>1 DEF Rest, Package, Whole, Complete, After, Element, Children, Of, HasNext
    <2>3. TypeOK'
        BY <2>1, Zenon DEF IInv, TypeOK, Of
    <2>4. InOrder' /\ Outcome'
        BY <2>1, <2>2, Zenon DEF IInv, InOrder, Outcome
    <2> QED BY <2>1, <2>3, <2>4, Zenon DEF IInv
<1>2. CASE Next
    BY <1>2, SendElementKeeps, SendChildKeeps, TransmitFailsKeeps, FinishKeeps, Zenon DEF Next
<1> QED BY <1>1, <1>2, Zenon

\* When a call with a whole package succeeds, nothing is ahead.
LEMMA AllSent ==
    ASSUME IInv, Whole, ret = "ok"
    PROVE  Rest = <<>>
<1>1. /\ TypeOK /\ elem = 5 /\ ~HasNext /\ \A c \in Containers : pkg.parsed[c] <= pkg.children[c]
    BY Zenon DEF IInv, InOrder
<1>2. child \in Nat /\ child <= Of(pkg.parsed, 5) /\ 5 \in 0..5
    BY <1>1, Within, Zenon
<1>3. Of(pkg.parsed, 5) \in Nat
    BY <1>1, <1>2, Counted, Zenon
<1>4. child = Of(pkg.parsed, 5)
    BY <1>1, <1>2, <1>3 DEF HasNext
<1>5. child = Of(pkg.children, 5)
    BY <1>4, Zenon DEF Whole
<1>6. Children(5, child) = <<>> /\ After(5) = <<>>
    BY <1>1, <1>2, <1>5, ChildByChild, AfterNext, Zenon
<1> QED BY <1>1, <1>6, Joined DEF Rest

\* The variables keep their types, and the walk stays within the package, for any
\* number of children.
THEOREM LoadBppTyped == Spec => []TypeOK
<1>1. IInv => TypeOK
    BY DEF IInv
<1> QED BY <1>1, InitEstablishes, NextPreserves, PTL DEF Spec

\* es10b_load_bound_profile_package_r sends a whole package byte for byte and in
\* order, whatever its size.
THEOREM SegmentsAlwaysThePackage == Spec => []SegmentsAreThePackage
<1>1. ASSUME IInv PROVE SegmentsAreThePackage
    <2>1. ASSUME Whole PROVE IsPrefix(wire, Package) /\ (ret = "ok" => wire = Package)
        <3>1. /\ TypeOK /\ wire \in Seq(Pieces) /\ Package = wire \o Rest
              /\ \A c \in Containers : pkg.parsed[c] <= pkg.children[c]
            BY <1>1, <2>1, Zenon DEF IInv, InOrder
        <3>2. Rest \in Seq(Pieces)
            BY <3>1, Ahead, Zenon
        <3>3. IsPrefix(wire, Package)
            BY <3>1, <3>2, Prefixed, Zenon
        <3>4. ASSUME ret = "ok" PROVE wire = Package
            <4>1. Rest = <<>>
                BY <1>1, <2>1, <3>1, <3>4, AllSent, Zenon
            <4> QED BY <3>1, <4>1, Joined, Zenon
        <3> QED BY <3>3, <3>4, Zenon
    <2> QED BY <2>1, Zenon DEF SegmentsAreThePackage
<1> QED BY <1>1, InitEstablishes, NextPreserves, PTL DEF Spec

\* The outcome of the call is the eUICC's: success of a whole package means that it
\* is installed, an unparsable child of A1 is never success, and *result holds the
\* error that the eUICC gave.
THEOREM ResultAlwaysTheEuiccs == Spec => []ResultIsTheEuiccs
<1>1. ASSUME IInv PROVE ResultIsTheEuiccs
    <2>1. ASSUME ret = "ok", Whole PROVE euicc = "installed" /\ result = "success"
        <3>1. /\ TypeOK /\ wire \in Seq(Pieces) /\ Package = wire \o Rest
              /\ \A c \in Containers : pkg.parsed[c] <= pkg.children[c]
            BY <1>1, <2>1, Zenon DEF IInv, InOrder
        <3>2. Rest = <<>>
            BY <1>1, <2>1, AllSent, Zenon
        <3>3. wire = Package
            BY <3>1, <3>2, Joined
        <3> QED BY <1>1, <2>1, <3>3, Zenon DEF IInv, Outcome, Complete, Whole
    <2>2. ret = "ok" => pkg.parsed["A1"] = pkg.children["A1"]
        BY <1>1 DEF IInv, InOrder
    <2> QED BY <1>1, <2>1, <2>2, Zenon DEF ResultIsTheEuiccs, IInv, Outcome
<1> QED BY <1>1, InitEstablishes, NextPreserves, PTL DEF Spec

\* Once the eUICC has ended the installation, with or without success, no segment
\* follows.
THEOREM AlwaysStopsAtTheEnd == Spec => StopsAtTheEnd
<1>1. ASSUME IInv, [Next]_vars PROVE [euicc # "loading" => wire' = wire]_vars
    <2>1. ASSUME euicc # "loading", SendElement \/ SendChild PROVE FALSE
        <3>1. /\ TypeOK /\ wire \in Seq(Pieces) /\ ret = "none" /\ Package = wire \o Rest
              /\ \A c \in Containers : pkg.parsed[c] <= pkg.children[c]
            BY <1>1, <2>1, Zenon DEF IInv, InOrder, SendElement, SendChild
        <3>2. euicc = "installed" /\ wire = Package /\ Mandatory \subseteq pkg.present
            BY <1>1, <2>1, <3>1, Zenon DEF IInv, Outcome, Complete, TypeOK
        <3>3. Rest \in Seq(Pieces)
            BY <3>1, Ahead, Zenon
        <3>4. Rest = <<>>
            BY <3>1, <3>2, <3>3, Joined, Zenon
        <3>5. elem = 5 /\ child = Of(pkg.children, 5)
            <4>1. "A3" \in pkg.present
                BY <3>2, Zenon DEF Mandatory, Tags
            <4> QED BY <3>1, <3>4, <4>1, Ahead, Zenon
        <3>6. Following = 6
            BY <3>5 DEF Following
        <3>7. ~Found
            BY <3>6 DEF Found
        <3>8. ~HasNext
            <4>1. Of(pkg.parsed, elem) <= Of(pkg.children, elem)
                BY <3>1, Within, Zenon
            <4>2. Of(pkg.parsed, 5) \in Nat /\ Of(pkg.children, 5) \in Nat
                BY <3>1, Counted
            <4> QED BY <3>5, <4>1, <4>2 DEF HasNext
        <3> QED BY <2>1, <3>7, <3>8, Zenon DEF SendElement, SendChild
    <2> QED BY <1>1, <2>1, Zenon DEF Next, TransmitFails, Finish
<1> QED BY <1>1, InitEstablishes, NextPreserves, PTL DEF Spec, StopsAtTheEnd
=============================================================================

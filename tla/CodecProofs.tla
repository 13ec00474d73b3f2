----------------------------- MODULE CodecProofs -----------------------------
(***************************************************************************)
(* The codecs of hexutil.c and base64.c lose nothing: bytes of any number  *)
(* that were turned into a text come back from it; a hexadecimal or BCD    *)
(* text that is turned into bytes is the text of these bytes, up to the    *)
(* filler of an ICCID; and decoded base64 fits the space computed for it.  *)
(***************************************************************************)
EXTENDS TextCodecs, TLAPS, WellFoundedInduction

Bytes == 0..255

\* Character j of the text of bin with the two characters of each byte swapped.
Digit(bin, j) == IF j % 2 = 1 THEN bin[(j + 1) \div 2] % 16 ELSE bin[j \div 2] \div 16
Digits(bin, n) == [j \in 1..n |-> Digit(bin, j)]

-----------------------------------------------------------------------------
(* Naturals and sequences.                                                 *)

\* A set of naturals has a least element.
LEMMA Least ==
    ASSUME NEW S \in SUBSET Nat, S # {}
    PROVE  \E k \in S : \A j \in S : k <= j
<1> DEFINE R == OpToRel(<, Nat)
<1>1. \A x, y \in Nat : <<y, x>> \in R <=> y < x
    BY DEF OpToRel
<1>2. IsWellFoundedOn(R, Nat)
    BY NatLessThanWellFounded
<1> HIDE DEF R
<1>3. PICK x \in S : \A y \in S : ~(<<y, x>> \in R)
    BY <1>2, WFMin, Zenon
<1>4. ASSUME NEW y \in S PROVE x <= y
    <2>1. x \in Nat /\ y \in Nat
        OBVIOUS
    <2>2. ~(y < x)
        BY <1>1, <1>3, <2>1, Zenon
    <2> QED BY <2>1, <2>2
<1> QED BY <1>4

\* A bounded set of naturals has a largest element, which is what CHOOSE finds in
\* Bin2Gsmbcd.
LEMMA Largest ==
    ASSUME NEW n \in Nat, NEW S \in SUBSET (0..n), S # {}
    PROVE  LET last == CHOOSE k \in S : \A j \in S : j <= k
           IN  last \in S /\ \A j \in S : j <= last
<1> DEFINE T == {t \in Nat : \E k \in S : t = n - k}
<1>1. \A k \in S : k \in 0..n /\ n - k \in T
    <2>1. ASSUME NEW k \in S PROVE k \in 0..n
        OBVIOUS
    <2>2. ASSUME NEW k \in S PROVE n - k \in Nat
        BY <2>1
    <2> QED BY <2>1, <2>2
<1>2. T \in SUBSET Nat /\ T # {}
    BY <1>1, Zenon
<1>3. PICK m \in T : \A j \in T : m <= j
    BY <1>2, Least, Zenon
<1>4. PICK k \in S : m = n - k
    OBVIOUS
<1> HIDE DEF T
<1>5. ASSUME NEW j \in S PROVE j <= k
    <2>1. m <= n - j
        BY <1>1, <1>3
    <2> QED BY <1>1, <1>4, <2>1
<1> QED BY <1>5, Zenon

\* A function on 1..n is a sequence of length n.
LEMMA Tuple ==
    ASSUME NEW n \in Nat, NEW S, NEW f \in [1..n -> S]
    PROVE  f \in Seq(S) /\ Len(f) = n
    OBVIOUS

\* The first n elements of a sequence.
LEMMA FirstPart ==
    ASSUME NEW S, NEW s \in Seq(S), NEW n \in 0..Len(s)
    PROVE  SubSeq(s, 1, n) = [i \in 1..n |-> s[i]]
    OBVIOUS

\* A sequence is a function.
LEMMA AsFunction ==
    ASSUME NEW S, NEW s \in Seq(S)
    PROVE  s = [i \in 1..Len(s) |-> s[i]]
    OBVIOUS

\* Digits with one more behind them.
LEMMA Extended ==
    ASSUME NEW s \in Seq(0..15), NEW e \in 0..15
    PROVE  Append(s, e) = [j \in 1..Len(s) + 1 |-> IF j <= Len(s) THEN s[j] ELSE e]
<1>1. Append(s, e) \in Seq(0..15) /\ Len(Append(s, e)) = Len(s) + 1
    OBVIOUS
<1>2. Append(s, e) = [j \in 1..Len(Append(s, e)) |-> Append(s, e)[j]]
    BY <1>1, AsFunction, Zenon
<1>3. \A j \in 1..Len(s) + 1 : Append(s, e)[j] = IF j <= Len(s) THEN s[j] ELSE e
    OBVIOUS
<1> QED BY <1>1, <1>2, <1>3

\* Bytes behind bytes.
LEMMA InRow ==
    ASSUME NEW s \in Seq(Bytes), NEW t \in Seq(Bytes)
    PROVE  s \o t = [j \in 1..Len(s) + Len(t) |-> IF j <= Len(s) THEN s[j] ELSE t[j - Len(s)]]
<1>1. s \o t \in Seq(Bytes) /\ Len(s \o t) = Len(s) + Len(t)
    OBVIOUS
<1>2. s \o t = [j \in 1..Len(s \o t) |-> (s \o t)[j]]
    BY <1>1, AsFunction, Zenon
<1>3. \A j \in 1..Len(s) + Len(t) : (s \o t)[j] = IF j <= Len(s) THEN s[j] ELSE t[j - Len(s)]
    OBVIOUS
<1> QED BY <1>1, <1>2, <1>3

-----------------------------------------------------------------------------
(* Bytes and their digits.                                                 *)

\* A byte and its halves (bin2hex).
LEMMA Halves ==
    ASSUME NEW b \in Bytes
    PROVE  b \div 16 \in 0..15 /\ b % 16 \in 0..15 /\ (b \div 16) * 16 + (b % 16) = b
<1>1. b \in Int /\ 0 <= b /\ b <= 255
    BY DEF Bytes
<1>2. b \div 16 \in 0..15
    BY <1>1
<1>3. b % 16 \in 0..15
    BY <1>1
<1>4. (b \div 16) * 16 + (b % 16) = b
    BY <1>1
<1> QED BY <1>2, <1>3, <1>4

\* Two digits and their byte (hex2bin_r).
LEMMA Joined ==
    ASSUME NEW h \in 0..15, NEW l \in 0..15
    PROVE  h * 16 + l \in Bytes /\ (h * 16 + l) \div 16 = h /\ (h * 16 + l) % 16 = l
<1>1. h \in Int /\ l \in Int /\ 0 <= h /\ h <= 15 /\ 0 <= l /\ l <= 15
    OBVIOUS
<1>2. h * 16 + l \in Bytes
    BY <1>1 DEF Bytes
<1>3. (h * 16 + l) \div 16 = h
    BY <1>1
<1>4. (h * 16 + l) % 16 = l
    BY <1>1
<1> QED BY <1>2, <1>3, <1>4

\* To which byte digit j belongs.
LEMMA Positions ==
    \A j \in Nat : /\ j % 2 = 1 => 2 * ((j + 1) \div 2) - 1 = j
                   /\ j % 2 # 1 => 2 * ((j + 1) \div 2) = j
    OBVIOUS

\* The swapped text of bytes, character by character.
LEMMA SwappedText ==
    ASSUME NEW bin \in Seq(Bytes)
    PROVE  /\ SwapChars(Bin2Hex(bin)) = Digits(bin, 2 * Len(bin))
           /\ \A j \in 1..2 * Len(bin) : Digit(bin, j) \in 0..15
<1> DEFINE n == Len(bin)
<1>1. n \in Nat /\ 2 * n \in Nat
    OBVIOUS
<1>2. ASSUME NEW j \in 1..2 * n
      PROVE  /\ j % 2 = 1 => (j + 1) \div 2 \in 1..n /\ j + 1 \in 1..2 * n /\ (j + 1 + 1) \div 2 = (j + 1) \div 2
             /\ j % 2 # 1 => j \div 2 \in 1..n /\ j - 1 \in 1..2 * n /\ (j - 1 + 1) \div 2 = j \div 2
                             /\ (j - 1) % 2 = 1
             /\ j % 2 = 1 => (j + 1) % 2 = 0
    BY <1>1
<1>3. Len(Bin2Hex(bin)) = 2 * n
    BY <1>1 DEF Bin2Hex
<1>4. ASSUME NEW j \in 1..2 * n
      PROVE  /\ SwapChars(Bin2Hex(bin))[j] = Digit(bin, j)
             /\ Digit(bin, j) \in 0..15
  <2>1. CASE j % 2 = 1
    <3>1. SwapChars(Bin2Hex(bin))[j] = Bin2Hex(bin)[j + 1]
      BY <1>3, <2>1 DEF SwapChars
    <3>2. Bin2Hex(bin)[j + 1] = bin[(j + 1) \div 2] % 16
      BY <1>2, <2>1 DEF Bin2Hex
    <3>3. bin[(j + 1) \div 2] \in Bytes
      BY <1>2, <2>1
    <3> QED BY <2>1, <3>1, <3>2, <3>3, Halves, Zenon DEF Digit
  <2>2. CASE j % 2 # 1
    <3>1. SwapChars(Bin2Hex(bin))[j] = Bin2Hex(bin)[j - 1]
      BY <1>3, <2>2 DEF SwapChars
    <3>2. Bin2Hex(bin)[j - 1] = bin[j \div 2] \div 16
      BY <1>2, <2>2 DEF Bin2Hex
    <3>3. bin[j \div 2] \in Bytes
      BY <1>2, <2>2
    <3> QED BY <2>2, <3>1, <3>2, <3>3, Halves, Zenon DEF Digit
  <2> QED BY <2>1, <2>2
<1>5. SwapChars(Bin2Hex(bin)) = [j \in 1..2 * n |-> SwapChars(Bin2Hex(bin))[j]]
    BY <1>3 DEF SwapChars
<1> QED BY <1>4, <1>5 DEF Digits

\* hex2bin_r gives the bytes back, the first m of them from the first 2 * m
\* characters.
LEMMA BytesBack ==
    ASSUME NEW bin \in Seq(Bytes), NEW m \in 0..Len(bin), NEW room \in Nat, m <= room
    PROVE  Hex2Bin(SwapChars(Digits(bin, 2 * m)), room) = [ret |-> m, output |-> [i \in 1..m |-> bin[i]]]
<1> DEFINE text == Digits(bin, 2 * m)
           hex == SwapChars(text)
<1>1. m \in Nat /\ 2 * m \in Nat /\ Len(bin) \in Nat /\ m <= Len(bin)
    OBVIOUS
<1>2. Len(text) = 2 * m
    BY <1>1 DEF Digits
<1>3. Len(hex) = 2 * m /\ DOMAIN hex = 1..2 * m
    BY <1>1, <1>2 DEF SwapChars
<1>4. \A j \in 1..2 * m : text[j] = Digit(bin, j) /\ Digit(bin, j) \in 0..15
    BY <1>1, SwappedText DEF Digits
<1>5. ASSUME NEW i \in 1..m
      PROVE  /\ 2 * i - 1 \in 1..2 * m /\ 2 * i \in 1..2 * m
             /\ (2 * i - 1) % 2 = 1 /\ (2 * i) % 2 = 0 /\ (2 * i - 1 + 1) \div 2 = i /\ (2 * i) \div 2 = i
    BY <1>1
<1>6. ASSUME NEW i \in 1..m
      PROVE  hex[2 * i - 1] = bin[i] \div 16 /\ hex[2 * i] = bin[i] % 16
  <2>1. hex[2 * i - 1] = text[2 * i - 1 + 1] /\ hex[2 * i] = text[2 * i - 1]
    BY <1>2, <1>5 DEF SwapChars
  <2>2. 2 * i - 1 + 1 = 2 * i
    OBVIOUS
  <2>3. text[2 * i] = bin[i] \div 16
    BY <1>4, <1>5 DEF Digit
  <2>4. text[2 * i - 1] = bin[i] % 16
    BY <1>4, <1>5 DEF Digit
  <2> QED BY <2>1, <2>2, <2>3, <2>4
<1>7. ASSUME NEW i \in 1..m
      PROVE  hex[2 * i - 1] * 16 + hex[2 * i] = bin[i]
  <2>1. bin[i] \in Bytes
    BY <1>1
  <2> QED BY <1>6, <2>1, Halves, Zenon
<1>8. \A j \in 1..2 * m : hex[j] \in 0..15
  <2>1. ASSUME NEW j \in 1..2 * m PROVE hex[j] \in 0..15
    <3>1. j % 2 = 1 => j + 1 \in 1..2 * m
      BY <1>1
    <3>2. j % 2 # 1 => j - 1 \in 1..2 * m
      BY <1>1
    <3>3. hex[j] = IF j % 2 = 1 THEN text[j + 1] ELSE text[j - 1]
      BY <1>2 DEF SwapChars
    <3> QED BY <1>4, <3>1, <3>2, <3>3, Zenon
  <2> QED BY <2>1
<1> HIDE DEF hex
<1>9. \A j \in DOMAIN hex : hex[j] # Other
  <2>1. \A k \in 0..15 : k # 16
    OBVIOUS
  <2> QED BY <1>3, <1>8, <2>1, Zenon DEF Other
<1>10. (2 * m) % 2 = 0 /\ (2 * m) \div 2 = m
    BY <1>1
<1>11. [i \in 1..m |-> hex[2 * i - 1] * 16 + hex[2 * i]] = [i \in 1..m |-> bin[i]]
    BY <1>7
<1>12. Hex2Bin(hex, room) = [ret |-> m, output |-> [i \in 1..m |-> hex[2 * i - 1] * 16 + hex[2 * i]]]
    BY <1>1, <1>3, <1>9, <1>10 DEF Hex2Bin
<1> QED BY <1>11, <1>12, Zenon DEF hex
-----------------------------------------------------------------------------
(* From bytes to a text and back.                                          *)

\* bin2gsmbcd cuts nothing but fillers.
LEMMA Trimmed ==
    ASSUME NEW bin \in Seq(Bytes), Len(bin) > 0
    PROVE  \E last \in 1..2 * Len(bin) :
               /\ Bin2Gsmbcd(bin).output = Digits(bin, last)
               /\ \A j \in last + 1..2 * Len(bin) : Digit(bin, j) = 15
<1> DEFINE n == 2 * Len(bin)
           text == SwapChars(Bin2Hex(bin))
           stops == {k \in 1..Len(text) : k = 1 \/ text[k] # 15}
           last == CHOOSE k \in stops : \A j \in stops : j <= k
<1>1. n \in Nat /\ n >= 2
    OBVIOUS
<1>2. text = Digits(bin, n) /\ \A j \in 1..n : Digit(bin, j) \in 0..15
    BY SwappedText
<1>3. Len(text) = n /\ text \in Seq(0..15) /\ \A j \in 1..n : text[j] = Digit(bin, j)
    BY <1>1, <1>2 DEF Digits
<1>4. Bin2Gsmbcd(bin).output = SubSeq(text, 1, last)
    BY Zenon DEF Bin2Gsmbcd
<1> HIDE DEF n, text
<1>5. stops \in SUBSET (0..n) /\ 1 \in stops
    BY <1>1, <1>3
<1>6. last \in stops /\ \A j \in stops : j <= last
    BY <1>1, <1>5, Largest, Zenon
<1>7. last \in 1..n
    BY <1>3, <1>6
<1>8. ASSUME NEW j \in last + 1..n PROVE Digit(bin, j) = 15
  <2>1. j \in 1..n /\ ~(j <= last)
    BY <1>1, <1>7
  <2>2. j \notin stops
    BY <1>6, <2>1, Zenon
  <2> QED BY <1>3, <2>1, <2>2
<1> HIDE DEF last
<1>9. SubSeq(text, 1, last) = [i \in 1..last |-> text[i]]
    BY <1>3, <1>7, FirstPart
<1>10. [i \in 1..last |-> text[i]] = Digits(bin, last)
    BY <1>1, <1>3, <1>7 DEF Digits
<1> QED BY <1>4, <1>7, <1>8, <1>9, <1>10 DEF n

\* gsmbcd2bin restores what was cut: half of a byte with 'f', the others with 0xff.
LEMMA Restored ==
    ASSUME NEW bin \in Seq(Bytes), NEW last \in 1..2 * Len(bin), NEW room \in Nat, Len(bin) <= room,
           \A j \in last + 1..2 * Len(bin) : Digit(bin, j) = 15
    PROVE  Gsmbcd2Bin(Digits(bin, last), room, Len(bin)) = [ret |-> Len(bin), output |-> bin]
<1> DEFINE n == Len(bin)
           text == Digits(bin, last)
           m == (last + 1) \div 2
           even == IF Len(text) % 2 = 1 THEN Append(text, 15) ELSE text
<1>1. n \in Nat /\ last \in Nat /\ last <= 2 * n /\ m \in 0..n /\ m <= room
    OBVIOUS
<1>2. Len(text) = last /\ text \in Seq(0..15) /\ \A j \in 1..last : text[j] = Digit(bin, j)
  <2>1. \A j \in 1..last : j \in 1..2 * n
    BY <1>1
  <2>2. \A j \in 1..last : Digit(bin, j) \in 0..15
    BY <2>1, SwappedText, Zenon
  <2>3. text \in [1..last -> 0..15] /\ \A j \in 1..last : text[j] = Digit(bin, j)
    BY <2>2, Zenon DEF Digits
  <2> HIDE DEF text
  <2> QED BY <1>1, <2>3, Tuple, Zenon
<1>3. even = Digits(bin, 2 * m)
  <2>1. CASE last % 2 = 1
    <3>1. 2 * m = last + 1 /\ last + 1 \in last + 1..2 * n
      BY <1>1, <2>1
    <3>2. even = [j \in 1..last + 1 |-> IF j <= last THEN text[j] ELSE 15]
      <4>1. even = Append(text, 15) /\ 15 \in 0..15
        BY <1>2, <2>1
      <4>2. Append(text, 15) = [j \in 1..Len(text) + 1 |-> IF j <= Len(text) THEN text[j] ELSE 15]
        <5> HIDE DEF text, even
        <5> QED BY <1>2, <4>1, Extended
      <4> QED BY <1>2, <4>1, <4>2
    <3>3. ASSUME NEW j \in 1..last + 1
          PROVE  (IF j <= last THEN text[j] ELSE 15) = Digit(bin, j)
      <4>1. CASE j <= last
        BY <1>1, <1>2, <4>1
      <4>2. CASE j = last + 1
        BY <3>1, <4>2
      <4> QED BY <1>1, <4>1, <4>2
    <3>4. [j \in 1..last + 1 |-> IF j <= last THEN text[j] ELSE 15] = [j \in 1..last + 1 |-> Digit(bin, j)]
      BY <3>3
    <3> QED BY <3>1, <3>2, <3>4 DEF Digits
  <2>2. CASE last % 2 # 1
    <3>1. 2 * m = last
      BY <1>1, <2>2
    <3> QED BY <1>2, <2>2, <3>1, Zenon
  <2> QED BY <2>1, <2>2
<1>4. Hex2Bin(SwapChars(even), room) = [ret |-> m, output |-> [i \in 1..m |-> bin[i]]]
    BY <1>1, <1>3, BytesBack
<1> HIDE DEF m, even
<1> DEFINE pad == [i \in 1..n - m |-> 255]
<1>5. Gsmbcd2Bin(text, room, n) =
          IF n > m THEN [ret |-> n, output |-> [i \in 1..m |-> bin[i]] \o pad]
          ELSE [ret |-> m, output |-> [i \in 1..m |-> bin[i]]]
  <2> DEFINE bytes == Hex2Bin(SwapChars(even), room)
  <2>1. Gsmbcd2Bin(text, room, n) =
          IF room < n \/ bytes.ret = -1 THEN [ret |-> -1, output |-> <<>>]
          ELSE IF n > bytes.ret THEN [ret |-> n, output |-> bytes.output \o [i \in 1..n - bytes.ret |-> 255]]
          ELSE bytes
    BY DEF Gsmbcd2Bin, Gsmbcd2BinWith, even
  <2>2. bytes.ret = m /\ bytes.output = [i \in 1..m |-> bin[i]] /\ bytes.ret # -1 /\ ~(room < n)
    BY <1>1, <1>4
  <2> HIDE DEF bytes
  <2>3. CASE n > m
    BY <2>1, <2>2, <2>3
  <2>4. CASE ~(n > m)
    BY <1>4, <2>1, <2>2, <2>4 DEF bytes
  <2> QED BY <2>3, <2>4, Zenon
<1>6. m \in Nat /\ m <= n
    BY <1>1
<1>7. ASSUME NEW i \in m + 1..n PROVE bin[i] = 255
  <2>1. 2 * i - 1 \in last + 1..2 * n /\ 2 * i \in last + 1..2 * n
    BY <1>1 DEF m
  <2>2. (2 * i - 1) % 2 = 1 /\ (2 * i) % 2 = 0 /\ (2 * i - 1 + 1) \div 2 = i /\ (2 * i) \div 2 = i
    BY <1>1
  <2>3. Digit(bin, 2 * i - 1) = bin[i] % 16 /\ Digit(bin, 2 * i) = bin[i] \div 16
    BY <2>2 DEF Digit
  <2>4. bin[i] % 16 = 15 /\ bin[i] \div 16 = 15
    BY <2>1, <2>3
  <2>5. bin[i] \in Bytes
    BY <1>1, <1>6
  <2>6. (bin[i] \div 16) * 16 + (bin[i] % 16) = bin[i]
    BY <2>5, Halves
  <2> QED BY <2>4, <2>6
<1>8. bin = [i \in 1..n |-> bin[i]]
    OBVIOUS
<1>9. CASE n > m
  <2> DEFINE front == [i \in 1..m |-> bin[i]]
  <2>1. front \in Seq(Bytes) /\ Len(front) = m
    BY <1>6
  <2>2. pad \in Seq(Bytes) /\ Len(pad) = n - m /\ \A i \in 1..n - m : pad[i] = 255
    BY <1>1, <1>6 DEF Bytes
  <2>3. \A i \in 1..m : front[i] = bin[i]
    OBVIOUS
  <2> HIDE DEF front, pad
  <2>4. front \o pad = [i \in 1..n |-> IF i <= m THEN front[i] ELSE pad[i - m]]
    <3>1. m + (n - m) = n
      BY <1>1, <1>6
    <3> QED BY <2>1, <2>2, <3>1, InRow
  <2>5. ASSUME NEW i \in 1..n PROVE (IF i <= m THEN front[i] ELSE pad[i - m]) = bin[i]
    <3>1. CASE i <= m
      BY <1>6, <2>3, <3>1
    <3>2. CASE ~(i <= m)
      <4>1. i - m \in 1..n - m /\ i \in m + 1..n
        BY <1>1, <1>6, <3>2
      <4> QED BY <1>7, <2>2, <3>2, <4>1
    <3> QED BY <3>1, <3>2
  <2>6. [i \in 1..n |-> IF i <= m THEN front[i] ELSE pad[i - m]] = [i \in 1..n |-> bin[i]]
    BY <2>5, Zenon
  <2>7. front \o pad = bin
    BY <1>8, <2>4, <2>6, Zenon
  <2> QED BY <1>5, <1>9, <2>7, Zenon DEF front
<1>10. CASE ~(n > m)
  <2>1. m = n
    BY <1>1, <1>6, <1>10
  <2> QED BY <1>5, <1>8, <2>1
<1> QED BY <1>9, <1>10

\* What bin2gsmbcd makes of the bytes of a number, gsmbcd2bin turns into the same
\* bytes, however many they are and wherever fillers stand in them; this is the
\* way of an ICCID from the profile list to a command.
THEOREM GsmbcdRoundTrip ==
    ASSUME NEW bin \in Seq(Bytes), Len(bin) > 0, NEW room \in Nat, Len(bin) <= room
    PROVE  Gsmbcd2Bin(Bin2Gsmbcd(bin).output, room, Len(bin)) = [ret |-> Len(bin), output |-> bin]
<1>1. PICK last \in 1..2 * Len(bin) :
          /\ Bin2Gsmbcd(bin).output = Digits(bin, last)
          /\ \A j \in last + 1..2 * Len(bin) : Digit(bin, j) = 15
    BY Trimmed
<1> QED BY <1>1, Restored

\* hex2bin_r gives back the bytes that bin2hex wrote, as for an AID on its way from
\* the profile list to a command.
THEOREM HexRoundTrip ==
    ASSUME NEW bin \in Seq(Bytes), NEW room \in Nat, Len(bin) <= room
    PROVE  Hex2Bin(Bin2Hex(bin), room) = [ret |-> Len(bin), output |-> bin]
<1> DEFINE n == Len(bin)
           hex == Bin2Hex(bin)
<1>1. n \in Nat /\ (2 * n) % 2 = 0 /\ (2 * n) \div 2 = n
    OBVIOUS
<1>2. Len(hex) = 2 * n /\ DOMAIN hex = 1..2 * n
    BY <1>1 DEF Bin2Hex
<1>3. ASSUME NEW i \in 1..n
      PROVE  hex[2 * i - 1] = bin[i] \div 16 /\ hex[2 * i] = bin[i] % 16
  <2>1. /\ 2 * i - 1 \in 1..2 * n /\ 2 * i \in 1..2 * n /\ (2 * i - 1) % 2 = 1 /\ (2 * i) % 2 = 0
        /\ (2 * i - 1 + 1) \div 2 = i /\ (2 * i + 1) \div 2 = i
    BY <1>1
  <2> QED BY <2>1 DEF Bin2Hex
<1>4. ASSUME NEW j \in 1..2 * n PROVE hex[j] \in 0..15
  <2>1. (j + 1) \div 2 \in 1..n
    BY <1>1
  <2>2. bin[(j + 1) \div 2] \in Bytes
    BY <2>1
  <2> QED BY <2>2, Halves DEF Bin2Hex
<1> HIDE DEF hex
<1>5. \A j \in DOMAIN hex : hex[j] # Other
  <2>1. \A k \in 0..15 : k # 16
    OBVIOUS
  <2> QED BY <1>2, <1>4, <2>1, Zenon DEF Other
<1>6. Hex2Bin(hex, room) = [ret |-> n, output |-> [i \in 1..n |-> hex[2 * i - 1] * 16 + hex[2 * i]]]
  <2>1. Len(hex) % 2 = 0 /\ Len(hex) \div 2 = n /\ ~(room < n)
    BY <1>1, <1>2
  <2> HIDE DEF n
  <2> QED BY <1>5, <2>1, Zenon DEF Hex2Bin
<1>7. ASSUME NEW i \in 1..n PROVE hex[2 * i - 1] * 16 + hex[2 * i] = bin[i]
  <2>1. bin[i] \in Bytes
    OBVIOUS
  <2> QED BY <1>3, <2>1, Halves
<1>8. [i \in 1..n |-> hex[2 * i - 1] * 16 + hex[2 * i]] = bin
    BY <1>7, AsFunction
<1> QED BY <1>6, <1>8, Zenon DEF hex

-----------------------------------------------------------------------------
(* From a text to bytes and back.                                          *)

Chars == 0..Other

\* What hex2bin_r accepts consists of digits, two for each byte.
LEMMA Accepted ==
    ASSUME NEW text \in Seq(Chars), NEW room \in Nat, Hex2Bin(text, room).ret # -1
    PROVE  LET n == Len(text) \div 2
               out == Hex2Bin(text, room).output
           IN /\ Len(text) = 2 * n /\ n \in Nat /\ n <= room /\ Hex2Bin(text, room).ret = n
              /\ out \in Seq(Bytes) /\ Len(out) = n
              /\ \A j \in 1..2 * n : text[j] \in 0..15
              /\ \A i \in 1..n : out[i] \div 16 = text[2 * i - 1] /\ out[i] % 16 = text[2 * i]
<1> DEFINE n == Len(text) \div 2
           f == [i \in 1..n |-> text[2 * i - 1] * 16 + text[2 * i]]
<1>1. Len(text) % 2 = 0 /\ n <= room /\ \A j \in DOMAIN text : text[j] # Other
    BY DEF Hex2Bin
<1>2. Hex2Bin(text, room) = [ret |-> n, output |-> f]
    BY <1>1 DEF Hex2Bin
<1>3. Len(text) \in Nat /\ n \in Nat /\ Len(text) = 2 * n
    BY <1>1
<1>4. ASSUME NEW j \in 1..2 * n PROVE text[j] \in 0..15
  <2>1. text[j] \in 0..16
    BY <1>3 DEF Chars, Other
  <2>2. text[j] # 16
    BY <1>1, <1>3 DEF Other
  <2> QED BY <2>1, <2>2
<1>5. ASSUME NEW i \in 1..n
      PROVE  f[i] \in Bytes /\ f[i] \div 16 = text[2 * i - 1] /\ f[i] % 16 = text[2 * i]
  <2>1. 2 * i - 1 \in 1..2 * n /\ 2 * i \in 1..2 * n
    BY <1>3
  <2>2. text[2 * i - 1] \in 0..15 /\ text[2 * i] \in 0..15
    BY <1>4, <2>1
  <2> QED BY <2>2, Joined, Zenon
<1>6. f \in Seq(Bytes) /\ Len(f) = n
  <2>1. f \in [1..n -> Bytes]
    BY <1>5
  <2> QED BY <1>3, <2>1, Tuple
<1> HIDE DEF f, n
<1> QED BY <1>1, <1>2, <1>3, <1>4, <1>5, <1>6 DEF n

\* A text that hex2bin_r accepts is what bin2hex writes for its bytes.
THEOREM HexTextKept ==
    ASSUME NEW text \in Seq(Chars), NEW room \in Nat, Hex2Bin(text, room).ret # -1
    PROVE  Bin2Hex(Hex2Bin(text, room).output) = text
<1> DEFINE n == Len(text) \div 2
           out == Hex2Bin(text, room).output
<1>1. /\ Len(text) = 2 * n /\ n \in Nat /\ out \in Seq(Bytes) /\ Len(out) = n
      /\ \A i \in 1..n : out[i] \div 16 = text[2 * i - 1] /\ out[i] % 16 = text[2 * i]
    BY Accepted
<1> HIDE DEF n, out
<1>2. ASSUME NEW j \in 1..2 * n
      PROVE  (IF j % 2 = 1 THEN out[(j + 1) \div 2] \div 16 ELSE out[(j + 1) \div 2] % 16) = text[j]
  <2>1. j \in Nat /\ (j + 1) \div 2 \in 1..n
    BY <1>1
  <2>2. CASE j % 2 = 1
    <3>1. 2 * ((j + 1) \div 2) - 1 = j
      BY <2>1, <2>2, Positions
    <3> QED BY <1>1, <2>1, <2>2, <3>1, Zenon
  <2>3. CASE j % 2 # 1
    <3>1. 2 * ((j + 1) \div 2) = j
      BY <2>1, <2>3, Positions
    <3> QED BY <1>1, <2>1, <2>3, <3>1, Zenon
  <2> QED BY <2>2, <2>3
<1>3. Bin2Hex(out) = [j \in 1..2 * n |-> IF j % 2 = 1 THEN out[(j + 1) \div 2] \div 16 ELSE out[(j + 1) \div 2] % 16]
    BY <1>1 DEF Bin2Hex
<1>4. Bin2Hex(out) = [j \in 1..Len(text) |-> text[j]]
    BY <1>1, <1>2, <1>3, Zenon
<1> QED BY <1>4, AsFunction DEF out

\* The characters of an even number of them, swapped in pairs.
LEMMA Swapped ==
    ASSUME NEW m \in Nat, NEW even \in Seq(Chars), Len(even) = 2 * m
    PROVE  /\ SwapChars(even) \in Seq(Chars) /\ Len(SwapChars(even)) = 2 * m
           /\ \A i \in 1..m : /\ SwapChars(even)[2 * i - 1] = even[2 * i]
                             /\ SwapChars(even)[2 * i] = even[2 * i - 1]
<1>1. ASSUME NEW j \in 1..2 * m
      PROVE  (IF j % 2 = 1 THEN even[j + 1] ELSE even[j - 1]) \in Chars
  <2>1. CASE j % 2 = 1
    <3>1. j + 1 \in 1..2 * m
      BY <2>1
    <3> QED BY <2>1, <3>1
  <2>2. CASE j % 2 # 1
    <3>1. j - 1 \in 1..2 * m
      BY <2>2
    <3> QED BY <2>2, <3>1
  <2> QED BY <2>1, <2>2
<1>2. SwapChars(even) \in [1..2 * m -> Chars]
    BY <1>1 DEF SwapChars
<1>3. 2 * m \in Nat
    OBVIOUS
<1>4. ASSUME NEW i \in 1..m
      PROVE  SwapChars(even)[2 * i - 1] = even[2 * i] /\ SwapChars(even)[2 * i] = even[2 * i - 1]
  <2>1. /\ 2 * i - 1 \in 1..2 * m /\ 2 * i \in 1..2 * m /\ (2 * i - 1) % 2 = 1 /\ (2 * i) % 2 = 0
        /\ 2 * i - 1 + 1 = 2 * i
    OBVIOUS
  <2> QED BY <2>1 DEF SwapChars
<1> QED BY <1>2, <1>3, <1>4, Tuple

\* What gsmbcd2bin accepts, with the filler that makes the number of digits even.
LEMMA Evened ==
    ASSUME NEW id \in Seq(Chars)
    PROVE  LET even == IF Len(id) % 2 = 1 THEN Append(id, 15) ELSE id
               m == (Len(id) + 1) \div 2
           IN /\ m \in Nat /\ even \in Seq(Chars) /\ Len(even) = 2 * m /\ Len(id) \in {2 * m, 2 * m - 1}
              /\ \A j \in 1..2 * m : even[j] = IF j <= Len(id) THEN id[j] ELSE 15
<1> DEFINE m == (Len(id) + 1) \div 2
<1>1. Len(id) \in Nat /\ m \in Nat /\ 15 \in Chars
    BY DEF Chars, Other
<1>2. CASE Len(id) % 2 = 1
  <2>1. 2 * m = Len(id) + 1
    BY <1>1, <1>2
  <2>2. Append(id, 15) \in Seq(Chars) /\ Len(Append(id, 15)) = Len(id) + 1
    BY <1>1
  <2>3. \A j \in 1..Len(id) + 1 : Append(id, 15)[j] = IF j <= Len(id) THEN id[j] ELSE 15
    BY <1>1
  <2> QED BY <1>1, <1>2, <2>1, <2>2, <2>3
<1>3. CASE Len(id) % 2 # 1
  <2>1. 2 * m = Len(id)
    BY <1>1, <1>3
  <2> QED BY <1>1, <1>3, <2>1
<1> QED BY <1>2, <1>3

\* The digits that gsmbcd2bin puts into bytes are those of the text, and fillers
\* behind it; so no two texts that differ in more than fillers name the same
\* number.
THEOREM GsmbcdTextKept ==
    ASSUME NEW id \in Seq(Chars), NEW room \in Nat, NEW n \in Nat,
           Gsmbcd2Bin(id, room, n).ret # -1, Len(Gsmbcd2Bin(id, room, n).output) = n
    PROVE  LET out == Gsmbcd2Bin(id, room, n).output
           IN /\ out \in Seq(Bytes) /\ Len(id) <= 2 * n
              /\ \A j \in 1..2 * n : Digit(out, j) = IF j <= Len(id) THEN id[j] ELSE 15
<1> DEFINE r == Gsmbcd2Bin(id, room, n)
           out == r.output
           m == (Len(id) + 1) \div 2
           even == IF Len(id) % 2 = 1 THEN Append(id, 15) ELSE id
           hex == SwapChars(even)
           bytes == Hex2Bin(hex, room)
           f == bytes.output
           pad == [i \in 1..n - m |-> 255]
<1>1. /\ m \in Nat /\ even \in Seq(Chars) /\ Len(even) = 2 * m /\ Len(id) \in {2 * m, 2 * m - 1}
      /\ \A j \in 1..2 * m : even[j] = IF j <= Len(id) THEN id[j] ELSE 15
    BY Evened, Zenon
<1>2. r = IF room < n \/ bytes.ret = -1 THEN [ret |-> -1, output |-> <<>>]
          ELSE IF n > bytes.ret THEN [ret |-> n, output |-> f \o [i \in 1..n - bytes.ret |-> 255]]
          ELSE bytes
    BY DEF Gsmbcd2Bin, Gsmbcd2BinWith
<1> HIDE DEF r, m, even
<1>3. /\ hex \in Seq(Chars) /\ Len(hex) = 2 * m
      /\ \A i \in 1..m : hex[2 * i - 1] = even[2 * i] /\ hex[2 * i] = even[2 * i - 1]
    BY <1>1, Swapped, Zenon
<1> HIDE DEF hex
<1>4. /\ bytes.ret # -1
      /\ r = IF n > bytes.ret THEN [ret |-> n, output |-> f \o [i \in 1..n - bytes.ret |-> 255]] ELSE bytes
  <2>1. r.ret # -1
    BY DEF r
  <2>2. ~(room < n \/ bytes.ret = -1)
    BY <1>2, <2>1
  <2> QED BY <1>2, <2>2
<1>5. Len(hex) \div 2 = m
    BY <1>1, <1>3
<1>6. /\ bytes.ret = m /\ f \in Seq(Bytes) /\ Len(f) = m
      /\ \A i \in 1..m : f[i] \div 16 = hex[2 * i - 1] /\ f[i] % 16 = hex[2 * i]
    BY <1>3, <1>4, <1>5, Accepted, Zenon
<1> HIDE DEF bytes
<1>7. \A j \in 1..2 * m : Digit(f, j) = even[j]
  <2> SUFFICES ASSUME NEW j \in 1..2 * m PROVE Digit(f, j) = even[j]
    OBVIOUS
  <2>1. CASE j % 2 = 1
    <3>1. (j + 1) \div 2 \in 1..m /\ 2 * ((j + 1) \div 2) - 1 = j
      BY <1>1, <2>1
    <3>2. f[(j + 1) \div 2] % 16 = even[j]
      BY <1>3, <1>6, <3>1, Zenon
    <3> QED BY <2>1, <3>2 DEF Digit
  <2>2. CASE j % 2 # 1
    <3>1. j \div 2 \in 1..m /\ 2 * (j \div 2) = j
      BY <1>1, <2>2
    <3>2. f[j \div 2] \div 16 = even[j]
      BY <1>3, <1>6, <3>1, Zenon
    <3> QED BY <2>2, <3>2 DEF Digit
  <2> QED BY <2>1, <2>2
<1> HIDE DEF f
<1>8. out \in Seq(Bytes) /\ m <= n /\ \A i \in 1..n : out[i] = IF i <= m THEN f[i] ELSE 255
  <2>1. CASE n > m
    <3>1. out = f \o pad
      BY <1>4, <1>6, <2>1, Zenon
    <3>2. pad \in Seq(Bytes) /\ Len(pad) = n - m /\ \A i \in 1..n - m : pad[i] = 255
      BY <1>1, <2>1 DEF Bytes
    <3> HIDE DEF pad
    <3>3. f \o pad \in Seq(Bytes)
      BY <1>6, <3>2
    <3>4. ASSUME NEW i \in 1..n PROVE (f \o pad)[i] = IF i <= m THEN f[i] ELSE pad[i - m]
      BY <1>1, <1>6, <2>1, <3>2
    <3>5. ASSUME NEW i \in 1..n, ~(i <= m) PROVE i - m \in 1..n - m
      BY <1>1, <2>1, <3>5
    <3>6. ASSUME NEW i \in 1..n PROVE out[i] = IF i <= m THEN f[i] ELSE 255
      <4>1. CASE i <= m
        BY <3>1, <3>4, <4>1, Zenon
      <4>2. CASE ~(i <= m)
        <5>1. out[i] = pad[i - m]
          BY <3>1, <3>4, <4>2, Zenon
        <5>2. i - m \in 1..n - m
          BY <3>5, <4>2
        <5>3. out[i] = 255
          BY <3>2, <5>1, <5>2
        <5> QED BY <4>2, <5>3
      <4> QED BY <4>1, <4>2
    <3>7. out \in Seq(Bytes) /\ m <= n
      BY <1>1, <2>1, <3>1, <3>3
    <3> HIDE DEF out
    <3> QED BY <3>6, <3>7
  <2>2. CASE ~(n > m)
    <3>1. out = f
      BY <1>4, <1>6, <2>2 DEF f
    <3>2. m = n
      BY <1>6, <3>1 DEF r
    <3> QED BY <1>1, <1>6, <3>1, <3>2
  <2> QED BY <2>1, <2>2
<1> HIDE DEF out
<1>9. ASSUME NEW j \in 1..2 * n
      PROVE  Digit(out, j) = IF j <= Len(id) THEN id[j] ELSE 15
  <2>1. CASE j <= 2 * m
    <3>1. j \in 1..2 * m /\ (j % 2 = 1 => (j + 1) \div 2 \in 1..m) /\ (j % 2 # 1 => j \div 2 \in 1..m)
      BY <1>1, <2>1
    <3>2. \A i \in 1..m : out[i] = f[i]
      BY <1>1, <1>8
    <3>3. Digit(out, j) = Digit(f, j)
      BY <3>1, <3>2 DEF Digit
    <3> QED BY <1>1, <1>7, <3>1, <3>3
  <2>2. CASE ~(j <= 2 * m)
    <3>1. /\ j % 2 = 1 => (j + 1) \div 2 \in 1..n /\ ~((j + 1) \div 2 <= m)
          /\ j % 2 # 1 => j \div 2 \in 1..n /\ ~(j \div 2 <= m)
      BY <1>1, <2>2
    <3>2. 255 % 16 = 15 /\ 255 \div 16 = 15 /\ ~(j <= Len(id))
      BY <1>1, <2>2
    <3> QED BY <1>8, <3>1, <3>2 DEF Digit
  <2> QED BY <2>1, <2>2
<1>10. Len(id) <= 2 * n
    BY <1>1, <1>8
<1> QED BY <1>8, <1>9, <1>10 DEF out, r

-----------------------------------------------------------------------------
(* base64.c.                                                               *)

\* Byte i of a text, zero behind its end.
Padded(plain, i) == IF i > Len(plain) THEN 0 ELSE plain[i]

\* The last two characters of the group behind the first 3 * h bytes.
Third(plain, h) ==
    IF 3 * h + 2 > Len(plain) THEN NotCode
    ELSE (Padded(plain, 3 * h + 2) % 16) * 4 + Padded(plain, 3 * h + 3) \div 64
Fourth(plain, h) == IF 3 * h + 3 > Len(plain) THEN NotCode ELSE Padded(plain, 3 * h + 3) % 64

\* Three bytes as four characters and back.
LEMMA ThreeBytes ==
    ASSUME NEW a \in Bytes, NEW b \in Bytes, NEW c \in Bytes
    PROVE  /\ a \div 4 \in 0..63 /\ (a % 4) * 16 + (b \div 16) \in 0..63
           /\ (b % 16) * 4 + (c \div 64) \in 0..63 /\ c % 64 \in 0..63
           /\ ((a \div 4) * 4 + (((a % 4) * 16 + (b \div 16)) \div 16)) % 256 = a
           /\ (((a % 4) * 16 + (b \div 16)) * 16 + (((b % 16) * 4 + (c \div 64)) \div 4)) % 256 = b
           /\ (((b % 16) * 4 + (c \div 64)) * 64 + (c % 64)) % 256 = c
<1>1. /\ a \div 4 \in 0..63 /\ a % 4 \in 0..3 /\ a = 4 * (a \div 4) + (a % 4)
      /\ b \div 16 \in 0..15 /\ b % 16 \in 0..15 /\ b = 16 * (b \div 16) + (b % 16)
      /\ c \div 64 \in 0..3 /\ c % 64 \in 0..63 /\ c = 64 * (c \div 64) + (c % 64)
    BY DEF Bytes
<1> DEFINE a1 == a \div 4
           a0 == a % 4
           b1 == b \div 16
           b0 == b % 16
           c1 == c \div 64
           c0 == c % 64
<1>2. /\ a1 \in 0..63 /\ a0 \in 0..3 /\ a = 4 * a1 + a0 /\ b1 \in 0..15 /\ b0 \in 0..15 /\ b = 16 * b1 + b0
      /\ c1 \in 0..3 /\ c0 \in 0..63 /\ c = 64 * c1 + c0
    BY <1>1
<1> HIDE DEF a1, a0, b1, b0, c1, c0
<1>3. /\ a0 * 16 + b1 \in 0..63 /\ b0 * 4 + c1 \in 0..63
    BY <1>2
<1>4. (a0 * 16 + b1) \div 16 = a0 /\ (b0 * 4 + c1) \div 4 = b0
    BY <1>2
<1>5. (a1 * 4 + a0) % 256 = a
    BY <1>2 DEF Bytes
<1>6. ((a0 * 16 + b1) * 16 + b0) % 256 = b
  <2>1. (a0 * 16 + b1) * 16 + b0 = 256 * a0 + b
    BY <1>2
  <2> QED BY <2>1, <1>2 DEF Bytes
<1>7. ((b0 * 4 + c1) * 64 + c0) % 256 = c
  <2>1. (b0 * 4 + c1) * 64 + c0 = 256 * b0 + c
    BY <1>2
  <2> QED BY <2>1, <1>2 DEF Bytes
<1> QED BY <1>2, <1>3, <1>4, <1>5, <1>6, <1>7 DEF a1, a0, b1, b0, c1, c0

\* The characters of the group of three bytes behind the first 3 * h.
LEMMA GroupEncoded ==
    ASSUME NEW plain \in Seq(Bytes), NEW h \in Nat, 3 * h < Len(plain)
    PROVE  LET b(i) == Padded(plain, i)
           IN /\ 4 * h + 4 <= Len(Encode(plain))
              /\ Encode(plain)[4 * h + 1] = b(3 * h + 1) \div 4
              /\ Encode(plain)[4 * h + 2] = (b(3 * h + 1) % 4) * 16 + (b(3 * h + 2) \div 16)
              /\ Encode(plain)[4 * h + 3] = Third(plain, h)
              /\ Encode(plain)[4 * h + 4] = Fourth(plain, h)
<1> DEFINE n == Len(plain)
           m == 4 * ((n + 2) \div 3)
           b(i) == Padded(plain, i)
           char(k, g) ==
               CASE k % 4 = 1 -> b(g + 1) \div 4
                 [] k % 4 = 2 -> (b(g + 1) % 4) * 16 + b(g + 2) \div 16
                 [] k % 4 = 3 -> IF g + 2 > n THEN NotCode ELSE (b(g + 2) % 16) * 4 + b(g + 3) \div 64
                 [] OTHER     -> IF g + 3 > n THEN NotCode ELSE b(g + 3) % 64
<1>1. n \in Nat /\ m \in Nat /\ 4 * h + 4 <= m
    OBVIOUS
<1>2. Encode(plain) = [k \in 1..m |-> char(k, 3 * ((k - 1) \div 4))]
    BY Zenon DEF Encode, Padded
<1>3. Len(Encode(plain)) = m
    BY <1>1, <1>2
<1>4. ASSUME NEW j \in 1..4
      PROVE  4 * h + j \in 1..m /\ (4 * h + j - 1) \div 4 = h /\ (4 * h + j) % 4 = j % 4
    BY <1>1
<1> HIDE DEF m, char
<1>5. ASSUME NEW j \in 1..4
      PROVE  Encode(plain)[4 * h + j] = char(4 * h + j, 3 * h)
  <2>1. Encode(plain)[4 * h + j] = char(4 * h + j, 3 * ((4 * h + j - 1) \div 4))
    BY <1>2, <1>4
  <2> QED BY <1>4, <2>1, Zenon
<1>6. (4 * h + 1) % 4 = 1 /\ (4 * h + 2) % 4 = 2 /\ (4 * h + 3) % 4 = 3 /\ (4 * h + 4) % 4 = 0
    OBVIOUS
<1>7. 1 \in 1..4 /\ 2 \in 1..4 /\ 3 \in 1..4 /\ 4 \in 1..4
    OBVIOUS
<1> HIDE DEF b
<1>8. char(4 * h + 1, 3 * h) = b(3 * h + 1) \div 4
    BY <1>6 DEF char
<1>9. char(4 * h + 2, 3 * h) = (b(3 * h + 1) % 4) * 16 + b(3 * h + 2) \div 16
    BY <1>6 DEF char
<1>10. char(4 * h + 3, 3 * h) = Third(plain, h)
    BY <1>6 DEF char, b, Third
<1>11. char(4 * h + 4, 3 * h) = Fourth(plain, h)
    BY <1>6 DEF char, b, Fourth
<1> QED BY <1>1, <1>3, <1>5, <1>7, <1>8, <1>9, <1>10, <1>11, Zenon DEF b

\* The bytes with zeros behind them are bytes.
LEMMA BytesOrZero ==
    ASSUME NEW plain \in Seq(Bytes), NEW i \in Nat \ {0}
    PROVE  Padded(plain, i) \in Bytes
<1> USE DEF Padded
<1>1. CASE i > Len(plain)
    BY <1>1 DEF Bytes
<1>2. CASE ~(i > Len(plain))
  <2>1. i \in 1..Len(plain)
    BY <1>2
  <2> QED BY <1>2, <2>1
<1> QED BY <1>1, <1>2, Zenon

\* How many characters n bytes make, and how many bytes n characters.
LEMMA Counted ==
    ASSUME NEW n \in Nat
    PROVE  LET c == (4 * n + 2) \div 3
               m == 4 * ((n + 2) \div 3)
               tail == IF c = 0 THEN 0 ELSE ((c - 1) % 4) + 1
           IN /\ c \in Nat /\ m \in Nat /\ c <= m
              /\ 3 * ((c - tail) \div 4) + (IF tail > 1 THEN tail - 1 ELSE 0) = n
              /\ ((c + 3) \div 4) * 3 - ((4 - tail) % 4) = n
              /\ \A h \in Nat : 3 * h < n =>
                     /\ 4 * h + 2 <= c /\ (3 * h + 2 > n <=> 4 * h + 3 > c)
                     /\ (3 * h + 3 > n <=> 4 * h + 4 > c)
<1> DEFINE q == n \div 3
           c == (4 * n + 2) \div 3
           m == 4 * ((n + 2) \div 3)
           tail == IF c = 0 THEN 0 ELSE ((c - 1) % 4) + 1
<1>1. c \in Nat /\ m \in Nat /\ 3 * c <= 4 * n + 2 /\ 4 * n + 2 < 3 * c + 3 /\ c <= m
    OBVIOUS
<1>2. ASSUME NEW h \in Nat, 3 * h < n
      PROVE  /\ 4 * h + 2 <= c /\ (3 * h + 2 > n <=> 4 * h + 3 > c)
             /\ (3 * h + 3 > n <=> 4 * h + 4 > c)
  <2> HIDE DEF c
  <2> QED BY <1>1, <1>2
<1>3. q \in Nat /\ (n = 3 * q \/ n = 3 * q + 1 \/ n = 3 * q + 2)
    OBVIOUS
<1>4. 3 * ((c - tail) \div 4) + (IF tail > 1 THEN tail - 1 ELSE 0) = n /\ ((c + 3) \div 4) * 3 - ((4 - tail) % 4) = n
  <2>1. CASE n = 3 * q
    <3>1. c = 4 * q
      BY <1>3, <2>1
    <3> HIDE DEF c, q
    <3>2. CASE q = 0
      BY <2>1, <3>1, <3>2
    <3>3. CASE q > 0
      <4>1. tail = 4
        BY <1>3, <3>1, <3>3
      <4> HIDE DEF tail
      <4> QED BY <1>3, <2>1, <3>1, <4>1
    <3> QED BY <1>3, <3>2, <3>3
  <2>2. CASE n = 3 * q + 1
    <3>1. c = 4 * q + 2
      BY <1>3, <2>2
    <3> HIDE DEF c, q
    <3>2. tail = 2
      BY <1>3, <3>1
    <3> HIDE DEF tail
    <3> QED BY <1>3, <2>2, <3>1, <3>2
  <2>3. CASE n = 3 * q + 2
    <3>1. c = 4 * q + 3
      BY <1>3, <2>3
    <3> HIDE DEF c, q
    <3>2. tail = 3
      BY <1>3, <3>1
    <3> HIDE DEF tail
    <3> QED BY <1>3, <2>3, <3>1, <3>2
  <2> QED BY <1>3, <2>1, <2>2, <2>3
<1> QED BY <1>1, <1>2, <1>4, Zenon

\* The characters of the alphabet in what Encode writes are those before its '='.
LEMMA EncodedLength ==
    ASSUME NEW plain \in Seq(Bytes)
    PROVE  CodeLength(Encode(plain)) = (4 * Len(plain) + 2) \div 3
<1> DEFINE n == Len(plain)
           c == (4 * n + 2) \div 3
           m == 4 * ((n + 2) \div 3)
           b(i) == Padded(plain, i)
           enc == Encode(plain)
           ends == {k \in 1..m : enc[k] = NotCode}
<1>1. n \in Nat /\ c \in Nat /\ m \in Nat /\ c <= m
  <2>1. n \in Nat
    OBVIOUS
  <2> QED BY <2>1, Counted, Zenon
<1>3. Len(enc) = m
    BY <1>1 DEF Encode
<1>4. \A i \in Nat \ {0} : b(i) \in Bytes
    BY BytesOrZero, Zenon
<1>5. ASSUME NEW k \in 1..m
      PROVE  enc[k] = NotCode <=> k > c
  <2> DEFINE h == (k - 1) \div 4
  <2>1. h \in Nat /\ 3 * h < n /\ (k = 4 * h + 1 \/ k = 4 * h + 2 \/ k = 4 * h + 3 \/ k = 4 * h + 4)
    BY <1>1
  <2> HIDE DEF h
  <2>2. /\ enc[4 * h + 1] = b(3 * h + 1) \div 4
        /\ enc[4 * h + 2] = (b(3 * h + 1) % 4) * 16 + b(3 * h + 2) \div 16
        /\ enc[4 * h + 3] = Third(plain, h) /\ enc[4 * h + 4] = Fourth(plain, h)
    BY <2>1, GroupEncoded, Zenon
  <2>3. b(3 * h + 1) \in Bytes /\ b(3 * h + 2) \in Bytes /\ b(3 * h + 3) \in Bytes
    BY <1>4, <2>1
  <2>4. /\ 4 * h + 2 <= c /\ (3 * h + 2 > n <=> 4 * h + 3 > c) /\ (3 * h + 3 > n <=> 4 * h + 4 > c)
    BY <1>1, <2>1, Counted, Zenon
  <2> HIDE DEF b, c, enc, m, n
  <2>5. /\ b(3 * h + 1) \div 4 \in 0..63 /\ (b(3 * h + 1) % 4) * 16 + (b(3 * h + 2) \div 16) \in 0..63
        /\ (b(3 * h + 2) % 16) * 4 + (b(3 * h + 3) \div 64) \in 0..63 /\ b(3 * h + 3) % 64 \in 0..63
    BY <2>3, ThreeBytes
  <2>6. \A x \in 0..63 : x # NotCode
    BY DEF NotCode
  <2>7. CASE k = 4 * h + 1 \/ k = 4 * h + 2
    <3>1. ~(k > c)
      BY <1>1, <2>1, <2>4, <2>7
    <3>2. enc[4 * h + 1] \in 0..63 /\ enc[4 * h + 2] \in 0..63
      BY <2>2, <2>5
    <3> QED BY <2>6, <2>7, <3>1, <3>2, Zenon
  <2>8. CASE k = 4 * h + 3
    <3>1. Third(plain, h) = NotCode <=> 3 * h + 2 > n
      BY <2>5, <2>6, Zenon DEF Third, b, n
    <3> QED BY <2>2, <2>4, <2>8, <3>1, Zenon
  <2>9. CASE k = 4 * h + 4
    <3>1. Fourth(plain, h) = NotCode <=> 3 * h + 3 > n
      BY <2>5, <2>6, Zenon DEF Fourth, b, n
    <3> QED BY <2>2, <2>4, <2>9, <3>1, Zenon
  <2> QED BY <2>1, <2>7, <2>8, <2>9, Zenon
<1> HIDE DEF b, c, enc, m, n
<1>6. \A k : k \in ends <=> k \in c + 1..m
    BY <1>1, <1>5
<1>7. ends = {k \in 1..Len(enc) : enc[k] = NotCode}
    BY <1>3, Zenon
<1> HIDE DEF ends
<1>8. CodeLength(enc) = IF ends = {} THEN m ELSE (CHOOSE k \in ends : \A j \in ends : k <= j) - 1
  <2>1. CodeLength(enc) = IF ends = {} THEN Len(enc) ELSE (CHOOSE k \in ends : \A j \in ends : k <= j) - 1
    BY <1>7 DEF CodeLength
  <2> QED BY <1>3, <2>1, Zenon
<1>9. CASE c = m
    BY <1>1, <1>8, <1>6, <1>9 DEF n, c, enc
<1>10. CASE c < m
  <2>1. c + 1 \in ends /\ \A j \in ends : c + 1 <= j
    BY <1>1, <1>6, <1>10
  <2> DEFINE first == CHOOSE k \in ends : \A j \in ends : k <= j
  <2>2. first \in ends /\ \A j \in ends : first <= j
    BY <2>1, Zenon
  <2> HIDE DEF first
  <2>3. first = c + 1
    BY <1>1, <1>6, <2>1, <2>2
  <2>4. CodeLength(enc) = first - 1
    BY <1>8, <2>1, Zenon DEF first
  <2> QED BY <1>1, <2>3, <2>4 DEF n, c, enc
<1> QED BY <1>1, <1>9, <1>10

\* base64_decode gives back the bytes that base64_encode wrote, however many they
\* are, and returns their number; '=' and terminator end the text alike.
THEOREM Base64RoundTrip ==
    ASSUME NEW plain \in Seq(Bytes)
    PROVE  Decode(Encode(plain)) = [ret |-> Len(plain), stored |-> plain]
<1> DEFINE n == Len(plain)
           c == (4 * n + 2) \div 3
           tail == IF c = 0 THEN 0 ELSE ((c - 1) % 4) + 1
           b(i) == Padded(plain, i)
           enc == Encode(plain)
           byte(i, g) ==
               CASE i % 3 = 1 -> enc[g + 1] * 4 + enc[g + 2] \div 16
                 [] i % 3 = 2 -> enc[g + 2] * 16 + enc[g + 3] \div 4
                 [] OTHER     -> enc[g + 3] * 64 + enc[g + 4]
<1>1. n \in Nat
    OBVIOUS
<1>2. CodeLength(enc) = c
    BY EncodedLength, Zenon
<1>3. /\ 3 * ((c - tail) \div 4) + (IF tail > 1 THEN tail - 1 ELSE 0) = n
      /\ ((c + 3) \div 4) * 3 - ((4 - tail) % 4) = n
    BY <1>1, Counted, Zenon
<1> HIDE DEF c, enc
<1>4. Stored(enc) = [i \in 1..n |-> byte(i, 4 * ((i - 1) \div 3)) % 256]
    BY <1>2, <1>3 DEF Stored
<1>5. ASSUME NEW i \in 1..n
      PROVE  byte(i, 4 * ((i - 1) \div 3)) % 256 = plain[i]
  <2> DEFINE h == (i - 1) \div 3
  <2>1. /\ h \in Nat /\ 3 * h < n
        /\ \/ i = 3 * h + 1 /\ i % 3 = 1
           \/ i = 3 * h + 2 /\ i % 3 = 2
           \/ i = 3 * h + 3 /\ i % 3 = 0
    BY <1>1
  <2> HIDE DEF h
  <2>2. /\ enc[4 * h + 1] = b(3 * h + 1) \div 4
        /\ enc[4 * h + 2] = (b(3 * h + 1) % 4) * 16 + b(3 * h + 2) \div 16
        /\ enc[4 * h + 3] = Third(plain, h) /\ enc[4 * h + 4] = Fourth(plain, h)
    BY <2>1, GroupEncoded, Zenon DEF enc
  <2>3. b(3 * h + 1) \in Bytes /\ b(3 * h + 2) \in Bytes /\ b(3 * h + 3) \in Bytes
    BY <2>1, BytesOrZero
  <2>4. b(i) = plain[i] /\ i <= n
    BY <1>1 DEF Padded
  <2> HIDE DEF b, n
  <2> DEFINE x == b(3 * h + 1)
             y == b(3 * h + 2)
             z == b(3 * h + 3)
  <2>5. /\ ((x \div 4) * 4 + (((x % 4) * 16 + (y \div 16)) \div 16)) % 256 = x
        /\ (((x % 4) * 16 + (y \div 16)) * 16 + (((y % 16) * 4 + (z \div 64)) \div 4)) % 256 = y
        /\ (((y % 16) * 4 + (z \div 64)) * 64 + (z % 64)) % 256 = z
    BY <2>3, ThreeBytes
  <2> HIDE DEF x, y, z
  <2>6. CASE i = 3 * h + 1 /\ i % 3 = 1
    <3>1. byte(i, 4 * h) = (x \div 4) * 4 + (((x % 4) * 16 + (y \div 16)) \div 16)
      BY <2>2, <2>6 DEF x, y
    <3> QED BY <2>4, <2>5, <2>6, <3>1, Zenon DEF x, h
  <2>7. CASE i = 3 * h + 2 /\ i % 3 = 2
    <3>1. ~(3 * h + 2 > n)
      BY <1>1, <2>1, <2>4, <2>7
    <3>2. byte(i, 4 * h) = ((x % 4) * 16 + (y \div 16)) * 16 + (((y % 16) * 4 + (z \div 64)) \div 4)
      BY <2>2, <2>7, <3>1 DEF x, y, z, b, n, Third
    <3> QED BY <2>4, <2>5, <2>7, <3>2, Zenon DEF y, h
  <2>8. CASE i = 3 * h + 3 /\ i % 3 = 0
    <3>1. ~(3 * h + 2 > n) /\ ~(3 * h + 3 > n)
      BY <1>1, <2>1, <2>4, <2>8
    <3>2. byte(i, 4 * h) = ((y % 16) * 4 + (z \div 64)) * 64 + (z % 64)
      BY <2>2, <2>8, <3>1 DEF y, z, b, n, Third, Fourth
    <3> QED BY <2>4, <2>5, <2>8, <3>2, Zenon DEF z, h
  <2> HIDE DEF byte
  <2> QED BY <2>1, <2>6, <2>7, <2>8, Zenon
<1> HIDE DEF byte
<1>6. Stored(enc) = [i \in 1..n |-> plain[i]]
    BY <1>4, <1>5, Zenon
<1>7. Stored(enc) = plain
    BY <1>6, AsFunction, Zenon
<1>8. Decode(enc).ret = n /\ Decode(enc) = [ret |-> Decode(enc).ret, stored |-> Stored(enc)]
    BY <1>2, <1>3 DEF Decode
<1> QED BY <1>7, <1>8 DEF enc

\* Whatever the text, base64_decode writes as many bytes as it returns, and they and
\* the terminator fit into what base64_decode_len says (es10b_load_bound_profile_package_r
\* allocates by it).
THEOREM Base64Fits ==
    ASSUME NEW coded \in Seq(0..NotCode)
    PROVE  /\ Len(Decode(coded).stored) = Decode(coded).ret
           /\ Len(Decode(coded).stored) + 1 <= DecodeLen(coded)
<1> DEFINE n == CodeLength(coded)
           tail == IF n = 0 THEN 0 ELSE ((n - 1) % 4) + 1
           count == 3 * ((n - tail) \div 4) + (IF tail > 1 THEN tail - 1 ELSE 0)
           byte(i, g) ==
               CASE i % 3 = 1 -> coded[g + 1] * 4 + coded[g + 2] \div 16
                 [] i % 3 = 2 -> coded[g + 2] * 16 + coded[g + 3] \div 4
                 [] OTHER     -> coded[g + 3] * 64 + coded[g + 4]
<1>1. n \in Nat
  <2> DEFINE ends == {k \in 1..Len(coded) : coded[k] = NotCode}
  <2>1. CASE ends = {}
    BY <2>1 DEF CodeLength
  <2>2. ASSUME NEW e \in ends PROVE n \in Nat
    <3> DEFINE first == CHOOSE k \in ends : \A j \in ends : k <= j
    <3>1. n = first - 1
      BY <2>2 DEF CodeLength
    <3>2. ends \in SUBSET Nat /\ ends # {} /\ \A k \in ends : k >= 1
      BY <2>2
    <3> HIDE DEF ends, n
    <3>3. \E k \in ends : \A j \in ends : k <= j
      BY <3>2, Least, Zenon
    <3>4. first \in ends
      BY <3>3, Zenon
    <3> HIDE DEF first
    <3> QED BY <3>1, <3>2, <3>4
  <2> QED BY <2>1, <2>2, Zenon
<1> HIDE DEF n
<1>2. tail \in 0..4 /\ count \in Nat
    BY <1>1
<1>3. Stored(coded) = [i \in 1..count |-> byte(i, 4 * ((i - 1) \div 3)) % 256]
    BY DEF Stored, n
<1> HIDE DEF byte, count
<1>4. Len(Stored(coded)) = count
    BY <1>2, <1>3
<1>5. Decode(coded).ret = ((n + 3) \div 4) * 3 - ((4 - tail) % 4) /\ Decode(coded).stored = Stored(coded)
    BY DEF Decode, n
<1>6. DecodeLen(coded) = ((n + 3) \div 4) * 3 + 1
    BY DEF DecodeLen, n
<1>7. count = ((n + 3) \div 4) * 3 - ((4 - tail) % 4) /\ count <= ((n + 3) \div 4) * 3
  <2> USE DEF count
  <2>1. CASE n = 0
    BY <2>1
  <2>2. CASE n # 0
    <3> DEFINE q == (n - 1) \div 4
               r == (n - 1) % 4
    <3>1. q \in Nat /\ r \in 0..3 /\ n = 4 * q + r + 1 /\ tail = r + 1
      BY <1>1, <2>2
    <3> HIDE DEF q, r, tail
    <3>2. (n - tail) \div 4 = q /\ (n + 3) \div 4 = q + 1
      BY <3>1
    <3> QED BY <3>1, <3>2
  <2> QED BY <2>1, <2>2
<1> HIDE DEF tail
<1>8. Len(Decode(coded).stored) = count
    BY <1>4, <1>5, Zenon
<1>9. count + 1 <= ((n + 3) \div 4) * 3 + 1
    BY <1>1, <1>2, <1>7
<1> QED BY <1>5, <1>6, <1>7, <1>8, <1>9, Zenon
=============================================================================

----------------------------- MODULE TextProofs -----------------------------
(***************************************************************************)
(* What base64url, url_decode, and the ways from a target to a file and to *)
(* a token, do to every byte string, every text and every target.          *)
(*                                                                         *)
(* encode and decode give every character and every byte by its place.     *)
(* url_decode, Components and Walk go along a text, and what they do to    *)
(* all of them is shown by counting up to its length (Count).  For that    *)
(* the function that such a definition describes must be known to exist    *)
(* (Fold, DecodedExists, JoinsExist).                                      *)
(***************************************************************************)
EXTENDS MCText, SequenceTheorems, WellFoundedInduction, TLAPS

TypeOK == bin \in Seq(Byte) /\ text \in Seq(Byte) /\ target \in Seq(Parts)

(* What the actions of MCText build are byte strings, texts and targets. *)
THEOREM TextTypeCorrect == Spec => []TypeOK
<1>1. Init => TypeOK
  BY DEF Init, TypeOK
<1>2. ASSUME TypeOK, [Next]_vars
      PROVE  TypeOK'
  <2>1. CASE MoreBytes
    BY <1>2, <2>1, TextAssumption DEF TypeOK, MoreBytes
  <2>2. CASE MoreText
    BY <1>2, <2>2, TextAssumption DEF TypeOK, MoreText
  <2>3. CASE MoreTarget
    BY <1>2, <2>3 DEF TypeOK, MoreTarget
  <2>4. CASE UNCHANGED vars
    BY <1>2, <2>4 DEF TypeOK, vars
  <2>5. QED BY <1>2, <2>1, <2>2, <2>3, <2>4 DEF Next
<1>3. QED BY <1>1, <1>2, PTL DEF Spec

-----------------------------------------------------------------------------
(* Minimum and maximum. *)

LEMMA MinIs ==
  ASSUME NEW S \in SUBSET Int, NEW m \in S, \A x \in S : m <= x
  PROVE  Min(S) = m
<1>1. \A x \in S : (\A y \in S : x <= y) => x = m
  OBVIOUS
<1>2. QED BY <1>1 DEF Min

LEMMA MaxIs ==
  ASSUME NEW S \in SUBSET Int, NEW m \in S, \A x \in S : m >= x
  PROVE  Max(S) = m
<1>1. \A x \in S : (\A y \in S : x >= y) => x = m
  OBVIOUS
<1>2. QED BY <1>1 DEF Max

LEMMA MaxOf ==
  ASSUME NEW n \in Nat, NEW S \in SUBSET (0..n), S # {}
  PROVE  Max(S) \in S /\ \A x \in S : Max(S) >= x
<1> DEFINE T == {n - x : x \in S}
<1>1. T \subseteq Nat /\ T # {}
  <2>1. \A x \in S : n - x \in Nat
    OBVIOUS
  <2>2. QED BY <2>1
<1>2. PICK t \in T : \A u \in T : ~(<<u, t>> \in OpToRel(<, Nat))
  BY <1>1, NatLessThanWellFounded, WFMin
<1>3. \A u \in T : ~(u < t)
  BY <1>1, <1>2, Zenon DEF OpToRel
<1>4. PICK m \in S : t = n - m
  OBVIOUS
<1>5. \A x \in S : m >= x
  <2> SUFFICES ASSUME NEW x \in S PROVE m >= x
    OBVIOUS
  <2>1. ~(n - x < n - m)
    BY <1>3, <1>4
  <2>2. QED BY <2>1
<1>6. QED BY <1>5, MaxIs

-----------------------------------------------------------------------------
(* The alphabet. *)

LEMMA AlphabetPlain ==
  \A i \in 0..63 : Alphabet[i] \in Byte \ {37, 46}
BY DEF Alphabet, Byte

LEMMA AlphabetOnce ==
  \A i, j \in 0..63 : Alphabet[i] = Alphabet[j] => i = j
BY DEF Alphabet

LEMMA IndexOfAlphabet ==
  ASSUME NEW i \in 0..63
  PROVE  Known(Alphabet[i]) /\ index(Alphabet[i]) = i
<1>1. i \in Numbers(Alphabet[i]) /\ \A j \in Numbers(Alphabet[i]) : j = i
  BY AlphabetOnce DEF Numbers
<1>2. QED BY <1>1 DEF Known, index

LEMMA AlphabetOfIndex ==
  ASSUME NEW c, Known(c)
  PROVE  index(c) \in 0..63 /\ Alphabet[index(c)] = c
<1>1. \E i \in Numbers(c) : TRUE
  BY DEF Known
<1>2. index(c) \in Numbers(c)
  BY <1>1 DEF index
<1>3. QED BY <1>2 DEF Numbers

-----------------------------------------------------------------------------
(* Texts with a fill at their end.  The characters before it do not contain
   its first one, the percent sign. *)

Clean(s) == s \in Seq(Byte) /\ \A i \in 1..Len(s) : s[i] # 37

LEMMA FillsShape ==
  ASSUME NEW n \in Nat
  PROVE  /\ Fills(n) \in Seq(Byte)
         /\ Len(Fills(n)) = 3 * n
         /\ n > 0 => Fills(n)[1] = 37 /\ Fills(n)[2] = 51 /\ Fills(n)[3] = 100
<1>1. \A i \in 1..(3 * n) : ((i - 1) % 3) + 1 \in {1, 2, 3}
  OBVIOUS
<1>2. \A j \in {1, 2, 3} : Fill[j] \in Byte
  BY DEF Fill, Byte
<1>3. QED BY <1>1, <1>2 DEF Fills, Fill

LEMMA Part ==
  ASSUME NEW base \in Seq(Byte), NEW i \in 1..(Len(base) + 1), NEW j \in (i - 1)..Len(base)
  PROVE  /\ SubSeq(base, i, j) \in Seq(Byte)
         /\ Len(SubSeq(base, i, j)) = j - i + 1
         /\ \A k \in 1..(j - i + 1) : SubSeq(base, i, j)[k] = base[i + k - 1]
<1>1. Len(base) \in Nat /\ i \in Int /\ j \in Int
  BY LenProperties
<1>2. \A k \in i..j : base[k] \in Byte
  BY <1>1, ElementOfSeq
<1>3. /\ SubSeq(base, i, j) \in Seq(Byte)
      /\ Len(SubSeq(base, i, j)) = IF i <= j THEN j - i + 1 ELSE 0
      /\ \A k \in 1..(j - i + 1) : SubSeq(base, i, j)[k] = base[i + k - 1]
  BY <1>1, <1>2, SubSeqProperties
<1>4. QED BY <1>1, <1>3

LEMMA Filled ==
  ASSUME NEW s, Clean(s), NEW n \in Nat
  PROVE  /\ s \in Seq(Byte) /\ Len(s) \in Nat
         /\ s \o Fills(n) \in Seq(Byte)
         /\ Len(s \o Fills(n)) = Len(s) + 3 * n
         /\ \A i \in 1..Len(s) : (s \o Fills(n))[i] = s[i] /\ s[i] # 37
         /\ \A i \in 1..(3 * n) : (s \o Fills(n))[Len(s) + i] = Fills(n)[i]
<1> DEFINE f == Fills(n)
<1>1. s \in Seq(Byte) /\ Len(s) \in Nat /\ \A i \in 1..Len(s) : s[i] # 37
  BY LenProperties DEF Clean
<1>2. f \in Seq(Byte) /\ Len(f) = 3 * n
  BY FillsShape
<1> HIDE DEF f
<1>3. /\ s \o f \in Seq(Byte)
      /\ Len(s \o f) = Len(s) + Len(f)
      /\ \A i \in 1..(Len(s) + Len(f)) :
           (s \o f)[i] = IF i <= Len(s) THEN s[i] ELSE f[i - Len(s)]
  BY <1>1, <1>2, ConcatProperties
<1>4. QED BY <1>1, <1>2, <1>3 DEF f

LEMMA TrimFilled ==
  ASSUME NEW s, Clean(s), NEW n \in Nat
  PROVE  trim(s \o Fills(n)) = s
<1> DEFINE base == s \o Fills(n)
           found == {i \in 1..(Len(base) - 2) : At(base, Fill, i)}
<1>1. /\ s \in Seq(Byte) /\ Len(s) \in Nat
      /\ base \in Seq(Byte)
      /\ Len(base) = Len(s) + 3 * n
      /\ \A i \in 1..Len(s) : base[i] = s[i] /\ s[i] # 37
      /\ \A i \in 1..(3 * n) : base[Len(s) + i] = Fills(n)[i]
  BY Filled
<1>2. \A i \in 1..(Len(base) - 2) : At(base, Fill, i) <=> SubSeq(base, i, i + 2) = Fill
  BY DEF At, Fill
<1>3. trim(base) = IF found = {} THEN base ELSE SubSeq(base, 1, Min(found) - 1)
  BY DEF trim
<1> HIDE DEF base
<1>4. \A i \in found : i > Len(s)
  <2> SUFFICES ASSUME NEW i \in 1..(Len(base) - 2), SubSeq(base, i, i + 2) = Fill
               PROVE  i > Len(s)
    BY <1>2
  <2>1. i + 2 \in (i - 1)..Len(base) /\ i \in 1..(Len(base) + 1) /\ 1 \in 1..(i + 2 - i + 1)
    BY <1>1
  <2>2. SubSeq(base, i, i + 2)[1] = base[i + 1 - 1]
    BY <1>1, <2>1, Part
  <2>3. Fill[1] = 37
    BY DEF Fill
  <2>4. base[i] = 37
    BY <1>1, <2>1, <2>2, <2>3
  <2>5. QED BY <1>1, <2>4
<1>5. CASE n = 0
  <2>1. found = {}
    BY <1>1, <1>4, <1>5
  <2>2. base = s
    BY <1>1, <1>5, SeqEqual
  <2>3. QED BY <1>3, <2>1, <2>2 DEF base
<1>6. CASE n > 0
  <2> DEFINE m == Len(s) + 1
  <2>1. m \in 1..(Len(base) - 2) /\ m + 2 \in (m - 1)..Len(base)
    BY <1>1, <1>6
  <2>2. base[m] = 37 /\ base[m + 1] = 51 /\ base[m + 2] = 100
    <3>1. 1 \in 1..(3 * n) /\ 2 \in 1..(3 * n) /\ 3 \in 1..(3 * n)
      BY <1>6
    <3> DEFINE f == Fills(n)
    <3>2. f[1] = 37 /\ f[2] = 51 /\ f[3] = 100
      BY <1>6, FillsShape
    <3>3. \A i \in 1..(3 * n) : base[Len(s) + i] = f[i]
      BY <1>1
    <3> HIDE DEF f
    <3>4. base[Len(s) + 1] = 37 /\ base[Len(s) + 2] = 51 /\ base[Len(s) + 3] = 100
      BY <3>1, <3>2, <3>3
    <3>5. QED BY <1>1, <3>4
  <2>3. SubSeq(base, m, m + 2) = Fill
    <3> DEFINE part == SubSeq(base, m, m + 2)
    <3>1. part \in Seq(Byte) /\ Len(part) = 3 /\ \A k \in 1..3 : part[k] = base[m + k - 1]
      BY <1>1, <2>1, Part
    <3> HIDE DEF part, m
    <3>2. part[1] = 37 /\ part[2] = 51 /\ part[3] = 100
      BY <1>1, <2>1, <2>2, <3>1
    <3>3. Fill \in Seq(Byte) /\ Len(Fill) = 3
      BY DEF Fill, Byte
    <3>4. \A k \in 1..3 : part[k] = Fill[k]
      BY <3>2 DEF Fill
    <3>5. part = Fill
      BY <3>1, <3>3, <3>4, SeqEqual
    <3>6. QED BY <3>5 DEF part
  <2>4. m \in found
    BY <1>2, <2>1, <2>3
  <2>5. Min(found) = m
    <3>1. found \in SUBSET Int /\ \A i \in found : m <= i
      BY <1>1, <1>4
    <3> HIDE DEF found, m
    <3>2. QED BY <2>4, <3>1, MinIs
  <2>6. SubSeq(base, 1, m - 1) = s
    <3>1. m - 1 = Len(s) /\ Len(s) \in 0..Len(base)
      BY <1>1
    <3> DEFINE part == SubSeq(base, 1, Len(s))
    <3>2. /\ part \in Seq(Byte) /\ Len(part) = Len(s)
          /\ \A k \in 1..Len(s) : part[k] = base[1 + k - 1]
      BY <1>1, <3>1, Part
    <3> HIDE DEF part
    <3>3. \A k \in 1..Len(s) : part[k] = s[k]
      BY <1>1, <3>2
    <3>4. part = s
      BY <1>1, <3>2, <3>3, SeqEqual
    <3>5. QED BY <3>1, <3>4 DEF part
  <2>7. found # {}
    BY <2>4
  <2> HIDE DEF found, m
  <2>8. trim(base) = s
    BY <1>3, <2>5, <2>6, <2>7 DEF found
  <2>9. QED BY <2>8 DEF base
<1>7. QED BY <1>1, <1>5, <1>6

(* The number of fills is the greatest that fits the end of the text. *)
LEMMA PaddingFits ==
  ASSUME NEW base \in Seq(Byte)
  PROVE  LET c == count_padding(base) IN
         /\ c \in 0..(Len(base) \div 3)
         /\ SubSeq(base, Len(base) - 3 * c + 1, Len(base)) = Fills(c)
<1> DEFINE fits == {k \in 0..(Len(base) \div 3) :
                      SubSeq(base, Len(base) - 3 * k + 1, Len(base)) = Fills(k)}
<1>1. count_padding(base) = Max(fits)
  BY DEF count_padding
<1>2. Len(base) \in Nat /\ Len(base) \div 3 \in Nat
  BY LenProperties
<1>3. 0 \in fits
  <2>1. SubSeq(base, Len(base) + 1, Len(base)) = << >>
    BY <1>2, SubSeqEmpty
  <2>2. Fills(0) = << >>
    BY FillsShape, EmptySeq
  <2>3. 0 \in 0..(Len(base) \div 3) /\ Len(base) - 3 * 0 + 1 = Len(base) + 1
    BY <1>2
  <2>4. QED BY <2>1, <2>2, <2>3
<1>4. fits \in SUBSET (0..(Len(base) \div 3)) /\ fits # {}
  BY <1>3
<1>5. Max(fits) \in fits
  <2> HIDE DEF fits
  <2>1. QED BY <1>2, <1>4, MaxOf
<1>6. QED BY <1>1, <1>5

LEMMA Thirds ==
  ASSUME NEW n \in Nat
  PROVE  n \div 3 \in Nat /\ \A k \in 0..(n \div 3) : k \in Nat /\ 3 * k <= n
<1>1. n \div 3 \in Nat /\ 3 * (n \div 3) <= n
  OBVIOUS
<1>2. QED BY <1>1

LEMMA PaddingOfFilled ==
  ASSUME NEW s, Clean(s), NEW n \in Nat
  PROVE  count_padding(s \o Fills(n)) = n /\ Size(s \o Fills(n)) = Len(s)
<1> DEFINE base == s \o Fills(n)
           fits == {k \in 0..(Len(base) \div 3) :
                      SubSeq(base, Len(base) - 3 * k + 1, Len(base)) = Fills(k)}
<1>1. /\ Len(s) \in Nat
      /\ base \in Seq(Byte)
      /\ Len(base) = Len(s) + 3 * n
      /\ \A i \in 1..Len(s) : base[i] = s[i] /\ s[i] # 37
      /\ \A i \in 1..(3 * n) : base[Len(s) + i] = Fills(n)[i]
  BY Filled
<1>2. count_padding(base) = Max(fits) /\ Size(base) = Len(base) - 3 * Max(fits)
  BY DEF count_padding, Size
<1> HIDE DEF base
<1>3. /\ Len(base) \in Nat /\ Len(base) \div 3 \in Nat
      /\ \A k \in 0..(Len(base) \div 3) : k \in Nat /\ 3 * k <= Len(base)
  <2>1. Len(base) \in Nat
    BY <1>1
  <2>2. QED BY <2>1, Thirds
<1>4. n \in fits
  <2>1. n \in 0..(Len(base) \div 3) /\ Len(base) - 3 * n + 1 = Len(s) + 1
    BY <1>1
  <2> DEFINE part == SubSeq(base, Len(s) + 1, Len(base))
             f == Fills(n)
  <2>2. Len(s) + 1 \in 1..(Len(base) + 1) /\ Len(base) \in ((Len(s) + 1) - 1)..Len(base)
    BY <1>1
  <2>3. /\ part \in Seq(Byte) /\ Len(part) = Len(base) - (Len(s) + 1) + 1
        /\ \A k \in 1..(Len(base) - (Len(s) + 1) + 1) : part[k] = base[(Len(s) + 1) + k - 1]
    BY <1>1, <2>2, Part
  <2>4. f \in Seq(Byte) /\ Len(f) = 3 * n /\ \A i \in 1..(3 * n) : base[Len(s) + i] = f[i]
    BY <1>1, FillsShape
  <2> HIDE DEF part, f
  <2>5. Len(base) - (Len(s) + 1) + 1 = 3 * n /\ \A k \in 1..(3 * n) : (Len(s) + 1) + k - 1 = Len(s) + k
    BY <1>1
  <2>6. Len(part) = 3 * n /\ \A k \in 1..(3 * n) : part[k] = base[Len(s) + k]
    BY <2>3, <2>5
  <2>7. Len(part) = 3 * n /\ \A k \in 1..(3 * n) : part[k] = f[k]
    BY <2>4, <2>6
  <2>8. part = f
    BY <2>3, <2>4, <2>7, SeqEqual
  <2>9. QED BY <2>1, <2>8 DEF part, f
<1>5. \A k \in fits : n >= k
  <2> SUFFICES ASSUME NEW k \in 0..(Len(base) \div 3), k > n,
                      SubSeq(base, Len(base) - 3 * k + 1, Len(base)) = Fills(k)
               PROVE  FALSE
    BY <1>3
  <2> DEFINE from == Len(base) - 3 * k + 1
             f == Fills(k)
             part == SubSeq(base, from, Len(base))
  <2>1. k \in Nat /\ k > 0 /\ 3 * k <= Len(base)
    BY <1>3
  <2>2. /\ from \in 1..Len(s) /\ from \in 1..(Len(base) + 1)
        /\ Len(base) \in (from - 1)..Len(base) /\ 1 \in 1..(Len(base) - from + 1)
    BY <1>1, <2>1
  <2>3. part[1] = base[from + 1 - 1]
    BY <1>1, <2>2, Part
  <2>4. f[1] = 37
    BY <2>1, FillsShape
  <2>5. part = f
    OBVIOUS
  <2> HIDE DEF part, f, from
  <2>6. base[from] = 37
    BY <2>2, <2>3, <2>4, <2>5
  <2>7. QED BY <1>1, <2>2, <2>6
<1>6. Max(fits) = n
  <2>1. fits \in SUBSET Int
    BY <1>1
  <2> HIDE DEF fits
  <2>2. QED BY <1>4, <1>5, <2>1, MaxIs
<1>7. count_padding(base) = n /\ Size(base) = Len(s)
  BY <1>1, <1>2, <1>6
<1>8. QED BY <1>7 DEF base

-----------------------------------------------------------------------------
(* Groups: what three octets and four sextets have to do with each other. *)

(* The number that the octets of a group make. *)
Triple(b, g) == Octet(b, 3 * g + 1) * 65536 + Octet(b, 3 * g + 2) * 256 + Octet(b, 3 * g + 3)

LEMMA OctetIsByte ==
  ASSUME NEW b \in Seq(Byte), NEW i \in Nat \ {0}
  PROVE  Octet(b, i) \in Byte
<1>1. i <= Len(b) => b[i] \in Byte
  <2>1. Len(b) \in Nat
    BY LenProperties
  <2>2. QED BY <2>1, ElementOfSeq
<1>2. QED BY <1>1 DEF Octet, Byte

(* The place of a character in its group of four, and of a byte in its of three. *)
LEMMA PlaceInFour ==
  ASSUME NEW k \in Nat \ {0}
  PROVE  \E g \in Nat, j \in 1..4 :
           /\ k = 4 * g + j
           /\ (k - 1) \div 4 = g /\ (k - 1) % 4 = j - 1
<1> DEFINE g == (k - 1) \div 4
           j == ((k - 1) % 4) + 1
<1>1. g \in Nat /\ j \in 1..4 /\ k = 4 * g + j /\ (k - 1) % 4 = j - 1
  OBVIOUS
<1>2. QED BY <1>1

LEMMA PlaceInThree ==
  ASSUME NEW k \in Nat \ {0}
  PROVE  \E g \in Nat, j \in 1..3 :
           /\ k = 3 * g + j
           /\ (k - 1) \div 3 = g /\ (k - 1) % 3 = j - 1
<1> DEFINE g == (k - 1) \div 3
           j == ((k - 1) % 3) + 1
<1>1. g \in Nat /\ j \in 1..3 /\ k = 3 * g + j /\ (k - 1) % 3 = j - 1
  OBVIOUS
<1>2. QED BY <1>1

LEMMA SextetIs ==
  ASSUME NEW b \in Seq(Byte), NEW g \in Nat, NEW j \in 1..4
  PROVE  SextetOf(b, 4 * g + j) = (Triple(b, g) \div SextetUnit[j]) % 64
<1>1. (4 * g + j - 1) \div 4 = g /\ (4 * g + j - 1) % 4 = j - 1
  OBVIOUS
<1>2. QED BY <1>1 DEF SextetOf, Triple

LEMMA OctetIs ==
  ASSUME NEW base, NEW g \in Nat, NEW j \in 1..3
  PROVE  OctetOf(base, 3 * g + j) =
           ((Sextet(base, 4 * g + 1) * 262144 + Sextet(base, 4 * g + 2) * 4096
               + Sextet(base, 4 * g + 3) * 64 + Sextet(base, 4 * g + 4))
             \div OctetUnit[j]) % 256
<1>1. (3 * g + j - 1) \div 3 = g /\ (3 * g + j - 1) % 3 = j - 1
  OBVIOUS
<1>2. QED BY <1>1 DEF OctetOf

Bits24(t) == t \in Nat /\ t < 16777216

LEMMA TripleRange ==
  ASSUME NEW b \in Seq(Byte), NEW g \in Nat
  PROVE  Bits24(Triple(b, g))
<1>1. \A j \in 1..3 : Octet(b, 3 * g + j) \in 0..255
  <2>1. \A j \in 1..3 : 3 * g + j \in Nat \ {0}
    BY SMT
  <2>2. QED BY <2>1, OctetIsByte DEF Byte
<1>2. Octet(b, 3 * g + 1) \in 0..255 /\ Octet(b, 3 * g + 2) \in 0..255 /\ Octet(b, 3 * g + 3) \in 0..255
  BY <1>1
<1> DEFINE x == Octet(b, 3 * g + 1)
           y == Octet(b, 3 * g + 2)
           z == Octet(b, 3 * g + 3)
<1>3. Triple(b, g) = x * 65536 + y * 256 + z
  BY SMT DEF Triple
<1>4. x \in 0..255 /\ y \in 0..255 /\ z \in 0..255
  BY <1>2
<1> HIDE DEF x, y, z
<1>5. QED BY <1>3, <1>4, SMT DEF Bits24

LEMMA SextetRange ==
  ASSUME NEW b \in Seq(Byte), NEW k \in Nat \ {0}
  PROVE  SextetOf(b, k) \in 0..63
<1>1. PICK g \in Nat, j \in 1..4 : k = 4 * g + j
  BY PlaceInFour
<1>2. Triple(b, g) \in Nat
  <2>1. Bits24(Triple(b, g))
    BY TripleRange
  <2>2. QED BY <2>1, SMT DEF Bits24
<1>3. SextetUnit[j] \in Nat \ {0}
  BY SMT DEF SextetUnit
<1>4. Triple(b, g) \div SextetUnit[j] \in Int
  BY <1>2, <1>3, SMT
<1>5. \A n \in Int : n % 64 \in 0..63
  BY SMT
<1>6. SextetOf(b, 4 * g + j) = (Triple(b, g) \div SextetUnit[j]) % 64
  BY <1>1, SextetIs
<1>7. QED BY <1>1, <1>4, <1>5, <1>6

(* Four sextets hold what three octets make. *)
LEMMA SextetsOfTriple ==
  ASSUME NEW t, Bits24(t)
  PROVE  ((t \div 262144) % 64) * 262144 + ((t \div 4096) % 64) * 4096
           + ((t \div 64) % 64) * 64 + ((t \div 1) % 64) = t
<1> USE DEF Bits24
<1> DEFINE q1 == t \div 64
           q2 == t \div 4096
           q3 == t \div 262144
<1>1. t \in Nat /\ q1 \in Nat /\ q2 \in Nat /\ q3 \in Nat
  BY SMT
<1>2. q1 \div 64 = q2 /\ q2 \div 64 = q3
  BY SMT
<1>3. q3 % 64 = q3
  BY SMT
<1>4. t \div 1 = t
  BY SMT
<1> HIDE DEF q1, q2, q3
<1>5. t = 64 * (t \div 64) + (t % 64) /\ q1 = 64 * (q1 \div 64) + (q1 % 64) /\ q2 = 64 * (q2 \div 64) + (q2 % 64)
  BY <1>1, SMT
<1>6. t % 64 \in Nat /\ q1 % 64 \in Nat /\ q2 % 64 \in Nat
  BY <1>1, SMT
<1>7. t = 64 * q1 + (t % 64)
  BY <1>5 DEF q1
<1>8. (q3 % 64) * 262144 + (q2 % 64) * 4096 + (q1 % 64) * 64 + (t % 64) = t
  <2> DEFINE r0 == t % 64
             r1 == q1 % 64
             r2 == q2 % 64
  <2>1. t = 64 * q1 + r0 /\ q1 = 64 * q2 + r1 /\ q2 = 64 * q3 + r2 /\ r0 \in Nat /\ r1 \in Nat /\ r2 \in Nat
    BY <1>2, <1>5, <1>6, <1>7
  <2> HIDE DEF r0, r1, r2
  <2>2. q3 * 262144 + r2 * 4096 + r1 * 64 + r0 = t
    BY <1>1, <2>1, SMT
  <2>3. QED BY <1>3, <2>2, SMT DEF r0, r1, r2
<1>9. QED BY <1>4, <1>8, SMT DEF q1, q2, q3

-----------------------------------------------------------------------------
(* Segments. *)

Written(n) == (4 * n + 2) \div 3

Chars(b) == [k \in 1..Written(Len(b)) |-> Alphabet[SextetOf(b, k)]]

LEMMA WrittenIs ==
  ASSUME NEW n \in Nat
  PROVE  /\ Written(n) \in Nat
         /\ 4 * (n \div 3) + (IF n % 3 = 0 THEN 0 ELSE (n % 3) + 1) = Written(n)
         /\ (IF n % 3 = 0 THEN 0 ELSE 3 - (n % 3)) \in Nat
         /\ (4 - (Written(n) % 4)) % 4 \in 0..2
         /\ (Written(n) + ((4 - (Written(n) % 4)) % 4)) % 4 = 0
         /\ (3 * Written(n)) \div 4 = n
BY SMT DEF Written

LEMMA CharsClean ==
  ASSUME NEW b \in Seq(Byte)
  PROVE  /\ Clean(Chars(b)) /\ Len(Chars(b)) = Written(Len(b))
         /\ \A k \in 1..Written(Len(b)) :
              /\ SextetOf(b, k) \in 0..63
              /\ Chars(b)[k] = Alphabet[SextetOf(b, k)]
              /\ Chars(b)[k] \in Byte \ {37, 46}
<1>1. Written(Len(b)) \in Nat
  BY LenProperties, WrittenIs
<1>2. \A k \in 1..Written(Len(b)) : SextetOf(b, k) \in 0..63
  <2>1. \A k \in 1..Written(Len(b)) : k \in Nat \ {0}
    BY <1>1
  <2>2. QED BY <2>1, SextetRange
<1>3. \A k \in 1..Written(Len(b)) : Alphabet[SextetOf(b, k)] \in Byte \ {37, 46}
  BY <1>2, AlphabetPlain
<1>4. Chars(b) \in Seq(Byte) /\ Len(Chars(b)) = Written(Len(b))
  BY <1>1, <1>3 DEF Chars
<1>5. \A k \in 1..Written(Len(b)) : Chars(b)[k] = Alphabet[SextetOf(b, k)]
  BY DEF Chars
<1>6. \A k \in 1..Written(Len(b)) : Chars(b)[k] \in Byte \ {37, 46}
  BY <1>3, <1>5
<1>7. Clean(Chars(b))
  BY <1>4, <1>6 DEF Clean
<1>8. QED BY <1>2, <1>4, <1>5, <1>6, <1>7

LEMMA EncodeIs ==
  ASSUME NEW b \in Seq(Byte)
  PROVE  \E f \in Nat : encode(b) = Chars(b) \o Fills(f)
<1> DEFINE n == Len(b)
           f == IF n % 3 = 0 THEN 0 ELSE 3 - (n % 3)
           w == 4 * (n \div 3) + (IF n % 3 = 0 THEN 0 ELSE (n % 3) + 1)
<1>1. n \in Nat
  BY LenProperties
<1>2. w = Written(n) /\ f \in Nat
  BY <1>1, WrittenIs
<1>3. encode(b) = [k \in 1..w |-> Alphabet[SextetOf(b, k)]] \o Fills(f)
  BY DEF encode
<1> HIDE DEF w, f
<1>4. encode(b) = Chars(b) \o Fills(f)
  BY <1>2, <1>3 DEF Chars
<1>5. QED BY <1>2, <1>4

LEMMA SegmentIs ==
  ASSUME NEW b \in Seq(Byte)
  PROVE  trim(encode(b)) = Chars(b)
<1>1. PICK f \in Nat : encode(b) = Chars(b) \o Fills(f)
  BY EncodeIs
<1>2. Clean(Chars(b))
  BY CharsClean
<1>3. trim(Chars(b) \o Fills(f)) = Chars(b)
  BY <1>2, TrimFilled
<1>4. QED BY <1>1, <1>3

(* A segment is plain and as long as its bytes need (encode and trim). *)
THEOREM SegmentsArePlain == Spec => []SegmentIsPlain
<1>1. TypeOK => SegmentIsPlain
  <2> SUFFICES ASSUME TypeOK PROVE SegmentIsPlain
    OBVIOUS
  <2>1. bin \in Seq(Byte) /\ Segment = Chars(bin)
    BY SegmentIs DEF TypeOK, Segment
  <2>2. QED BY <2>1, CharsClean DEF SegmentIsPlain, Written
<1>2. QED BY <1>1, TextTypeCorrect, PTL

-----------------------------------------------------------------------------
(* Reading. *)

(* What the sizes say when decode has accepted them. *)
Sized(base) ==
  /\ base \in Seq(Byte)
  /\ count_padding(base) \in 0..2
  /\ Size(base) \in Nat
  /\ (Size(base) + count_padding(base)) % 4 = 0

LEMMA AcceptedIsSized ==
  ASSUME NEW base \in Seq(Byte), DecodeError(base) = "ok"
  PROVE  Sized(base) /\ \A i \in Reads(base) : Known(base[i])
<1>1. /\ ~(count_padding(base) > 2)
      /\ (Size(base) + count_padding(base)) % 4 = 0
      /\ \A i \in Reads(base) : Known(base[i])
  BY DEF DecodeError
<1>2. Len(base) \in Nat
  BY LenProperties
<1>3. count_padding(base) \in Nat /\ 3 * count_padding(base) <= Len(base)
  BY <1>2, PaddingFits, Thirds
<1>4. QED BY <1>1, <1>2, <1>3 DEF Sized, Size

LEMMA GroupSizes ==
  ASSUME NEW s \in Nat, NEW c \in 0..2, (s + c) % 4 = 0
  PROVE  /\ s - (s % 4) + (CASE c = 1 -> 3 [] c = 2 -> 2 [] OTHER -> 0) = s
         /\ 3 * ((s - (s % 4)) \div 4) + (CASE c = 1 -> 2 [] c = 2 -> 1 [] OTHER -> 0)
              = (3 * s) \div 4
         /\ (3 * s) \div 4 \in Nat
         /\ Written((3 * s) \div 4) = s
<1> DEFINE q == s \div 4
           read == CASE c = 1 -> 3 [] c = 2 -> 2 [] OTHER -> 0
           tail == CASE c = 1 -> 2 [] c = 2 -> 1 [] OTHER -> 0
<1>1. CASE c = 0
  <2>1. q \in Nat /\ s = 4 * q
    BY <1>1, SMT
  <2>2. read = 0 /\ tail = 0
    BY <1>1, SMT
  <2> HIDE DEF q, read, tail
  <2>3. s % 4 = 0 /\ (3 * s) \div 4 = 3 * q /\ (s - 0) \div 4 = q
    BY <2>1, SMT
  <2>4. Written(3 * q) = s
    BY <2>1, SMT DEF Written
  <2>5. /\ s - (s % 4) + read = s
        /\ 3 * ((s - (s % 4)) \div 4) + tail = (3 * s) \div 4
        /\ (3 * s) \div 4 \in Nat
    BY <2>1, <2>2, <2>3, SMT
  <2>6. QED BY <2>3, <2>4, <2>5 DEF read, tail
<1>2. CASE c = 1
  <2>1. q \in Nat /\ s = 4 * q + 3
    BY <1>2, SMT
  <2>2. read = 3 /\ tail = 2
    BY <1>2, SMT
  <2> HIDE DEF q, read, tail
  <2>3. s % 4 = 3 /\ (3 * s) \div 4 = 3 * q + 2 /\ (s - 3) \div 4 = q
    BY <2>1, SMT
  <2>4. Written(3 * q + 2) = s
    BY <2>1, SMT DEF Written
  <2>5. /\ s - (s % 4) + read = s
        /\ 3 * ((s - (s % 4)) \div 4) + tail = (3 * s) \div 4
        /\ (3 * s) \div 4 \in Nat
    BY <2>1, <2>2, <2>3, SMT
  <2>6. QED BY <2>3, <2>4, <2>5 DEF read, tail
<1>3. CASE c = 2
  <2>1. q \in Nat /\ s = 4 * q + 2
    BY <1>3, SMT
  <2>2. read = 2 /\ tail = 1
    BY <1>3, SMT
  <2> HIDE DEF q, read, tail
  <2>3. s % 4 = 2 /\ (3 * s) \div 4 = 3 * q + 1 /\ (s - 2) \div 4 = q
    BY <2>1, SMT
  <2>4. Written(3 * q + 1) = s
    BY <2>1, SMT DEF Written
  <2>5. /\ s - (s % 4) + read = s
        /\ 3 * ((s - (s % 4)) \div 4) + tail = (3 * s) \div 4
        /\ (3 * s) \div 4 \in Nat
    BY <2>1, <2>2, <2>3, SMT
  <2>6. QED BY <2>3, <2>4, <2>5 DEF read, tail
<1>4. QED BY <1>1, <1>2, <1>3

LEMMA SizedReads ==
  ASSUME NEW base, Sized(base)
  PROVE  /\ Reads(base) = 1..Size(base)
         /\ decode(base) = [k \in 1..((3 * Size(base)) \div 4) |-> OctetOf(base, k)]
<1> DEFINE c == count_padding(base)
           s == Size(base)
<1>1. s \in Nat /\ c \in 0..2 /\ (s + c) % 4 = 0
  BY DEF Sized
<1>2. Fast(base) = s - (s % 4)
  BY DEF Fast
<1>3. Reads(base) = 1..(Fast(base) + (CASE c = 1 -> 3 [] c = 2 -> 2 [] OTHER -> 0))
  BY DEF Reads
<1>4. decode(base) = [k \in 1..(3 * (Fast(base) \div 4) + (CASE c = 1 -> 2 [] c = 2 -> 1 [] OTHER -> 0))
                        |-> OctetOf(base, k)]
  BY DEF decode
<1> HIDE DEF c, s
<1>5. /\ Fast(base) + (CASE c = 1 -> 3 [] c = 2 -> 2 [] OTHER -> 0) = s
      /\ 3 * (Fast(base) \div 4) + (CASE c = 1 -> 2 [] c = 2 -> 1 [] OTHER -> 0) = (3 * s) \div 4
  BY <1>1, <1>2, GroupSizes
<1>6. QED BY <1>3, <1>4, <1>5 DEF s

(* decode never looks up a character outside of its text or of the fill. *)
THEOREM ReadsStayInside == Spec => []ReadsInside
<1>1. TypeOK => ReadsInside
  BY AcceptedIsSized, SizedReads DEF TypeOK, ReadsInside
<1>2. QED BY <1>1, TextTypeCorrect, PTL

-----------------------------------------------------------------------------
(* A segment is read back. *)

(* The number that the sextets of a group make. *)
Group(base, g) ==
  Sextet(base, 4 * g + 1) * 262144 + Sextet(base, 4 * g + 2) * 4096
    + Sextet(base, 4 * g + 3) * 64 + Sextet(base, 4 * g + 4)

LEMMA OctetOfGroup ==
  ASSUME NEW base, NEW g \in Nat, NEW j \in 1..3
  PROVE  OctetOf(base, 3 * g + j) = (Group(base, g) \div OctetUnit[j]) % 256
BY OctetIs DEF Group

LEMMA Units ==
  /\ SextetUnit[1] = 262144 /\ SextetUnit[2] = 4096 /\ SextetUnit[3] = 64 /\ SextetUnit[4] = 1
  /\ OctetUnit[1] = 65536 /\ OctetUnit[2] = 256 /\ OctetUnit[3] = 1
BY SMT DEF SextetUnit, OctetUnit

LEMMA OctetsOfGroup ==
  ASSUME NEW base, NEW g \in Nat
  PROVE  /\ OctetOf(base, 3 * g + 1) = (Group(base, g) \div 65536) % 256
         /\ OctetOf(base, 3 * g + 2) = (Group(base, g) \div 256) % 256
         /\ OctetOf(base, 3 * g + 3) = (Group(base, g) \div 1) % 256
<1>1. 1 \in 1..3 /\ 2 \in 1..3 /\ 3 \in 1..3
  BY SMT
<1>2. \A j \in 1..3 : OctetOf(base, 3 * g + j) = (Group(base, g) \div OctetUnit[j]) % 256
  BY OctetOfGroup
<1>3. QED BY <1>1, <1>2, Units, SMT

LEMMA GroupOf ==
  ASSUME NEW n \in Nat, NEW g \in Nat, NEW j \in 1..3, 3 * g + j <= n
  PROVE  /\ Written(n) >= 4 * g + j + 1
         /\ 3 * g + 3 <= n => Written(n) >= 4 * g + 4
BY SMT DEF Written

(* The sextets that are not written carry no bits. *)
LEMMA UnwrittenIsZero ==
  ASSUME NEW b \in Seq(Byte), NEW g \in Nat, NEW i \in 1..4,
         3 * g + 1 <= Len(b), 4 * g + i > Written(Len(b))
  PROVE  SextetOf(b, 4 * g + i) = 0
<1> DEFINE n == Len(b)
           x == Octet(b, 3 * g + 1)
           y == Octet(b, 3 * g + 2)
           z == Octet(b, 3 * g + 3)
<1>1. n \in Nat /\ Written(n) \in Nat
  BY LenProperties, WrittenIs
<1>2. 3 * g + 2 > n => z = 0 /\ y = 0
  BY <1>1 DEF Octet
<1>3. 3 * g + 3 > n => z = 0
  BY <1>1 DEF Octet
<1>4. x \in 0..255 /\ y \in 0..255
  <2>1. 3 * g + 1 \in Nat \ {0} /\ 3 * g + 2 \in Nat \ {0}
    BY SMT
  <2>2. QED BY <2>1, OctetIsByte DEF Byte
<1>5. SextetOf(b, 4 * g + i) = ((x * 65536 + y * 256 + z) \div SextetUnit[i]) % 64
  BY SextetIs DEF Triple
<1>6. 4 * g + i > Written(n) /\ 3 * g + 1 <= n
  OBVIOUS
<1> HIDE DEF n, x, y, z
<1>7. CASE 3 * g + 3 <= n
  BY <1>1, <1>6, <1>7, SMT, GroupOf
<1>8. CASE 3 * g + 2 <= n /\ 3 * g + 3 > n
  <2>1. Written(n) >= 4 * g + 3
    BY <1>1, <1>8, SMT DEF Written
  <2>2. i = 4 /\ z = 0
    BY <1>1, <1>3, <1>6, <1>8, <2>1, SMT
  <2>3. ((x * 65536 + y * 256 + 0) \div 1) % 64 = 0
    BY <1>4, SMT
  <2>4. SextetUnit[i] = 1
    BY <2>2, Units
  <2>5. QED BY <1>5, <2>2, <2>3, <2>4, SMT
<1>9. CASE 3 * g + 2 > n
  <2>1. Written(n) >= 4 * g + 2
    BY <1>1, <1>6, SMT DEF Written
  <2>2. i \in {3, 4} /\ y = 0 /\ z = 0
    BY <1>1, <1>2, <1>6, <1>9, <2>1, SMT
  <2>3. ((x * 65536 + 0 * 256 + 0) \div 1) % 64 = 0 /\ ((x * 65536 + 0 * 256 + 0) \div 64) % 64 = 0
    BY <1>4, SMT
  <2>4. SextetUnit[i] = 1 \/ SextetUnit[i] = 64
    BY <2>2, Units
  <2>5. QED BY <1>5, <2>2, <2>3, <2>4, SMT
<1>10. QED BY <1>1, <1>7, <1>8, <1>9, SMT

(* A padded segment, as decode sees it. *)
LEMMA PaddedSegment ==
  ASSUME NEW b \in Seq(Byte)
  PROVE  LET base == pad(Chars(b)) IN
         /\ Sized(base) /\ Size(base) = Written(Len(b))
         /\ \A k \in 1..Written(Len(b)) : base[k] = Alphabet[SextetOf(b, k)]
         /\ DecodeError(base) = "ok"
<1> DEFINE w == Written(Len(b))
           p == (4 - (w % 4)) % 4
           base == pad(Chars(b))
<1>1. w \in Nat /\ p \in 0..2 /\ (w + p) % 4 = 0
  BY LenProperties, WrittenIs
<1>2. Clean(Chars(b)) /\ Len(Chars(b)) = w
  BY CharsClean
<1>3. base = Chars(b) \o Fills(p)
  BY <1>2 DEF pad
<1>4. p \in Nat
  BY <1>1
<1> HIDE DEF w, p, base
<1>5. base \in Seq(Byte) /\ \A k \in 1..w : base[k] = Chars(b)[k]
  BY <1>2, <1>3, <1>4, Filled
<1>6. count_padding(base) = p /\ Size(base) = w
  BY <1>2, <1>3, <1>4, PaddingOfFilled
<1>7. Sized(base)
  BY <1>1, <1>5, <1>6 DEF Sized
<1>8. \A k \in 1..w : base[k] = Alphabet[SextetOf(b, k)] /\ SextetOf(b, k) \in 0..63
  BY <1>5, CharsClean DEF w
<1>9. \A k \in Reads(base) : Known(base[k])
  BY <1>6, <1>7, <1>8, SizedReads, IndexOfAlphabet
<1>10. ~(p > 2)
  BY <1>1
<1>11. DecodeError(base) = "ok"
  BY <1>1, <1>6, <1>9, <1>10 DEF DecodeError
<1>12. QED BY <1>6, <1>7, <1>8, <1>11 DEF base, w

LEMMA ReadBack ==
  ASSUME NEW b \in Seq(Byte)
  PROVE  decode(pad(Chars(b))) = b
<1> DEFINE n == Len(b)
           base == pad(Chars(b))
<1>1. n \in Nat /\ Written(n) \in Nat /\ (3 * Written(n)) \div 4 = n
  BY LenProperties, WrittenIs
<1>2. /\ Sized(base) /\ Size(base) = Written(n)
      /\ \A k \in 1..Written(n) : base[k] = Alphabet[SextetOf(b, k)]
  BY PaddedSegment
<1>3. /\ Reads(base) = 1..Written(n)
      /\ decode(base) = [k \in 1..n |-> OctetOf(base, k)]
  BY <1>1, <1>2, SizedReads
<1> HIDE DEF base
<1>4. ASSUME NEW k \in 1..n
      PROVE  OctetOf(base, k) = b[k]
  <2>1. PICK g \in Nat, j \in 1..3 : k = 3 * g + j
    <3>1. k \in Nat \ {0}
      BY <1>1
    <3>2. QED BY <3>1, PlaceInThree
  <2>2. 3 * g + 1 <= n /\ 3 * g + j <= n
    BY <1>1, <2>1
  <2>3. ASSUME NEW i \in 1..4
        PROVE  Sextet(base, 4 * g + i) = SextetOf(b, 4 * g + i)
    <3>1. CASE 4 * g + i <= Written(n)
      <4>1. 4 * g + i \in 1..Written(n)
        BY <1>1, <3>1
      <4>2. SextetOf(b, 4 * g + i) \in 0..63
        BY <4>1, CharsClean
      <4>3. index(base[4 * g + i]) = SextetOf(b, 4 * g + i)
        BY <1>2, <4>1, <4>2, IndexOfAlphabet
      <4>4. QED BY <1>3, <4>1, <4>3 DEF Sextet
    <3>2. CASE 4 * g + i > Written(n)
      <4>1. 4 * g + i \notin 1..Written(n)
        BY <1>1, <3>2
      <4>2. QED BY <1>3, <2>2, <3>2, <4>1, UnwrittenIsZero DEF Sextet
    <3>3. QED BY <1>1, <3>1, <3>2
  <2> DEFINE t == Triple(b, g)
  <2>4. Bits24(t)
    BY TripleRange
  <2>5. /\ Sextet(base, 4 * g + 1) = (t \div 262144) % 64
        /\ Sextet(base, 4 * g + 2) = (t \div 4096) % 64
        /\ Sextet(base, 4 * g + 3) = (t \div 64) % 64
        /\ Sextet(base, 4 * g + 4) = (t \div 1) % 64
    <3>1. 1 \in 1..4 /\ 2 \in 1..4 /\ 3 \in 1..4 /\ 4 \in 1..4
      BY SMT
    <3>2. \A i \in 1..4 : SextetOf(b, 4 * g + i) = (t \div SextetUnit[i]) % 64
      BY SextetIs
    <3> HIDE DEF t
    <3>3. \A i \in 1..4 : Sextet(base, 4 * g + i) = (t \div SextetUnit[i]) % 64
      BY <2>3, <3>2
    <3>4. QED BY <3>1, <3>3, Units, SMT
  <2>6. Group(base, g) = t
    <3> HIDE DEF t
    <3>1. ((t \div 262144) % 64) * 262144 + ((t \div 4096) % 64) * 4096
            + ((t \div 64) % 64) * 64 + ((t \div 1) % 64) = t
      BY <2>4, SextetsOfTriple, SMT
    <3>2. QED BY <2>5, <3>1, SMT DEF Group
  <2> DEFINE x == Octet(b, 3 * g + 1)
             y == Octet(b, 3 * g + 2)
             z == Octet(b, 3 * g + 3)
  <2>7. x \in 0..255 /\ y \in 0..255 /\ z \in 0..255
    <3>1. 3 * g + 1 \in Nat \ {0} /\ 3 * g + 2 \in Nat \ {0} /\ 3 * g + 3 \in Nat \ {0}
      BY SMT
    <3>2. QED BY <3>1, OctetIsByte DEF Byte
  <2>8. t = x * 65536 + y * 256 + z
    BY SMT DEF Triple
  <2>9. Octet(b, 3 * g + j) = b[k]
    BY <1>1, <2>1 DEF Octet
  <2>10. OctetOf(base, 3 * g + j) = (t \div OctetUnit[j]) % 256
    BY <2>6, OctetOfGroup
  <2> HIDE DEF t, x, y, z
  <2>11. (t \div 65536) % 256 = x /\ (t \div 256) % 256 = y /\ (t \div 1) % 256 = z
    BY <2>7, <2>8, SMT
  <2>12. CASE j = 1
    BY <2>1, <2>9, <2>10, <2>11, <2>12, Units, SMT DEF x
  <2>13. CASE j = 2
    BY <2>1, <2>9, <2>10, <2>11, <2>13, Units, SMT DEF y
  <2>14. CASE j = 3
    BY <2>1, <2>9, <2>10, <2>11, <2>14, Units, SMT DEF z
  <2>15. QED BY <2>12, <2>13, <2>14
<1>5. decode(base) = [k \in 1..n |-> b[k]]
  BY <1>3, <1>4
<1>6. b = [k \in 1..n |-> b[k]]
  BY LenProperties
<1>7. QED BY <1>5, <1>6 DEF base

(* What sign writes as a segment, decoded_jwt reads back (encode, trim, pad,
   decode). *)
THEOREM SegmentsReadBack == Spec => []RoundTrip
<1>1. TypeOK => RoundTrip
  <2> SUFFICES ASSUME TypeOK PROVE RoundTrip
    OBVIOUS
  <2>1. bin \in Seq(Byte) /\ Segment = Chars(bin)
    BY SegmentIs DEF TypeOK, Segment
  <2>2. QED BY <2>1, PaddedSegment, ReadBack DEF RoundTrip
<1>2. QED BY <1>1, TextTypeCorrect, PTL

-----------------------------------------------------------------------------
(* An accepted text is written again. *)

LEMMA PercentUnknown == ~Known(37)
BY AlphabetPlain DEF Known, Numbers

(* An accepted text: its characters, and its fill. *)
LEMMA AcceptedShape ==
  ASSUME NEW base \in Seq(Byte), DecodeError(base) = "ok"
  PROVE  LET s == Size(base)
             own == SubSeq(base, 1, s)
         IN  /\ Sized(base)
             /\ Reads(base) = 1..s
             /\ \A k \in 1..s : Known(base[k])
             /\ trim(base) = own /\ Len(own) = s
             /\ \A k \in 1..s : own[k] = base[k]
<1> DEFINE s == Size(base)
           c == count_padding(base)
           own == SubSeq(base, 1, s)
           fill == SubSeq(base, s + 1, Len(base))
<1>1. Sized(base) /\ Reads(base) = 1..s /\ \A k \in 1..s : Known(base[k])
  BY AcceptedIsSized, SizedReads
<1>2. /\ Len(base) \in Nat /\ c \in Nat /\ s \in Nat /\ Len(base) = s + 3 * c
      /\ 1 \in 1..(Len(base) + 1) /\ s \in (1 - 1)..Len(base)
  <2>1. Len(base) \in Nat /\ c \in 0..2 /\ s \in Nat /\ s = Len(base) - 3 * c
    BY <1>1, LenProperties DEF Sized, Size
  <2> HIDE DEF s, c
  <2>2. QED BY <2>1
<1>3. fill = Fills(c)
  <2>1. SubSeq(base, Len(base) - 3 * c + 1, Len(base)) = Fills(c)
    BY PaddingFits
  <2>2. QED BY <2>1 DEF Size
<1> HIDE DEF s, c
<1>4. /\ own \in Seq(Byte) /\ Len(own) = s - 1 + 1
      /\ \A k \in 1..(s - 1 + 1) : own[k] = base[1 + k - 1]
  BY <1>2, Part
<1> HIDE DEF own
<1>5. Len(own) = s /\ \A k \in 1..s : own[k] = base[k]
  BY <1>2, <1>4
<1>6. Clean(own)
  BY <1>1, <1>4, <1>5, PercentUnknown DEF Clean
<1> DEFINE f == Fills(c)
<1>7. base = own \o f
  <2>1. /\ own \o f \in Seq(Byte) /\ Len(own \o f) = s + 3 * c
        /\ \A i \in 1..s : (own \o f)[i] = own[i]
        /\ \A i \in 1..(3 * c) : (own \o f)[s + i] = f[i]
    <3>1. /\ own \o f \in Seq(Byte) /\ Len(own \o f) = Len(own) + 3 * c
          /\ \A i \in 1..Len(own) : (own \o f)[i] = own[i]
          /\ \A i \in 1..(3 * c) : (own \o f)[Len(own) + i] = f[i]
      BY <1>2, <1>6, Filled
    <3> HIDE DEF f
    <3>2. QED BY <1>5, <3>1
  <2>2. Len(base) \in ((s + 1) - 1)..Len(base) /\ s + 1 \in 1..(Len(base) + 1)
    BY <1>2
  <2>3. /\ Len(fill) = Len(base) - (s + 1) + 1
        /\ \A k \in 1..(Len(base) - (s + 1) + 1) : fill[k] = base[(s + 1) + k - 1]
    BY <2>2, Part
  <2>4. Len(base) - (s + 1) + 1 = 3 * c /\ \A k \in 1..(3 * c) : (s + 1) + k - 1 = s + k
    BY <1>2
  <2> HIDE DEF fill, f
  <2>5. \A k \in 1..(3 * c) : fill[k] = base[s + k]
    BY <2>3, <2>4
  <2>6. \A k \in 1..(3 * c) : f[k] = base[s + k]
    BY <1>3, <2>5 DEF f
  <2>7. \A i \in 1..Len(base) : i \in 1..s \/ \E k \in 1..(3 * c) : i = s + k
    <3> SUFFICES ASSUME NEW i \in 1..Len(base), i \notin 1..s
                 PROVE  \E k \in 1..(3 * c) : i = s + k
      OBVIOUS
    <3>1. i - s \in 1..(3 * c) /\ i = s + (i - s)
      BY <1>2
    <3>2. QED BY <3>1
  <2>8. ASSUME NEW i \in 1..Len(base)
        PROVE  base[i] = (own \o f)[i]
    <3>1. CASE i \in 1..s
      BY <1>5, <2>1, <3>1
    <3>2. CASE \E k \in 1..(3 * c) : i = s + k
      BY <2>1, <2>6, <3>2
    <3>3. QED BY <2>7, <3>1, <3>2
  <2>9. QED BY <1>2, <2>1, <2>8, SeqEqual
<1>8. trim(base) = own
  BY <1>2, <1>6, <1>7, TrimFilled
<1>9. QED BY <1>1, <1>5, <1>8 DEF s, own

(* The sextets that three, two or one of the octets of a group give back. *)
GivesBack(x, y, z, s1, s2, s3, s4) ==
  /\ ((x * 65536 + 0 * 256 + 0) \div 262144) % 64 = s1
  /\ ((x * 65536 + y * 256 + 0) \div 262144) % 64 = s1
  /\ ((x * 65536 + y * 256 + 0) \div 4096) % 64 = s2
  /\ ((x * 65536 + y * 256 + z) \div 262144) % 64 = s1
  /\ ((x * 65536 + y * 256 + z) \div 4096) % 64 = s2
  /\ ((x * 65536 + y * 256 + z) \div 64) % 64 = s3
  /\ ((x * 65536 + y * 256 + z) \div 1) % 64 = s4

TakenFrom(x, y, z, t, s1, s2, s3, s4) ==
  /\ s1 \in 0..63 /\ s2 \in 0..63 /\ s3 \in 0..63 /\ s4 \in 0..63
  /\ t = s1 * 262144 + s2 * 4096 + s3 * 64 + s4
  /\ x = (t \div 65536) % 256 /\ y = (t \div 256) % 256 /\ z = (t \div 1) % 256

LEMMA SextetsGivenBack ==
  ASSUME NEW x, NEW y, NEW z, NEW t, NEW s1, NEW s2, NEW s3, NEW s4,
         TakenFrom(x, y, z, t, s1, s2, s3, s4)
  PROVE  GivesBack(x, y, z, s1, s2, s3, s4)
<1> USE DEF TakenFrom
<1> DEFINE h2 == s2 \div 16
           l2 == s2 % 16
           h3 == s3 \div 4
           l3 == s3 % 4
<1>1. /\ s2 = 16 * h2 + l2 /\ h2 \in 0..3 /\ l2 \in 0..15
      /\ s3 = 4 * h3 + l3 /\ h3 \in 0..15 /\ l3 \in 0..3
  BY SMT
<1> HIDE DEF h2, l2, h3, l3
<1>2. /\ t \div 65536 = s1 * 4 + h2
      /\ t \div 256 = (s1 * 4 + h2) * 256 + l2 * 16 + h3
      /\ t \div 1 = ((s1 * 4 + h2) * 256 + l2 * 16 + h3) * 256 + l3 * 64 + s4
  BY <1>1, SMT
<1>3. x = s1 * 4 + h2 /\ y = l2 * 16 + h3 /\ z = l3 * 64 + s4
  BY <1>1, <1>2, SMT
<1>4. /\ (x * 65536 + 0 * 256 + 0) \div 262144 = s1
      /\ (x * 65536 + y * 256 + 0) \div 262144 = s1
      /\ (x * 65536 + y * 256 + z) \div 262144 = s1
  BY <1>1, <1>3, SMT
<1>5. /\ (x * 65536 + y * 256 + 0) \div 4096 = s1 * 64 + s2
      /\ (x * 65536 + y * 256 + z) \div 4096 = s1 * 64 + s2
  BY <1>1, <1>3, SMT
<1>6. /\ (x * 65536 + y * 256 + z) \div 64 = (s1 * 64 + s2) * 64 + s3
      /\ (x * 65536 + y * 256 + z) \div 1 = ((s1 * 64 + s2) * 64 + s3) * 64 + s4
  BY <1>1, <1>3, SMT
<1>7. /\ s1 % 64 = s1
      /\ (s1 * 64 + s2) % 64 = s2
      /\ ((s1 * 64 + s2) * 64 + s3) % 64 = s3
      /\ (((s1 * 64 + s2) * 64 + s3) * 64 + s4) % 64 = s4
  BY SMT
<1>8. QED BY <1>4, <1>5, <1>6, <1>7, SMT DEF GivesBack

LEMMA OctetOfIsByte ==
  ASSUME NEW base, \A k \in Nat : Sextet(base, k) \in 0..63, NEW k \in Nat \ {0}
  PROVE  OctetOf(base, k) \in 0..255
<1>1. PICK g \in Nat, j \in 1..3 : k = 3 * g + j
  BY PlaceInThree
<1>2. OctetOf(base, 3 * g + j) = (Group(base, g) \div OctetUnit[j]) % 256
  BY OctetOfGroup
<1>3. /\ Sextet(base, 4 * g + 1) \in 0..63 /\ Sextet(base, 4 * g + 2) \in 0..63
      /\ Sextet(base, 4 * g + 3) \in 0..63 /\ Sextet(base, 4 * g + 4) \in 0..63
  <2>1. 4 * g + 1 \in Nat /\ 4 * g + 2 \in Nat /\ 4 * g + 3 \in Nat /\ 4 * g + 4 \in Nat
    BY SMT
  <2>2. QED BY <2>1
<1>4. Group(base, g) \in Nat
  <2> DEFINE s1 == Sextet(base, 4 * g + 1)
             s2 == Sextet(base, 4 * g + 2)
             s3 == Sextet(base, 4 * g + 3)
             s4 == Sextet(base, 4 * g + 4)
  <2>1. Group(base, g) = s1 * 262144 + s2 * 4096 + s3 * 64 + s4
    BY SMT DEF Group
  <2>2. s1 \in 0..63 /\ s2 \in 0..63 /\ s3 \in 0..63 /\ s4 \in 0..63
    BY <1>3
  <2> HIDE DEF s1, s2, s3, s4
  <2>3. QED BY <2>1, <2>2, SMT
<1>5. OctetUnit[j] \in Nat \ {0}
  BY SMT DEF OctetUnit
<1>6. Group(base, g) \div OctetUnit[j] \in Int
  BY <1>4, <1>5, SMT
<1>7. \A n \in Int : n % 256 \in 0..255
  BY SMT
<1>8. ((Group(base, g) \div OctetUnit[j]) % 256) \in 0..255
  BY <1>6, <1>7
<1>9. QED BY <1>1, <1>2, <1>8

(* The sextets of what was read are those of the text; of the last one, if it
   stands in a group that is not full, only a part. *)
LEMMA SextetGivenBack ==
  ASSUME NEW base, \A k \in Nat : Sextet(base, k) \in 0..63,
         NEW n \in Nat, NEW d \in Seq(Byte), d = [k \in 1..n |-> OctetOf(base, k)],
         NEW k \in 1..Written(n), k < Written(n) \/ Written(n) % 4 = 0
  PROVE  SextetOf(d, k) = Sextet(base, k)
<1>1. Written(n) \in Nat /\ Len(d) = n
  BY WrittenIs
<1>2. k \in Nat \ {0}
  BY <1>1
<1>3. PICK g \in Nat, i \in 1..4 : k = 4 * g + i
  BY <1>2, PlaceInFour
<1> DEFINE s1 == Sextet(base, 4 * g + 1)
           s2 == Sextet(base, 4 * g + 2)
           s3 == Sextet(base, 4 * g + 3)
           s4 == Sextet(base, 4 * g + 4)
           t == Group(base, g)
           x == (t \div 65536) % 256
           y == (t \div 256) % 256
           z == (t \div 1) % 256
           o1 == Octet(d, 3 * g + 1)
           o2 == Octet(d, 3 * g + 2)
           o3 == Octet(d, 3 * g + 3)
<1>4. s1 \in 0..63 /\ s2 \in 0..63 /\ s3 \in 0..63 /\ s4 \in 0..63
  <2>1. 4 * g + 1 \in Nat /\ 4 * g + 2 \in Nat /\ 4 * g + 3 \in Nat /\ 4 * g + 4 \in Nat
    BY SMT
  <2>2. QED BY <2>1
<1>5. t = s1 * 262144 + s2 * 4096 + s3 * 64 + s4
  BY SMT DEF Group
<1>6. /\ (i = 1 => Sextet(base, k) = s1) /\ (i = 2 => Sextet(base, k) = s2)
      /\ (i = 3 => Sextet(base, k) = s3) /\ (i = 4 => Sextet(base, k) = s4)
  BY <1>3
<1>7. SextetOf(d, k) = ((o1 * 65536 + o2 * 256 + o3) \div SextetUnit[i]) % 64
  <2>1. SextetOf(d, 4 * g + i) = (Triple(d, g) \div SextetUnit[i]) % 64
    BY SextetIs
  <2>2. Triple(d, g) = o1 * 65536 + o2 * 256 + o3
    BY SMT DEF Triple
  <2> HIDE DEF o1, o2, o3
  <2>3. QED BY <1>3, <2>1, <2>2, SMT
<1>8. /\ o1 = IF 3 * g + 1 <= n THEN x ELSE 0
      /\ o2 = IF 3 * g + 2 <= n THEN y ELSE 0
      /\ o3 = IF 3 * g + 3 <= n THEN z ELSE 0
  <2>1. /\ OctetOf(base, 3 * g + 1) = x /\ OctetOf(base, 3 * g + 2) = y
        /\ OctetOf(base, 3 * g + 3) = z
    BY OctetsOfGroup
  <2> HIDE DEF x, y, z
  <2>2. \A j \in {1, 2, 3} : Octet(d, 3 * g + j) = IF 3 * g + j <= n THEN OctetOf(base, 3 * g + j) ELSE 0
    BY <1>1, SMT DEF Octet
  <2>3. QED BY <2>1, <2>2
<1> DEFINE three == x * 65536 + y * 256 + z
           two == x * 65536 + y * 256 + 0
           one == x * 65536 + 0 * 256 + 0
<1>9. /\ (one \div 262144) % 64 = s1
      /\ (two \div 262144) % 64 = s1 /\ (two \div 4096) % 64 = s2
      /\ (three \div 262144) % 64 = s1 /\ (three \div 4096) % 64 = s2
      /\ (three \div 64) % 64 = s3 /\ (three \div 1) % 64 = s4
  <2> HIDE DEF s1, s2, s3, s4, t
  <2>1. x = (t \div 65536) % 256 /\ y = (t \div 256) % 256 /\ z = (t \div 1) % 256
    BY SMT
  <2> HIDE DEF x, y, z
  <2>2. TakenFrom(x, y, z, t, s1, s2, s3, s4)
    BY <1>4, <1>5, <2>1, SMT DEF TakenFrom
  <2>3. GivesBack(x, y, z, s1, s2, s3, s4)
    BY <2>2, SextetsGivenBack
  <2>4. QED BY <2>3, SMT DEF GivesBack
<1> DEFINE octets == o1 * 65536 + o2 * 256 + o3
<1> HIDE DEF s1, s2, s3, s4, t, x, y, z, o1, o2, o3
<1>10. 3 * g + 1 <= n
  BY <1>1, <1>3, SMT DEF Written
<1>11. CASE 3 * g + 3 <= n
  <2>1. octets = three
    BY <1>8, <1>11, SMT
  <2> HIDE DEF octets, three
  <2>2. SextetOf(d, k) = (three \div SextetUnit[i]) % 64
    BY <1>7, <2>1, SMT DEF octets
  <2>3. QED BY <1>6, <1>9, <2>2, Units, SMT
<1>12. CASE 3 * g + 2 = n
  <2>1. octets = two
    BY <1>8, <1>12, SMT
  <2>2. i \in {1, 2}
    BY <1>1, <1>3, <1>12, SMT DEF Written
  <2> HIDE DEF octets, two
  <2>3. SextetOf(d, k) = (two \div SextetUnit[i]) % 64
    BY <1>7, <2>1, SMT DEF octets
  <2>4. QED BY <1>6, <1>9, <2>2, <2>3, Units, SMT
<1>13. CASE 3 * g + 1 = n
  <2>1. octets = one
    BY <1>8, <1>13, SMT
  <2>2. i = 1
    BY <1>1, <1>3, <1>13, SMT DEF Written
  <2> HIDE DEF octets, one
  <2>3. SextetOf(d, k) = (one \div SextetUnit[i]) % 64
    BY <1>7, <2>1, SMT DEF octets
  <2>4. QED BY <1>6, <1>9, <2>2, <2>3, Units, SMT
<1>14. QED BY <1>10, <1>11, <1>12, <1>13, SMT

(* decode accepts only what encode writes: an accepted text comes out again when
   its bytes are written, but for the unused bits of its last character. *)
THEOREM AcceptedIsOwn == Spec => []OnlyOwnText
<1>1. TypeOK => OnlyOwnText
  <2> DEFINE base == pad(text)
             own == trim(base)
             d == decode(base)
             again == trim(encode(d))
             s == Size(base)
             n == (3 * s) \div 4
  <2> SUFFICES ASSUME TypeOK, DecodeError(base) = "ok"
               PROVE  /\ Len(again) = Len(own)
                      /\ \A i \in 1..(Len(own) - 1) : again[i] = own[i]
                      /\ Len(own) % 4 = 0 => again = own
    BY DEF OnlyOwnText
  <2>1. base \in Seq(Byte)
    <3>1. text \in Seq(Byte) /\ Len(text) \in Nat
      BY LenProperties DEF TypeOK
    <3>2. (4 - (Len(text) % 4)) % 4 \in Nat
      BY <3>1
    <3>3. Fills((4 - (Len(text) % 4)) % 4) \in Seq(Byte)
      BY <3>2, FillsShape
    <3>4. QED BY <3>1, <3>3, ConcatProperties DEF pad
  <2> HIDE DEF base
  <2>2. /\ Sized(base) /\ Reads(base) = 1..s /\ Len(own) = s
        /\ \A k \in 1..s : Known(base[k]) /\ own[k] = base[k]
    BY <2>1, AcceptedShape
  <2>3. s \in Nat /\ n \in Nat /\ Written(n) = s
    BY <2>2, GroupSizes DEF Sized
  <2>4. d = [k \in 1..n |-> OctetOf(base, k)]
    BY <2>2, SizedReads
  <2>5. \A k \in Nat : Sextet(base, k) \in 0..63
    BY <2>2, AlphabetOfIndex DEF Sextet
  <2>6. d \in Seq(Byte) /\ Len(d) = n
    <3>1. \A k \in 1..n : k \in Nat \ {0}
      BY <2>3
    <3>2. \A k \in 1..n : OctetOf(base, k) \in Byte
      BY <2>5, <3>1, OctetOfIsByte DEF Byte
    <3> HIDE DEF d, n
    <3>3. QED BY <2>3, <2>4, <3>2
  <2>7. again = Chars(d)
    BY <2>6, SegmentIs
  <2>8. /\ Len(again) = s
        /\ \A k \in 1..s : again[k] = Alphabet[SextetOf(d, k)]
        /\ again \in Seq(Byte)
    BY <2>3, <2>6, <2>7, CharsClean DEF Clean
  <2>9. \A k \in 1..s : own[k] = Alphabet[Sextet(base, k)]
    BY <2>2, AlphabetOfIndex DEF Sextet
  <2> HIDE DEF d, own, again, s, n
  <2>10. \A k \in 1..s : k < s \/ s % 4 = 0 => again[k] = own[k]
    <3> SUFFICES ASSUME NEW k \in 1..s, k < s \/ s % 4 = 0
                 PROVE  again[k] = own[k]
      OBVIOUS
    <3>1. k \in 1..Written(n) /\ (k < Written(n) \/ Written(n) % 4 = 0)
      BY <2>3
    <3>2. SextetOf(d, k) = Sextet(base, k)
      BY <2>3, <2>4, <2>5, <2>6, <3>1, SextetGivenBack
    <3>3. QED BY <2>8, <2>9, <3>2
  <2>11. own \in Seq(Byte)
    <3>1. \A k \in 1..s : own[k] = base[k] /\ base[k] \in Byte
      BY <2>2, <2>3, AlphabetOfIndex, AlphabetPlain DEF s
    <3>2. own = SubSeq(base, 1, s)
      BY <2>1, AcceptedShape DEF own, s
    <3>3. s <= Len(base) /\ Len(base) \in Nat
      <4>1. Len(base) \in Nat
        BY <2>1, LenProperties
      <4>2. QED BY <2>2, <4>1 DEF Sized, Size, s
    <3>4. 1 \in 1..(Len(base) + 1) /\ s \in (1 - 1)..Len(base)
      BY <2>3, <3>3
    <3>5. QED BY <2>1, <3>2, <3>4, Part
  <2>12. Len(own) = s
    BY <2>2 DEF own, s
  <2>13. s % 4 = 0 => again = own
    BY <2>8, <2>10, <2>11, <2>12, SeqEqual
  <2>14. \A k \in 1..(s - 1) : again[k] = own[k]
    BY <2>3, <2>10
  <2>15. QED BY <2>8, <2>12, <2>13, <2>14
<1>2. QED BY <1>1, TextTypeCorrect, PTL

-----------------------------------------------------------------------------
(* Counting, and folding. *)

LEMMA Count ==
  ASSUME NEW S \in SUBSET Nat, 0 \in S, \A n \in S : n + 1 \in S
  PROVE  \A n \in Nat : n \in S
<1> SUFFICES ASSUME Nat \ S # {} PROVE FALSE
  OBVIOUS
<1>1. PICK t \in Nat \ S : \A u \in Nat \ S : ~(<<u, t>> \in OpToRel(<, Nat))
  BY NatLessThanWellFounded, WFMin
<1>2. \A u \in Nat \ S : ~(u < t)
  BY <1>1, Zenon DEF OpToRel
<1>3. t # 0 /\ t - 1 \in Nat /\ t - 1 \in S
  BY <1>2
<1>4. (t - 1) + 1 \in S
  BY <1>3
<1>5. QED BY <1>4

(* g is the fold of the steps over any set of places, the last one first. *)
IsFold(g, n, base, step) ==
  \A s \in SUBSET (1..n) : g[s] = IF s = {} THEN base ELSE step[Max(s)][g[s \ {Max(s)}]]

LEMMA Fold ==
  ASSUME NEW V, NEW n \in Nat, NEW base \in V, NEW step \in [1..n -> [V -> V]]
  PROVE  \E g \in [SUBSET (1..n) -> V] :
           IsFold(g, n, base, step)
<1> DEFINE D == SUBSET (1..n)
           Value(g, s) == IF s = {} THEN base ELSE step[Max(s)][g[s \ {Max(s)}]]
           Good(g, k) == \A s \in SUBSET (1..k) : g[s] = Value(g, s)
           Exists(k) == \E g \in [D -> V] : Good(g, k)
           K == {k \in Nat : k <= n => Exists(k)}
<1>1. 0 \in K
  <2> DEFINE g == [s \in D |-> base]
  <2>1. SUBSET (1..0) = {{}}
    OBVIOUS
  <2>2. g \in [D -> V] /\ g[{}] = base
    OBVIOUS
  <2>3. Good(g, 0)
    BY <2>1, <2>2
  <2>4. QED BY <2>2, <2>3
<1>2. ASSUME NEW k \in K, k + 1 <= n
      PROVE  Exists(k + 1)
  <2>1. k \in Nat /\ k <= n
    BY <1>2
  <2>2. PICK g \in [D -> V] : Good(g, k)
    BY <2>1
  <2>3. \A s \in SUBSET (1..(k + 1)) : s # {} => Max(s) \in s /\ \A x \in s : Max(s) >= x
    <3> SUFFICES ASSUME NEW s \in SUBSET (1..(k + 1)), s # {}
                 PROVE  Max(s) \in s /\ \A x \in s : Max(s) >= x
      OBVIOUS
    <3>1. k + 1 \in Nat /\ s \in SUBSET (0..(k + 1))
      BY <2>1
    <3>2. QED BY <3>1, MaxOf
  <2> DEFINE h == [s \in D |-> IF s \in SUBSET (1..k) THEN g[s]
                               ELSE IF s \in SUBSET (1..(k + 1)) THEN Value(g, s) ELSE base]
  <2>4. \A s \in SUBSET (1..(k + 1)) : s \in D
    BY <1>2, <2>1
  <2>5. \A s \in SUBSET (1..k) : s \in SUBSET (1..(k + 1))
    BY <2>1
  <2>6. \A s \in SUBSET (1..(k + 1)) : s # {} => s \ {Max(s)} \in SUBSET (1..k)
    <3> SUFFICES ASSUME NEW s \in SUBSET (1..(k + 1)), s # {}, NEW x \in s, x # Max(s)
                 PROVE  x \in 1..k
      BY Zenon
    <3> DEFINE m == Max(s)
    <3>1. m \in s /\ m >= x /\ x # m
      BY <2>3
    <3> HIDE DEF m
    <3>2. x \in 1..(k + 1) /\ m \in 1..(k + 1)
      BY <3>1
    <3>3. QED BY <2>1, <3>1, <3>2
  <2>7. \A s \in SUBSET (1..(k + 1)) : Value(g, s) \in V
    <3> SUFFICES ASSUME NEW s \in SUBSET (1..(k + 1)), s # {}
                 PROVE  step[Max(s)][g[s \ {Max(s)}]] \in V
      OBVIOUS
    <3> DEFINE m == Max(s)
    <3>1. m \in s /\ s \ {m} \in D
      BY <2>3, <2>4, <2>5, <2>6
    <3> HIDE DEF m
    <3>2. m \in 1..n
      BY <1>2, <2>1, <3>1
    <3>3. step[m][g[s \ {m}]] \in V
      BY <3>1, <3>2
    <3>4. QED BY <3>3 DEF m
  <2>8. h \in [D -> V]
    BY <2>7
  <2>9. ASSUME NEW s \in SUBSET (1..(k + 1)), s # {}
        PROVE  h[s \ {Max(s)}] = g[s \ {Max(s)}]
    <3>1. s \ {Max(s)} \in SUBSET (1..k) /\ s \ {Max(s)} \in D
      BY <2>4, <2>5, <2>6
    <3>2. QED BY <3>1
  <2>10. \A s \in SUBSET (1..(k + 1)) : h[s] = Value(g, s)
    BY <2>2, <2>4, <2>5
  <2> HIDE DEF h
  <2>11. Good(h, k + 1)
    BY <2>9, <2>10
  <2>12. QED BY <2>8, <2>11
<1> HIDE DEF Good, Exists
<1>3. \A k \in K : k + 1 \in K
  BY <1>2
<1>4. n \in K
  <2> HIDE DEF K
  <2>1. K \in SUBSET Nat
    BY DEF K
  <2>2. QED BY <1>1, <1>3, <2>1, Count
<1>5. Exists(n)
  BY <1>4
<1>6. PICK g \in [D -> V] : Good(g, n)
  BY <1>5 DEF Exists
<1>7. QED BY <1>6 DEF Good, IsFold

LEMMA UpTo ==
  ASSUME NEW i \in Nat \ {0}
  PROVE  Max(1..i) = i /\ (1..i) \ {i} = 1..(i - 1) /\ 1..i # {}
<1>1. 1..i \in SUBSET Int /\ i \in 1..i /\ \A x \in 1..i : i >= x
  OBVIOUS
<1> DEFINE S == 1..i
<1> HIDE DEF S
<1>2. Max(S) = i
  BY <1>1, MaxIs DEF S
<1>3. QED BY <1>1, <1>2 DEF S

LEMMA MaxWithin ==
  ASSUME NEW n \in Nat, NEW s \in SUBSET (1..n), s # {}
  PROVE  Max(s) \in 1..n
<1>1. s \in SUBSET (0..n)
  OBVIOUS
<1>2. QED BY <1>1, MaxOf

(* h is such a fold wherever the steps are defined. *)
FoldsIn(h, V, n, base, step) ==
  /\ h[{}] = base
  /\ \A s \in SUBSET (1..n) :
       s # {} /\ h[s \ {Max(s)}] \in V => h[s] = step[Max(s)][h[s \ {Max(s)}]]

(* The fold over a prefix comes from the fold over the prefix before. *)
Advances(h, V, n, step) ==
  /\ \A i \in 0..n : h[1..i] \in V
  /\ \A i \in 1..n : h[1..i] = step[i][h[1..(i - 1)]]

LEMMA FoldPrefixes ==
  ASSUME NEW V, NEW n \in Nat, NEW base \in V, NEW step \in [1..n -> [V -> V]],
         NEW h, FoldsIn(h, V, n, base, step)
  PROVE  Advances(h, V, n, step)
<1>1. ASSUME NEW i \in 1..n, h[1..(i - 1)] \in V
      PROVE  h[1..i] = step[i][h[1..(i - 1)]]
  <2>1. i \in Nat \ {0} /\ 1..i \in SUBSET (1..n)
    OBVIOUS
  <2>2. Max(1..i) = i /\ (1..i) \ {i} = 1..(i - 1) /\ 1..i # {}
    BY <2>1, UpTo
  <2>3. QED BY <1>1, <2>1, <2>2 DEF FoldsIn
<1> DEFINE K == {i \in Nat : i <= n => h[1..i] \in V}
<1>2. 0 \in K
  <2>1. 1..0 = {}
    OBVIOUS
  <2>2. QED BY <2>1 DEF FoldsIn
<1>3. \A i \in K : i + 1 \in K
  <2> SUFFICES ASSUME NEW i \in Nat, h[1..i] \in V, i + 1 <= n
               PROVE  h[1..(i + 1)] \in V
    OBVIOUS
  <2>1. i + 1 \in 1..n /\ (i + 1) - 1 = i
    OBVIOUS
  <2>2. h[1..(i + 1)] = step[i + 1][h[1..i]]
    BY <1>1, <2>1
  <2>3. QED BY <2>1, <2>2
<1> HIDE DEF K
<1>4. K \in SUBSET Nat
  BY DEF K
<1>5. \A i \in Nat : i \in K
  BY <1>2, <1>3, <1>4, Count
<1>6. \A i \in 0..n : h[1..i] \in V
  BY <1>5 DEF K
<1>7. \A i \in 1..n : i - 1 \in 0..n
  OBVIOUS
<1>8. QED BY <1>1, <1>6, <1>7 DEF Advances

-----------------------------------------------------------------------------
(* Components, one piece of the path after the other. *)

(* All strings; a backend does not know of a literal that it is one. *)
Words == STRING \cup {"/", ".", "index", "html"}

Texts == Seq(Seq(Words))
AddPiece(cs, piece) ==
  IF piece = "/" THEN Append(cs, <<>>) ELSE Append(Front(cs), Append(Last(cs), piece))

LEMMA Appended ==
  ASSUME NEW S, NEW seq \in Seq(S), NEW elt \in S
  PROVE  Append(seq, elt) \in Seq(S) /\ Append(seq, elt) # <<>>
BY AppendProperties

LEMMA Single ==
  ASSUME NEW S, NEW e \in S
  PROVE  <<e>> \in Seq(S) /\ <<e>> # <<>>
OBVIOUS

LEMMA OneText ==
  <<<<>>>> \in Texts \ {<<>>}
<1>1. <<>> \in Seq(Words)
  BY EmptySeq
<1>2. QED BY <1>1, Single DEF Texts

LEMMA AddPieceType ==
  ASSUME NEW cs \in Texts \ {<<>>}, NEW piece \in Words
  PROVE  AddPiece(cs, piece) \in Texts \ {<<>>}
<1>1. Len(cs) \in Nat \ {0}
  BY EmptySeq DEF Texts
<1>2. Last(cs) \in Seq(Words) /\ Front(cs) \in Texts
  BY <1>1 DEF Last, Front, Texts
<1>3. Append(Last(cs), piece) \in Seq(Words) /\ <<>> \in Seq(Words)
  BY <1>2, Appended, EmptySeq
<1>4. \A at \in Texts, c \in Seq(Words) : Append(at, c) \in Texts \ {<<>>}
  BY Appended DEF Texts
<1>5. QED BY <1>2, <1>3, <1>4 DEF AddPiece

(* u is the way Components takes along a path. *)
Cut(u, path) ==
  /\ u \in [0..Len(path) -> Texts \ {<<>>}]
  /\ u[0] = <<<<>>>>
  /\ \A i \in 1..Len(path) : u[i] = AddPiece(u[i - 1], path[i])

LEMMA ComponentsFold ==
  ASSUME NEW path \in Seq(Words)
  PROVE  \E u : Cut(u, path) /\ Components(path) = u[Len(path)]
<1> DEFINE n == Len(path)
           V == Texts \ {<<>>}
           base == <<<<>>>>
           st == [i \in 1..n |-> [cs \in V |-> AddPiece(cs, path[i])]]
           Sat(g) == g = [s \in SUBSET (1..n) |->
                            IF s = {} THEN base ELSE AddPiece(g[s \ {Max(s)}], path[Max(s)])]
           iter == CHOOSE g : Sat(g)
<1>1. n \in Nat /\ DOMAIN path = 1..n /\ \A i \in 1..n : path[i] \in Words
  BY LenProperties, ElementOfSeq
<1>1a. Components(path) = iter[1..n]
  BY <1>1 DEF Components, FoldLeft, MapThenFoldSet, AddPiece
<1>2. /\ n \in Nat /\ base \in V
      /\ st \in [1..n -> [V -> V]]
      /\ \A i \in 1..n, cs \in V : st[i][cs] = AddPiece(cs, path[i])
  <2>1. \A i \in 1..n, cs \in V : AddPiece(cs, path[i]) \in V
    BY <1>1, AddPieceType
  <2>2. QED BY <1>1, <2>1, OneText
<1> HIDE DEF st
<1>3. n \in Nat
  BY <1>1
<1>4. Sat(iter)
  <2> HIDE DEF base, n, V
  <2>1. PICK g \in [SUBSET (1..n) -> V] : IsFold(g, n, base, st)
    BY <1>2, Fold
  <2>2. \A s \in SUBSET (1..n) : s # {} =>
           st[Max(s)][g[s \ {Max(s)}]] = AddPiece(g[s \ {Max(s)}], path[Max(s)])
    BY <1>2, MaxWithin
  <2>3. g = [s \in SUBSET (1..n) |->
               IF s = {} THEN base ELSE AddPiece(g[s \ {Max(s)}], path[Max(s)])]
    BY <2>1, <2>2 DEF IsFold
  <2>4. \E h : Sat(h)
    BY <2>3
  <2> HIDE DEF Sat
  <2>5. QED BY <2>4
<1> HIDE DEF iter, Sat
<1>5. Advances(iter, V, n, st)
  <2>1. iter[{}] = base
    BY <1>4 DEF Sat
  <2>2. \A s \in SUBSET (1..n) :
          s # {} /\ iter[s \ {Max(s)}] \in V => iter[s] = st[Max(s)][iter[s \ {Max(s)}]]
    <3> SUFFICES ASSUME NEW s \in SUBSET (1..n), s # {}, iter[s \ {Max(s)}] \in V
                 PROVE  iter[s] = st[Max(s)][iter[s \ {Max(s)}]]
      OBVIOUS
    <3>1. iter[s] = AddPiece(iter[s \ {Max(s)}], path[Max(s)])
      BY <1>4 DEF Sat
    <3>2. QED BY <1>2, <1>3, <3>1, MaxWithin
  <2>3. FoldsIn(iter, V, n, base, st)
    BY <2>1, <2>2 DEF FoldsIn
  <2> HIDE DEF base, n, V
  <2>4. QED BY <1>2, <2>3, FoldPrefixes
<1> DEFINE u == [i \in 0..n |-> iter[1..i]]
<1>6. u \in [0..n -> V]
  BY <1>5 DEF Advances
<1>7. u[0] = base /\ Components(path) = u[n]
  <2>1. iter[{}] = base /\ 1..0 = {} /\ 0 \in 0..n /\ n \in 0..n
    BY <1>1, <1>4 DEF Sat
  <2>2. QED BY <1>1a, <2>1
<1>8. \A i \in 1..n : u[i] = AddPiece(u[i - 1], path[i])
  <2> SUFFICES ASSUME NEW i \in 1..n PROVE u[i] = AddPiece(u[i - 1], path[i])
    OBVIOUS
  <2>1. i \in 0..n /\ i - 1 \in 0..n
    BY <1>1
  <2>2. QED BY <1>2, <1>5, <2>1 DEF Advances
<1>9. QED BY <1>6, <1>7, <1>8 DEF Cut

-----------------------------------------------------------------------------
(* Walk, one component after the other. *)

StartOf(path) == IF IsPrefix(<<"/">>, path) THEN <<<<"/">>>> ELSE <<>>

GoTo(at, c) ==
  IF c \in {<<>>, <<".">>} THEN at
  ELSE IF c # <<".", ".">> \/ at = <<>> \/ Last(at) = c THEN Append(at, c)
  ELSE IF at = <<<<"/">>>> THEN at
  ELSE Front(at)

LEMMA StartIsText ==
  ASSUME NEW path
  PROVE  StartOf(path) \in Texts
<1>1. "/" \in Words
  BY DEF Words
<1>2. <<"/">> \in Seq(Words)
  BY <1>1, Single
<1>3. <<<<"/">>>> \in Texts
  BY <1>2, Single DEF Texts
<1>4. <<>> \in Texts
  BY EmptySeq DEF Texts
<1>5. QED BY <1>3, <1>4 DEF StartOf

LEMMA GoToType ==
  ASSUME NEW at \in Texts, NEW c \in Seq(Words)
  PROVE  GoTo(at, c) \in Texts
<1>1. Append(at, c) \in Texts
  BY Appended DEF Texts
<1>2. CASE at = <<>>
  BY <1>1, <1>2 DEF GoTo
<1>3. CASE at # <<>>
  <2>1. Len(at) \in Nat \ {0}
    BY <1>3, EmptySeq DEF Texts
  <2>2. Front(at) \in Texts
    BY <2>1 DEF Front, Texts
  <2>3. QED BY <1>1, <2>2 DEF GoTo
<1>4. QED BY <1>2, <1>3

(* w is the way Walk takes along the components. *)
Way(w, from, cs) ==
  /\ w \in [0..Len(cs) -> Texts]
  /\ w[0] = from
  /\ \A i \in 1..Len(cs) : w[i] = GoTo(w[i - 1], cs[i])

LEMMA WalkFold ==
  ASSUME NEW path, NEW cs \in Texts, Components(path) = cs
  PROVE  \E w : Way(w, StartOf(path), cs) /\ Walk(path) = w[Len(cs)]
<1> DEFINE n == Len(cs)
           V == Texts
           base == StartOf(path)
           st == [i \in 1..n |-> [at \in V |-> GoTo(at, cs[i])]]
           Sat(g) == g = [s \in SUBSET (1..n) |->
                            IF s = {} THEN base ELSE GoTo(g[s \ {Max(s)}], cs[Max(s)])]
           iter == CHOOSE g : Sat(g)
<1>1. n \in Nat /\ DOMAIN cs = 1..n /\ \A i \in 1..n : cs[i] \in Seq(Words)
  BY LenProperties, ElementOfSeq DEF Texts
<1>1a. Walk(path) = iter[1..n]
  BY <1>1 DEF Walk, FoldLeft, MapThenFoldSet, GoTo, StartOf
<1>2. /\ n \in Nat /\ base \in V
      /\ st \in [1..n -> [V -> V]]
      /\ \A i \in 1..n, at \in V : st[i][at] = GoTo(at, cs[i])
  <2>1. \A i \in 1..n, at \in V : GoTo(at, cs[i]) \in V
    BY <1>1, GoToType
  <2>2. QED BY <1>1, <2>1, StartIsText
<1> HIDE DEF st
<1>3. n \in Nat
  BY <1>1
<1>4. Sat(iter)
  <2> HIDE DEF base, n, V
  <2>1. PICK g \in [SUBSET (1..n) -> V] : IsFold(g, n, base, st)
    BY <1>2, Fold
  <2>2. \A s \in SUBSET (1..n) : s # {} =>
           st[Max(s)][g[s \ {Max(s)}]] = GoTo(g[s \ {Max(s)}], cs[Max(s)])
    BY <1>2, MaxWithin
  <2>3. g = [s \in SUBSET (1..n) |->
               IF s = {} THEN base ELSE GoTo(g[s \ {Max(s)}], cs[Max(s)])]
    BY <2>1, <2>2 DEF IsFold
  <2>4. \E h : Sat(h)
    BY <2>3
  <2> HIDE DEF Sat
  <2>5. QED BY <2>4
<1> HIDE DEF iter, Sat
<1>5. Advances(iter, V, n, st)
  <2>1. iter[{}] = base
    BY <1>4 DEF Sat
  <2>2. \A s \in SUBSET (1..n) :
          s # {} /\ iter[s \ {Max(s)}] \in V => iter[s] = st[Max(s)][iter[s \ {Max(s)}]]
    <3> SUFFICES ASSUME NEW s \in SUBSET (1..n), s # {}, iter[s \ {Max(s)}] \in V
                 PROVE  iter[s] = st[Max(s)][iter[s \ {Max(s)}]]
      OBVIOUS
    <3>1. iter[s] = GoTo(iter[s \ {Max(s)}], cs[Max(s)])
      BY <1>4 DEF Sat
    <3>2. QED BY <1>2, <1>3, <3>1, MaxWithin
  <2>3. FoldsIn(iter, V, n, base, st)
    BY <2>1, <2>2 DEF FoldsIn
  <2> HIDE DEF base, n, V
  <2>4. QED BY <1>2, <2>3, FoldPrefixes
<1> DEFINE u == [i \in 0..n |-> iter[1..i]]
<1>6. u \in [0..n -> V]
  BY <1>5 DEF Advances
<1>7. u[0] = base /\ Walk(path) = u[n]
  <2>1. iter[{}] = base /\ 1..0 = {} /\ 0 \in 0..n /\ n \in 0..n
    BY <1>1, <1>4 DEF Sat
  <2>2. QED BY <1>1a, <2>1
<1>8. \A i \in 1..n : u[i] = GoTo(u[i - 1], cs[i])
  <2> SUFFICES ASSUME NEW i \in 1..n PROVE u[i] = GoTo(u[i - 1], cs[i])
    OBVIOUS
  <2>1. i \in 0..n /\ i - 1 \in 0..n
    BY <1>1
  <2>2. QED BY <1>2, <1>5, <2>1 DEF Advances
<1>9. QED BY <1>6, <1>7, <1>8 DEF Way
-----------------------------------------------------------------------------
(* What the components are made of. *)

LEMMA LastAdded ==
  ASSUME NEW S, NEW seq \in Seq(S), NEW elt \in S
  PROVE  /\ Len(Append(seq, elt)) = Len(seq) + 1
         /\ Last(Append(seq, elt)) = elt
         /\ Front(Append(seq, elt)) = seq
         /\ \A k \in 1..Len(seq) : Append(seq, elt)[k] = seq[k]
<1>1. /\ Append(seq, elt) \in Seq(S)
      /\ Len(Append(seq, elt)) = Len(seq) + 1
      /\ \A k \in 1..Len(seq) : Append(seq, elt)[k] = seq[k]
      /\ Append(seq, elt)[Len(seq) + 1] = elt
  BY AppendProperties
<1>2. Len(seq) \in Nat
  BY LenProperties
<1>3. Front(Append(seq, elt)) = seq
  BY <1>1, <1>2 DEF Front
<1>4. QED BY <1>1, <1>2, <1>3 DEF Last

LEMMA WithoutLast ==
  ASSUME NEW S, NEW seq \in Seq(S), seq # <<>>
  PROVE  /\ Len(seq) \in Nat \ {0}
         /\ Front(seq) \in Seq(S) /\ Len(Front(seq)) = Len(seq) - 1
         /\ \A k \in 1..(Len(seq) - 1) : Front(seq)[k] = seq[k]
         /\ Last(seq) \in S
<1>1. Len(seq) \in Nat \ {0}
  BY EmptySeq
<1>2. \A k \in 1..(Len(seq) - 1) : seq[k] \in S
  BY <1>1, ElementOfSeq
<1> DEFINE n == Len(seq) - 1
<1>3. n \in Nat /\ 1 \in Int
  BY <1>1
<1>4. \A k \in 1..n : seq[k] \in S
  BY <1>2
<1> HIDE DEF n
<1>5. /\ SubSeq(seq, 1, n) \in Seq(S)
      /\ Len(SubSeq(seq, 1, n)) = IF 1 <= n THEN n - 1 + 1 ELSE 0
      /\ \A k \in 1..(n - 1 + 1) : SubSeq(seq, 1, n)[k] = seq[1 + k - 1]
  BY <1>3, <1>4, SubSeqProperties
<1>6. /\ SubSeq(seq, 1, n) \in Seq(S)
      /\ Len(SubSeq(seq, 1, n)) = n
      /\ \A k \in 1..n : SubSeq(seq, 1, n)[k] = seq[k]
  BY <1>3, <1>5
<1>7. Last(seq) \in S
  BY <1>1, ElementOfSeq DEF Last
<1>8. QED BY <1>1, <1>6, <1>7 DEF Front, n

LEMMA PieceAdded ==
  ASSUME NEW cs \in Texts \ {<<>>}, NEW piece \in Words
  PROVE  /\ Len(cs) \in Nat \ {0}
         /\ Last(cs) \in Seq(Words)
         /\ piece = "/" =>
              /\ Len(AddPiece(cs, piece)) = Len(cs) + 1
              /\ Last(AddPiece(cs, piece)) = <<>>
              /\ \A k \in 1..Len(cs) : AddPiece(cs, piece)[k] = cs[k]
         /\ piece # "/" =>
              /\ Len(AddPiece(cs, piece)) = Len(cs)
              /\ Last(AddPiece(cs, piece)) = Append(Last(cs), piece)
              /\ \A k \in 1..(Len(cs) - 1) : AddPiece(cs, piece)[k] = cs[k]
<1>1. /\ Len(cs) \in Nat \ {0}
      /\ Front(cs) \in Texts /\ Len(Front(cs)) = Len(cs) - 1
      /\ \A k \in 1..(Len(cs) - 1) : Front(cs)[k] = cs[k]
      /\ Last(cs) \in Seq(Words)
  BY WithoutLast DEF Texts
<1>2. <<>> \in Seq(Words) /\ Append(Last(cs), piece) \in Seq(Words)
  BY <1>1, EmptySeq, Appended
<1>3. /\ Len(Append(cs, <<>>)) = Len(cs) + 1
      /\ Last(Append(cs, <<>>)) = <<>>
      /\ \A k \in 1..Len(cs) : Append(cs, <<>>)[k] = cs[k]
  BY <1>2, LastAdded DEF Texts
<1> DEFINE f == Front(cs)
           c == Append(Last(cs), piece)
<1>4. f \in Texts /\ c \in Seq(Words)
  BY <1>1, <1>2
<1>5. /\ Len(f) = Len(cs) - 1
      /\ \A k \in 1..(Len(cs) - 1) : f[k] = cs[k]
  BY <1>1
<1> HIDE DEF f, c
<1>6. /\ Len(Append(f, c)) = Len(f) + 1
      /\ Last(Append(f, c)) = c
      /\ \A k \in 1..Len(f) : Append(f, c)[k] = f[k]
  BY <1>4, LastAdded DEF Texts
<1>7. piece # "/" => AddPiece(cs, piece) = Append(f, c)
  BY DEF AddPiece, f, c
<1>8. piece = "/" => AddPiece(cs, piece) = Append(cs, <<>>)
  BY DEF AddPiece
<1>9. piece # "/" =>
        /\ Len(AddPiece(cs, piece)) = Len(cs)
        /\ Last(AddPiece(cs, piece)) = c
        /\ \A k \in 1..(Len(cs) - 1) : AddPiece(cs, piece)[k] = cs[k]
  <2> DEFINE added == Append(f, c)
             m == Len(cs)
  <2>1. m \in Nat \ {0} /\ Len(f) = m - 1
    BY <1>1, <1>5
  <2>2. Len(added) = Len(f) + 1 /\ Last(added) = c
    BY <1>6
  <2>3. \A k \in 1..(m - 1) : added[k] = cs[k]
    BY <1>5, <1>6, <2>1
  <2> HIDE DEF added, m
  <2>4. Len(added) = m
    BY <2>1, <2>2
  <2>5. QED BY <1>7, <2>2, <2>3, <2>4 DEF added, m
<1>10. QED BY <1>1, <1>3, <1>8, <1>9 DEF c

(* c is what follows the last separator among the first i pieces. *)
Names(c, path, i) ==
  /\ c \in Seq(Words)
  /\ Len(c) <= i
  /\ Len(c) = i \/ path[i - Len(c)] = "/"
  /\ \A j \in 1..Len(c) : c[j] = path[i - Len(c) + j] /\ c[j] # "/"

LEMMA NameGrows ==
  ASSUME NEW cs \in Texts \ {<<>>}, NEW path \in Seq(Words), NEW i \in Nat,
         i + 1 <= Len(path), Names(Last(cs), path, i)
  PROVE  Names(Last(AddPiece(cs, path[i + 1])), path, i + 1)
<1> DEFINE p == path[i + 1]
           c == Last(cs)
<1>1. p \in Words
  <2>1. i + 1 \in 1..Len(path)
    BY LenProperties
  <2>2. QED BY <2>1, ElementOfSeq
<1>2. CASE p = "/"
  <2>1. Last(AddPiece(cs, p)) = <<>>
    BY <1>1, <1>2, PieceAdded
  <2>2. Len(<<>>) = 0 /\ <<>> \in Seq(Words)
    BY EmptySeq
  <2>3. Names(<<>>, path, i + 1)
    BY <1>2, <2>2 DEF Names
  <2>4. QED BY <2>1, <2>3
<1>3. CASE p # "/"
  <2>1. Last(AddPiece(cs, p)) = Append(c, p)
    BY <1>1, <1>3, PieceAdded
  <2> DEFINE d == Append(c, p)
  <2>2. c \in Seq(Words) /\ Len(c) \in Nat
    BY LenProperties DEF Names
  <2>3. d \in Seq(Words) /\ Len(d) = Len(c) + 1 /\ (\A j \in 1..Len(c) : d[j] = c[j]) /\ d[Len(c) + 1] = p
    BY <1>1, <2>2, AppendProperties
  <2>4. Names(c, path, i)
    OBVIOUS
  <2> HIDE DEF d, c
  <2>5. Len(d) <= i + 1 /\ (i + 1) - Len(d) = i - Len(c)
    BY <2>2, <2>3, <2>4 DEF Names
  <2>6. ASSUME NEW j \in 1..Len(d)
        PROVE  d[j] = path[(i + 1) - Len(d) + j] /\ d[j] # "/"
    <3>1. CASE j = Len(c) + 1
      BY <1>3, <2>2, <2>3, <2>5, <3>1
    <3>2. CASE j # Len(c) + 1
      <4>1. j \in 1..Len(c)
        BY <2>2, <2>3, <3>2
      <4>2. QED BY <2>3, <2>4, <2>5, <4>1 DEF Names
    <3>3. QED BY <3>1, <3>2
  <2>7. Names(d, path, i + 1)
    BY <2>2, <2>3, <2>4, <2>5, <2>6 DEF Names
  <2>8. QED BY <2>1, <2>7 DEF d
<1>4. QED BY <1>2, <1>3

(* The last component is always what follows the last separator so far. *)
LEMMA CutNames ==
  ASSUME NEW path \in Seq(Words), NEW u, Cut(u, path)
  PROVE  \A i \in 0..Len(path) : Names(Last(u[i]), path, i)
<1>1. Len(path) \in Nat
  BY LenProperties
<1> DEFINE K == {i \in Nat : i <= Len(path) => Names(Last(u[i]), path, i)}
<1>2. 0 \in K
  <2> DEFINE e == <<>>
  <2>1. Len(e) = 0 /\ e \in Seq(Words)
    BY EmptySeq
  <2> HIDE DEF e
  <2>2. Last(<<e>>) = e
    BY DEF Last
  <2>3. Names(e, path, 0)
    BY <2>1 DEF Names
  <2>4. QED BY <2>2, <2>3 DEF e, Cut
<1>3. \A i \in K : i + 1 \in K
  <2> SUFFICES ASSUME NEW i \in Nat, Names(Last(u[i]), path, i), i + 1 <= Len(path)
               PROVE  Names(Last(u[i + 1]), path, i + 1)
    BY <1>1
  <2>1. i + 1 \in 1..Len(path) /\ (i + 1) - 1 = i /\ i \in 0..Len(path)
    BY <1>1
  <2>2. u[i + 1] = AddPiece(u[i], path[i + 1]) /\ u[i] \in Texts \ {<<>>}
    BY <2>1 DEF Cut
  <2>3. QED BY <2>2, NameGrows
<1> HIDE DEF K
<1>4. K \in SUBSET Nat
  BY DEF K
<1>5. \A i \in Nat : i \in K
  BY <1>2, <1>3, <1>4, Count
<1>6. QED BY <1>1, <1>5 DEF K

(* The name of a file: the last component of its path. *)
LEMMA NameOfPath ==
  ASSUME NEW path \in Seq(Words)
  PROVE  Names(Last(Components(path)), path, Len(path))
<1>1. PICK u : Cut(u, path) /\ Components(path) = u[Len(path)]
  BY ComponentsFold
<1>2. Len(path) \in 0..Len(path)
  BY LenProperties
<1>3. QED BY <1>1, <1>2, CutNames

-----------------------------------------------------------------------------
(* The type of a file. *)

HasType(w) == Lower(w) \in DOMAIN Extensions

(* Separators and dots are no extensions. *)
LEMMA SignsHaveNone == ~HasType("/") /\ ~HasType(".")
<1>1. Lower("/") = "/" /\ Lower(".") = "."
  BY DEF Lower, LowerCase
<1>2. QED BY <1>1 DEF HasType, Extensions

(* The type of a file is told by the last piece of its path, behind a dot. *)
LEMMA TypeByEnd ==
  ASSUME NEW path \in Seq(Words)
  PROVE  LET n == Len(path)
         IN  mime_type(path) =
               IF n >= 2 /\ path[n - 1] = "." /\ HasType(path[n])
               THEN Extensions[Lower(path[n])] ELSE "application/text"
<1> DEFINE n == Len(path)
           dots == Find(path, ".")
           d == Max(dots)
           ext == SubSeq(path, d + 1, n)
<1>1. n \in Nat
  BY LenProperties
<1>2. CASE dots = {}
  <2>1. mime_type(path) = "application/text"
    BY <1>2 DEF mime_type
  <2>2. n >= 2 => path[n - 1] # "."
    BY <1>1, <1>2 DEF Find
  <2>3. QED BY <2>1, <2>2
<1>3. CASE dots # {}
  <2>1. dots \in SUBSET (0..n)
    BY <1>1 DEF Find
  <2>2. d \in dots /\ \A i \in dots : d >= i
    <3> HIDE DEF dots
    <3>1. QED BY <1>1, <1>3, <2>1, MaxOf
  <2>3. mime_type(path) = TypeOf(ext)
    BY <1>3 DEF mime_type
  <2>4. d \in 1..n /\ path[d] = "."
    BY <2>2 DEF Find
  <2>5. \A i \in 1..n : path[i] = "." => d >= i
    BY <2>2 DEF Find
  <2>6. ext \in Seq(Words) /\ Len(ext) = n - d /\ (n - d >= 1 => ext[1] = path[d + 1])
    <3> HIDE DEF d, n
    <3>1. \A i \in (d + 1)..n : path[i] \in Words
      BY <1>1, <2>4, ElementOfSeq DEF n
    <3>2. d + 1 \in Int /\ n \in Int
      BY <1>1, <2>4
    <3> DEFINE e == SubSeq(path, d + 1, n)
    <3>3. /\ e \in Seq(Words)
          /\ Len(e) = IF d + 1 <= n THEN n - (d + 1) + 1 ELSE 0
          /\ \A i \in 1..(n - (d + 1) + 1) : e[i] = path[(d + 1) + i - 1]
      BY <3>1, <3>2, SubSeqProperties
    <3> HIDE DEF e
    <3>4. Len(e) = n - d
      BY <1>1, <2>4, <3>3
    <3>5. n - d >= 1 => e[1] = path[d + 1]
      <4>1. n - d >= 1 => 1 \in 1..(n - (d + 1) + 1) /\ (d + 1) + 1 - 1 = d + 1
        BY <1>1, <2>4
      <4>2. QED BY <3>3, <4>1
    <3>6. QED BY <3>3, <3>4, <3>5 DEF e
  <2> HIDE DEF d, ext, dots, n
  <2>7. mime_type(path) = IF n - d = 1 /\ HasType(path[d + 1])
                          THEN Extensions[Lower(path[d + 1])] ELSE "application/text"
    <3>1. mime_type(path) = IF Len(ext) = 1 /\ HasType(ext[1])
                            THEN Extensions[Lower(ext[1])] ELSE "application/text"
      BY <2>3 DEF TypeOf, HasType
    <3>2. n - d \in Int
      BY <1>1, <2>4
    <3>3. QED BY <2>6, <3>1, <3>2
  <2>8. n - d = 1 /\ HasType(path[d + 1]) =>
          n >= 2 /\ path[n - 1] = "." /\ HasType(path[n]) /\ d + 1 = n
    <3> SUFFICES ASSUME n - d = 1, HasType(path[d + 1])
                 PROVE  n >= 2 /\ path[n - 1] = "." /\ HasType(path[n]) /\ d + 1 = n
      OBVIOUS
    <3>1. d + 1 = n /\ n - 1 = d
      BY <1>1, <2>4
    <3>2. QED BY <1>1, <2>4, <3>1
  <2>9. n >= 2 /\ path[n - 1] = "." /\ HasType(path[n]) => n - d = 1 /\ HasType(path[d + 1])
    <3> SUFFICES ASSUME n >= 2, path[n - 1] = ".", HasType(path[n])
                 PROVE  n - d = 1 /\ HasType(path[d + 1])
      OBVIOUS
    <3>1. path[n] # "."
      BY SignsHaveNone
    <3>2. d >= n - 1 /\ d # n /\ d <= n
      BY <1>1, <2>4, <2>5, <3>1
    <3>3. d + 1 = n
      BY <1>1, <2>4, <3>2
    <3>4. QED BY <1>1, <2>4, <3>3
  <2>10. QED BY <2>7, <2>8, <2>9 DEF n
<1>4. QED BY <1>2, <1>3

(* The same can be told from the file's own name. *)
LEMMA TypeByOwnName ==
  ASSUME NEW path \in Seq(Words), NEW name, Names(name, path, Len(path))
  PROVE  mime_type(path) =
           LET words == {i \in 2..Len(name) : name[i - 1] = "."}
           IN  IF words # {} /\ Max(words) = Len(name) /\ HasType(Last(name))
               THEN Extensions[Lower(Last(name))] ELSE "application/text"
<1> DEFINE n == Len(path)
           l == Len(name)
           words == {i \in 2..l : name[i - 1] = "."}
<1>1. n \in Nat /\ l \in Nat /\ l <= n /\ (l = n \/ path[n - l] = "/")
  BY LenProperties DEF Names
<1>2. \A j \in 1..l : name[j] = path[n - l + j] /\ name[j] # "/"
  BY DEF Names
<1> HIDE DEF n, l
<1>3. (words # {} /\ Max(words) = l) <=> (l >= 2 /\ name[l - 1] = ".")
  <2>1. words \in SUBSET (0..l) /\ words \in SUBSET Int
    BY <1>1
  <2>2. words # {} /\ Max(words) = l => l \in words
    <3> HIDE DEF words
    <3>1. QED BY <1>1, <2>1, MaxOf
  <2>3. l \in words <=> l >= 2 /\ name[l - 1] = "."
    BY <1>1
  <2>4. \A i \in words : l >= i
    BY <1>1
  <2> HIDE DEF words
  <2>5. l \in words => Max(words) = l
    BY <2>1, <2>4, MaxIs
  <2>6. QED BY <2>2, <2>3, <2>5
<1>4. mime_type(path) = IF n >= 2 /\ path[n - 1] = "." /\ HasType(path[n])
                        THEN Extensions[Lower(path[n])] ELSE "application/text"
  BY TypeByEnd DEF n
<1>5. ASSUME n >= 2, path[n - 1] = ".", HasType(path[n])
      PROVE  l >= 2 /\ name[l - 1] = "." /\ HasType(name[l])
  <2>1. path[n] # "/"
    BY <1>5, SignsHaveNone
  <2>2. l # 0
    BY <1>1, <1>5, <2>1
  <2>3. l # 1
    BY <1>1, <1>5
  <2>4. l - 1 \in 1..l /\ l \in 1..l /\ n - l + (l - 1) = n - 1 /\ n - l + l = n
    BY <1>1, <2>2, <2>3
  <2>5. name[l - 1] = path[n - 1] /\ name[l] = path[n]
    BY <1>2, <2>4
  <2>6. QED BY <1>1, <1>5, <2>2, <2>3, <2>5
<1>6. ASSUME l >= 2, name[l - 1] = ".", HasType(name[l])
      PROVE  n >= 2 /\ path[n - 1] = "." /\ HasType(path[n]) /\ name[l] = path[n]
  <2>1. l - 1 \in 1..l /\ l \in 1..l /\ n - l + (l - 1) = n - 1 /\ n - l + l = n
    BY <1>1, <1>6
  <2>2. name[l - 1] = path[n - 1] /\ name[l] = path[n]
    BY <1>2, <2>1
  <2>3. QED BY <1>1, <1>6, <2>2
<1>7. Last(name) = name[l]
  BY DEF Last, l
<1>8. mime_type(path) = IF words # {} /\ Max(words) = l /\ HasType(Last(name))
                        THEN Extensions[Lower(Last(name))] ELSE "application/text"
  BY <1>3, <1>4, <1>5, <1>6, <1>7
<1>9. QED BY <1>8 DEF l

-----------------------------------------------------------------------------
(* The path of a legal target. *)

(* What follows the directory in a path: it is set off by a separator, and has no
   two dots in a row. *)
Rest(rest, root) ==
  /\ rest \in Seq(Words)
  /\ Last(root) = "/" \/ (rest # <<>> /\ rest[1] = "/")
  /\ \A i \in 1..(Len(rest) - 1) : ~(rest[i] = "." /\ rest[i + 1] = ".")

LEMMA IndexShape ==
  /\ Index \in Seq(Words) /\ Len(Index) = 3
  /\ Index[1] = "index" /\ Index[2] = "." /\ Index[3] = "html"
BY DEF Index, Words

(* A target, and behind a directory its index. *)
LEMMA WithIndex ==
  ASSUME NEW t \in Seq(Words), Legal(t)
  PROVE  \E tail \in Seq(Words) :
           /\ tail = t \o (IF Last(t) = "/" THEN Index ELSE <<>>)
           /\ Len(tail) \in Nat \ {0} /\ tail[1] = "/"
           /\ \A i \in 1..(Len(tail) - 1) : ~(tail[i] = "." /\ tail[i + 1] = ".")
           /\ Last(t) = "/" => /\ Len(tail) >= 3
                                    /\ tail[Len(tail) - 1] = "." /\ tail[Len(tail)] = "html"
<1> DEFINE n == Len(t)
<1>1. n \in Nat \ {0} /\ t[1] = "/"
  BY EmptySeq DEF Legal
<1>2. \A i \in 1..(n - 1) : ~(t[i] = "." /\ t[i + 1] = ".")
  <2> SUFFICES ASSUME NEW i \in 1..(n - 1), t[i] = ".", t[i + 1] = "."
               PROVE  FALSE
    OBVIOUS
  <2>1. i \in Find(t, ".") /\ i + 1 \in Find(t, ".")
    BY <1>1 DEF Find
  <2>2. QED BY <2>1 DEF Legal
<1>3. CASE Last(t) # "/"
  <2>1. t \o <<>> = t
    BY ConcatEmptySeq
  <2>2. QED BY <1>1, <1>2, <1>3, <2>1
<1>4. CASE Last(t) = "/"
  <2> DEFINE tail == t \o Index
  <2>1. /\ tail \in Seq(Words) /\ Len(tail) = n + 3
        /\ \A i \in 1..(n + 3) : tail[i] = IF i <= n THEN t[i] ELSE Index[i - n]
    <3>1. /\ t \o Index \in Seq(Words) /\ Len(t \o Index) = Len(t) + Len(Index)
          /\ \A i \in 1..(Len(t) + Len(Index)) :
               (t \o Index)[i] = IF i <= Len(t) THEN t[i] ELSE Index[i - Len(t)]
      BY IndexShape, ConcatProperties
    <3>2. QED BY <3>1, IndexShape
  <2>2. t[n] = "/"
    BY <1>4 DEF Last
  <2> HIDE DEF tail, n
  <2>3. /\ tail[n + 1] = "index" /\ tail[n + 2] = "." /\ tail[n + 3] = "html"
        /\ \A i \in 1..n : tail[i] = t[i]
    BY <1>1, <2>1, IndexShape
  <2>4. ASSUME NEW i \in 1..(n + 2)
        PROVE  ~(tail[i] = "." /\ tail[i + 1] = ".")
    <3>1. CASE i \in 1..(n - 1)
      BY <1>1, <1>2, <2>3, <3>1
    <3>2. CASE i = n
      BY <1>1, <2>2, <2>3, <3>2
    <3>3. CASE i = n + 1
      BY <2>3, <3>3
    <3>4. CASE i = n + 2
      BY <1>1, <2>3, <3>4
    <3>5. QED BY <1>1, <3>1, <3>2, <3>3, <3>4
  <2>5. /\ Len(tail) \in Nat \ {0} /\ tail[1] = "/" /\ Len(tail) >= 3
        /\ Len(tail) - 1 = n + 2 /\ Len(tail) = n + 3
    BY <1>1, <2>1, <2>3
  <2>6. \A i \in 1..(Len(tail) - 1) : ~(tail[i] = "." /\ tail[i + 1] = ".")
    BY <2>4, <2>5
  <2>7. tail[Len(tail) - 1] = "." /\ tail[Len(tail)] = "html"
    BY <2>3, <2>5
  <2>8. tail = t \o (IF Last(t) = "/" THEN Index ELSE <<>>)
    BY <1>4 DEF tail
  <2>9. QED BY <2>1, <2>5, <2>6, <2>7, <2>8
<1>5. QED BY <1>3, <1>4

LEMMA PathShape ==
  ASSUME NEW root \in Seq(Words), root # <<>>, NEW t \in Seq(Words), Legal(t)
  PROVE  /\ PathOf(root, t) \in Seq(Words)
         /\ \E rest : Rest(rest, root) /\ PathOf(root, t) = root \o rest
         /\ Last(t) = "/" => mime_type(PathOf(root, t)) = "text/html"
<1> DEFINE base == IF Last(root) = "/" THEN Front(root) ELSE root
           path == base \o (t \o (IF Last(t) = "/" THEN Index ELSE <<>>))
<1>1. /\ Len(root) \in Nat \ {0} /\ root[Len(root)] = Last(root)
      /\ Front(root) \in Seq(Words) /\ Len(Front(root)) = Len(root) - 1
      /\ \A k \in 1..(Len(root) - 1) : Front(root)[k] = root[k]
  BY WithoutLast DEF Last
<1>2. base \in Seq(Words)
  BY <1>1
<1>3. PathOf(root, t) = path
  <2>1. path_cat(root, t) = base \o t
    BY DEF path_cat
  <2> DEFINE index_ == IF Last(t) = "/" THEN Index ELSE <<>>
  <2>2. index_ \in Seq(Words)
    BY IndexShape, EmptySeq
  <2> HIDE DEF base, index_
  <2>3. (base \o t) \o index_ = base \o (t \o index_)
    BY <1>2, <2>2, ConcatAssociative
  <2>4. QED BY <2>1, <2>3 DEF PathOf, index_
<1>4. PICK tail \in Seq(Words) :
        /\ tail = t \o (IF Last(t) = "/" THEN Index ELSE <<>>)
        /\ Len(tail) \in Nat \ {0} /\ tail[1] = "/"
        /\ \A i \in 1..(Len(tail) - 1) : ~(tail[i] = "." /\ tail[i + 1] = ".")
        /\ Last(t) = "/" => /\ Len(tail) >= 3
                            /\ tail[Len(tail) - 1] = "." /\ tail[Len(tail)] = "html"
  BY WithIndex
<1>5. path = base \o tail
  BY <1>4
<1> HIDE DEF path
<1>6. /\ path \in Seq(Words) /\ Len(path) = Len(base) + Len(tail)
      /\ \A i \in 1..(Len(base) + Len(tail)) :
           path[i] = IF i <= Len(base) THEN base[i] ELSE tail[i - Len(base)]
  <2> HIDE DEF base
  <2>1. QED BY <1>2, <1>5, ConcatProperties
<1>7. \E rest : Rest(rest, root) /\ path = root \o rest
  <2>1. CASE Last(root) # "/"
    <3>1. tail # <<>>
      BY <1>4, EmptySeq
    <3>2. Rest(tail, root)
      BY <1>4, <3>1 DEF Rest
    <3>3. QED BY <1>5, <2>1, <3>2
  <2>2. CASE Last(root) = "/"
    <3> DEFINE m == Len(tail) - 1
               rest == [i \in 1..m |-> tail[i + 1]]
    <3>1. m \in Nat /\ \A i \in 1..m : i + 1 \in 1..Len(tail)
      BY <1>4
    <3>2. \A i \in 1..m : tail[i + 1] \in Words
      BY <3>1, ElementOfSeq
    <3>3. rest \in Seq(Words) /\ Len(rest) = m /\ \A i \in 1..m : rest[i] = tail[i + 1]
      <4> HIDE DEF m
      <4>1. QED BY <3>1, <3>2
    <3> HIDE DEF rest
    <3>4. Rest(rest, root)
      <4>1. ASSUME NEW i \in 1..(Len(rest) - 1)
            PROVE  ~(rest[i] = "." /\ rest[i + 1] = ".")
        <5>1. /\ i \in 1..m /\ i + 1 \in 1..m
              /\ i + 1 \in 1..(Len(tail) - 1) /\ (i + 1) + 1 = i + 2
          BY <3>1, <3>3
        <5>2. rest[i] = tail[i + 1] /\ rest[i + 1] = tail[(i + 1) + 1]
          BY <3>3, <5>1
        <5>3. QED BY <1>4, <5>1, <5>2
      <4>2. QED BY <2>2, <3>3, <4>1 DEF Rest
    <3>5. path = root \o rest
      <4> DEFINE q == root \o rest
      <4>1. /\ q \in Seq(Words) /\ Len(q) = Len(root) + Len(rest)
            /\ \A i \in 1..(Len(root) + Len(rest)) :
                 q[i] = IF i <= Len(root) THEN root[i] ELSE rest[i - Len(root)]
        BY <3>3, ConcatProperties
      <4>2. Len(base) = Len(root) - 1 /\ \A k \in 1..(Len(root) - 1) : base[k] = root[k]
        BY <1>1, <2>2
      <4> HIDE DEF q, base
      <4>3. Len(q) = Len(path)
        BY <1>1, <1>4, <1>6, <3>3, <4>1, <4>2
      <4>4. ASSUME NEW i \in 1..Len(path) PROVE path[i] = q[i]
        <5>1. CASE i < Len(root)
          <6>1. i \in 1..(Len(root) - 1) /\ i <= Len(base) /\ i <= Len(root)
                /\ i \in 1..(Len(base) + Len(tail)) /\ i \in 1..(Len(root) + Len(rest))
            BY <1>1, <1>6, <3>3, <4>1, <4>2, <4>3, <5>1
          <6>2. QED BY <1>6, <4>1, <4>2, <6>1
        <5>2. CASE i = Len(root)
          <6>1. ~(i <= Len(base)) /\ i <= Len(root) /\ i - Len(base) = 1
                /\ i \in 1..(Len(base) + Len(tail)) /\ i \in 1..(Len(root) + Len(rest))
            BY <1>1, <1>6, <3>3, <4>1, <4>2, <4>3, <5>2
          <6>2. q[i] = "/" /\ path[i] = tail[1]
            BY <1>1, <1>6, <2>2, <4>1, <5>2, <6>1
          <6>3. QED BY <1>4, <6>2
        <5>3. CASE i > Len(root)
          <6>1. /\ ~(i <= Len(base)) /\ ~(i <= Len(root))
                /\ i - Len(base) = (i - Len(root)) + 1 /\ i - Len(root) \in 1..m
                /\ i \in 1..(Len(base) + Len(tail)) /\ i \in 1..(Len(root) + Len(rest))
            BY <1>1, <1>4, <1>6, <3>3, <4>1, <4>2, <4>3, <5>3
          <6>2. path[i] = tail[(i - Len(root)) + 1] /\ q[i] = rest[i - Len(root)]
            BY <1>6, <4>1, <6>1
          <6>3. QED BY <3>3, <6>1, <6>2
        <5>4. QED BY <1>1, <5>1, <5>2, <5>3
      <4>5. path = q
        BY <1>6, <4>1, <4>3, <4>4, SeqEqual
      <4>6. QED BY <4>5 DEF q
    <3>6. QED BY <3>4, <3>5
  <2>3. QED BY <2>1, <2>2
<1>8. Last(t) = "/" => mime_type(path) = "text/html"
  <2> SUFFICES ASSUME Last(t) = "/" PROVE mime_type(path) = "text/html"
    OBVIOUS
  <2> DEFINE n == Len(path)
  <2>1. Len(base) \in Nat /\ Len(tail) >= 3 /\ Len(tail) \in Nat
    <3>1. Len(base) \in Nat
      BY <1>2, LenProperties
    <3>2. QED BY <1>4, <3>1
  <2> HIDE DEF base
  <2>2. /\ n >= 2 /\ n - 1 \in 1..(Len(base) + Len(tail)) /\ n \in 1..(Len(base) + Len(tail))
        /\ ~(n - 1 <= Len(base)) /\ ~(n <= Len(base))
        /\ (n - 1) - Len(base) = Len(tail) - 1 /\ n - Len(base) = Len(tail)
    BY <1>6, <2>1
  <2>3. path[n - 1] = tail[Len(tail) - 1] /\ path[n] = tail[Len(tail)]
    BY <1>6, <2>2
  <2>4. path[n - 1] = "." /\ path[n] = "html"
    BY <1>4, <2>3
  <2>5. HasType("html") /\ Extensions[Lower("html")] = "text/html"
    BY DEF HasType, Lower, LowerCase, Extensions
  <2>6. QED BY <1>6, <2>2, <2>4, <2>5, TypeByEnd
<1>9. QED BY <1>3, <1>6, <1>7, <1>8

LEMMA RootIsPath ==
  ASSUME NEW root \in Roots
  PROVE  root \in Seq(Words) /\ root # <<>>
<1>1. root \in Seq(STRING) /\ root # <<>> /\ STRING \subseteq Words
  BY TextAssumption DEF Words
<1>2. QED BY <1>1, SeqMonotonic

LEMMA TargetIsPath ==
  ASSUME TypeOK
  PROVE  target \in Seq(Words)
<1>1. target \in Seq(Parts) /\ Parts \subseteq Words
  BY TextAssumption DEF TypeOK, Words
<1>2. QED BY <1>1, SeqMonotonic

(* The type of every file that is served is decided by the last extension of
   its own name, and a directory's index is a page (mime_type). *)
THEOREM OwnNameDecides == Spec => []TypeByName
<1>1. TypeOK => TypeByName
  <2> SUFFICES ASSUME TypeOK, Legal(target), NEW root \in Roots
               PROVE  LET path == PathOf(root, target)
                          name == Last(Components(path))
                          words == {i \in 2..Len(name) : name[i - 1] = "."}
                      IN  /\ mime_type(path) =
                               IF words # {} /\ Max(words) = Len(name) /\ HasType(Last(name))
                               THEN Extensions[Lower(Last(name))] ELSE "application/text"
                          /\ Last(target) = "/" => mime_type(path) = "text/html"
    BY DEF TypeByName, HasType
  <2>1. PathOf(root, target) \in Seq(Words)
    BY PathShape, RootIsPath, TargetIsPath
  <2>2. Last(target) = "/" => mime_type(PathOf(root, target)) = "text/html"
    BY PathShape, RootIsPath, TargetIsPath
  <2> DEFINE path == PathOf(root, target)
             name == Last(Components(path))
  <2>3. Names(name, path, Len(path))
    BY <2>1, NameOfPath
  <2> HIDE DEF path, name
  <2>4. mime_type(path) =
           LET words == {i \in 2..Len(name) : name[i - 1] = "."}
           IN  IF words # {} /\ Max(words) = Len(name) /\ HasType(Last(name))
               THEN Extensions[Lower(Last(name))] ELSE "application/text"
    BY <2>1, <2>3, TypeByOwnName DEF path
  <2>5. QED BY <2>2, <2>4 DEF path, name
<1>2. QED BY <1>1, TextTypeCorrect, PTL

-----------------------------------------------------------------------------
(* A path below a directory. *)

(* Up to the end of the directory, both ways are the same. *)
LEMMA SameCut ==
  ASSUME NEW root \in Seq(Words), NEW rest \in Seq(Words),
         NEW u, Cut(u, root \o rest), NEW v, Cut(v, root)
  PROVE  u[Len(root)] = v[Len(root)]
<1>1. /\ Len(root) \in Nat /\ Len(rest) \in Nat
      /\ Len(root \o rest) = Len(root) + Len(rest)
      /\ \A i \in 1..(Len(root) + Len(rest)) :
           (root \o rest)[i] = IF i <= Len(root) THEN root[i] ELSE rest[i - Len(root)]
  BY LenProperties, ConcatProperties
<1> DEFINE path == root \o rest
           K == {i \in Nat : i <= Len(root) => u[i] = v[i]}
<1> HIDE DEF path
<1>2. 0 \in K
  BY DEF Cut, path
<1>3. \A i \in K : i + 1 \in K
  <2> SUFFICES ASSUME NEW i \in Nat, u[i] = v[i], i + 1 <= Len(root)
               PROVE  u[i + 1] = v[i + 1]
    BY <1>1
  <2>1. i + 1 \in 1..Len(root) /\ i + 1 \in 1..(Len(root) + Len(rest)) /\ (i + 1) - 1 = i
    BY <1>1
  <2>2. path[i + 1] = root[i + 1]
    BY <1>1, <2>1 DEF path
  <2>3. u[i + 1] = AddPiece(u[i], path[i + 1])
    BY <1>1, <2>1 DEF Cut, path
  <2>4. v[i + 1] = AddPiece(v[i], root[i + 1])
    BY <2>1 DEF Cut
  <2>5. QED BY <2>2, <2>3, <2>4
<1> HIDE DEF K
<1>4. K \in SUBSET Nat
  BY DEF K
<1>5. \A i \in Nat : i \in K
  BY <1>2, <1>3, <1>4, Count
<1>6. QED BY <1>1, <1>5 DEF K

Up == <<".", ".">>

LEMMA NoStepUp == Len(<<>>) = 0 /\ <<>> # Up
<1> DEFINE e == <<>>
           up == Up
<1>1. Len(e) = 0 /\ Len(up) = 2
  BY DEF Up
<1> HIDE DEF e, up
<1>2. Len(e) # Len(up)
  BY <1>1
<1>3. QED BY <1>1, <1>2 DEF e, up

(* The components of a path: up to the m-th those of the directory, and no step
   up behind them.  What the directory has more is empty. *)
Below(cs, dir, m) ==
  /\ m \in Nat /\ m <= Len(cs) /\ m <= Len(dir)
  /\ \A k \in 1..m : cs[k] = dir[k]
  /\ \A k \in (m + 1)..Len(cs) : cs[k] # Up
  /\ \A k \in (m + 1)..Len(dir) : dir[k] = <<>>

(* The same while the path is cut, with the last component begun behind the
   s-th piece. *)
Opened(cs, dir, m, i, s) ==
  /\ Len(cs) > m
  /\ \A k \in 1..m : cs[k] = dir[k]
  /\ \A k \in (m + 1)..Len(cs) : cs[k] # Up
  /\ Len(Last(cs)) <= i - s

LEMMA OpenedGrows ==
  ASSUME NEW root \in Seq(Words), NEW rest, Rest(rest, root),
         NEW cs \in Texts \ {<<>>}, NEW dir \in Texts \ {<<>>}, NEW m \in Nat,
         NEW s \in Nat, s >= Len(root), NEW i \in Nat, i >= s,
         i + 1 <= Len(root) + Len(rest),
         Opened(cs, dir, m, i, s), Names(Last(cs), root \o rest, i)
  PROVE  Opened(AddPiece(cs, (root \o rest)[i + 1]), dir, m, i + 1, s)
<1> DEFINE path == root \o rest
           p == path[i + 1]
           ds == AddPiece(cs, p)
           r == Len(root)
           n == Len(cs)
<1>1. /\ r \in Nat /\ Len(rest) \in Nat /\ rest \in Seq(Words)
      /\ path \in Seq(Words) /\ Len(path) = r + Len(rest)
      /\ \A k \in 1..(r + Len(rest)) : path[k] = IF k <= r THEN root[k] ELSE rest[k - r]
  BY LenProperties, ConcatProperties DEF Rest
<1>1a. Names(Last(cs), path, i)
  OBVIOUS
<1> HIDE DEF path, r
<1>2. i + 1 \in 1..Len(path) /\ i + 1 <= r + Len(rest) /\ s >= r
  BY <1>1 DEF r
<1>3. p \in Words
  BY <1>1, <1>2, ElementOfSeq
<1>4. /\ n \in Nat \ {0}
      /\ Last(cs) \in Seq(Words)
      /\ p = "/" => /\ Len(ds) = n + 1 /\ Last(ds) = <<>>
                    /\ \A k \in 1..n : ds[k] = cs[k]
      /\ p # "/" => /\ Len(ds) = n /\ Last(ds) = Append(Last(cs), p)
                    /\ \A k \in 1..(n - 1) : ds[k] = cs[k]
  BY <1>3, PieceAdded
<1>5. /\ n > m
      /\ \A k \in 1..m : cs[k] = dir[k]
      /\ \A k \in (m + 1)..n : cs[k] # Up
      /\ Len(Last(cs)) <= i - s
  BY DEF Opened
<1>6. Names(Last(ds), path, i + 1)
  BY <1>1, <1>1a, <1>2, NameGrows
<1> HIDE DEF ds, p, n
<1>7. Last(ds) = ds[Len(ds)]
  BY DEF Last
<1>8. CASE p = "/"
  <2>1. Len(Last(ds)) = 0 /\ Last(ds) # Up
    BY <1>4, <1>8, NoStepUp
  <2>2. \A k \in (m + 1)..(n + 1) : ds[k] # Up
    BY <1>4, <1>5, <1>7, <1>8, <2>1
  <2>3. \A k \in 1..m : ds[k] = dir[k]
    BY <1>4, <1>5, <1>8
  <2>4. QED BY <1>4, <1>5, <1>8, <2>1, <2>2, <2>3 DEF Opened, ds, p, path
<1>9. CASE p # "/"
  <2> DEFINE c == Last(ds)
  <2>1. c \in Seq(Words) /\ Len(c) = Len(Last(cs)) + 1 /\ Len(Last(cs)) \in Nat
    <3> DEFINE lc == Last(cs)
    <3>1. lc \in Seq(Words) /\ c = Append(lc, p)
      BY <1>4, <1>9
    <3> HIDE DEF lc, c
    <3>2. QED BY <1>3, <3>1, AppendProperties, LenProperties DEF lc
  <2>2. Len(c) <= (i + 1) - s
    BY <1>5, <2>1
  <2>3. c # Up
    <3> SUFFICES ASSUME c = Up PROVE FALSE
      OBVIOUS
    <3>1. Len(c) = 2 /\ c[1] = "." /\ c[2] = "."
      BY DEF Up
    <3>2. c[1] = path[(i + 1) - 2 + 1] /\ c[2] = path[(i + 1) - 2 + 2]
      <4> HIDE DEF c
      <4>1. Names(c, path, i + 1)
        BY <1>6 DEF c
      <4>2. 1 \in 1..Len(c) /\ 2 \in 1..Len(c)
        BY <3>1
      <4>3. QED BY <3>1, <4>1, <4>2 DEF Names
    <3>3. path[i] = "." /\ path[i + 1] = "."
      <4>1. (i + 1) - 2 + 1 = i /\ (i + 1) - 2 + 2 = i + 1
        OBVIOUS
      <4>2. QED BY <3>1, <3>2, <4>1
    <3>4. /\ i > r /\ i \in 1..(r + Len(rest)) /\ i + 1 \in 1..(r + Len(rest))
          /\ i - r \in 1..(Len(rest) - 1) /\ (i + 1) - r = (i - r) + 1
      BY <1>1, <1>2, <2>2, <3>1
    <3>5. rest[i - r] = "." /\ rest[(i - r) + 1] = "."
      BY <1>1, <3>3, <3>4
    <3>6. QED BY <3>4, <3>5 DEF Rest
  <2>4. \A k \in (m + 1)..n : ds[k] # Up
    <3> SUFFICES ASSUME NEW k \in (m + 1)..n PROVE ds[k] # Up
      OBVIOUS
    <3>1. CASE k = n
      BY <1>4, <1>7, <1>9, <2>3, <3>1
    <3>2. CASE k # n
      <4>1. k \in 1..(n - 1)
        BY <1>4, <3>2
      <4>2. QED BY <1>4, <1>5, <1>9, <4>1
    <3>3. QED BY <3>1, <3>2
  <2>5. \A k \in 1..m : ds[k] = dir[k]
    <3>1. \A k \in 1..m : k \in 1..(n - 1)
      BY <1>4, <1>5
    <3>2. QED BY <1>4, <1>5, <1>9, <3>1
  <2>6. QED BY <1>4, <1>5, <1>9, <2>2, <2>4, <2>5 DEF Opened, ds, p, path
<1>10. QED BY <1>8, <1>9

(* Once opened, a path stays so to its end. *)
LEMMA OpenedToEnd ==
  ASSUME NEW root \in Seq(Words), NEW rest, Rest(rest, root),
         NEW u, Cut(u, root \o rest),
         NEW dir \in Texts \ {<<>>}, NEW m \in Nat,
         NEW s \in Nat, s >= Len(root), s <= Len(root) + Len(rest),
         Opened(u[s], dir, m, s, s)
  PROVE  Opened(u[Len(root) + Len(rest)], dir, m, Len(root) + Len(rest), s)
<1> DEFINE path == root \o rest
           n == Len(root) + Len(rest)
           K == {d \in Nat : s + d <= n => Opened(u[s + d], dir, m, s + d, s)}
<1>1. Len(root) \in Nat /\ Len(rest) \in Nat /\ path \in Seq(Words) /\ Len(path) = n
  BY LenProperties, ConcatProperties DEF Rest
<1>2. Cut(u, path) /\ \A i \in 0..n : Names(Last(u[i]), path, i)
  <2> HIDE DEF n, path
  <2>1. Cut(u, path)
    BY DEF path
  <2>2. QED BY <1>1, <2>1, CutNames
<1>3. n \in Nat /\ s <= n
  BY <1>1
<1>4. 0 \in K
  BY <1>3
<1>5. \A d \in K : d + 1 \in K
  <2> SUFFICES ASSUME NEW d \in Nat, Opened(u[s + d], dir, m, s + d, s), s + (d + 1) <= n
               PROVE  Opened(u[s + (d + 1)], dir, m, s + (d + 1), s)
    BY <1>3
  <2> DEFINE i == s + d
  <2>1. /\ i \in Nat /\ i >= s /\ i + 1 = s + (d + 1) /\ i + 1 <= n
        /\ i \in 0..n /\ i + 1 \in 1..n /\ (i + 1) - 1 = i
    BY <1>3
  <2>2. Opened(u[i], dir, m, i, s)
    OBVIOUS
  <2> HIDE DEF i
  <2>3. u[i] \in Texts \ {<<>>} /\ u[i + 1] = AddPiece(u[i], path[i + 1])
    <3> HIDE DEF path, n
    <3>1. QED BY <1>1, <1>2, <2>1 DEF Cut
  <2>4. Names(Last(u[i]), path, i)
    BY <1>2, <2>1
  <2>5. Opened(AddPiece(u[i], path[i + 1]), dir, m, i + 1, s)
    BY <2>1, <2>2, <2>3, <2>4, OpenedGrows
  <2>6. QED BY <2>1, <2>3, <2>5
<1> HIDE DEF K
<1>6. K \in SUBSET Nat
  BY DEF K
<1>7. \A d \in Nat : d \in K
  BY <1>4, <1>5, <1>6, Count
<1>8. n - s \in K /\ s + (n - s) = n
  BY <1>3, <1>7
<1>9. QED BY <1>8 DEF K

LEMMA PathBelow ==
  ASSUME NEW root \in Seq(Words), root # <<>>, NEW rest, Rest(rest, root)
  PROVE  /\ Components(root \o rest) \in Texts \ {<<>>}
         /\ Components(root) \in Texts \ {<<>>}
         /\ \E m \in Nat : Below(Components(root \o rest), Components(root), m)
<1> DEFINE path == root \o rest
           r == Len(root)
           n == r + Len(rest)
<1>1. r \in Nat \ {0} /\ Len(rest) \in Nat /\ rest \in Seq(Words) /\ path \in Seq(Words) /\ Len(path) = n
  BY LenProperties, ConcatProperties, EmptySeq DEF Rest
<1>2. PICK u : Cut(u, path) /\ Components(path) = u[Len(path)]
  <2> HIDE DEF path, n
  <2>1. QED BY <1>1, ComponentsFold
<1>3. PICK v : Cut(v, root) /\ Components(root) = v[r]
  BY ComponentsFold
<1> DEFINE dir == v[r]
           cs == u[n]
<1>4. u[r] = dir /\ dir \in Texts \ {<<>>} /\ cs \in Texts \ {<<>>}
  <2>1. u[r] = v[r]
    BY <1>1, <1>2, <1>3, SameCut
  <2>2. v[r] \in Texts \ {<<>>}
    BY <1>1, <1>3 DEF Cut
  <2>3. n \in 0..Len(path)
    BY <1>1
  <2>4. u[n] \in Texts \ {<<>>}
    BY <1>2, <2>3 DEF Cut
  <2>5. QED BY <2>1, <2>2, <2>4
<1> DEFINE L == Len(dir)
<1>5. L \in Nat \ {0} /\ Last(dir) = dir[L]
  BY <1>4, WithoutLast DEF Last, Texts
<1>6. ASSUME NEW m \in Nat, m <= L, NEW s \in Nat, s >= r, s <= n, Opened(u[s], dir, m, s, s),
             \A k \in (m + 1)..L : dir[k] = <<>>
      PROVE  Below(cs, dir, m)
  <2>1. Cut(u, root \o rest)
    BY <1>2
  <2> HIDE DEF dir, path
  <2>2. Opened(cs, dir, m, n, s)
    BY <1>4, <1>6, <2>1, OpenedToEnd
  <2>3. Len(cs) \in Nat
    BY <1>4, LenProperties DEF Texts
  <2> HIDE DEF cs
  <2>4. QED BY <1>5, <1>6, <2>2, <2>3 DEF Opened, Below
<1>7. CASE Last(root) = "/"
  <2> DEFINE m == L - 1
  <2>1. m \in Nat /\ m + 1 = L /\ m <= L
    BY <1>5
  <2>2. Last(dir) = <<>>
    <3>1. root[r] = "/" /\ r \in 1..r /\ r - 1 \in 0..r
      BY <1>1, <1>7 DEF Last
    <3>2. v[r] = AddPiece(v[r - 1], "/") /\ v[r - 1] \in Texts \ {<<>>}
      BY <1>3, <3>1 DEF Cut
    <3>3. "/" \in Words
      BY DEF Words
    <3>4. QED BY <3>2, <3>3, PieceAdded
  <2>3. Last(dir) # Up /\ Len(Last(dir)) = 0
    BY <2>2, NoStepUp
  <2> HIDE DEF dir, L
  <2>4. \A k \in (m + 1)..L : k = L
    BY <1>5, <2>1
  <2>5. \A k \in (m + 1)..L : dir[k] = <<>> /\ dir[k] # Up
    BY <1>5, <2>2, <2>3, <2>4
  <2>6. Opened(dir, dir, m, r, r)
    <3>1. Len(dir) = L /\ L > m /\ Len(Last(dir)) <= r - r
      BY <1>1, <1>5, <2>1, <2>3 DEF L
    <3>2. QED BY <2>5, <3>1 DEF Opened
  <2>7. r >= r /\ r <= n
    BY <1>1
  <2>8. Below(cs, dir, m)
    BY <1>1, <1>4, <1>6, <2>1, <2>5, <2>6, <2>7
  <2>9. QED BY <1>1, <1>2, <1>3, <1>4, <2>1, <2>8 DEF dir
<1>8. CASE Last(root) # "/"
  <2>1. rest # <<>> /\ rest[1] = "/"
    BY <1>8 DEF Rest
  <2>2. Len(rest) \in Nat \ {0}
    BY <1>1, <2>1, EmptySeq
  <2>3. r + 1 \in 1..n /\ (r + 1) - 1 = r /\ r + 1 \in Nat /\ r + 1 >= r /\ r + 1 <= n
    BY <1>1, <2>2
  <2>4. path[r + 1] = "/"
    <3>1. path[r + 1] = IF r + 1 <= r THEN root[r + 1] ELSE rest[(r + 1) - r]
      BY <1>1, <2>3, ConcatProperties
    <3>2. ~(r + 1 <= r) /\ (r + 1) - r = 1
      BY <1>1
    <3>3. QED BY <2>1, <3>1, <3>2
  <2> DEFINE ds == AddPiece(dir, "/")
  <2>5. u[r + 1] = ds
    <3>1. r + 1 \in 1..Len(path)
      BY <1>1, <2>3
    <3>2. u[r + 1] = AddPiece(u[r], path[r + 1])
      BY <1>2, <2>3, <3>1 DEF Cut
    <3>3. QED BY <1>4, <2>4, <3>2
  <2>6. /\ Len(ds) = L + 1 /\ Last(ds) = <<>>
        /\ \A k \in 1..L : ds[k] = dir[k]
    <3>1. "/" \in Words
      BY DEF Words
    <3>2. QED BY <1>4, <3>1, PieceAdded
  <2>7. Last(ds) # Up /\ Len(Last(ds)) = 0
    BY <2>6, NoStepUp
  <2> HIDE DEF dir, ds
  <2>8. Last(ds) = ds[L + 1]
    BY <2>6 DEF Last
  <2> HIDE DEF L
  <2>9. \A k \in (L + 1)..Len(ds) : ds[k] # Up
    BY <1>5, <2>6, <2>7, <2>8
  <2>10. Opened(ds, dir, L, r + 1, r + 1)
    BY <1>5, <2>3, <2>6, <2>7, <2>9 DEF Opened
  <2>11. \A k \in (L + 1)..L : dir[k] = <<>>
    BY <1>5
  <2>12. L \in Nat /\ L <= L
    BY <1>5
  <2>13. Below(cs, dir, L)
    BY <1>6, <2>3, <2>5, <2>10, <2>11, <2>12
  <2>14. QED BY <1>1, <1>2, <1>3, <1>4, <2>12, <2>13 DEF dir
<1>9. QED BY <1>7, <1>8

-----------------------------------------------------------------------------
(* Where a path below a directory leads. *)

Starts(s, t) == Len(s) <= Len(t) /\ \A k \in 1..Len(s) : t[k] = s[k]

LEMMA Begins ==
  ASSUME NEW S, NEW s \in Seq(S), NEW t \in Seq(S)
  PROVE  IsPrefix(s, t) <=> Starts(s, t)
<1> DEFINE n == Len(s)
           a == SubSeq(s, 1, n)
           b == SubSeq(t, 1, n)
<1>1. n \in Nat /\ Len(t) \in Nat /\ 1 \in Int /\ n \in Int
  BY LenProperties
<1>2. a \in Seq(S) /\ Len(a) = n /\ \A k \in 1..n : a[k] = s[k]
  <2>1. \A k \in 1..n : s[k] \in S
    BY ElementOfSeq
  <2> HIDE DEF n
  <2>2. /\ a \in Seq(S)
        /\ Len(a) = IF 1 <= n THEN n - 1 + 1 ELSE 0
        /\ \A k \in 1..(n - 1 + 1) : a[k] = s[1 + k - 1]
    BY <1>1, <2>1, SubSeqProperties
  <2>3. QED BY <1>1, <2>2
<1>3. n <= Len(t) => b \in Seq(S) /\ Len(b) = n /\ \A k \in 1..n : b[k] = t[k]
  <2> SUFFICES ASSUME n <= Len(t)
               PROVE  b \in Seq(S) /\ Len(b) = n /\ \A k \in 1..n : b[k] = t[k]
    OBVIOUS
  <2>1. \A k \in 1..n : t[k] \in S
    BY <1>1, ElementOfSeq
  <2> HIDE DEF n
  <2>2. /\ b \in Seq(S)
        /\ Len(b) = IF 1 <= n THEN n - 1 + 1 ELSE 0
        /\ \A k \in 1..(n - 1 + 1) : b[k] = t[1 + k - 1]
    BY <1>1, <2>1, SubSeqProperties
  <2>3. QED BY <1>1, <2>2
<1> HIDE DEF n, a, b
<1>4. n <= Len(t) => (a = b <=> \A k \in 1..n : t[k] = s[k])
  <2> SUFFICES ASSUME n <= Len(t)
               PROVE  a = b <=> \A k \in 1..n : t[k] = s[k]
    OBVIOUS
  <2>1. a = b => \A k \in 1..n : t[k] = s[k]
    BY <1>2, <1>3
  <2>2. (\A k \in 1..n : t[k] = s[k]) => a = b
    BY <1>2, <1>3, SeqEqual
  <2>3. QED BY <2>1, <2>2
<1>5. IsPrefix(s, t) <=> n <= Len(t) /\ a = b
  BY DEF IsPrefix, n, a, b
<1>6. Starts(s, t) <=> n <= Len(t) /\ \A k \in 1..n : t[k] = s[k]
  BY DEF Starts, n
<1>7. QED BY <1>4, <1>5, <1>6

(* Only the first piece tells where a walk starts. *)
LEMMA SameStart ==
  ASSUME NEW root \in Seq(Words), root # <<>>, NEW rest \in Seq(Words)
  PROVE  IsPrefix(<<"/">>, root \o rest) <=> IsPrefix(<<"/">>, root)
<1> DEFINE path == root \o rest
<1>1. Len(root) \in Nat \ {0} /\ Len(rest) \in Nat
  BY LenProperties, EmptySeq
<1>2. /\ path \in Seq(Words) /\ Len(path) = Len(root) + Len(rest)
      /\ \A i \in 1..(Len(root) + Len(rest)) :
           path[i] = IF i <= Len(root) THEN root[i] ELSE rest[i - Len(root)]
  BY ConcatProperties
<1> HIDE DEF path
<1>3. Len(path) >= 1 /\ path[1] = root[1]
  <2>1. 1 \in 1..(Len(root) + Len(rest)) /\ 1 <= Len(root)
    BY <1>1
  <2>2. QED BY <1>1, <1>2, <2>1
<1> DEFINE s == <<"/">>
<1>4. s \in Seq(Words) /\ Len(s) = 1 /\ s[1] = "/"
  <2>1. "/" \in Words
    BY DEF Words
  <2>2. QED BY <2>1, Single
<1> HIDE DEF s
<1>5. \A k \in 1..Len(s) : k = 1
  BY <1>4
<1>6. Starts(s, path) <=> Starts(s, root)
  BY <1>1, <1>3, <1>4, <1>5 DEF Starts
<1>7. QED BY <1>2, <1>4, <1>6, Begins DEF s, path

(* A component that is no step up leads nowhere or further down. *)
LEMMA Descends ==
  ASSUME NEW from \in Texts, NEW at \in Texts, NEW c \in Seq(Words), c # Up, Starts(from, at)
  PROVE  Starts(from, GoTo(at, c))
<1>1. GoTo(at, c) = at \/ GoTo(at, c) = Append(at, c)
  BY DEF GoTo, Up
<1>2. Starts(from, Append(at, c))
  <2> DEFINE further == Append(at, c)
  <2>1. Len(further) = Len(at) + 1 /\ \A k \in 1..Len(at) : further[k] = at[k]
    BY LastAdded DEF Texts
  <2>2. Len(from) \in Nat /\ Len(at) \in Nat
    BY LenProperties DEF Texts
  <2> HIDE DEF further
  <2>3. \A k \in 1..Len(from) : k \in 1..Len(at)
    BY <2>2 DEF Starts
  <2>4. QED BY <2>1, <2>2, <2>3 DEF Starts, further
<1>3. QED BY <1>1, <1>2

LEMMA WaysAgree ==
  ASSUME NEW cs \in Texts, NEW dir \in Texts, NEW m, Below(cs, dir, m),
         NEW from, NEW w, Way(w, from, cs), NEW v, Way(v, from, dir)
  PROVE  w[m] = v[m] /\ v[Len(dir)] = v[m]
<1>1. Len(cs) \in Nat /\ Len(dir) \in Nat
  BY LenProperties DEF Texts
<1>2. /\ m \in Nat /\ m <= Len(cs) /\ m <= Len(dir)
      /\ \A k \in 1..m : cs[k] = dir[k]
      /\ \A k \in (m + 1)..Len(dir) : dir[k] = <<>>
  BY DEF Below
<1> DEFINE K == {i \in Nat : i <= m => w[i] = v[i]}
           J == {i \in Nat : m + i <= Len(dir) => v[m + i] = v[m]}
<1>3. 0 \in K /\ 0 \in J
  BY <1>2 DEF Way
<1>4. \A i \in K : i + 1 \in K
  <2> SUFFICES ASSUME NEW i \in Nat, w[i] = v[i], i + 1 <= m
               PROVE  w[i + 1] = v[i + 1]
    BY <1>2
  <2>1. /\ i + 1 \in 1..Len(cs) /\ i + 1 \in 1..Len(dir) /\ i + 1 \in 1..m
        /\ (i + 1) - 1 = i
    BY <1>1, <1>2
  <2>2. w[i + 1] = GoTo(w[i], cs[i + 1]) /\ v[i + 1] = GoTo(v[i], dir[i + 1])
    BY <2>1 DEF Way
  <2>3. QED BY <1>2, <2>1, <2>2
<1>5. \A i \in J : i + 1 \in J
  <2> SUFFICES ASSUME NEW i \in Nat, v[m + i] = v[m], m + (i + 1) <= Len(dir)
               PROVE  v[m + (i + 1)] = v[m]
    BY <1>1, <1>2
  <2> DEFINE j == m + (i + 1)
  <2>1. j \in 1..Len(dir) /\ j \in (m + 1)..Len(dir) /\ j - 1 = m + i
    BY <1>1, <1>2
  <2> HIDE DEF j
  <2>2. v[j] = GoTo(v[j - 1], dir[j]) /\ dir[j] = <<>>
    BY <1>2, <2>1 DEF Way
  <2>3. v[j] = v[j - 1]
    BY <2>2 DEF GoTo
  <2>4. QED BY <2>1, <2>3 DEF j
<1> HIDE DEF K, J
<1>6. K \in SUBSET Nat /\ J \in SUBSET Nat
  BY DEF K, J
<1>7. \A i \in Nat : i \in K
  BY <1>3, <1>4, <1>6, Count
<1>8. \A i \in Nat : i \in J
  BY <1>3, <1>5, <1>6, Count
<1>9. w[m] = v[m]
  BY <1>2, <1>7 DEF K
<1>10. v[Len(dir)] = v[m]
  <2>1. Len(dir) - m \in J /\ m + (Len(dir) - m) = Len(dir)
    BY <1>1, <1>2, <1>8
  <2>2. QED BY <1>1, <2>1 DEF J
<1>11. QED BY <1>9, <1>10

LEMMA StaysBelow ==
  ASSUME NEW cs \in Texts, NEW dir \in Texts, NEW m, Below(cs, dir, m),
         NEW from, NEW w, Way(w, from, cs), NEW v, Way(v, from, dir)
  PROVE  Starts(v[Len(dir)], w[Len(cs)])
<1>1. Len(cs) \in Nat /\ \A i \in 1..Len(cs) : cs[i] \in Seq(Words)
  BY LenProperties, ElementOfSeq DEF Texts
<1>2. /\ m \in Nat /\ m <= Len(cs)
      /\ \A k \in (m + 1)..Len(cs) : cs[k] # Up
  BY DEF Below
<1> DEFINE K == {i \in Nat : m + i <= Len(cs) => Starts(w[m], w[m + i])}
<1>3. 0 \in K
  <2>1. Starts(w[m], w[m])
    <3>1. m \in 0..Len(cs)
      BY <1>1, <1>2
    <3>2. w[m] \in Texts
      BY <3>1 DEF Way
    <3>3. Len(w[m]) \in Nat
      BY <3>2, LenProperties DEF Texts
    <3>4. QED BY <3>3 DEF Starts
  <2>2. QED BY <1>2, <2>1
<1>4. \A i \in K : i + 1 \in K
  <2> SUFFICES ASSUME NEW i \in Nat, Starts(w[m], w[m + i]), m + (i + 1) <= Len(cs)
               PROVE  Starts(w[m], w[m + (i + 1)])
    BY <1>1, <1>2
  <2> DEFINE j == m + (i + 1)
  <2>1. /\ j \in 1..Len(cs) /\ j \in (m + 1)..Len(cs) /\ j - 1 = m + i
        /\ m \in 0..Len(cs) /\ m + i \in 0..Len(cs)
    BY <1>1, <1>2
  <2> HIDE DEF j
  <2>2. w[j] = GoTo(w[m + i], cs[j]) /\ w[m] \in Texts /\ w[m + i] \in Texts
    BY <2>1 DEF Way
  <2>3. cs[j] \in Seq(Words) /\ cs[j] # Up
    BY <1>1, <1>2, <2>1
  <2>4. Starts(w[m], w[j])
    BY <2>2, <2>3, Descends
  <2>5. QED BY <2>4 DEF j
<1> HIDE DEF K
<1>5. K \in SUBSET Nat
  BY DEF K
<1>6. \A i \in Nat : i \in K
  BY <1>3, <1>4, <1>5, Count
<1>7. Len(cs) - m \in K /\ m + (Len(cs) - m) = Len(cs)
  BY <1>1, <1>2, <1>6
<1>8. Starts(w[m], w[Len(cs)])
  BY <1>1, <1>7 DEF K
<1>9. QED BY <1>8, WaysAgree

LEMMA RestIsInside ==
  ASSUME NEW root \in Seq(Words), root # <<>>, NEW rest, Rest(rest, root)
  PROVE  Inside(root \o rest, root)
<1> DEFINE path == root \o rest
           cs == Components(path)
           dir == Components(root)
<1>1. cs \in Texts \ {<<>>} /\ dir \in Texts \ {<<>>} /\ \E m \in Nat : Below(cs, dir, m)
  BY PathBelow
<1>2. IsPrefix(<<"/">>, path) <=> IsPrefix(<<"/">>, root)
  BY SameStart DEF Rest
<1>3. StartOf(path) = StartOf(root)
  BY <1>2 DEF StartOf
<1> DEFINE from == StartOf(root)
<1>4. PICK m \in Nat : Below(cs, dir, m)
  BY <1>1
<1> HIDE DEF path, cs, dir
<1>5. PICK w : Way(w, from, cs) /\ Walk(path) = w[Len(cs)]
  BY <1>1, <1>3, WalkFold DEF cs
<1>6. PICK v : Way(v, from, dir) /\ Walk(root) = v[Len(dir)]
  BY <1>1, WalkFold DEF dir
<1>7. Walk(path) \in Texts /\ Walk(root) \in Texts
  <2>1. Len(cs) \in Nat /\ Len(dir) \in Nat
    BY <1>1, LenProperties DEF Texts
  <2>2. Len(cs) \in 0..Len(cs) /\ Len(dir) \in 0..Len(dir)
    BY <2>1
  <2>3. QED BY <1>5, <1>6, <2>2 DEF Way
<1>8. Starts(Walk(root), Walk(path))
  <2> HIDE DEF from
  <2>1. Starts(v[Len(dir)], w[Len(cs)])
    BY <1>1, <1>4, <1>5, <1>6, StaysBelow
  <2>2. QED BY <1>5, <1>6, <2>1
<1>9. IsPrefix(Walk(root), Walk(path))
  BY <1>7, <1>8, Begins DEF Texts
<1>10. QED BY <1>2, <1>9 DEF Inside, path

(* Whatever the directory and the legal target, the path that is opened leads
   into the directory: handle_request refuses a target with two dots in a row,
   and path_cat sets it off by a separator. *)
THEOREM NoWayOut == Spec => []StaysInside
<1>1. TypeOK => StaysInside
  <2> SUFFICES ASSUME TypeOK, Legal(target), NEW root \in Roots
               PROVE  Inside(PathOf(root, target), root)
    BY DEF StaysInside
  <2>1. root \in Seq(Words) /\ root # <<>> /\ target \in Seq(Words)
    BY RootIsPath, TargetIsPath
  <2>2. PICK rest : Rest(rest, root) /\ PathOf(root, target) = root \o rest
    BY <2>1, PathShape
  <2>3. QED BY <2>1, <2>2, RestIsInside
<1>2. QED BY <1>1, TextTypeCorrect, PTL

-----------------------------------------------------------------------------
(* url_decode, from the end of its input to the beginning. *)

Decoded(f, input, i) ==
  IF i > Len(input) THEN <<>>
  ELSE IF Escape(input, i)
  THEN <<16 * HexValue(input[i + 1]) + HexValue(input[i + 2])>> \o f[i + 3]
  ELSE IF input[i] = 43 THEN <<32>> \o f[i + 1]
  ELSE <<input[i]>> \o f[i + 1]

(* One byte is what a pair of digits stands for. *)
LEMMA PairIsByte ==
  ASSUME NEW c \in HexDigit, NEW d \in HexDigit
  PROVE  16 * HexValue(c) + HexValue(d) \in Byte
<1>1. HexValue(c) \in 0..15 /\ HexValue(d) \in 0..15
  BY DEF HexDigit, HexValue
<1>2. QED BY <1>1 DEF Byte

LEMMA DecodedType ==
  ASSUME NEW input \in Seq(Byte), NEW i \in 1..(Len(input) + 3),
         NEW f \in [1..(Len(input) + 3) -> Seq(Byte)]
  PROVE  Decoded(f, input, i) \in Seq(Byte)
<1>1. Len(input) \in Nat
  BY LenProperties
<1>2. CASE i > Len(input)
  BY <1>2, EmptySeq DEF Decoded
<1>3. CASE i <= Len(input)
  <2>1. /\ i + 1 \in 1..(Len(input) + 3) /\ i + 3 \in 1..(Len(input) + 3)
        /\ i \in 1..Len(input)
    BY <1>1, <1>3
  <2>2. f[i + 1] \in Seq(Byte) /\ f[i + 3] \in Seq(Byte) /\ input[i] \in Byte /\ 32 \in Byte
    <3>1. f[i + 1] \in Seq(Byte) /\ f[i + 3] \in Seq(Byte)
      BY <2>1
    <3>2. input[i] \in Byte
      BY <2>1, ElementOfSeq
    <3>3. 32 \in Byte
      BY DEF Byte
    <3>4. QED BY <3>1, <3>2, <3>3
  <2>3. Escape(input, i) =>
          16 * HexValue(input[i + 1]) + HexValue(input[i + 2]) \in Byte
    BY PairIsByte DEF Escape
  <2>4. \A b \in Byte, rest \in Seq(Byte) : <<b>> \o rest \in Seq(Byte)
    <3> SUFFICES ASSUME NEW b \in Byte, NEW rest \in Seq(Byte) PROVE <<b>> \o rest \in Seq(Byte)
      OBVIOUS
    <3>1. <<b>> \in Seq(Byte)
      BY Single
    <3>2. QED BY <3>1, ConcatProperties
  <2>5. ~(i > Len(input))
    BY <1>1, <1>3
  <2>6. QED BY <2>2, <2>3, <2>4, <2>5 DEF Decoded
<1>4. QED BY <1>1, <1>2, <1>3

(* There is such a function, which is the one that url_decode follows. *)
LEMMA DecodedExists ==
  ASSUME NEW input \in Seq(Byte)
  PROVE  \E f : f = [i \in 1..(Len(input) + 3) |-> Decoded(f, input, i)]
<1> DEFINE n == Len(input)
           D == 1..(n + 3)
           Good(g, k) == \A i \in (n + 1 - k)..(n + 3) : g[i] = Decoded(g, input, i)
           Exists(k) == \E g \in [D -> Seq(Byte)] : Good(g, k)
           K == {k \in Nat : k <= n => Exists(k)}
<1>1. n \in Nat
  BY LenProperties
<1>2. 0 \in K
  <2> DEFINE g == [i \in D |-> <<>>]
  <2>1. g \in [D -> Seq(Byte)]
    BY EmptySeq
  <2>2. \A i \in (n + 1)..(n + 3) : i > n /\ i \in D
    BY <1>1
  <2>3. \A i \in (n + 1)..(n + 3) : g[i] = Decoded(g, input, i)
    BY <2>2 DEF Decoded
  <2> HIDE DEF g
  <2>4. Good(g, 0)
    BY <1>1, <2>3
  <2> HIDE DEF Good
  <2>5. QED BY <2>1, <2>4
<1>3. ASSUME NEW k \in Nat, k + 1 <= n, Exists(k)
      PROVE  Exists(k + 1)
  <2>1. PICK g \in [D -> Seq(Byte)] : Good(g, k)
    BY <1>3
  <2> DEFINE j == n - k
             x == Decoded(g, input, j)
             h == [g EXCEPT ![j] = x]
  <2>2. j \in 1..n /\ j \in 1..(n + 3) /\ n + 1 - (k + 1) = j
    BY <1>1, <1>3
  <2>3. x \in Seq(Byte)
    <3> HIDE DEF j
    <3>1. QED BY <2>2, DecodedType
  <2> HIDE DEF j, x
  <2>4. /\ h \in [D -> Seq(Byte)] /\ h[j] = x
        /\ \A i \in D : i > j => h[i] = g[i]
    BY <1>1, <2>2, <2>3
  <2>5. ASSUME NEW i \in j..(n + 3)
        PROVE  h[i] = Decoded(h, input, i)
    <3>1. i \in D /\ i + 1 > j /\ i + 3 > j
      BY <1>1, <2>2
    <3>2. i <= n => i + 1 \in D /\ i + 3 \in D
      BY <1>1, <2>2
    <3>3. i <= n => h[i + 1] = g[i + 1] /\ h[i + 3] = g[i + 3]
      BY <2>4, <3>1, <3>2
    <3>4. i > n \/ i <= n
      BY <1>1, <3>1
    <3> HIDE DEF h
    <3>5. Decoded(h, input, i) = Decoded(g, input, i)
      <4>1. CASE i > n
        BY <4>1 DEF Decoded
      <4>2. CASE i <= n
        BY <3>3, <4>2 DEF Decoded
      <4>3. QED BY <3>4, <4>1, <4>2
    <3>6. CASE i = j
      BY <2>4, <3>5, <3>6 DEF x
    <3>7. CASE i # j
      <4>1. i > j /\ i \in (n + 1 - k)..(n + 3)
        BY <1>1, <1>3, <2>2, <3>7
      <4>2. QED BY <2>1, <2>4, <3>1, <3>5, <4>1
    <3>8. QED BY <3>6, <3>7
  <2> HIDE DEF h
  <2>6. Good(h, k + 1)
    BY <2>2, <2>5
  <2> HIDE DEF Good
  <2>7. QED BY <2>4, <2>6
<1> HIDE DEF Exists
<1>4. \A k \in K : k + 1 \in K
  BY <1>1, <1>3
<1> HIDE DEF K
<1>5. K \in SUBSET Nat
  BY DEF K
<1>6. \A k \in Nat : k \in K
  BY <1>2, <1>4, <1>5, Count
<1>7. Exists(n)
  BY <1>1, <1>6 DEF K
<1>8. PICK g \in [D -> Seq(Byte)] : Good(g, n)
  BY <1>7 DEF Exists
<1>9. \A i \in D : g[i] = Decoded(g, input, i)
  BY <1>1, <1>8
<1> HIDE DEF D, Good
<1>10. g = [i \in D |-> Decoded(g, input, i)]
  BY <1>9
<1>11. QED BY <1>10 DEF D

(* The characters behind the a-th, up to the b-th, stand for the byte c. *)
Chunk(input, a, b, c) ==
  /\ b <= Len(input)
  /\ \/ b = a + 1 /\ input[b] \notin {37, 43} /\ c = input[b]
     \/ b = a + 1 /\ input[b] = 43 /\ c = 32
     \/ /\ b = a + 3 /\ input[a + 1] = 37
        /\ input[a + 2] \in HexDigit /\ input[a + 3] \in HexDigit
        /\ c = 16 * HexValue(input[a + 2]) + HexValue(input[a + 3])

(* An input that can be cut into such chunks, one for every byte of s. *)
Chunked(input, s, p) ==
  /\ p \in [0..Len(s) -> Nat]
  /\ p[0] = 0 /\ p[Len(s)] = Len(input)
  /\ \A j \in 1..Len(s) : Chunk(input, p[j - 1], p[j], s[j])

LEMMA ChunkDecoded ==
  ASSUME NEW input \in Seq(Byte), NEW a \in Nat, NEW b \in Nat, NEW c, Chunk(input, a, b, c), NEW f
  PROVE  Decoded(f, input, a + 1) = <<c>> \o f[b + 1]
<1>1. Len(input) \in Nat
  BY LenProperties
<1>2. CASE b = a + 1 /\ input[b] # 37
  <2>1. ~(a + 1 > Len(input)) /\ ~Escape(input, a + 1)
    BY <1>1, <1>2 DEF Chunk, Escape
  <2>2. Decoded(f, input, a + 1) =
          IF input[b] = 43 THEN <<32>> \o f[b + 1] ELSE <<input[b]>> \o f[b + 1]
    BY <1>2, <2>1 DEF Decoded
  <2>3. c = IF input[b] = 43 THEN 32 ELSE input[b]
    <3>1. b # a + 3
      BY <1>2
    <3>2. QED BY <3>1 DEF Chunk
  <2>4. QED BY <2>2, <2>3
<1>3. CASE /\ b = a + 3 /\ b <= Len(input) /\ input[a + 1] = 37
           /\ input[a + 2] \in HexDigit /\ input[a + 3] \in HexDigit
           /\ c = 16 * HexValue(input[a + 2]) + HexValue(input[a + 3])
  <2> DEFINE k == a + 1
  <2>1. ~(k > Len(input)) /\ k + 1 = a + 2 /\ k + 2 = a + 3 /\ k + 3 = b + 1
    BY <1>1, <1>3
  <2> HIDE DEF k
  <2>2. Escape(input, k)
    BY <1>3, <2>1 DEF Escape, k
  <2>3. QED BY <1>3, <2>1, <2>2 DEF Decoded, k
<1>4. QED BY <1>2, <1>3 DEF Chunk

LEMMA ChunksDecoded ==
  ASSUME NEW input \in Seq(Byte), NEW s \in Seq(Byte), NEW p, Chunked(input, s, p)
  PROVE  url_decode(input) = s
<1> DEFINE n == Len(s)
           N == Len(input)
           Sat(f) == f = [i \in 1..(Len(input) + 3) |-> Decoded(f, input, i)]
           from == CHOOSE f : Sat(f)
<1>1. n \in Nat /\ N \in Nat
  BY LenProperties
<1>2. url_decode(input) = from[1]
  BY DEF url_decode, Decoded
<1>3. Sat(from)
  <2>1. \E f : Sat(f)
    BY DecodedExists
  <2> HIDE DEF Sat
  <2>2. QED BY <2>1
<1> HIDE DEF from
<1>4. \A i \in 1..(N + 3) : from[i] = Decoded(from, input, i)
  BY <1>3
<1> HIDE DEF Sat
<1> DEFINE K == {k \in Nat : k <= n => from[p[n - k] + 1] = SubSeq(s, n - k + 1, n)}
<1>5. 0 \in K
  <2>1. p[n] = N /\ N + 1 \in 1..(N + 3) /\ N + 1 > N
    BY <1>1 DEF Chunked
  <2>2. from[N + 1] = <<>>
    BY <1>4, <2>1 DEF Decoded
  <2>3. SubSeq(s, n + 1, n) = <<>>
    BY <1>1, SubSeqEmpty
  <2>4. n - 0 = n
    BY <1>1
  <2> HIDE DEF n, N
  <2>5. QED BY <2>1, <2>2, <2>3, <2>4
<1>6. \A k \in K : k + 1 \in K
  <2> SUFFICES ASSUME NEW k \in Nat, from[p[n - k] + 1] = SubSeq(s, n - k + 1, n), k + 1 <= n
               PROVE  from[p[n - (k + 1)] + 1] = SubSeq(s, n - (k + 1) + 1, n)
    BY <1>1
  <2> DEFINE j == n - k
  <2>1. j \in 1..n /\ n - (k + 1) = j - 1 /\ n - (k + 1) + 1 = j /\ j - 1 \in 0..n /\ j \in 0..n
    BY <1>1
  <2>2. from[p[j] + 1] = SubSeq(s, j + 1, n)
    OBVIOUS
  <2> HIDE DEF j
  <2>3. p[j - 1] \in Nat /\ p[j] \in Nat /\ Chunk(input, p[j - 1], p[j], s[j])
    BY <2>1 DEF Chunked
  <2> DEFINE a == p[j - 1]
             b == p[j]
             c == s[j]
  <2>4. a \in Nat /\ b \in Nat /\ Chunk(input, a, b, c)
    BY <2>3
  <2> HIDE DEF a, b, c
  <2>5. from[a + 1] = <<c>> \o from[b + 1]
    <3>1. b <= N /\ (b = a + 1 \/ b = a + 3)
      BY <2>4 DEF Chunk
    <3> HIDE DEF N
    <3>2. a + 1 \in 1..(N + 3)
      BY <1>1, <2>4, <3>1
    <3>3. from[a + 1] = Decoded(from, input, a + 1)
      BY <1>4, <3>2
    <3>4. Decoded(from, input, a + 1) = <<c>> \o from[b + 1]
      BY <2>4, ChunkDecoded
    <3>5. QED BY <3>3, <3>4
  <2>6. SubSeq(s, j, n) = <<s[j]>> \o SubSeq(s, j + 1, n)
    <3>1. n \in j..Len(s) /\ j \in 1..Len(s)
      BY <1>1, <2>1
    <3>2. QED BY <3>1, SubSeqRecursiveFirst
  <2> HIDE DEF n
  <2>7. QED BY <2>1, <2>2, <2>5, <2>6 DEF a, b, c
<1> HIDE DEF K
<1>7. K \in SUBSET Nat
  BY DEF K
<1>8. \A k \in Nat : k \in K
  BY <1>5, <1>6, <1>7, Count
<1>9. from[1] = SubSeq(s, 1, n)
  <2>1. n \in K /\ n - n = 0 /\ n - n + 1 = 1 /\ p[0] = 0 /\ 0 + 1 = 1 /\ n <= n
    BY <1>1, <1>8 DEF Chunked
  <2> HIDE DEF n
  <2>2. QED BY <2>1 DEF K
<1>10. QED BY <1>2, <1>9, SubSeqFull

-----------------------------------------------------------------------------
(* Sequences joined one after the other. *)

(* w is what has been joined so far. *)
Joins(w, S, seqs) ==
  /\ w \in [0..Len(seqs) -> Seq(S)]
  /\ w[0] = <<>>
  /\ \A i \in 1..Len(seqs) : w[i] = w[i - 1] \o seqs[i]

LEMMA JoinsExist ==
  ASSUME NEW S, NEW seqs \in Seq(Seq(S))
  PROVE  \E w : Joins(w, S, seqs)
<1> DEFINE n == Len(seqs)
           V == Seq(S)
           base == <<>>
           st == [i \in 1..n |-> [t \in V |-> t \o seqs[i]]]
<1>1. n \in Nat /\ \A i \in 1..n : seqs[i] \in V
  BY LenProperties, ElementOfSeq
<1>2. /\ base \in V
      /\ st \in [1..n -> [V -> V]]
      /\ \A i \in 1..n, t \in V : st[i][t] = t \o seqs[i]
  <2>1. \A i \in 1..n, t \in V : t \o seqs[i] \in V
    BY <1>1, ConcatProperties
  <2>2. base \in V
    BY EmptySeq
  <2> HIDE DEF V, base
  <2>3. QED BY <2>1, <2>2
<1> HIDE DEF st, base, V, n
<1>3. PICK g \in [SUBSET (1..n) -> V] : IsFold(g, n, base, st)
  BY <1>1, <1>2, Fold
<1>4. FoldsIn(g, V, n, base, st)
  BY <1>3 DEF IsFold, FoldsIn
<1>5. Advances(g, V, n, st)
  BY <1>1, <1>2, <1>4, FoldPrefixes
<1> DEFINE w == [i \in 0..n |-> g[1..i]]
<1>6. w \in [0..n -> V]
  BY <1>5 DEF Advances
<1>7. w[0] = base
  <2>1. 1..0 = {} /\ 0 \in 0..n
    BY <1>1
  <2>2. QED BY <1>4, <2>1 DEF FoldsIn
<1>8. \A i \in 1..n : w[i] = w[i - 1] \o seqs[i]
  <2> SUFFICES ASSUME NEW i \in 1..n PROVE w[i] = w[i - 1] \o seqs[i]
    OBVIOUS
  <2>1. i \in 0..n /\ i - 1 \in 0..n
    BY <1>1
  <2>2. g[1..i] = st[i][g[1..(i - 1)]] /\ g[1..(i - 1)] \in V
    BY <1>5, <2>1 DEF Advances
  <2>3. QED BY <1>2, <2>1, <2>2
<1>9. QED BY <1>6, <1>7, <1>8 DEF Joins, n, V, base

LEMMA FlattenJoins ==
  ASSUME NEW S, NEW seqs \in Seq(Seq(S))
  PROVE  \E w : Joins(w, S, seqs) /\ FlattenSeq(seqs) = w[Len(seqs)]
<1> DEFINE n == Len(seqs)
           Sat(f) == f = [i \in 1..n |-> IF i = 1 THEN seqs[i] ELSE f[i - 1] \o seqs[i]]
           flatten == CHOOSE f : Sat(f)
<1>1. n \in Nat /\ \A i \in 1..n : seqs[i] \in Seq(S)
  BY LenProperties, ElementOfSeq
<1>2. PICK w : Joins(w, S, seqs)
  BY JoinsExist
<1>3. n = 0 => FlattenSeq(seqs) = w[n]
  <2>1. n = 0 => seqs = <<>>
    BY EmptySeq
  <2>2. n = 0 => FlattenSeq(seqs) = <<>>
    BY <2>1 DEF FlattenSeq
  <2>3. n = 0 => w[n] = <<>>
    BY <1>2 DEF Joins
  <2>4. QED BY <2>2, <2>3
<1>4. n # 0 => FlattenSeq(seqs) = flatten[n]
  BY DEF FlattenSeq
<1> HIDE DEF n
<1>5. Sat(flatten)
  <2> DEFINE h == [i \in 1..n |-> w[i]]
  <2>1. ASSUME NEW i \in 1..n
        PROVE  w[i] = IF i = 1 THEN seqs[i] ELSE h[i - 1] \o seqs[i]
    <3>1. w[i] = w[i - 1] \o seqs[i] /\ w[0] = <<>>
      BY <1>2 DEF Joins, n
    <3>2. CASE i = 1
      <4>1. i - 1 = 0 /\ w[i] = <<>> \o seqs[i]
        <5>1. i - 1 = 0
          BY <3>2
        <5>2. QED BY <3>1, <5>1
      <4>2. seqs[i] \in Seq(S)
        BY <1>1
      <4>3. QED BY <3>2, <4>1, <4>2, ConcatEmptySeq
    <3>3. CASE i # 1
      <4>1. i - 1 \in 1..n
        BY <1>1, <3>3
      <4>2. QED BY <3>1, <3>3, <4>1
    <3>4. QED BY <3>2, <3>3
  <2>2. Sat(h)
    BY <2>1
  <2> HIDE DEF h, Sat
  <2>3. QED BY <2>2
<1> HIDE DEF flatten
<1> DEFINE K == {i \in Nat : i + 1 <= n => flatten[i + 1] = w[i + 1]}
<1>6. \A i \in 1..n : flatten[i] = IF i = 1 THEN seqs[i] ELSE flatten[i - 1] \o seqs[i]
  BY <1>5
<1> HIDE DEF Sat
<1>7. \A i \in 1..n : w[i] = w[i - 1] \o seqs[i]
  BY <1>2 DEF Joins, n
<1>8. 0 \in K
  <2> SUFFICES ASSUME 1 <= n PROVE flatten[1] = w[1]
    OBVIOUS
  <2>1. 1 \in 1..n /\ 1 - 1 = 0
    BY <1>1
  <2>2. flatten[1] = seqs[1] /\ w[1] = w[0] \o seqs[1] /\ w[0] = <<>>
    BY <1>2, <1>6, <1>7, <2>1 DEF Joins
  <2>3. seqs[1] \in Seq(S)
    BY <1>1, <2>1
  <2>4. w[1] = <<>> \o seqs[1]
    BY <2>2
  <2>5. QED BY <2>2, <2>3, <2>4, ConcatEmptySeq
<1>9. \A i \in K : i + 1 \in K
  <2> SUFFICES ASSUME NEW i \in Nat, i + 1 <= n => flatten[i + 1] = w[i + 1],
                      (i + 1) + 1 <= n
               PROVE  flatten[(i + 1) + 1] = w[(i + 1) + 1]
    BY <1>1
  <2> DEFINE j == (i + 1) + 1
  <2>1. j \in 1..n /\ j # 1 /\ j - 1 = i + 1 /\ i + 1 <= n
    BY <1>1
  <2> HIDE DEF j
  <2>2. flatten[j] = flatten[i + 1] \o seqs[j] /\ w[j] = w[i + 1] \o seqs[j]
    BY <1>6, <1>7, <2>1
  <2>3. QED BY <2>1, <2>2 DEF j
<1> HIDE DEF K
<1>10. K \in SUBSET Nat
  BY DEF K
<1>11. \A i \in Nat : i \in K
  BY <1>8, <1>9, <1>10, Count
<1>12. n # 0 => flatten[n] = w[n]
  <2> SUFFICES ASSUME n # 0 PROVE flatten[n] = w[n]
    OBVIOUS
  <2>1. n - 1 \in K /\ (n - 1) + 1 = n
    BY <1>1, <1>11
  <2>2. QED BY <1>1, <2>1 DEF K
<1>13. FlattenSeq(seqs) = w[n]
  BY <1>3, <1>4, <1>12
<1>14. QED BY <1>2, <1>13 DEF n

(* What has been joined stays where it is. *)
LEMMA JoinedStays ==
  ASSUME NEW S, NEW seqs \in Seq(Seq(S)), NEW w, Joins(w, S, seqs), NEW j \in 0..Len(seqs)
  PROVE  Starts(w[j], w[Len(seqs)])
<1> DEFINE n == Len(seqs)
           K == {d \in Nat : j + d <= n => Starts(w[j], w[j + d])}
<1>1. n \in Nat /\ \A i \in 1..n : seqs[i] \in Seq(S)
  BY LenProperties, ElementOfSeq
<1>2. \A i \in 0..n : w[i] \in Seq(S)
  BY DEF Joins
<1>3. \A i \in 0..n : Len(w[i]) \in Nat
  BY <1>2, LenProperties
<1>4. 0 \in K
  <2>1. Starts(w[j], w[j]) /\ j + 0 = j
    BY <1>1, <1>3 DEF Starts
  <2>2. QED BY <2>1
<1>5. \A d \in K : d + 1 \in K
  <2> SUFFICES ASSUME NEW d \in Nat, Starts(w[j], w[j + d]), j + (d + 1) <= n
               PROVE  Starts(w[j], w[j + (d + 1)])
    BY <1>1
  <2> DEFINE i == j + (d + 1)
  <2>1. i \in 1..n /\ i - 1 = j + d /\ i - 1 \in 0..n
    BY <1>1
  <2>2. Starts(w[j], w[i - 1])
    BY <2>1
  <2> HIDE DEF i
  <2>3. w[i] = w[i - 1] \o seqs[i] /\ w[i - 1] \in Seq(S) /\ seqs[i] \in Seq(S)
    BY <1>1, <1>2, <2>1 DEF Joins
  <2> DEFINE a == w[j]
             b == w[i - 1]
             c == seqs[i]
  <2>4. a \in Seq(S) /\ b \in Seq(S) /\ c \in Seq(S) /\ Starts(a, b)
    BY <1>2, <2>2, <2>3
  <2> HIDE DEF a, b, c
  <2>5. Starts(a, b \o c)
    <3>1. Len(a) \in Nat /\ Len(b) \in Nat /\ Len(c) \in Nat
      BY <2>4, LenProperties
    <3>2. Len(b \o c) = Len(b) + Len(c)
          /\ \A k \in 1..(Len(b) + Len(c)) : (b \o c)[k] = IF k <= Len(b) THEN b[k] ELSE c[k - Len(b)]
      BY <2>4, ConcatProperties
    <3> DEFINE bc == b \o c
    <3> HIDE DEF bc
    <3>3. \A k \in 1..Len(a) : k \in 1..(Len(b) + Len(c)) /\ k <= Len(b)
      BY <2>4, <3>1 DEF Starts
    <3>4. QED BY <2>4, <3>1, <3>2, <3>3 DEF Starts, bc
  <2>6. Starts(w[j], w[i])
    BY <2>3, <2>5 DEF a, b, c
  <2>7. QED BY <2>6 DEF i
<1> HIDE DEF K
<1>6. K \in SUBSET Nat
  BY DEF K
<1>7. \A d \in Nat : d \in K
  BY <1>4, <1>5, <1>6, Count
<1>8. n - j \in K /\ j + (n - j) = n
  BY <1>1, <1>7
<1>9. QED BY <1>1, <1>8 DEF K

-----------------------------------------------------------------------------
(* The usual encoding of a URL parameter is read back. *)

LEMMA DigitOf ==
  ASSUME NEW a \in {65, 97}, NEW k \in 0..15
  PROVE  Hex(k, a) \in HexDigit /\ HexValue(Hex(k, a)) = k /\ Hex(k, a) \in Byte
<1>1. CASE k < 10
  <2>1. Hex(k, a) = 48 + k /\ 48 + k \in 48..57
    BY <1>1 DEF Hex
  <2>2. QED BY <2>1 DEF HexDigit, HexValue, Byte
<1>2. CASE k >= 10
  <2>1. Hex(k, a) = a + k - 10
    BY <1>2 DEF Hex
  <2>2. a = 65 => Hex(k, a) \in 65..70
    BY <1>2, <2>1
  <2>3. a = 97 => Hex(k, a) \in 97..102
    BY <1>2, <2>1
  <2>4. QED BY <1>2, <2>1, <2>2, <2>3 DEF HexDigit, HexValue, Byte
<1>3. QED BY <1>1, <1>2

(* Three characters: a percent sign and the two digits of a byte. *)
Escaped(c, a) == <<37, Hex(c \div 16, a), Hex(c % 16, a)>>

LEMMA EscapedShape ==
  ASSUME NEW a \in {65, 97}, NEW c \in Byte
  PROVE  /\ Escaped(c, a) \in Seq(Byte) /\ Len(Escaped(c, a)) = 3
         /\ Escaped(c, a)[1] = 37
         /\ Escaped(c, a)[2] \in HexDigit /\ Escaped(c, a)[3] \in HexDigit
         /\ 16 * HexValue(Escaped(c, a)[2]) + HexValue(Escaped(c, a)[3]) = c
<1> DEFINE hi == c \div 16
           lo == c % 16
<1>1. hi \in 0..15 /\ lo \in 0..15 /\ 16 * hi + lo = c
  BY DEF Byte
<1> HIDE DEF hi, lo
<1> DEFINE h == Hex(hi, a)
           l == Hex(lo, a)
<1>2. /\ h \in HexDigit /\ HexValue(h) = hi /\ h \in Byte
      /\ l \in HexDigit /\ HexValue(l) = lo /\ l \in Byte
  BY <1>1, DigitOf
<1> HIDE DEF h, l
<1>3. Escaped(c, a) = <<37, h, l>>
  BY DEF Escaped, h, l, hi, lo
<1>4. 37 \in Byte
  BY DEF Byte
<1>5. <<37, h, l>> \in Seq(Byte) /\ Len(<<37, h, l>>) = 3
  BY <1>2, <1>4
<1>6. QED BY <1>1, <1>2, <1>3, <1>5

(* What stands for a byte, wherever it stands. *)
LEMMA CharIsChunk ==
  ASSUME NEW a \in {65, 97}, NEW c \in Byte, NEW input, NEW k \in Nat, NEW m \in Nat,
         UrlChar(c, a) \in Seq(Byte), m = k + Len(UrlChar(c, a)), m <= Len(input),
         \A i \in 1..Len(UrlChar(c, a)) : input[k + i] = UrlChar(c, a)[i]
  PROVE  Chunk(input, k, m, c)
<1> DEFINE u == UrlChar(c, a)
<1>1. CASE c \in Plain
  <2>1. u = <<c>>
    BY <1>1 DEF UrlChar
  <2>2. Len(u) = 1 /\ u[1] = c
    BY <2>1
  <2>3. c \notin {37, 43}
    BY <1>1 DEF Plain
  <2> HIDE DEF u
  <2>4. m = k + 1 /\ input[m] = c
    BY <2>2 DEF u
  <2>5. QED BY <2>3, <2>4 DEF Chunk
<1>2. CASE c \notin Plain /\ c = 32
  <2>1. u = <<43>>
    BY <1>2 DEF UrlChar
  <2>2. Len(u) = 1 /\ u[1] = 43
    BY <2>1
  <2> HIDE DEF u
  <2>3. m = k + 1 /\ input[m] = 43
    BY <2>2 DEF u
  <2>4. QED BY <1>2, <2>3 DEF Chunk
<1>3. CASE c \notin Plain /\ c # 32
  <2>1. u = Escaped(c, a)
    BY <1>3 DEF UrlChar, Escaped
  <2>2. /\ Len(u) = 3 /\ u[1] = 37 /\ u[2] \in HexDigit /\ u[3] \in HexDigit
        /\ 16 * HexValue(u[2]) + HexValue(u[3]) = c
    BY <2>1, EscapedShape
  <2> HIDE DEF u
  <2>3. m = k + 3 /\ \A i \in 1..3 : input[k + i] = u[i]
    BY <2>2 DEF u
  <2>4. input[k + 1] = u[1] /\ input[k + 2] = u[2] /\ input[k + 3] = u[3]
    BY <2>3
  <2>5. QED BY <2>2, <2>3, <2>4 DEF Chunk
<1>4. QED BY <1>1, <1>2, <1>3

LEMMA UrlCharType ==
  ASSUME NEW a \in {65, 97}, NEW c \in Byte
  PROVE  UrlChar(c, a) \in Seq(Byte)
<1>1. CASE c \in Plain
  BY <1>1, Single DEF UrlChar
<1>2. CASE c \notin Plain /\ c = 32
  <2>1. 43 \in Byte
    BY DEF Byte
  <2>2. QED BY <1>2, <2>1, Single DEF UrlChar
<1>3. CASE c \notin Plain /\ c # 32
  <2>1. UrlChar(c, a) = Escaped(c, a)
    BY <1>3 DEF UrlChar, Escaped
  <2>2. QED BY <2>1, EscapedShape
<1>4. QED BY <1>1, <1>2, <1>3

LEMMA UrlTextDecoded ==
  ASSUME NEW a \in {65, 97}, NEW s \in Seq(Byte)
  PROVE  UrlText(s, a) \in Seq(Byte) /\ url_decode(UrlText(s, a)) = s
<1> DEFINE n == Len(s)
           seqs == [i \in 1..n |-> UrlChar(s[i], a)]
           input == UrlText(s, a)
<1>1. n \in Nat /\ \A i \in 1..n : s[i] \in Byte /\ UrlChar(s[i], a) \in Seq(Byte)
  BY LenProperties, ElementOfSeq, UrlCharType
<1>2. seqs \in Seq(Seq(Byte)) /\ Len(seqs) = n /\ \A i \in 1..n : seqs[i] = UrlChar(s[i], a)
  <2> HIDE DEF n
  <2>1. QED BY <1>1
<1>3. input = FlattenSeq(seqs)
  BY DEF UrlText
<1> HIDE DEF seqs, input
<1>4. PICK w : Joins(w, Byte, seqs) /\ input = w[n]
  BY <1>2, <1>3, FlattenJoins
<1> HIDE DEF n
<1>5. \A j \in 0..n : w[j] \in Seq(Byte) /\ Len(w[j]) \in Nat /\ Starts(w[j], input)
  <2>1. \A j \in 0..n : Starts(w[j], input)
    BY <1>2, <1>4, JoinedStays
  <2>2. \A j \in 0..n : w[j] \in Seq(Byte)
    BY <1>2, <1>4 DEF Joins
  <2>3. QED BY <2>1, <2>2, LenProperties
<1>6. input \in Seq(Byte)
  BY <1>1, <1>4, <1>5
<1> DEFINE p == [j \in 0..n |-> Len(w[j])]
<1>7. p \in [0..n -> Nat] /\ p[n] = Len(input) /\ p[0] = 0
  <2>1. 0 \in 0..n /\ n \in 0..n /\ w[0] = <<>>
    BY <1>1, <1>4 DEF Joins
  <2>2. QED BY <1>4, <1>5, <2>1
<1>8. ASSUME NEW j \in 1..n
      PROVE  Chunk(input, p[j - 1], p[j], s[j])
  <2> DEFINE t == w[j - 1]
             v == w[j]
             c == s[j]
             u == UrlChar(c, a)
  <2>1. j - 1 \in 0..n /\ j \in 0..n
    BY <1>1
  <2>2. v = t \o u
    <3>1. w[j] = w[j - 1] \o seqs[j]
      BY <1>2, <1>4 DEF Joins
    <3>2. seqs[j] = UrlChar(s[j], a)
      BY <1>2
    <3>3. QED BY <3>1, <3>2
  <2>3. /\ t \in Seq(Byte) /\ Len(t) \in Nat /\ u \in Seq(Byte) /\ c \in Byte
        /\ Len(v) \in Nat /\ Starts(v, input)
    BY <1>1, <1>5, <2>1
  <2>4. p[j - 1] = Len(t) /\ p[j] = Len(v)
    BY <2>1
  <2> HIDE DEF t, v, c, p
  <2>5. /\ Len(v) = Len(t) + Len(u) /\ Len(u) \in Nat
        /\ \A i \in 1..Len(u) : v[Len(t) + i] = u[i]
    <3> DEFINE x == UrlChar(c, a)
    <3> HIDE DEF x
    <3>1. /\ x \in Seq(Byte) /\ Len(t \o x) = Len(t) + Len(x) /\ Len(x) \in Nat
          /\ \A i \in 1..(Len(t) + Len(x)) : (t \o x)[i] = IF i <= Len(t) THEN t[i] ELSE x[i - Len(t)]
      BY <2>3, ConcatProperties, LenProperties DEF x
    <3>2. \A i \in 1..Len(x) : /\ Len(t) + i \in 1..(Len(t) + Len(x))
                               /\ ~(Len(t) + i <= Len(t)) /\ (Len(t) + i) - Len(t) = i
      BY <2>3, <3>1
    <3>3. \A i \in 1..Len(x) : (t \o x)[Len(t) + i] = x[i]
      BY <3>1, <3>2
    <3>4. QED BY <2>2, <3>1, <3>3 DEF x
  <2>6. /\ Len(v) <= Len(input)
        /\ \A i \in 1..Len(u) : input[Len(t) + i] = u[i]
    <3>1. \A i \in 1..Len(u) : Len(t) + i \in 1..Len(v)
      BY <2>3, <2>5
    <3>2. QED BY <2>3, <2>5, <3>1 DEF Starts
  <2>7. Chunk(input, Len(t), Len(v), c)
    BY <2>3, <2>5, <2>6, CharIsChunk
  <2>8. QED BY <2>4, <2>7 DEF c
<1>9. Chunked(input, s, p)
  <2> HIDE DEF p
  <2>1. QED BY <1>7, <1>8 DEF Chunked, n
<1>10. url_decode(input) = s
  BY <1>6, <1>9, ChunksDecoded
<1>11. QED BY <1>6, <1>10 DEF input

(* So is a text of characters that mean nothing but themselves. *)
LEMMA PlainDecoded ==
  ASSUME NEW s \in Seq(Byte), \A i \in 1..Len(s) : s[i] \notin {37, 43}
  PROVE  url_decode(s) = s
<1> DEFINE p == [j \in 0..Len(s) |-> j]
<1>1. Len(s) \in Nat
  BY LenProperties
<1>2. p \in [0..Len(s) -> Nat] /\ p[0] = 0 /\ p[Len(s)] = Len(s)
  BY <1>1
<1>3. ASSUME NEW j \in 1..Len(s)
      PROVE  Chunk(s, p[j - 1], p[j], s[j])
  <2>1. p[j - 1] = j - 1 /\ p[j] = j /\ j = (j - 1) + 1 /\ j <= Len(s)
    BY <1>1
  <2> HIDE DEF p
  <2>2. QED BY <2>1 DEF Chunk
<1> HIDE DEF p
<1>4. Chunked(s, s, p)
  BY <1>2, <1>3 DEF Chunked
<1>5. QED BY <1>4, ChunksDecoded

-----------------------------------------------------------------------------
(* The token of a target: what follows the first mark. *)

LEMMA MarkShape ==
  /\ TokenMark \in Seq(Byte) /\ Len(TokenMark) = 7
  /\ TokenMark[1] = 63 /\ \A k \in 2..7 : TokenMark[k] # 63
BY DEF TokenMark, Byte

(* A part that stands at i, character by character. *)
LEMMA Stands ==
  ASSUME NEW base \in Seq(Byte), NEW part \in Seq(Byte),
         NEW i \in 1..(Len(base) + 1), i + Len(part) - 1 <= Len(base)
  PROVE  At(base, part, i) <=> \A k \in 1..Len(part) : base[i + k - 1] = part[k]
<1> DEFINE j == i + Len(part) - 1
           sub == SubSeq(base, i, j)
<1>1. Len(base) \in Nat /\ Len(part) \in Nat
  BY LenProperties
<1>2. j \in (i - 1)..Len(base) /\ j - i + 1 = Len(part)
  BY <1>1
<1> HIDE DEF j
<1>3. /\ sub \in Seq(Byte) /\ Len(sub) = Len(part)
      /\ \A k \in 1..Len(part) : sub[k] = base[i + k - 1]
  BY <1>2, Part
<1> HIDE DEF sub
<1>4. (\A k \in 1..Len(part) : base[i + k - 1] = part[k]) => sub = part
  BY <1>1, <1>3, SeqEqual
<1>5. sub = part => \A k \in 1..Len(part) : base[i + k - 1] = part[k]
  BY <1>3
<1>6. At(base, part, i) <=> sub = part
  BY DEF At, sub, j
<1>7. QED BY <1>4, <1>5, <1>6

(* The mark, character by character. *)
MarkAt(base, i) == \A k \in 1..7 : base[i + k - 1] = TokenMark[k]

LEMMA MarkStands ==
  ASSUME NEW base \in Seq(Byte), NEW i \in 1..(Len(base) + 1), i + 6 <= Len(base)
  PROVE  At(base, TokenMark, i) <=> MarkAt(base, i)
<1> DEFINE m == TokenMark
<1>1. m \in Seq(Byte) /\ Len(m) = 7
  BY MarkShape
<1>2. i + Len(m) - 1 <= Len(base)
  <2>1. Len(base) \in Nat
    BY LenProperties
  <2> HIDE DEF m
  <2>2. QED BY <1>1, <2>1
<1> HIDE DEF m
<1>3. At(base, m, i) <=> \A k \in 1..Len(m) : base[i + k - 1] = m[k]
  BY <1>1, <1>2, Stands
<1>4. QED BY <1>1, <1>3 DEF MarkAt, m

(* A path, the mark and a text, by their places. *)
LEMMA Marked ==
  ASSUME NEW p \in Seq(Byte), NEW t \in Seq(Byte)
  PROVE  LET u == p \o TokenMark \o t
         IN  /\ u \in Seq(Byte) /\ Len(u) = Len(p) + 7 + Len(t)
             /\ \A i \in 1..Len(p) : u[i] = p[i]
             /\ \A k \in 1..7 : u[Len(p) + k] = TokenMark[k]
             /\ \A k \in 1..Len(t) : u[Len(p) + 7 + k] = t[k]
<1> DEFINE m == TokenMark
           n == Len(p)
           pm == p \o m
           u == pm \o t
<1>1. n \in Nat /\ Len(t) \in Nat /\ m \in Seq(Byte) /\ Len(m) = 7
  BY LenProperties, MarkShape
<1> HIDE DEF m
<1>2. /\ pm \in Seq(Byte) /\ Len(pm) = n + 7
      /\ \A i \in 1..(n + 7) : pm[i] = IF i <= n THEN p[i] ELSE m[i - n]
  <2>1. /\ pm \in Seq(Byte) /\ Len(pm) = n + Len(m)
        /\ \A i \in 1..(n + Len(m)) : pm[i] = IF i <= n THEN p[i] ELSE m[i - n]
    BY <1>1, ConcatProperties
  <2>2. QED BY <1>1, <2>1
<1> HIDE DEF pm
<1>3. /\ u \in Seq(Byte) /\ Len(u) = n + 7 + Len(t)
      /\ \A i \in 1..(n + 7 + Len(t)) : u[i] = IF i <= n + 7 THEN pm[i] ELSE t[i - (n + 7)]
  <2>1. pm \in Seq(Byte) /\ t \in Seq(Byte)
    BY <1>2
  <2>2. /\ pm \o t \in Seq(Byte) /\ Len(pm \o t) = Len(pm) + Len(t)
        /\ \A i \in 1..(Len(pm) + Len(t)) :
             (pm \o t)[i] = IF i <= Len(pm) THEN pm[i] ELSE t[i - Len(pm)]
    BY <2>1, ConcatProperties
  <2> HIDE DEF n
  <2>3. Len(pm) + Len(t) = n + 7 + Len(t) /\ Len(pm) = n + 7
    BY <1>1, <1>2
  <2>4. QED BY <2>2, <2>3
<1> HIDE DEF u, n
<1>4. \A i \in 1..n : u[i] = p[i]
  <2>1. \A i \in 1..n : i \in 1..(n + 7) /\ i \in 1..(n + 7 + Len(t)) /\ i <= n + 7 /\ i <= n
    BY <1>1
  <2>2. QED BY <1>2, <1>3, <2>1
<1>5. ASSUME NEW k \in 1..7
      PROVE  u[n + k] = m[k]
  <2>1. /\ n + k \in 1..(n + 7) /\ n + k \in 1..(n + 7 + Len(t)) /\ n + k <= n + 7
        /\ ~(n + k <= n) /\ (n + k) - n = k
    BY <1>1
  <2>2. u[n + k] = pm[n + k] /\ pm[n + k] = m[(n + k) - n]
    BY <1>2, <1>3, <2>1
  <2>3. QED BY <2>1, <2>2
<1>6. ASSUME NEW k \in 1..Len(t)
      PROVE  u[n + 7 + k] = t[k]
  <2> DEFINE i == n + 7 + k
  <2>1. /\ i \in 1..(n + 7 + Len(t))
        /\ ~(i <= n + 7) /\ i - (n + 7) = k
    BY <1>1
  <2> HIDE DEF i
  <2>2. u[i] = t[i - (n + 7)]
    BY <1>3, <2>1
  <2>3. QED BY <2>1, <2>2 DEF i
<1>7. QED BY <1>3, <1>4, <1>5, <1>6 DEF u, pm, m, n

(* If the path has no mark, the first one is the one behind it. *)
LEMMA FirstMark ==
  ASSUME NEW p \in Seq(Byte), TokenAt(p) = {}, NEW t \in Seq(Byte)
  PROVE  token_text(p \o TokenMark \o t) = url_decode(t)
<1> DEFINE u == p \o TokenMark \o t
           n == Len(p)
           found == TokenAt(u)
<1>1. /\ u \in Seq(Byte) /\ Len(u) = n + 7 + Len(t)
      /\ \A i \in 1..n : u[i] = p[i]
      /\ \A k \in 1..7 : u[n + k] = TokenMark[k]
      /\ \A k \in 1..Len(t) : u[n + 7 + k] = t[k]
  BY Marked
<1>2. n \in Nat /\ Len(t) \in Nat
  BY LenProperties
<1> HIDE DEF u, n
<1>3. \A i \in 1..(n + Len(t) + 1) : At(u, TokenMark, i) <=> MarkAt(u, i)
  <2>1. \A i \in 1..(n + Len(t) + 1) : i \in 1..(Len(u) + 1) /\ i + 6 <= Len(u)
    BY <1>1, <1>2
  <2>2. QED BY <1>1, <2>1, MarkStands
<1>4. found = {i \in 1..(n + Len(t) + 1) : At(u, TokenMark, i)}
  <2>1. Len(u) - Len(TokenMark) + 1 = n + Len(t) + 1
    BY <1>1, <1>2, MarkShape
  <2>2. QED BY <2>1 DEF TokenAt
<1> HIDE DEF found
<1>5. n + 1 \in found
  <2>1. n + 1 \in 1..(n + Len(t) + 1) /\ \A k \in 1..7 : (n + 1) + k - 1 = n + k
    BY <1>2
  <2>2. MarkAt(u, n + 1)
    BY <1>1, <2>1 DEF MarkAt
  <2>3. QED BY <1>3, <1>4, <2>1, <2>2
<1>6. ASSUME NEW i \in found
      PROVE  n + 1 <= i
  <2> SUFFICES ASSUME i <= n PROVE FALSE
    BY <1>2, <1>4
  <2>1. i \in 1..n /\ \A k \in 1..7 : u[i + k - 1] = TokenMark[k]
    <3>1. i \in 1..n /\ MarkAt(u, i)
      BY <1>2, <1>3, <1>4
    <3>2. QED BY <3>1 DEF MarkAt
  <2>2. CASE i + 6 <= n
    <3>1. \A k \in 1..7 : i + k - 1 \in 1..n
      BY <1>2, <2>1, <2>2
    <3>2. \A k \in 1..7 : p[i + k - 1] = TokenMark[k]
      BY <1>1, <2>1, <3>1
    <3>3. i \in 1..(Len(p) + 1) /\ i + 6 <= Len(p)
      BY <1>2, <2>1, <2>2 DEF n
    <3>4. At(p, TokenMark, i)
      <4>1. MarkAt(p, i)
        BY <3>2 DEF MarkAt
      <4>2. QED BY <3>3, <4>1, MarkStands
    <3>5. i \in 1..(Len(p) - Len(TokenMark) + 1)
      BY <1>2, <2>1, <2>2, MarkShape DEF n
    <3>6. i \in TokenAt(p)
      BY <3>4, <3>5 DEF TokenAt
    <3>7. QED BY <3>6
  <2>3. CASE i + 6 > n
    <3> DEFINE k == n + 2 - i
    <3>1. k \in 2..7 /\ k \in 1..7 /\ i + k - 1 = n + 1 /\ 1 \in 1..7
      BY <1>2, <2>1, <2>3
    <3> HIDE DEF k
    <3>2. u[n + 1] = TokenMark[k] /\ u[n + 1] = TokenMark[1]
      BY <1>1, <2>1, <3>1
    <3>3. QED BY <3>1, <3>2, MarkShape
  <2>4. QED BY <1>2, <2>1, <2>2, <2>3
<1>7. Min(found) = n + 1
  <2>1. found \in SUBSET Int
    BY <1>2, <1>4
  <2>2. QED BY <1>5, <1>6, <2>1, MinIs
<1>8. SubSeq(u, n + 8, Len(u)) = t
  <2> DEFINE i == n + 8
             j == Len(u)
             sub == SubSeq(u, i, j)
  <2>1. i \in 1..(Len(u) + 1) /\ j \in (i - 1)..Len(u) /\ j - i + 1 = Len(t)
    BY <1>1, <1>2
  <2>2. \A k \in 1..Len(t) : i + k - 1 = n + 7 + k
    BY <1>2
  <2> HIDE DEF i, j
  <2>3. /\ sub \in Seq(Byte) /\ Len(sub) = Len(t)
        /\ \A k \in 1..Len(t) : sub[k] = u[i + k - 1]
    BY <1>1, <2>1, Part
  <2> HIDE DEF sub
  <2>4. \A k \in 1..Len(sub) : sub[k] = t[k]
    BY <1>1, <2>2, <2>3
  <2>5. sub = t
    BY <2>3, <2>4, SeqEqual
  <2>6. QED BY <2>5 DEF sub, i, j
<1>9. token_text(u) = url_decode(SubSeq(u, n + 8, Len(u)))
  <2>1. (n + 1) + Len(TokenMark) = n + 8
    BY <1>2, MarkShape
  <2>2. token_text(u) = url_decode(SubSeq(u, Min(found) + Len(TokenMark), Len(u)))
    BY <1>5 DEF token_text, found
  <2>3. QED BY <1>7, <2>1, <2>2
<1>10. QED BY <1>8, <1>9 DEF u

LEMMA AlphabetHasNoPlus ==
  \A i \in 0..63 : Alphabet[i] # 43
BY DEF Alphabet

(* Whatever token the client sends, bytes or text in the usual encoding of a
   URL parameter or a segment as it is, the server's url_decode gives the same
   token back. *)
THEOREM TokensArrive == Spec => []UrlRoundTrip
<1>1. TypeOK => UrlRoundTrip
  <2> SUFFICES ASSUME TypeOK, NEW p \in Paths
               PROVE  /\ token_text(p \o TokenMark \o Segment) = Segment
                      /\ \A a \in {65, 97} :
                           /\ token_text(p \o TokenMark \o UrlText(bin, a)) = bin
                           /\ token_text(p \o TokenMark \o UrlText(text, a)) = text
    BY DEF UrlRoundTrip
  <2>1. p \in Seq(Byte) /\ TokenAt(p) = {}
    BY TextAssumption
  <2>2. bin \in Seq(Byte) /\ text \in Seq(Byte)
    BY DEF TypeOK
  <2>3. ASSUME NEW a \in {65, 97}, NEW s \in Seq(Byte)
        PROVE  token_text(p \o TokenMark \o UrlText(s, a)) = s
    <3>1. UrlText(s, a) \in Seq(Byte) /\ url_decode(UrlText(s, a)) = s
      BY UrlTextDecoded
    <3>2. QED BY <2>1, <3>1, FirstMark
  <2>4. token_text(p \o TokenMark \o Segment) = Segment
    <3>1. Segment = Chars(bin)
      BY <2>2, SegmentIs DEF Segment
    <3>2. Chars(bin) \in Seq(Byte) /\ \A i \in 1..Len(Chars(bin)) : Chars(bin)[i] \notin {37, 43}
      <4>1. /\ Clean(Chars(bin)) /\ Len(Chars(bin)) = Written(Len(bin))
            /\ \A k \in 1..Written(Len(bin)) :
                 SextetOf(bin, k) \in 0..63 /\ Chars(bin)[k] = Alphabet[SextetOf(bin, k)]
        BY <2>2, CharsClean
      <4>2. QED BY <4>1, AlphabetHasNoPlus DEF Clean
    <3> DEFINE s == Segment
    <3>3. s \in Seq(Byte) /\ url_decode(s) = s
      BY <3>1, <3>2, PlainDecoded
    <3> HIDE DEF s
    <3>4. token_text(p \o TokenMark \o s) = s
      BY <2>1, <3>3, FirstMark
    <3>5. QED BY <3>4 DEF s
  <2>5. QED BY <2>2, <2>3, <2>4
<1>2. QED BY <1>1, TextTypeCorrect, PTL

=============================================================================

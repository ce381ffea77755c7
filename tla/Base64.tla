------------------------------- MODULE Base64 -------------------------------
(***************************************************************************)
(* The text forms of a token: jwt-cpp's base64url (base.h), which writes   *)
(* and reads its segments, and websocket_session::url_decode, which every  *)
(* token of an upgrade request goes through first.                         *)
(*                                                                         *)
(* Characters and bytes are their codes, strings are sequences of codes.   *)
(***************************************************************************)
EXTENDS Integers, Sequences, SequencesExt, FiniteSetsExt

Byte == 0..255

(* alphabet::base64url.  Faulty variant: the alphabet of plain base64. *)
Alphabet_Plain ==
  [i \in 0..63 |-> CASE i \in 0..25  -> 65 + i
                     [] i \in 26..51 -> 97 + i - 26
                     [] i \in 52..61 -> 48 + i - 52
                     [] i = 62       -> 43
                     [] i = 63       -> 47]

Alphabet ==
  [i \in 0..63 |-> CASE i \in 0..25  -> 65 + i        \* A to Z
                     [] i \in 26..51 -> 97 + i - 26   \* a to z
                     [] i \in 52..61 -> 48 + i - 52   \* 0 to 9
                     [] i = 62       -> 45            \* minus
                     [] i = 63       -> 95]           \* underscore

Fill == <<37, 51, 100>>   \* "%3d"

Fills(n) == [i \in 1..(3 * n) |-> Fill[((i - 1) % 3) + 1]]

(* alphabet::index: the number of a character that is in the alphabet.  Faulty
   variant: the sign that plain base64 has for 62 is understood as well. *)
Numbers_Both(c) == {i \in 0..63 : Alphabet[i] = c \/ (i = 62 /\ c = 43)}
Numbers(c) == {i \in 0..63 : Alphabet[i] = c}
Known(c) == Numbers(c) # {}
index(c) == CHOOSE i \in Numbers(c) : TRUE

-----------------------------------------------------------------------------
(* Writing.  Three octets make four sextets; missing octets count as zero,
   and of the last group only the sextets that carry bits are written. *)

(* What a sextet and an octet are worth in a group of 24 bits. *)
SextetUnit == <<262144, 4096, 64, 1>>
OctetUnit == <<65536, 256, 1>>

Octet(bin, i) == IF i <= Len(bin) THEN bin[i] ELSE 0

SextetOf(bin, k) ==
  LET g == 3 * ((k - 1) \div 4)
      triple == Octet(bin, g + 1) * 65536 + Octet(bin, g + 2) * 256 + Octet(bin, g + 3)
  IN  (triple \div SextetUnit[((k - 1) % 4) + 1]) % 64

encode(bin) ==
  LET mod == Len(bin) % 3
      written == 4 * (Len(bin) \div 3) + (IF mod = 0 THEN 0 ELSE mod + 1)
  IN  [k \in 1..written |-> Alphabet[SextetOf(bin, k)]]
        \o Fills(IF mod = 0 THEN 0 ELSE 3 - mod)

At(base, part, i) == SubSeq(base, i, i + Len(part) - 1) = part

(* Cut at the first fill, if any.  Faulty variant: at the last one. *)
trim_Last(base) ==
  LET found == {i \in 1..(Len(base) - 2) : At(base, Fill, i)}
  IN  IF found = {} THEN base ELSE SubSeq(base, 1, Max(found) - 1)

trim(base) ==
  LET found == {i \in 1..(Len(base) - 2) : At(base, Fill, i)}
  IN  IF found = {} THEN base ELSE SubSeq(base, 1, Min(found) - 1)

-----------------------------------------------------------------------------
(* Reading.  Faulty variant of pad: its cases do not fall through. *)

pad_NoFallthrough(base) == base \o Fills(IF Len(base) % 4 = 0 THEN 0 ELSE 1)

pad(base) == base \o Fills((4 - (Len(base) % 4)) % 4)

count_padding(base) ==
  Max({n \in 0..(Len(base) \div 3) : SubSeq(base, Len(base) - 3 * n + 1, Len(base)) = Fills(n)})

Size(base) == Len(base) - 3 * count_padding(base)
Fast(base) == Size(base) - (Size(base) % 4)

(* The characters that decode() looks up. *)
Reads(base) ==
  1..(Fast(base) + (CASE count_padding(base) = 1 -> 3
                      [] count_padding(base) = 2 -> 2
                      [] OTHER -> 0))

(* Gives "ok" or the error thrown.  Faulty variant: the total size is not
   checked. *)
DecodeError_AnySize(base) ==
  IF count_padding(base) > 2 THEN "too much fill"
  ELSE IF \E i \in Reads(base) \cap 1..Len(base) : ~Known(base[i]) THEN "not within alphabet"
  ELSE "ok"

DecodeError(base) ==
  IF count_padding(base) > 2 THEN "too much fill"
  ELSE IF (Size(base) + count_padding(base)) % 4 # 0 THEN "incorrect total size"
  ELSE IF \E i \in Reads(base) : ~Known(base[i]) THEN "not within alphabet"
  ELSE "ok"

Sextet(base, i) == IF i \in Reads(base) THEN index(base[i]) ELSE 0

OctetOf(base, k) ==
  LET g == 4 * ((k - 1) \div 3)
      triple == Sextet(base, g + 1) * 262144 + Sextet(base, g + 2) * 4096
                  + Sextet(base, g + 3) * 64 + Sextet(base, g + 4)
  IN  (triple \div OctetUnit[((k - 1) % 3) + 1]) % 256

decode(base) ==
  LET tail == CASE count_padding(base) = 1 -> 2
                [] count_padding(base) = 2 -> 1
                [] OTHER -> 0
  IN  [k \in 1..(3 * (Fast(base) \div 4) + tail) |-> OctetOf(base, k)]

-----------------------------------------------------------------------------
(* websocket_session::url_decode. *)

HexDigit == 48..57 \cup 65..70 \cup 97..102
HexValue(c) == IF c <= 57 THEN c - 48 ELSE IF c <= 70 THEN c - 55 ELSE c - 87

(* "%" and two hexadecimal digits.  Faulty variant: the last two characters of
   the input are not looked at. *)
Escape_Short(input, i) ==
  /\ input[i] = 37
  /\ i + 2 < Len(input)
  /\ input[i + 1] \in HexDigit /\ input[i + 2] \in HexDigit

Escape(input, i) ==
  /\ input[i] = 37
  /\ i + 2 <= Len(input)
  /\ input[i + 1] \in HexDigit /\ input[i + 2] \in HexDigit

url_decode(input) ==
  LET from[i \in 1..(Len(input) + 3)] ==
        IF i > Len(input) THEN <<>>
        ELSE IF Escape(input, i)
        THEN <<16 * HexValue(input[i + 1]) + HexValue(input[i + 2])>> \o from[i + 3]
        ELSE IF input[i] = 43 THEN <<32>> \o from[i + 1]
        ELSE <<input[i]>> \o from[i + 1]
  IN  from[1]

(* websocket_session::run: the token of an upgrade request is all that follows
   the first "?token=" of its target. *)
TokenMark == <<63, 116, 111, 107, 101, 110, 61>>

TokenAt(target) == {i \in 1..(Len(target) - Len(TokenMark) + 1) : At(target, TokenMark, i)}

token_text(target) ==
  IF TokenAt(target) = {} THEN <<>>
  ELSE url_decode(SubSeq(target, Min(TokenAt(target)) + Len(TokenMark), Len(target)))

=============================================================================

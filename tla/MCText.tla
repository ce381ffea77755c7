------------------------------- MODULE MCText ------------------------------
(***************************************************************************)
(* Every byte string, every text and every target of a request up to a     *)
(* bound, grown one piece at a time, against what the codings, and the     *)
(* ways from a target to a file and to a token, must satisfy.              *)
(***************************************************************************)
EXTENDS Base64, Files

CONSTANTS Bytes,      \* bytes that byte strings are made of
          MaxBytes,   \* bound: length of a byte string
          Pieces,     \* short strings that texts are made of
          MaxPieces,  \* bound: pieces of a text
          Parts,      \* pieces that targets are made of
          MaxParts,   \* bound: pieces of a target
          Roots,      \* the directories that may be served
          Paths       \* what may stand before "?token="

ASSUME TextAssumption ==
  /\ Bytes \subseteq Byte
  /\ Pieces \subseteq Seq(Byte)
  /\ Parts \subseteq STRING
  /\ Roots \subseteq Seq(STRING) \ {<<>>}
  /\ \A p \in Paths : p \in Seq(Byte) /\ TokenAt(p) = {}

VARIABLES bin, text, pieces, target

vars == <<bin, text, pieces, target>>

Init == bin = <<>> /\ text = <<>> /\ pieces = 0 /\ target = <<>>

MoreBytes ==
  /\ text = <<>> /\ target = <<>>
  /\ Len(bin) < MaxBytes
  /\ \E b \in Bytes : bin' = Append(bin, b)
  /\ UNCHANGED <<text, pieces, target>>

MoreText ==
  /\ bin = <<>> /\ target = <<>>
  /\ pieces < MaxPieces
  /\ pieces' = pieces + 1
  /\ \E p \in Pieces : text' = text \o p
  /\ UNCHANGED <<bin, target>>

MoreTarget ==
  /\ bin = <<>> /\ text = <<>>
  /\ Len(target) < MaxParts
  /\ \E p \in Parts : target' = Append(target, p)
  /\ UNCHANGED <<bin, text, pieces>>

Next == MoreBytes \/ MoreText \/ MoreTarget

Spec == Init /\ [][Next]_vars

Segment == trim(encode(bin))

(* A segment as builder::sign writes it is read back by decoded_jwt. *)
RoundTrip == DecodeError(pad(Segment)) = "ok" /\ decode(pad(Segment)) = bin

(* A segment is as long as its bytes need, and contains neither a dot nor a
   percent sign: three of them can be joined and taken apart again, and no fill
   is ever found inside one. *)
SegmentIsPlain ==
  /\ Len(Segment) = (4 * Len(bin) + 2) \div 3
  /\ \A i \in 1..Len(Segment) : Segment[i] \in Byte \ {37, 46}

(* Of a text that it does not refuse, decode looks up every character before
   the fill, and none outside the text or of the fill. *)
ReadsInside ==
  DecodeError(text) = "ok" => Reads(text) = 1..Size(text)

(* A text that decode accepts is one that encode could have written: reading
   and writing it again gives the same text, but for the bits of its last
   character that carry nothing. *)
OnlyOwnText ==
  DecodeError(pad(text)) = "ok" =>
    LET own == trim(pad(text))
        again == trim(encode(decode(pad(text))))
    IN  /\ Len(again) = Len(own)
        /\ \A i \in 1..(Len(own) - 1) : again[i] = own[i]
        /\ Len(own) % 4 = 0 => again = own

(* The usual encoding of a URL parameter: plain characters stay, a space
   becomes a plus sign, everything else is escaped in upper or lower case. *)
Plain == 48..57 \cup 65..90 \cup 97..122 \cup {45, 46, 95}
Hex(n, a) == IF n < 10 THEN 48 + n ELSE a + n - 10
UrlChar(c, a) ==
  IF c \in Plain THEN <<c>> ELSE IF c = 32 THEN <<43>>
  ELSE <<37, Hex(c \div 16, a), Hex(c % 16, a)>>
UrlText(s, a) == FlattenSeq([i \in 1..Len(s) |-> UrlChar(s[i], a)])

(* Whatever the path before it, if only the mark of a token does not stand in
   that path already, a token arrives at the server as it is: its segments may
   be put into the URL plainly, and bytes and text in that encoding. *)
UrlRoundTrip ==
  \A p \in Paths :
    LET arrives(t, s) == token_text(p \o TokenMark \o t) = s
    IN  /\ arrives(Segment, Segment)
        /\ \A a \in {65, 97} : arrives(UrlText(bin, a), bin) /\ arrives(UrlText(text, a), text)

(* No legal target leads out of the directory that is served, however its dots
   and separators stand. *)
StaysInside ==
  Legal(target) => \A root \in Roots : Inside(PathOf(root, target), root)

(* The type of a file is decided by the last extension of its own name, in
   capitals or not: neither by a dot in a directory's name nor by an earlier
   extension, and a name whose last extension is not known has no special
   type.  A directory's index is a page. *)
TypeByName ==
  Legal(target) => \A root \in Roots :
    LET name == Last(Components(PathOf(root, target)))
        words == {i \in 2..Len(name) : name[i - 1] = "."}
        ext == Lower(Last(name))
    IN  /\ mime_type(PathOf(root, target)) =
              IF words # {} /\ Max(words) = Len(name) /\ ext \in DOMAIN Extensions
              THEN Extensions[ext] ELSE "application/text"
        /\ Last(target) = "/" => mime_type(PathOf(root, target)) = "text/html"

MCPieces == {<<65>>, <<95>>, <<51, 100>>, <<37>>, <<43>>, Fill}

MCParts == {"/", ".", "html", "HTML", "css", "zip"}
MCRoots == {<<"/">>, <<"www">>, <<"/", "srv", ".", "html">>, <<".">>, <<".", ".", "/", "www">>}

(* "/", "/api/ws" and "/?token". *)
MCPaths == {<<47>>, <<47, 97, 112, 105, 47, 119, 115>>, <<47, 63, 116, 111, 107, 101, 110>>}

=============================================================================

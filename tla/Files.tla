-------------------------------- MODULE Files --------------------------------
(***************************************************************************)
(* From the target of a request to the file that is served, and its type:  *)
(* the rest of handle_request, path_cat and mime_type.                     *)
(*                                                                         *)
(* A text is a sequence of pieces: the characters "/" and "." each on      *)
(* their own, and words, which contain neither.                            *)
(***************************************************************************)
EXTENDS Naturals, Sequences, SequencesExt, FiniteSetsExt

Index == <<"index", ".", "html">>

Find(text, c) == {i \in 1..Len(text) : text[i] = c}

(* Request path must be absolute and not contain "..".  Faulty variant: it
   must not begin like that. *)
Legal_Prefix(target) ==
  /\ target # <<>>
  /\ target[1] = "/"
  /\ ~IsPrefix(<<"/", ".", ".">>, target)

Legal(target) ==
  /\ target # <<>>
  /\ target[1] = "/"
  /\ \A i \in Find(target, ".") : i + 1 \notin Find(target, ".")

path_cat(base, path) ==
  IF base = <<>> THEN path
  ELSE IF Last(base) = "/" THEN Front(base) \o path
  ELSE base \o path

(* The path that handle_request opens. *)
PathOf(doc_root, target) ==
  path_cat(doc_root, target) \o (IF Last(target) = "/" THEN Index ELSE <<>>)

(* Each extension with its type: what follows the last dot, compared without
   regard to case.  A word in capitals has its small form in LowerCase. *)
Extensions ==
  [htm |-> "text/html", html |-> "text/html", php |-> "text/html", css |-> "text/css",
   txt |-> "text/plain", js |-> "application/javascript", json |-> "application/json",
   xml |-> "application/xml", swf |-> "application/x-shockwave-flash", flv |-> "video/x-flv",
   png |-> "image/png", jpe |-> "image/jpeg", jpeg |-> "image/jpeg", jpg |-> "image/jpeg",
   gif |-> "image/gif", bmp |-> "image/bmp", ico |-> "image/vnd.microsoft.icon",
   tiff |-> "image/tiff", tif |-> "image/tiff", svg |-> "image/svg+xml", svgz |-> "image/svg+xml"]

LowerCase == [HTML |-> "html", Css |-> "css"]
Lower(word) == IF word \in DOMAIN LowerCase THEN LowerCase[word] ELSE word

TypeOf(ext) ==
  IF Len(ext) = 1 /\ Lower(ext[1]) \in DOMAIN Extensions
  THEN Extensions[Lower(ext[1])] ELSE "application/text"

(* Faulty variant: the extension begins at the first dot. *)
mime_type_First(path) ==
  IF Find(path, ".") = {} THEN "application/text"
  ELSE TypeOf(SubSeq(path, Min(Find(path, ".")) + 1, Len(path)))

mime_type(path) ==
  IF Find(path, ".") = {} THEN "application/text"
  ELSE TypeOf(SubSeq(path, Max(Find(path, ".")) + 1, Len(path)))

-----------------------------------------------------------------------------
(* What the file system makes of a path. *)

(* The components between the separators, in order. *)
Components(path) ==
  FoldLeft(LAMBDA cs, piece :
             IF piece = "/" THEN Append(cs, <<>>)
             ELSE Append(Front(cs), Append(Last(cs), piece)),
           <<<<>>>>, path)

(* Where a path leads, one component after the other: "" and "." stay, ".."
   goes up.  From the root of the file system that leads nowhere; from the
   current directory it leads out, which is recorded. *)
Walk(path) ==
  FoldLeft(LAMBDA at, c :
             IF c \in {<<>>, <<".">>} THEN at
             ELSE IF c # <<".", ".">> \/ at = <<>> \/ Last(at) = c THEN Append(at, c)
             ELSE IF at = <<<<"/">>>> THEN at
             ELSE Front(at),
           IF IsPrefix(<<"/">>, path) THEN <<<<"/">>>> ELSE <<>>,
           Components(path))

Inside(path, dir) ==
  /\ IsPrefix(<<"/">>, path) <=> IsPrefix(<<"/">>, dir)
  /\ IsPrefix(Walk(dir), Walk(path))

=============================================================================

-------------------------------- MODULE Glob --------------------------------
(***************************************************************************)
(* The two ports' pattern matching: Python's fnmatch.fnmatch, and the      *)
(* regular expression that the port's fnmatch makes of a pattern.          *)
(*                                                                         *)
(* A path is a sequence of characters, backslashes already replaced.  A    *)
(* pattern is its text, in which a star, two stars and a question mark are *)
(* glyphs of their own, and the stretches of the text that Python reads as *)
(* a bracket expression, with the characters each stands for.  The port    *)
(* knows no brackets: to it they are characters like others.  (Characters  *)
(* that JavaScript counts as two, and Windows, where Python ignores case,  *)
(* are left out.)                                                          *)
(***************************************************************************)
EXTENDS Naturals, Sequences

CONSTANTS
  Char, Slash,
  LineBreaks,              \* the characters "." does not match in JavaScript
  Star, StarStar, Query    \* the glyphs *, ** and ?

ASSUME GlyphsAssumption ==
  /\ Slash \in Char /\ LineBreaks \subseteq Char \ {Slash}
  /\ Star # StarStar /\ Star # Query /\ StarStar # Query
  /\ {Star, StarStar, Query} \cap Char = {}

Glyph == Char \cup {Star, StarStar, Query}

Pattern ==
  [text : Seq(Glyph),
   classes : SUBSET [first : Nat, last : Nat, members : SUBSET Char]]

Stars == {Star, StarStar}

\* The ways to cut a path into one piece for each of n glyphs.
Cuts(path, n) ==
  {cut \in [0 .. n -> 0 .. Len(path)] :
     /\ cut[0] = 0 /\ cut[n] = Len(path)
     /\ \A j \in 1 .. n : cut[j - 1] <= cut[j]}

Piece(path, cut, j) == SubSeq(path, cut[j - 1] + 1, cut[j])

Lacks(piece, chars) == \A i \in DOMAIN piece : piece[i] \notin chars

-----------------------------------------------------------------------------
(***************************************************************************)
(* Python.                                                                 *)
(***************************************************************************)
\* A bracket expression takes a character where it opens.
Takes(pattern, j, piece) ==
  LET opened == {c \in pattern.classes : c.first = j}
      inside == {c \in pattern.classes : j \in c.first .. c.last}
  IN  \/ \E c \in opened : Len(piece) = 1 /\ piece[1] \in c.members
      \/ inside # {} /\ opened = {} /\ piece = <<>>
      \/ inside = {} /\ pattern.text[j] \in Stars
      \/ inside = {} /\ pattern.text[j] = Query /\ Len(piece) = 1
      \/ inside = {} /\ piece = << pattern.text[j] >>

fnmatch(path, pattern) ==
  \E cut \in Cuts(path, Len(pattern.text)) :
    \A j \in DOMAIN pattern.text : Takes(pattern, j, Piece(path, cut, j))

-----------------------------------------------------------------------------
(***************************************************************************)
(* The port.  A question mark stays in the regular expression, where it    *)
(* makes what is before it optional, or a star or another question mark    *)
(* lazy, which changes nothing.                                            *)
(***************************************************************************)
\* new RegExp raises SyntaxError otherwise: nothing to repeat.
Compiles(pattern) ==
  LET text == pattern.text IN
  \A j \in DOMAIN text :
    text[j] = Query =>
      /\ j > 1
      /\ text[j - 1] = Query => j > 2 /\ text[j - 2] \in Char

\* Defect: ** is replaced like two single stars.
RunAsTwo(star, piece) == Lacks(piece, {Slash})

\* .+ for two stars, [^/]* for one
Run(star, piece) ==
  IF star = StarStar THEN piece # <<>> /\ Lacks(piece, LineBreaks)
                     ELSE Lacks(piece, {Slash})

TakesTS(pattern, j, piece) ==
  LET text == pattern.text IN
  \/ text[j] \in Stars /\ Run(text[j], piece)
  \/ text[j] = Query /\ piece = <<>>
  \/ text[j] \in Char /\ piece = << text[j] >>
  \/ /\ text[j] \in Char /\ piece = <<>>
     /\ j < Len(text) /\ text[j + 1] = Query

\* For patterns that compile.
fnmatchTS(path, pattern) ==
  \E cut \in Cuts(path, Len(pattern.text)) :
    \A j \in DOMAIN pattern.text : TakesTS(pattern, j, Piece(path, cut, j))
=============================================================================

------------------------------- MODULE SkipText -------------------------------
(***************************************************************************)
(* How the Go code skips what it must not interpret: the tokenizer         *)
(* (scanner.go, and macro.go, which repeats it) and the formatter          *)
(* (scanutil.go).  A text is a sequence of code points; a function returns *)
(* the position after what it skips, and Unterminated where the code       *)
(* returns an error or stops at the end of the text.                       *)
(***************************************************************************)
EXTENDS Naturals, Sequences, FiniteSetsExt

CONSTANTS Dollar, Slash, Star   \* '$', '/' and '*'

Unterminated == 0

Letter == (65 .. 90) \cup (97 .. 122) \cup {95}
Digit  == 48 .. 57

\* The position after the opening delimiter $tag$ at the start of src, or
\* Unterminated if src does not start with one.
PeekDollarTag(src) ==
  LET closes(i) == /\ src[i] = Dollar
                   /\ i > 2 => src[2] \in Letter
                   /\ \A j \in 2 .. i - 1 : src[j] \in Letter \cup Digit
      ends == {i \in 2 .. Len(src) : closes(i)}
  IN  IF src # <<>> /\ Head(src) = Dollar /\ ends # {} THEN Min(ends) + 1
                                                      ELSE Unterminated

\* The position after the first repetition of the delimiter that opens src
\* and ends before position open.
SkipDollarQuoted(src, open) ==
  LET width == open - 1
      found == {p \in open .. Len(src) + 1 - width :
                  SubSeq(src, p, p + width - 1) = SubSeq(src, 1, width)}
  IN  IF found = {} THEN Unterminated ELSE Min(found) + width

Pair(src, p, a, b) == p < Len(src) /\ src[p] = a /\ src[p + 1] = b

\* The formatter's SkipBlockComment: what follows the opening of a comment is
\* read with the depth of the comments that are open, which are never more than
\* the characters that were passed and one.
SkipFrom(src) ==
  LET places == {at \in (1 .. Len(src) + 1) \X (1 .. Len(src) + 1) : at[2] <= at[1]}
      skip[at \in places] ==
        LET p == at[1]  depth == at[2]
        IN  CASE p > Len(src)              -> Unterminated
              [] Pair(src, p, Slash, Star) -> skip[<<p + 2, depth + 1>>]
              [] Pair(src, p, Star, Slash) ->
                   IF depth = 1 THEN p + 2 ELSE skip[<<p + 2, depth - 1>>]
              [] OTHER                     -> skip[<<p + 1, depth>>]
  IN  skip

SkipBlockComment(src) == SkipFrom(src)[<<1, 1>>]
===============================================================================

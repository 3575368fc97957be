--------------------------- MODULE ExternalScanner ---------------------------
(***************************************************************************)
(* The external scanner of the tree-sitter grammar (src/lang/grammar/src/  *)
(* scanner.c): it recognises dollar-quoted strings and the rest of block   *)
(* comments for the editors, one character of lookahead at a time.         *)
(*                                                                         *)
(* The runtime calls it wherever one of its two symbols may come, with the *)
(* state that was serialized after an earlier token.  The text is not      *)
(* known in advance: every advance of the lexer picks the next character.  *)
(***************************************************************************)
EXTENDS Integers, Sequences

CONSTANTS
  Char,           \* code points a text is made of
  Blank,          \* those that are skipped before a token
  Dollar, Slash, Star,
  MaxText,        \* bound: characters the scanner is shown in one call
  InitialCap,     \* 16: first allocation for the tag
  MaxSerialized   \* 127: characters of the tag that are serialized

ASSUME ScannerAssumption ==
  /\ Char \subseteq Nat \ {0}
  /\ Blank \subseteq Char
  /\ {Dollar, Slash, Star} \subseteq Char \ Blank
  /\ Slash # Star
  /\ MaxText \in Nat
  /\ InitialCap \in Nat \ {0}
  /\ MaxSerialized \in Nat

VARIABLES
  pc,             \* where the scanner is; "idle" between calls
  valid,          \* valid_symbols
  text,           \* characters the lexer has passed in this call
  lookahead,      \* lexer->lookahead
  tag, cap,       \* s->tag up to tag_len, s->tag_cap
  matched,        \* characters of the tag found after a dollar sign
  depth,          \* open comments
  buffer          \* what was serialized with the token the call follows

vars == <<pc, valid, text, lookahead, tag, cap, matched, depth, buffer>>

DollarQuotedString  == "DOLLAR_QUOTED_STRING"
BlockCommentContent == "BLOCK_COMMENT_CONTENT"
Symbol == {DollarQuotedString, BlockCommentContent}

EndOfText == 0

\* (unsigned char)(char)c
Narrow(c) == c % 256

Init ==
  /\ pc = "idle"
  /\ valid = {}
  /\ text = <<>>
  /\ lookahead = EndOfText
  /\ tag = <<>>
  /\ cap = 0
  /\ matched = 0
  /\ depth = 0
  /\ buffer = <<>>

\* What the lexer may show after n characters.
Shown(n) == IF n < MaxText THEN Char \cup {EndOfText} ELSE {EndOfText}

\* lexer->advance; at the end of the text the lexer stays where it is.
Advance ==
  IF lookahead = EndOfText
    THEN UNCHANGED <<text, lookahead>>
    ELSE /\ text' = Append(text, lookahead)
         /\ lookahead' \in Shown(Len(text) + 1)

Stay == UNCHANGED <<text, lookahead>>

-------------------------------------------------------------------------------
\* The runtime restores the state of the token before, and calls the scanner.

Deserialize ==
  /\ tag' = buffer
  /\ cap' = IF buffer # <<>> /\ cap < Len(buffer) + 1 THEN Len(buffer) + 1 ELSE cap

Scan(symbols) ==
  /\ pc = "idle"
  /\ Deserialize
  /\ pc' = "start"
  /\ valid' = symbols
  /\ lookahead' \in Shown(0)
  /\ UNCHANGED <<text, matched, depth, buffer>>

SkipBlank ==
  /\ pc = "start"
  /\ lookahead \in Blank
  /\ Advance
  /\ UNCHANGED <<pc, valid, tag, cap, matched, depth, buffer>>

AtDollar == DollarQuotedString \in valid /\ lookahead = Dollar

\* Mutant: tag_len is not reset.
StartDollarKeepTag ==
  /\ pc = "start"
  /\ AtDollar
  /\ Advance
  /\ pc' = "tag"
  /\ UNCHANGED <<valid, tag, cap, matched, depth, buffer>>

StartDollar ==
  /\ pc = "start"
  /\ AtDollar
  /\ Advance
  /\ tag' = <<>>
  /\ pc' = "tag"
  /\ UNCHANGED <<valid, cap, matched, depth, buffer>>

StartComment ==
  /\ pc = "start"
  /\ lookahead \notin Blank
  /\ ~AtDollar
  /\ BlockCommentContent \in valid
  /\ depth' = 1
  /\ pc' = "comment"
  /\ Stay
  /\ UNCHANGED <<valid, tag, cap, matched, buffer>>

\* No symbol that may come here can start here.
StartNothing ==
  /\ pc = "start"
  /\ lookahead \notin Blank
  /\ ~AtDollar
  /\ BlockCommentContent \notin valid
  /\ pc' = "refused"
  /\ Stay
  /\ UNCHANGED <<valid, tag, cap, matched, depth, buffer>>

-------------------------------------------------------------------------------
\* scan_dollar_quoted_string

\* Mutant: memory is doubled one character too late.
GrownLate == CASE Len(tag) < cap + 1 /\ cap # 0 -> cap
               [] cap = 0                       -> InitialCap
               [] OTHER                         -> cap * 2

Grown == CASE Len(tag) + 1 < cap -> cap
           [] cap = 0            -> InitialCap
           [] OTHER              -> cap * 2

ReadTag ==
  /\ pc = "tag"
  /\ lookahead \notin {Dollar, EndOfText}
  /\ cap' = Grown
  /\ tag' = Append(tag, Narrow(lookahead))
  /\ Advance
  /\ UNCHANGED <<pc, valid, matched, depth, buffer>>

EndTag ==
  /\ pc = "tag"
  /\ lookahead = Dollar
  /\ Advance
  /\ pc' = "body"
  /\ UNCHANGED <<valid, tag, cap, matched, depth, buffer>>

ReadBody ==
  /\ pc = "body"
  /\ lookahead # EndOfText
  /\ Advance
  /\ IF lookahead = Dollar THEN pc' = "match" /\ matched' = 0
                           ELSE UNCHANGED <<pc, matched>>
  /\ UNCHANGED <<valid, tag, cap, depth, buffer>>

TagGoesOn == matched < Len(tag) /\ lookahead = tag[matched + 1]

MatchTag ==
  /\ pc = "match"
  /\ TagGoesOn
  /\ Advance
  /\ matched' = matched + 1
  /\ UNCHANGED <<pc, valid, tag, cap, depth, buffer>>

TagEnds == matched = Len(tag) /\ lookahead = Dollar

CloseDollar ==
  /\ pc = "match"
  /\ TagEnds
  /\ Advance
  /\ pc' = "accepted"
  /\ UNCHANGED <<valid, tag, cap, matched, depth, buffer>>

NoMatch ==
  /\ pc = "match"
  /\ ~TagGoesOn
  /\ ~TagEnds
  /\ pc' = "body"
  /\ Stay
  /\ UNCHANGED <<valid, tag, cap, matched, depth, buffer>>

-------------------------------------------------------------------------------
\* scan_block_comment_content

\* Mutant: the lexer is not advanced over ordinary characters of a comment.
ReadCommentPairs ==
  /\ pc = "comment"
  /\ lookahead # EndOfText
  /\ pc' = CASE lookahead = Slash -> "slash"
             [] lookahead = Star  -> "star"
             [] OTHER             -> "comment"
  /\ IF lookahead \in {Slash, Star} THEN Advance ELSE Stay
  /\ UNCHANGED <<valid, tag, cap, matched, depth, buffer>>

ReadComment ==
  /\ pc = "comment"
  /\ lookahead # EndOfText
  /\ pc' = CASE lookahead = Slash -> "slash"
             [] lookahead = Star  -> "star"
             [] OTHER             -> "comment"
  /\ Advance
  /\ UNCHANGED <<valid, tag, cap, matched, depth, buffer>>

\* Mutant: what follows a slash is passed over, star or not.
AfterSlashBlindly ==
  /\ pc = "slash"
  /\ pc' = "comment"
  /\ Advance
  /\ depth' = IF lookahead = Star THEN depth + 1 ELSE depth
  /\ UNCHANGED <<valid, tag, cap, matched, buffer>>

AfterSlash ==
  /\ pc = "slash"
  /\ pc' = "comment"
  /\ IF lookahead = Star THEN Advance /\ depth' = depth + 1
                         ELSE Stay /\ UNCHANGED depth
  /\ UNCHANGED <<valid, tag, cap, matched, buffer>>

\* Mutant: a comment that was closed is read on.
AfterStarOpen ==
  /\ pc = "star"
  /\ pc' = "comment"
  /\ IF lookahead = Slash THEN Advance /\ depth' = depth - 1
                          ELSE Stay /\ UNCHANGED depth
  /\ UNCHANGED <<valid, tag, cap, matched, buffer>>

AfterStar ==
  /\ pc = "star"
  /\ IF lookahead = Slash
       THEN /\ Advance
            /\ depth' = depth - 1
            /\ pc' = IF depth = 1 THEN "accepted" ELSE "comment"
       ELSE /\ Stay
            /\ UNCHANGED depth
            /\ pc' = "comment"
  /\ UNCHANGED <<valid, tag, cap, matched, buffer>>

\* The text ends within a tag, a body or a comment.
Refuse ==
  /\ pc \in {"tag", "body", "comment"}
  /\ lookahead = EndOfText
  /\ pc' = "refused"
  /\ Stay
  /\ UNCHANGED <<valid, tag, cap, matched, depth, buffer>>

-------------------------------------------------------------------------------
\* The runtime keeps the state with the token it takes.

Return ==
  /\ pc' = "idle"
  /\ valid' = {}
  /\ text' = <<>>
  /\ lookahead' = EndOfText
  /\ matched' = 0
  /\ depth' = 0
  /\ UNCHANGED <<tag, cap>>

Serialize ==
  /\ pc = "accepted"
  /\ buffer' = SubSeq(tag, 1, IF Len(tag) > MaxSerialized THEN MaxSerialized ELSE Len(tag))
  /\ Return

\* The call failed, or the parser gave the token up with the version of the
\* parse it belonged to.
Discard ==
  /\ pc \in {"accepted", "refused"}
  /\ Return
  /\ UNCHANGED buffer

Step ==
  \/ SkipBlank \/ StartDollar \/ StartComment \/ StartNothing
  \/ ReadTag \/ EndTag \/ ReadBody \/ MatchTag \/ CloseDollar \/ NoMatch
  \/ ReadComment \/ AfterSlash \/ AfterStar \/ Refuse
  \/ Serialize \/ Discard

Next == Step \/ \E symbols \in (SUBSET Symbol) \ {{}} : Scan(symbols)

\* A call that was made runs; nobody has to call.
Spec == Init /\ [][Next]_vars /\ WF_vars(Step)

-------------------------------------------------------------------------------
T == INSTANCE SkipText

TypeOK ==
  /\ pc \in {"idle", "start", "tag", "body", "match", "comment", "slash", "star",
             "accepted", "refused"}
  /\ valid \in SUBSET Symbol
  /\ text \in Seq(Char)
  /\ Len(text) <= MaxText
  /\ lookahead \in Char \cup {EndOfText}
  /\ tag \in Seq(0 .. 255)
  /\ cap \in Nat
  /\ matched \in 0 .. Len(tag)
  /\ depth \in Nat
  /\ buffer \in Seq(0 .. 255)

\* No character of a tag is written or read beyond the memory that was
\* allocated for it, whatever tags the calls before have left (the growth in
\* scan_dollar_quoted_string and in deserialize).
TagInBounds == Len(tag) <= cap

\* The characters the lexer has passed without the blanks before the token.
Token ==
  LET first == CHOOSE i \in 1 .. Len(text) + 1 :
                 /\ i <= Len(text) => text[i] \notin Blank
                 /\ \A j \in 1 .. i - 1 : text[j] \in Blank
  IN  SubSeq(text, first, Len(text))

Returned  == pc \in {"accepted", "refused"}
IsDollar  == DollarQuotedString \in valid /\ Token # <<>> /\ Head(Token) = Dollar
IsComment == BlockCommentContent \in valid /\ ~IsDollar

\* Where the position a Go function returns is the end of the token, or
\* Unterminated for a text the scanner refused.
EndsAt(position, src) ==
  position = IF pc = "accepted" THEN Len(src) + 1 ELSE T!Unterminated

\* Editor and compiler agree on every dollar-quoted string: where the
\* tokenizer sees an opening delimiter, the scanner ends the string at the
\* same character, and finds it unterminated when the tokenizer does, whatever
\* was scanned and restored before.
DollarAgreesWithTokenizer ==
  Returned /\ IsDollar =>
    LET open == T!PeekDollarTag(Token)
    IN  open # T!Unterminated => EndsAt(T!SkipDollarQuoted(Token, open), Token)

\* Editor and formatter agree on where a block comment ends, however comments
\* are nested, interrupted or run into each other as in "/*/" and "**/".
CommentAgreesWithFormatter ==
  Returned /\ IsComment => EndsAt(T!SkipBlockComment(text), text)

\* Every call returns, whatever the text: an editor waits for it at every key.
Returns == pc # "idle" ~> pc = "idle"
===============================================================================

---------------------------- MODULE ScannerProofs ----------------------------
(***************************************************************************)
(* The external scanner keeps within the memory of its tag, and ends       *)
(* strings and comments where the Go code does, for any alphabet, texts of *)
(* any length and any sequence of calls.                                   *)
(***************************************************************************)
EXTENDS ExternalScanner, SequenceTheorems, WellFoundedInduction, TLAPS

\* The lexer shows a character only where the text still has one.
InText == lookahead # EndOfText => Len(text) < MaxText

\* A comment is read for as long as one is open.
Opened == pc \in {"comment", "slash", "star"} => depth > 0

\* A call starts with nothing passed and nothing of a tag matched.
Fresh ==
  /\ pc \in {"idle", "start"} => matched = 0
  /\ pc = "idle" => text = <<>>

ScannerInv == TypeOK /\ TagInBounds /\ InText /\ Opened /\ Fresh

-------------------------------------------------------------------------------

\* lexer->advance stays within the text.
LEMMA AdvanceFacts ==
  ASSUME TypeOK, InText, Advance
  PROVE  /\ text' \in Seq(Char)
         /\ Len(text') <= MaxText
         /\ lookahead' \in Char \cup {EndOfText}
         /\ InText'
<1>1. CASE lookahead = EndOfText
  BY <1>1 DEF TypeOK, Advance, InText
<1>2. CASE lookahead # EndOfText
  <2>1. text \in Seq(Char) /\ lookahead \in Char /\ Len(text) < MaxText
    BY <1>2 DEF TypeOK, InText
  <2>2. text' = Append(text, lookahead) /\ lookahead' \in Shown(Len(text) + 1)
    BY <1>2 DEF Advance
  <2>3. text' \in Seq(Char) /\ Len(text') = Len(text) + 1
    BY <2>1, <2>2
  <2>4. /\ lookahead' \in Char \cup {EndOfText}
        /\ lookahead' # EndOfText => Len(text) + 1 < MaxText
    BY <2>2, ScannerAssumption DEF Shown, EndOfText, ScannerAssumption
  <2> QED
    BY <2>1, <2>3, <2>4, ScannerAssumption DEF InText, ScannerAssumption
<1> QED
  BY <1>1, <1>2

\* What the lexer has passed and shows has its type after every action but a
\* new call and a return.
LEMMA LexerFacts ==
  ASSUME TypeOK, InText, Advance \/ Stay
  PROVE  /\ text' \in Seq(Char)
         /\ Len(text') <= MaxText
         /\ lookahead' \in Char \cup {EndOfText}
         /\ InText'
<1>1. CASE Advance
  BY <1>1, AdvanceFacts
<1>2. CASE Stay
  BY <1>2 DEF Stay, TypeOK, InText
<1> QED
  BY <1>1, <1>2

\* The memory of a tag is enough for one more character after it has grown.
LEMMA GrownIsEnough ==
  ASSUME TypeOK, TagInBounds
  PROVE  Grown \in Nat /\ Len(tag) + 1 <= Grown
<1>1. tag \in Seq(0 .. 255) /\ cap \in Nat /\ Len(tag) \in Nat /\ Len(tag) <= cap
  BY DEF TypeOK, TagInBounds
<1>2. InitialCap \in Nat /\ InitialCap >= 1
  BY ScannerAssumption DEF ScannerAssumption
<1>3. CASE Len(tag) + 1 < cap
  BY <1>1, <1>3 DEF Grown
<1>4. CASE ~(Len(tag) + 1 < cap) /\ cap = 0
  BY <1>1, <1>2, <1>4 DEF Grown
<1>5. CASE ~(Len(tag) + 1 < cap) /\ cap # 0
  BY <1>1, <1>5 DEF Grown
<1> QED
  BY <1>3, <1>4, <1>5

LEMMA NarrowType == ASSUME NEW c \in Nat PROVE Narrow(c) \in 0 .. 255
  BY DEF Narrow

-------------------------------------------------------------------------------

LEMMA ScannerInit == Init => ScannerInv
<1> SUFFICES ASSUME Init PROVE ScannerInv
  OBVIOUS
<1>1. <<>> \in Seq(Char) /\ <<>> \in Seq(0 .. 255) /\ Len(<<>>) = 0
  OBVIOUS
<1> QED
  BY <1>1, ScannerAssumption
     DEF Init, ScannerInv, TypeOK, TagInBounds, InText, Opened, Fresh, ScannerAssumption

\* A call restores a tag for which memory was made.
LEMMA ScanKeepsInv ==
  ASSUME ScannerInv, NEW symbols \in SUBSET Symbol, Scan(symbols)
  PROVE  ScannerInv'
<1>1. tag' = buffer /\ buffer \in Seq(0 .. 255) /\ Len(buffer) \in Nat /\ cap \in Nat
  BY DEF ScannerInv, TypeOK, Scan, Deserialize
<1>2. cap' \in Nat /\ Len(buffer) <= cap'
  <2>1. CASE buffer = <<>>
    BY <1>1, <2>1 DEF Scan, Deserialize
  <2>2. CASE buffer # <<>>
    BY <1>1, <2>2 DEF Scan, Deserialize
  <2> QED
    BY <2>1, <2>2
<1>3. matched = 0 /\ matched \in 0 .. Len(buffer) /\ pc' = "start"
  BY <1>1 DEF ScannerInv, Fresh, Scan
<1>4. text' = <<>> /\ text' \in Seq(Char) /\ Len(text') = 0
  BY DEF Scan, ScannerInv, Fresh
<1>5. /\ lookahead' \in Char \cup {EndOfText}
      /\ lookahead' # EndOfText => 0 < MaxText
  BY DEF Scan, Shown
<1> QED
  BY <1>1, <1>2, <1>3, <1>4, <1>5, ScannerAssumption
     DEF Scan, ScannerInv, TypeOK, TagInBounds, InText, Opened, Fresh, ScannerAssumption

\* The actions that leave the tag, its memory and what is matched of it alone.
LEMMA TagUntouched ==
  ASSUME ScannerInv, Advance \/ Stay, UNCHANGED <<valid, tag, cap, matched, depth, buffer>>,
         pc' \in {"start", "tag", "body", "match", "comment", "slash", "star",
                  "accepted", "refused"},
         pc' = "start" => pc = "start",
         pc' \in {"comment", "slash", "star"} => pc \in {"comment", "slash", "star"}
  PROVE  ScannerInv'
<1>1. /\ text' \in Seq(Char)
      /\ Len(text') <= MaxText
      /\ lookahead' \in Char \cup {EndOfText}
      /\ InText'
  BY LexerFacts DEF ScannerInv
<1> QED
  BY <1>1 DEF ScannerInv, TypeOK, TagInBounds, Opened, Fresh

LEMMA StartKeepsInv ==
  ASSUME ScannerInv, SkipBlank \/ StartDollar \/ StartComment \/ StartNothing
  PROVE  ScannerInv'
<1>1. ASSUME SkipBlank PROVE ScannerInv'
  BY <1>1, TagUntouched DEF SkipBlank
<1>2. ASSUME StartDollar PROVE ScannerInv'
  <2>1. /\ text' \in Seq(Char)
        /\ Len(text') <= MaxText
        /\ lookahead' \in Char \cup {EndOfText}
        /\ InText'
    BY <1>2, LexerFacts DEF ScannerInv, StartDollar
  <2>2. tag' = <<>> /\ tag' \in Seq(0 .. 255) /\ Len(tag') = 0 /\ matched' = 0
    BY <1>2 DEF StartDollar, ScannerInv, Fresh
  <2>3. cap' \in Nat /\ pc' = "tag"
    BY <1>2 DEF StartDollar, ScannerInv, TypeOK
  <2> QED
    BY <1>2, <2>1, <2>2, <2>3
       DEF StartDollar, ScannerInv, TypeOK, TagInBounds, Opened, Fresh
<1>3. ASSUME StartComment PROVE ScannerInv'
  BY <1>3 DEF StartComment, Stay, ScannerInv, TypeOK, TagInBounds, InText, Opened, Fresh
<1>4. ASSUME StartNothing PROVE ScannerInv'
  BY <1>4, TagUntouched DEF StartNothing
<1> QED
  BY <1>1, <1>2, <1>3, <1>4

\* Every character of a tag is written into memory that was made for it.
LEMMA ReadTagKeepsInv ==
  ASSUME ScannerInv, ReadTag
  PROVE  ScannerInv'
<1>1. /\ text' \in Seq(Char)
      /\ Len(text') <= MaxText
      /\ lookahead' \in Char \cup {EndOfText}
      /\ InText'
  BY LexerFacts DEF ScannerInv, ReadTag
<1>2. lookahead \in Nat
  BY ScannerAssumption DEF ScannerInv, TypeOK, ReadTag, ScannerAssumption
<1>3. /\ tag \in Seq(0 .. 255)
      /\ Narrow(lookahead) \in 0 .. 255
      /\ tag' = Append(tag, Narrow(lookahead))
  BY <1>2, NarrowType DEF ScannerInv, TypeOK, ReadTag
<1>4. tag' \in Seq(0 .. 255) /\ Len(tag') = Len(tag) + 1 /\ Len(tag) \in Nat
  BY <1>3
<1>5. cap' \in Nat /\ Len(tag') <= cap'
  BY <1>4, GrownIsEnough DEF ReadTag, ScannerInv
<1>6. matched' \in 0 .. Len(tag')
  BY <1>4 DEF ReadTag, ScannerInv, TypeOK
<1> QED
  BY <1>1, <1>4, <1>5, <1>6 DEF ReadTag, ScannerInv, TypeOK, TagInBounds, Opened, Fresh

\* Matching reads the tag as far as it was written.
LEMMA DollarKeepsInv ==
  ASSUME ScannerInv,
         EndTag \/ ReadBody \/ MatchTag \/ CloseDollar \/ NoMatch \/ Refuse
  PROVE  ScannerInv'
<1>1. ASSUME EndTag PROVE ScannerInv'
  BY <1>1, TagUntouched DEF EndTag
<1>2. ASSUME ReadBody PROVE ScannerInv'
  <2>1. CASE lookahead = Dollar
    <3>1. /\ text' \in Seq(Char)
          /\ Len(text') <= MaxText
          /\ lookahead' \in Char \cup {EndOfText}
          /\ InText'
      BY <1>2, LexerFacts DEF ScannerInv, ReadBody
    <3>2. matched' = 0 /\ matched' \in 0 .. Len(tag) /\ pc' = "match"
      BY <1>2, <2>1 DEF ReadBody, ScannerInv, TypeOK
    <3> QED
      BY <1>2, <3>1, <3>2 DEF ReadBody, ScannerInv, TypeOK, TagInBounds, Opened, Fresh
  <2>2. CASE lookahead # Dollar
    BY <1>2, <2>2, TagUntouched DEF ReadBody
  <2> QED
    BY <2>1, <2>2
<1>3. ASSUME MatchTag PROVE ScannerInv'
  <2>1. /\ text' \in Seq(Char)
        /\ Len(text') <= MaxText
        /\ lookahead' \in Char \cup {EndOfText}
        /\ InText'
    BY <1>3, LexerFacts DEF ScannerInv, MatchTag
  <2>2. matched' \in 0 .. Len(tag')
    BY <1>3 DEF MatchTag, TagGoesOn, ScannerInv, TypeOK
  <2> QED
    BY <1>3, <2>1, <2>2 DEF MatchTag, ScannerInv, TypeOK, TagInBounds, Opened, Fresh
<1>4. ASSUME CloseDollar PROVE ScannerInv'
  BY <1>4, TagUntouched DEF CloseDollar
<1>5. ASSUME NoMatch PROVE ScannerInv'
  BY <1>5, TagUntouched DEF NoMatch
<1>6. ASSUME Refuse PROVE ScannerInv'
  BY <1>6, TagUntouched DEF Refuse
<1> QED
  BY <1>1, <1>2, <1>3, <1>4, <1>5, <1>6

LEMMA CommentKeepsInv ==
  ASSUME ScannerInv, ReadComment \/ AfterSlash \/ AfterStar
  PROVE  ScannerInv'
<1>1. /\ text' \in Seq(Char)
      /\ Len(text') <= MaxText
      /\ lookahead' \in Char \cup {EndOfText}
      /\ InText'
  BY LexerFacts DEF ScannerInv, ReadComment, AfterSlash, AfterStar
<1>2. depth \in Nat /\ depth > 0
  BY DEF ScannerInv, TypeOK, Opened, ReadComment, AfterSlash, AfterStar
<1>3. ASSUME ReadComment PROVE ScannerInv'
  BY <1>3, TagUntouched DEF ReadComment
<1>4. ASSUME AfterSlash PROVE ScannerInv'
  <2>1. depth' \in Nat /\ depth' > 0
    BY <1>2, <1>4 DEF AfterSlash
  <2> QED
    BY <1>1, <1>4, <2>1 DEF AfterSlash, ScannerInv, TypeOK, TagInBounds, Opened, Fresh
<1>5. ASSUME AfterStar PROVE ScannerInv'
  <2>1. /\ depth' \in Nat
        /\ pc' \in {"accepted", "comment"}
        /\ pc' = "comment" => depth' > 0
    BY <1>2, <1>5 DEF AfterStar
  <2> QED
    BY <1>1, <1>5, <2>1 DEF AfterStar, ScannerInv, TypeOK, TagInBounds, Opened, Fresh
<1> QED
  BY <1>3, <1>4, <1>5

\* What is serialized is a tag, cut off if need be.
LEMMA ReturnKeepsInv ==
  ASSUME ScannerInv, Serialize \/ Discard
  PROVE  ScannerInv'
<1>1. buffer' \in Seq(0 .. 255)
  <2>1. CASE Serialize
    <3>1. tag \in Seq(0 .. 255) /\ MaxSerialized \in Nat /\ Len(tag) \in Nat
      BY ScannerAssumption DEF ScannerInv, TypeOK, ScannerAssumption
    <3> DEFINE n == IF Len(tag) > MaxSerialized THEN MaxSerialized ELSE Len(tag)
    <3>2. n \in 0 .. Len(tag)
      BY <3>1
    <3>3. ASSUME NEW i \in 1 .. n PROVE tag[i] \in 0 .. 255
      <4>1. i \in 1 .. Len(tag)
        BY <3>1, <3>2
      <4> QED
        BY <3>1, <4>1, ElementOfSeq
    <3> HIDE DEF n
    <3>4. SubSeq(tag, 1, n) \in Seq(0 .. 255)
      BY <3>2, <3>3, SubSeqProperties
    <3> QED
      BY <2>1, <3>4 DEF Serialize, n
  <2>2. CASE Discard
    BY <2>2 DEF Discard, ScannerInv, TypeOK
  <2> QED
    BY <2>1, <2>2
<1>2. Return
  BY DEF Serialize, Discard
<1>3. /\ text' = <<>> /\ text' \in Seq(Char) /\ Len(text') = 0
      /\ lookahead' = EndOfText /\ matched' = 0 /\ depth' = 0 /\ pc' = "idle"
      /\ valid' \in SUBSET Symbol
  BY <1>2 DEF Return
<1>4. tag' = tag /\ cap' = cap /\ matched' \in 0 .. Len(tag')
  BY <1>2, <1>3 DEF Return, ScannerInv, TypeOK
<1> QED
  BY <1>1, <1>3, <1>4, ScannerAssumption
     DEF ScannerInv, TypeOK, TagInBounds, InText, Opened, Fresh, ScannerAssumption

LEMMA ScannerStep == ScannerInv /\ [Next]_vars => ScannerInv'
<1> SUFFICES ASSUME ScannerInv, [Next]_vars PROVE ScannerInv'
  OBVIOUS
<1>1. CASE Step
  BY <1>1, StartKeepsInv, ReadTagKeepsInv, DollarKeepsInv, CommentKeepsInv, ReturnKeepsInv
     DEF Step
<1>2. ASSUME NEW symbols \in SUBSET Symbol, Scan(symbols) PROVE ScannerInv'
  BY <1>2, ScanKeepsInv
<1>3. CASE UNCHANGED vars
  BY <1>3 DEF vars, ScannerInv, TypeOK, TagInBounds, InText, Opened, Fresh
<1> QED
  BY <1>1, <1>2, <1>3 DEF Next

-------------------------------------------------------------------------------

\* The state of the scanner keeps its type: the lexer stays within the text,
\* a comment is never closed more often than it was opened, and what is
\* serialized can be restored (scanner.c:30-151).
THEOREM ScannerTypeCorrect == Spec => []TypeOK
<1>1. ScannerInv => TypeOK
  BY DEF ScannerInv
<1> QED
  BY <1>1, ScannerInit, ScannerStep, PTL DEF Spec

\* No character of a tag lies beyond the memory of the scanner, for tags of
\* any length and calls in any order (scanner.c:35-39 and 145-150).
THEOREM TagStaysInBounds == Spec => []TagInBounds
<1>1. ScannerInv => TagInBounds
  BY DEF ScannerInv
<1> QED
  BY <1>1, ScannerInit, ScannerStep, PTL DEF Spec

-------------------------------------------------------------------------------
(* What SkipBlockComment finds, from the end of the text on *)

LEMMA Least ==
  ASSUME NEW N \in SUBSET Nat, N # {}
  PROVE  \E m \in N : \A n \in N : ~(n < m)
<1> DEFINE R == OpToRel(<, Nat)
<1>1. PICK m \in N : \A n \in N : ~ (<<n, m>> \in R)
  <2> HIDE DEF R
  <2>1. IsWellFoundedOn(R, Nat)
    BY NatLessThanWellFounded DEF R
  <2> QED
    BY <2>1, WFMin
<1>2. \A n \in N : n \in Nat /\ m \in Nat
  OBVIOUS
<1> QED
  BY <1>1, <1>2 DEF OpToRel

\* A property of all numbers up to n that passes on from each to the next.
LEMMA Ascent ==
  ASSUME NEW n \in Nat, NEW P \in SUBSET (0 .. n), 0 \in P, \A m \in P : m < n => m + 1 \in P
  PROVE  P = 0 .. n
<1> SUFFICES ASSUME (0 .. n) \ P # {} PROVE FALSE
  OBVIOUS
<1>1. (0 .. n) \ P \in SUBSET Nat
  OBVIOUS
<1>2. PICK m \in (0 .. n) \ P : \A k \in (0 .. n) \ P : ~(k < m)
  BY <1>1, Least
<1>3. m - 1 \in 0 .. n /\ m - 1 < m
  BY <1>2
<1>4. m - 1 \in P /\ (m - 1) + 1 = m /\ m - 1 < n
  BY <1>2, <1>3
<1> QED
  BY <1>2, <1>4

\* Position p with d comments open.
At(p, d) == <<p, d>>

\* Where one can be with how many comments open.
Places(src) == {at \in (1 .. Len(src) + 1) \X (1 .. Len(src) + 1) : at[2] <= at[1]}

\* What is found from position p with d comments open, if f says it of later positions.
Found(src, f, p, d) ==
  CASE p > Len(src)                -> T!Unterminated
    [] T!Pair(src, p, Slash, Star) -> f[At(p + 2, d + 1)]
    [] T!Pair(src, p, Star, Slash) -> IF d = 1 THEN p + 2 ELSE f[At(p + 2, d - 1)]
    [] OTHER                       -> f[At(p + 1, d)]

\* f says it of every place.
Skips(src, f) == f = [at \in Places(src) |-> Found(src, f, at[1], at[2])]

LEMMA PairsDiffer ==
  ASSUME NEW src, NEW p
  PROVE  ~(T!Pair(src, p, Slash, Star) /\ T!Pair(src, p, Star, Slash))
  BY ScannerAssumption DEF T!Pair, ScannerAssumption

LEMMA FoundAtEnd ==
  ASSUME NEW src, NEW f, NEW p, NEW d, p > Len(src), p \in Nat, Len(src) \in Nat
  PROVE  Found(src, f, p, d) = T!Unterminated
<1>1. ~T!Pair(src, p, Slash, Star) /\ ~T!Pair(src, p, Star, Slash)
  BY DEF T!Pair
<1> QED
  BY <1>1 DEF Found

LEMMA FoundAtOpening ==
  ASSUME NEW src, NEW f, NEW p, NEW d, T!Pair(src, p, Slash, Star), p \in Nat, Len(src) \in Nat
  PROVE  Found(src, f, p, d) = f[At(p + 2, d + 1)]
<1>1. ~(p > Len(src)) /\ ~T!Pair(src, p, Star, Slash)
  BY PairsDiffer DEF T!Pair
<1> QED
  BY <1>1 DEF Found

LEMMA FoundAtClosing ==
  ASSUME NEW src, NEW f, NEW p, NEW d, T!Pair(src, p, Star, Slash), p \in Nat, Len(src) \in Nat
  PROVE  Found(src, f, p, d) = IF d = 1 THEN p + 2 ELSE f[At(p + 2, d - 1)]
<1>1. ~(p > Len(src)) /\ ~T!Pair(src, p, Slash, Star)
  BY PairsDiffer DEF T!Pair
<1> QED
  BY <1>1 DEF Found

LEMMA FoundElsewhere ==
  ASSUME NEW src, NEW f, NEW p, NEW d, p \in 1 .. Len(src), Len(src) \in Nat,
         ~T!Pair(src, p, Slash, Star), ~T!Pair(src, p, Star, Slash)
  PROVE  Found(src, f, p, d) = f[At(p + 1, d)]
<1>1. ~(p > Len(src))
  OBVIOUS
<1> QED
  BY <1>1 DEF Found

\* Only what is found at later places matters.
LEMMA FoundLater ==
  ASSUME NEW src, Len(src) \in Nat, NEW f, NEW g, NEW p, NEW d, At(p, d) \in Places(src),
         \A at \in Places(src) : at[1] > p => f[at] = g[at]
  PROVE  Found(src, f, p, d) = Found(src, g, p, d)
<1>1. p \in 1 .. Len(src) + 1 /\ d \in 1 .. Len(src) + 1 /\ d <= p
  BY DEF Places, At
<1>2. \A q, e : /\ q \in 1 .. Len(src) + 1 /\ e \in 1 .. q /\ q > p
                => f[At(q, e)] = g[At(q, e)]
  <2>1. ASSUME NEW q, NEW e, q \in 1 .. Len(src) + 1, e \in 1 .. q, q > p
        PROVE  f[At(q, e)] = g[At(q, e)]
    <3>1. At(q, e) \in Places(src) /\ At(q, e)[1] = q
      BY <2>1 DEF Places, At
    <3> QED
      BY <2>1, <3>1
  <2> QED
    BY <2>1
<1>0. p \in Nat /\ d \in Nat
  BY <1>1
<1>3. CASE p > Len(src)
  BY <1>0, <1>3, FoundAtEnd
<1>4. CASE T!Pair(src, p, Slash, Star)
  <2>1. p + 2 \in 1 .. Len(src) + 1 /\ d + 1 \in 1 .. p + 2 /\ p + 2 > p
    BY <1>1, <1>4 DEF T!Pair
  <2>2. f[At(p + 2, d + 1)] = g[At(p + 2, d + 1)]
    BY <1>2, <2>1
  <2> QED
    BY <1>0, <1>4, <2>2, FoundAtOpening
<1>5. CASE T!Pair(src, p, Star, Slash)
  <2>1. \A h : Found(src, h, p, d) = IF d = 1 THEN p + 2 ELSE h[At(p + 2, d - 1)]
    BY <1>0, <1>5, FoundAtClosing
  <2>2. ASSUME d # 1 PROVE f[At(p + 2, d - 1)] = g[At(p + 2, d - 1)]
    <3>1. p + 2 \in 1 .. Len(src) + 1 /\ d - 1 \in 1 .. p + 2 /\ p + 2 > p
      BY <1>1, <1>5, <2>2 DEF T!Pair
    <3> QED
      BY <1>2, <3>1
  <2> QED
    BY <2>1, <2>2
<1>6. CASE p <= Len(src) /\ ~T!Pair(src, p, Slash, Star) /\ ~T!Pair(src, p, Star, Slash)
  <2>1. p + 1 \in 1 .. Len(src) + 1 /\ d \in 1 .. p + 1 /\ p + 1 > p
    BY <1>1, <1>6
  <2>2. f[At(p + 1, d)] = g[At(p + 1, d)]
    BY <1>2, <2>1
  <2> QED
    BY <1>1, <1>6, <2>2, FoundElsewhere
<1> QED
  BY <1>1, <1>3, <1>4, <1>5, <1>6

\* f says it rightly from position from on.
SkipsFrom(src, f, from) ==
  \A at \in Places(src) : at[1] >= from => f[at] = Found(src, f, at[1], at[2])

LEMMA PlaceFacts ==
  ASSUME NEW src, Len(src) \in Nat, NEW at \in Places(src)
  PROVE  /\ at = At(at[1], at[2])
         /\ at[1] \in 1 .. Len(src) + 1
         /\ at[2] \in 1 .. at[1]
  BY DEF Places, At

\* What SkipBlockComment finds is determined from the end of the text on.
LEMMA SkipsFromAll ==
  ASSUME NEW src, Len(src) \in Nat
  PROVE  \E f : SkipsFrom(src, f, 1)
<1> DEFINE P == {n \in 0 .. Len(src) : \E f : SkipsFrom(src, f, Len(src) + 1 - n)}
<1>1. 0 \in P
  <2> DEFINE f == [at \in Places(src) |-> T!Unterminated]
  <2>1. ASSUME NEW at \in Places(src), at[1] >= Len(src) + 1
        PROVE  f[at] = Found(src, f, at[1], at[2])
    <3>1. at[1] > Len(src) /\ at[1] \in Nat
      BY <2>1, PlaceFacts
    <3> HIDE DEF f
    <3>2. Found(src, f, at[1], at[2]) = T!Unterminated
      BY <3>1, FoundAtEnd
    <3> QED
      BY <3>2 DEF f
  <2>2. SkipsFrom(src, f, Len(src) + 1)
    <3> HIDE DEF f
    <3> QED
      BY <2>1 DEF SkipsFrom
  <2>3. Len(src) + 1 - 0 = Len(src) + 1
    OBVIOUS
  <2> HIDE DEF f
  <2> QED
    BY <2>2, <2>3
<1>2. ASSUME NEW m \in P, m < Len(src) PROVE m + 1 \in P
  <2> DEFINE from == Len(src) + 1 - m
  <2>1. PICK f : SkipsFrom(src, f, from)
    OBVIOUS
  <2> DEFINE g == [at \in Places(src) |->
                     IF at[1] >= from THEN f[at] ELSE Found(src, f, at[1], at[2])]
  <2>2. from \in Nat /\ Len(src) + 1 - (m + 1) = from - 1 /\ m + 1 \in 0 .. Len(src)
    BY <1>2
  <2>3. \A at \in Places(src) : at[1] >= from => f[at] = g[at]
    OBVIOUS
  <2>4. ASSUME NEW at \in Places(src), at[1] >= from - 1
        PROVE  g[at] = Found(src, g, at[1], at[2])
    <3>1. at = At(at[1], at[2]) /\ at[1] \in Nat
      BY PlaceFacts
    <3>2. g[at] = Found(src, f, at[1], at[2])
      <4>1. CASE at[1] >= from
        BY <4>1, <2>1 DEF SkipsFrom
      <4>2. CASE ~(at[1] >= from)
        BY <4>2
      <4> QED
        BY <4>1, <4>2
    <3> HIDE DEF g, P
    <3>3. \A there \in Places(src) : there[1] > at[1] => f[there] = g[there]
      <4>1. ASSUME NEW there \in Places(src), there[1] > at[1] PROVE there[1] >= from
        <5>1. there[1] \in Nat
          BY PlaceFacts
        <5> QED
          BY <2>2, <2>4, <3>1, <4>1, <5>1
      <4> QED
        BY <4>1, <2>3
    <3>4. Found(src, f, at[1], at[2]) = Found(src, g, at[1], at[2])
      <4> DEFINE p == at[1]  d == at[2]
      <4>1. at = <<p, d>>
        BY <3>1 DEF At
      <4>2. At(p, d) \in Places(src)
        BY <3>1
      <4> HIDE DEF p, d
      <4>3. \A there \in Places(src) : there[1] > p => f[there] = g[there]
        BY <3>3 DEF p
      <4>4. Found(src, f, p, d) = Found(src, g, p, d)
        BY <4>2, <4>3, FoundLater
      <4> QED
        BY <4>4 DEF p, d
    <3> QED
      BY <3>2, <3>4
  <2>5. SkipsFrom(src, g, from - 1)
    <3> HIDE DEF g
    <3> QED
      BY <2>4 DEF SkipsFrom
  <2>6. SkipsFrom(src, g, Len(src) + 1 - (m + 1))
    <3> HIDE DEF g, from
    <3> QED
      BY <2>2, <2>5
  <2> HIDE DEF g, from
  <2> QED
    BY <2>2, <2>6
<1>3. P \in SUBSET (0 .. Len(src))
  OBVIOUS
<1>4. P = 0 .. Len(src)
  <2> HIDE DEF P
  <2> QED
    BY <1>1, <1>2, <1>3, Ascent
<1>5. Len(src) \in P /\ Len(src) + 1 - Len(src) = 1
  <2> HIDE DEF P
  <2> QED
    BY <1>4
<1> QED
  BY <1>5

LEMMA SkipIsDefined ==
  ASSUME NEW src, Len(src) \in Nat
  PROVE  Skips(src, T!SkipFrom(src))
<1>1. PICK f : SkipsFrom(src, f, 1)
  BY SkipsFromAll
<1> DEFINE g == [at \in Places(src) |-> f[at]]
<1>2. \A at \in Places(src) : g[at] = f[at]
  OBVIOUS
<1>3. ASSUME NEW at \in Places(src) PROVE f[at] = Found(src, g, at[1], at[2])
  <2> DEFINE p == at[1]  d == at[2]
  <2>1. at = At(p, d) /\ p >= 1
    BY PlaceFacts
  <2>2. At(p, d) \in Places(src)
    BY <2>1
  <2>3. f[at] = Found(src, f, p, d)
    BY <1>1, <2>1 DEF SkipsFrom
  <2> HIDE DEF p, d, g
  <2>4. Found(src, f, p, d) = Found(src, g, p, d)
    BY <2>2, <1>2, FoundLater
  <2> QED
    BY <2>3, <2>4 DEF p, d
<1>4. g = [at \in Places(src) |-> Found(src, g, at[1], at[2])]
  BY <1>3
<1>5. \E h : Skips(src, h)
  <2> HIDE DEF g
  <2> QED
    BY <1>4 DEF Skips
<1>6. T!SkipFrom(src) = CHOOSE h : Skips(src, h)
  BY DEF T!SkipFrom, Skips, Found, Places, At
<1> HIDE DEF g
<1> QED
  BY <1>5, <1>6

\* What SkipBlockComment finds at each place.
LEMMA SkipAt ==
  ASSUME NEW src, Len(src) \in Nat, NEW p \in 1 .. Len(src) + 1, NEW d \in 1 .. p
  PROVE  T!SkipFrom(src)[At(p, d)] = Found(src, T!SkipFrom(src), p, d)
<1> DEFINE f == T!SkipFrom(src)
<1>1. Skips(src, f)
  BY SkipIsDefined
<1>2. At(p, d) \in Places(src) /\ At(p, d)[1] = p /\ At(p, d)[2] = d
  BY DEF Places, At
<1> HIDE DEF f
<1>3. f[At(p, d)] = Found(src, f, At(p, d)[1], At(p, d)[2])
  BY <1>1, <1>2 DEF Skips
<1> QED
  BY <1>2, <1>3 DEF f

-------------------------------------------------------------------------------
(* Where a token begins *)

\* Token, as an operator of the text.
TokenIn(t) ==
  LET first == CHOOSE i \in 1 .. Len(t) + 1 :
                 /\ i <= Len(t) => t[i] \notin Blank
                 /\ \A j \in 1 .. i - 1 : t[j] \in Blank
  IN  SubSeq(t, first, Len(t))

AllBlank(t) == \A j \in 1 .. Len(t) : t[j] \in Blank

\* The first character of t that is not blank is the one at i.
FirstAt(t, i) ==
  /\ i \in 1 .. Len(t)
  /\ t[i] \notin Blank
  /\ \A j \in 1 .. i - 1 : t[j] \in Blank

\* The scanner takes to a dollar-quoted string or to a comment by the first
\* character that is not blank.
Begun ==
  /\ pc = "start" => AllBlank(text)
  /\ pc \in {"tag", "body", "match"} =>
       /\ DollarQuotedString \in valid
       /\ \E i \in 1 .. Len(text) : FirstAt(text, i) /\ text[i] = Dollar
  /\ pc \in {"comment", "slash", "star"} /\ DollarQuotedString \in valid =>
       \/ \E i \in 1 .. Len(text) : FirstAt(text, i) /\ text[i] # Dollar
       \/ AllBlank(text) /\ lookahead \notin Blank /\ lookahead # Dollar

LEMMA TokenFrom ==
  ASSUME NEW t \in Seq(Char), NEW i, FirstAt(t, i)
  PROVE  TokenIn(t) = SubSeq(t, i, Len(t))
<1> DEFINE Q(n) == /\ n <= Len(t) => t[n] \notin Blank
                   /\ \A j \in 1 .. n - 1 : t[j] \in Blank
<1>1. i \in 1 .. Len(t) + 1 /\ Q(i) /\ Len(t) \in Nat
  BY DEF FirstAt
<1>2. ASSUME NEW n \in 1 .. Len(t) + 1, Q(n) PROVE n = i
  <2>1. CASE n < i
    BY <1>1, <1>2, <2>1 DEF FirstAt
  <2>2. CASE i < n
    BY <1>1, <1>2, <2>2 DEF FirstAt
  <2> QED
    BY <1>1, <2>1, <2>2
<1>3. TokenIn(t) = SubSeq(t, CHOOSE n \in 1 .. Len(t) + 1 : Q(n), Len(t))
  BY DEF TokenIn
<1> HIDE DEF Q
<1>4. (CHOOSE n \in 1 .. Len(t) + 1 : Q(n)) = i
  BY <1>1, <1>2
<1> QED
  BY <1>3, <1>4

LEMMA TokenOfBlanks ==
  ASSUME NEW t \in Seq(Char), AllBlank(t)
  PROVE  TokenIn(t) = <<>>
<1> DEFINE Q(n) == /\ n <= Len(t) => t[n] \notin Blank
                   /\ \A j \in 1 .. n - 1 : t[j] \in Blank
<1>1. Len(t) + 1 \in 1 .. Len(t) + 1 /\ Q(Len(t) + 1) /\ Len(t) \in Nat
  BY DEF AllBlank
<1>2. ASSUME NEW n \in 1 .. Len(t) + 1, Q(n) PROVE n = Len(t) + 1
  BY <1>1, <1>2 DEF AllBlank
<1>3. TokenIn(t) = SubSeq(t, CHOOSE n \in 1 .. Len(t) + 1 : Q(n), Len(t))
  BY DEF TokenIn
<1> HIDE DEF Q
<1>4. (CHOOSE n \in 1 .. Len(t) + 1 : Q(n)) = Len(t) + 1
  BY <1>1, <1>2
<1>5. SubSeq(t, Len(t) + 1, Len(t)) = <<>>
  BY <1>1, SubSeqProperties
<1> QED
  BY <1>3, <1>4, <1>5

\* The first character of a token stays so, whatever is read after it.
LEMMA FirstStays ==
  ASSUME NEW t \in Seq(Char), NEW i, FirstAt(t, i), NEW c \in Char
  PROVE  FirstAt(Append(t, c), i) /\ Append(t, c)[i] = t[i]
<1>1. /\ Len(Append(t, c)) = Len(t) + 1
      /\ \A j \in 1 .. Len(t) : Append(t, c)[j] = t[j]
  OBVIOUS
<1>2. i \in 1 .. Len(t) /\ Len(t) \in Nat
  BY DEF FirstAt
<1>3. /\ i \in 1 .. Len(t) + 1
      /\ Append(t, c)[i] = t[i]
      /\ \A j \in 1 .. i - 1 : Append(t, c)[j] = t[j]
  BY <1>1, <1>2
<1> DEFINE u == Append(t, c)
<1> HIDE DEF u
<1>4. Len(u) = Len(t) + 1 /\ u[i] = t[i] /\ \A j \in 1 .. i - 1 : u[j] = t[j]
  BY <1>1, <1>3 DEF u
<1>5. FirstAt(u, i)
  BY <1>3, <1>4 DEF FirstAt
<1> QED
  BY <1>4, <1>5 DEF u

\* After blanks, a character that is none begins the token.
LEMMA FirstAfterBlanks ==
  ASSUME NEW t \in Seq(Char), AllBlank(t), NEW c \in Char
  PROVE  /\ c \in Blank => AllBlank(Append(t, c))
         /\ c \notin Blank => /\ FirstAt(Append(t, c), Len(t) + 1)
                              /\ Append(t, c)[Len(t) + 1] = c
<1> DEFINE u == Append(t, c)
<1>1. /\ Len(u) = Len(t) + 1
      /\ \A j \in 1 .. Len(t) : u[j] = t[j]
      /\ u[Len(t) + 1] = c
      /\ Len(t) \in Nat
  OBVIOUS
<1> HIDE DEF u
<1>2. c \in Blank => AllBlank(u)
  BY <1>1 DEF AllBlank
<1>3. c \notin Blank => FirstAt(u, Len(t) + 1)
  BY <1>1 DEF AllBlank, FirstAt
<1> QED
  BY <1>1, <1>2, <1>3 DEF u

\* lexer->advance, by the character that is passed.
LEMMA AdvancePasses ==
  ASSUME TypeOK, Advance \/ Stay
  PROVE  \/ UNCHANGED <<text, lookahead>>
         \/ Advance /\ lookahead \in Char /\ text' = Append(text, lookahead)
  BY DEF TypeOK, Advance, Stay

LEMMA CharFacts ==
  /\ Dollar \in Char /\ Slash \in Char /\ Star \in Char /\ Slash # Star
  /\ Dollar \notin Blank /\ Slash \notin Blank /\ Star \notin Blank
  /\ Blank \subseteq Char /\ Char \subseteq Nat
  /\ EndOfText \notin Char
  BY ScannerAssumption DEF ScannerAssumption, EndOfText

\* Within a token, what began it is left as it is.
LEMMA BegunStays ==
  ASSUME TypeOK, Begun, Advance \/ Stay, valid' = valid,
         \/ pc \in {"tag", "body", "match"} /\ pc' \notin {"start", "comment", "slash", "star"}
         \/ pc \in {"comment", "slash", "star"} /\ pc' \notin {"start", "tag", "body", "match"}
  PROVE  Begun'
<1>1. text \in Seq(Char) /\ lookahead \in Char \cup {EndOfText}
  BY DEF TypeOK
<1>2. CASE UNCHANGED <<text, lookahead>>
  BY <1>2 DEF Begun
<1>3. ASSUME Advance, lookahead \in Char, text' = Append(text, lookahead) PROVE Begun'
  <2>1. ASSUME NEW i, FirstAt(text, i)
        PROVE  FirstAt(text', i) /\ i \in 1 .. Len(text') /\ text'[i] = text[i]
    BY <1>1, <1>3, <2>1, FirstStays DEF FirstAt
  <2>2. CASE pc \in {"tag", "body", "match"}
    <3>1. PICK i \in 1 .. Len(text) : FirstAt(text, i) /\ text[i] = Dollar
      BY <2>2 DEF Begun
    <3>2. FirstAt(text', i) /\ i \in 1 .. Len(text') /\ text'[i] = Dollar
      BY <2>1, <3>1
    <3> QED
      BY <2>2, <3>2 DEF Begun
  <2>3. CASE pc \in {"comment", "slash", "star"} /\ DollarQuotedString \in valid
    <3>1. CASE \E i \in 1 .. Len(text) : FirstAt(text, i) /\ text[i] # Dollar
      <4>1. PICK i \in 1 .. Len(text) : FirstAt(text, i) /\ text[i] # Dollar
        BY <3>1
      <4>2. FirstAt(text', i) /\ i \in 1 .. Len(text') /\ text'[i] # Dollar
        BY <2>1, <4>1
      <4> QED
        BY <2>3, <4>2 DEF Begun
    <3>2. CASE AllBlank(text) /\ lookahead \notin Blank /\ lookahead # Dollar
      <4>1. FirstAt(text', Len(text) + 1) /\ text'[Len(text) + 1] # Dollar
        BY <1>1, <1>3, <3>2, FirstAfterBlanks
      <4>2. Len(text) + 1 \in 1 .. Len(text')
        BY <4>1 DEF FirstAt
      <4> QED
        BY <2>3, <4>1, <4>2 DEF Begun
    <3> QED
      BY <2>3, <3>1, <3>2 DEF Begun
  <2>4. CASE pc \in {"comment", "slash", "star"} /\ DollarQuotedString \notin valid
    BY <2>4 DEF Begun
  <2> QED
    BY <2>2, <2>3, <2>4
<1> QED
  BY <1>2, <1>3, AdvancePasses

LEMMA BegunStep ==
  ASSUME ScannerInv, Begun, [Next]_vars
  PROVE  Begun'
<1> USE DEF ScannerInv
<1>0. text \in Seq(Char)
  BY DEF TypeOK
<1>1. ASSUME NEW symbols, Scan(symbols) PROVE Begun'
  <2>1. text' = <<>> /\ AllBlank(text') /\ pc' = "start"
    BY <1>1 DEF Scan, Fresh, AllBlank
  <2> QED
    BY <2>1 DEF Begun
<1>2. ASSUME SkipBlank PROVE Begun'
  <2>1. lookahead \in Char /\ lookahead \in Blank /\ pc' = "start" /\ AllBlank(text)
    BY <1>2, CharFacts DEF SkipBlank, Begun
  <2>2. text' = Append(text, lookahead)
    BY <1>2, <2>1, CharFacts DEF SkipBlank, Advance
  <2>3. AllBlank(text')
    BY <1>0, <2>1, <2>2, FirstAfterBlanks
  <2> QED
    BY <2>1, <2>3 DEF Begun
<1>3. ASSUME StartDollar PROVE Begun'
  <2>1. /\ lookahead \in Char /\ lookahead = Dollar /\ pc' = "tag" /\ AllBlank(text)
        /\ DollarQuotedString \in valid'
    BY <1>3, CharFacts DEF StartDollar, AtDollar, Begun
  <2>2. text' = Append(text, lookahead)
    BY <1>3, <2>1, CharFacts DEF StartDollar, Advance
  <2>3. FirstAt(text', Len(text) + 1) /\ text'[Len(text) + 1] = Dollar
    BY <1>0, <2>1, <2>2, FirstAfterBlanks, CharFacts
  <2>4. Len(text) + 1 \in 1 .. Len(text')
    BY <2>3 DEF FirstAt
  <2> QED
    BY <2>1, <2>3, <2>4 DEF Begun
<1>4. ASSUME StartComment PROVE Begun'
  BY <1>4 DEF StartComment, Stay, AtDollar, Begun
<1>5. ASSUME StartNothing PROVE Begun'
  BY <1>5 DEF StartNothing, Begun
<1>6. ASSUME ReadTag \/ EndTag \/ ReadBody \/ MatchTag \/ CloseDollar \/ NoMatch PROVE Begun'
  <2>1. Advance \/ Stay
    BY <1>6 DEF ReadTag, EndTag, ReadBody, MatchTag, CloseDollar, NoMatch
  <2>2. /\ valid' = valid
        /\ pc \in {"tag", "body", "match"}
        /\ pc' \notin {"start", "comment", "slash", "star"}
    BY <1>6 DEF ReadTag, EndTag, ReadBody, MatchTag, CloseDollar, NoMatch
  <2> QED
    BY <2>1, <2>2, BegunStays
<1>7. ASSUME ReadComment \/ AfterSlash \/ AfterStar PROVE Begun'
  <2>1. Advance \/ Stay
    BY <1>7 DEF ReadComment, AfterSlash, AfterStar
  <2>2. /\ valid' = valid
        /\ pc \in {"comment", "slash", "star"}
        /\ pc' \notin {"start", "tag", "body", "match"}
    BY <1>7 DEF ReadComment, AfterSlash, AfterStar
  <2> QED
    BY <2>1, <2>2, BegunStays
<1>8. ASSUME Refuse \/ Serialize \/ Discard PROVE Begun'
  BY <1>8 DEF Refuse, Serialize, Discard, Return, Begun
<1>9. CASE UNCHANGED vars
  BY <1>9 DEF vars, Begun
<1> QED
  BY <1>1, <1>2, <1>3, <1>4, <1>5, <1>6, <1>7, <1>8, <1>9 DEF Next, Step

LEMMA AlwaysBegun == Spec => [](ScannerInv /\ Begun)
<1>1. Init => Begun
  BY DEF Init, Begun
<1>2. ScannerInv /\ Begun /\ [Next]_vars => Begun'
  BY BegunStep
<1> QED
  BY <1>1, <1>2, ScannerInit, ScannerStep, PTL DEF Spec

-------------------------------------------------------------------------------
(* Comments *)

\* x is a text of which the lexer has passed t and shows c.
Shows(x, t, c) ==
  /\ x \in Seq(Char)
  /\ Len(t) <= Len(x)
  /\ \A i \in 1 .. Len(t) : x[i] = t[i]
  /\ c = EndOfText => Len(x) = Len(t)
  /\ c # EndOfText => Len(t) < Len(x) /\ x[Len(t) + 1] = c

\* What SkipBlockComment finds in x is what it finds from p with d comments open.
Comes(x, p, d) == T!SkipBlockComment(x) = T!SkipFrom(x)[At(p, d)]

\* The scanner is where SkipBlockComment comes by, in every text it may be
\* reading: after a slash or a star one character behind.
CommentRead ==
  /\ pc = "start" =>
       \A x : Shows(x, text, lookahead) => Comes(x, Len(text) + 1, 1)
  /\ pc = "comment" =>
       /\ depth \in 1 .. Len(text) + 1
       /\ \A x : Shows(x, text, lookahead) => Comes(x, Len(text) + 1, depth)
  /\ pc \in {"slash", "star"} =>
       /\ text # <<>>
       /\ text[Len(text)] = IF pc = "slash" THEN Slash ELSE Star
       /\ depth \in 1 .. Len(text)
       /\ \A x : Shows(x, text, lookahead) => Comes(x, Len(text), depth)
  /\ CommentAgreesWithFormatter

\* A text of which more has been passed is one of which less has.
LEMMA ShowsBefore ==
  ASSUME NEW t \in Seq(Char), NEW c \in Char, NEW e, NEW x, Shows(x, Append(t, c), e)
  PROVE  Shows(x, t, c) /\ Len(t) + 1 <= Len(x)
<1>1. /\ Len(Append(t, c)) = Len(t) + 1
      /\ \A i \in 1 .. Len(t) : Append(t, c)[i] = t[i]
      /\ Append(t, c)[Len(t) + 1] = c
      /\ Len(t) \in Nat
  OBVIOUS
<1>2. c # EndOfText
  BY CharFacts
<1>3. x \in Seq(Char) /\ Len(x) \in Nat /\ Len(t) + 1 <= Len(x)
  BY <1>1 DEF Shows
<1>4. \A i \in 1 .. Len(t) + 1 : x[i] = Append(t, c)[i]
  BY <1>1 DEF Shows
<1>5. (\A i \in 1 .. Len(t) : x[i] = t[i]) /\ x[Len(t) + 1] = c
  BY <1>1, <1>4
<1> QED
  BY <1>1, <1>2, <1>3, <1>5 DEF Shows

\* What has been passed is such a text, when the lexer shows its end.
LEMMA ShowsItself ==
  ASSUME NEW t \in Seq(Char)
  PROVE  Shows(t, t, EndOfText)
  BY DEF Shows

\* So is what has been passed and the character that is shown.
LEMMA ShowsNext ==
  ASSUME NEW t \in Seq(Char), NEW c \in Char
  PROVE  Shows(Append(t, c), t, c)
<1> DEFINE u == Append(t, c)
<1>1. /\ u \in Seq(Char)
      /\ Len(u) = Len(t) + 1
      /\ \A i \in 1 .. Len(t) : u[i] = t[i]
      /\ u[Len(t) + 1] = c
      /\ Len(t) \in Nat
  OBVIOUS
<1>2. c # EndOfText
  BY CharFacts
<1> HIDE DEF u
<1>3. Shows(u, t, c)
  BY <1>1, <1>2 DEF Shows
<1> QED
  BY <1>3 DEF u

\* How SkipBlockComment goes on from a place within the text.
LEMMA ComesOn ==
  ASSUME NEW x \in Seq(Char), NEW p \in 1 .. Len(x) + 1, NEW d \in 1 .. p, Comes(x, p, d)
  PROVE  /\ p > Len(x) => T!SkipBlockComment(x) = T!Unterminated
         /\ T!Pair(x, p, Slash, Star) => Comes(x, p + 2, d + 1)
         /\ T!Pair(x, p, Star, Slash) /\ d = 1 => T!SkipBlockComment(x) = p + 2
         /\ T!Pair(x, p, Star, Slash) /\ d # 1 => Comes(x, p + 2, d - 1)
         /\ p <= Len(x) /\ ~T!Pair(x, p, Slash, Star) /\ ~T!Pair(x, p, Star, Slash) =>
              Comes(x, p + 1, d)
<1> DEFINE f == T!SkipFrom(x)
<1>1. Len(x) \in Nat /\ p \in Nat
  OBVIOUS
<1>2. T!SkipBlockComment(x) = Found(x, f, p, d)
  BY <1>1, SkipAt DEF Comes
<1> HIDE DEF f
<1>3. ASSUME p > Len(x) PROVE T!SkipBlockComment(x) = T!Unterminated
  BY <1>1, <1>2, <1>3, FoundAtEnd
<1>4. ASSUME T!Pair(x, p, Slash, Star) PROVE T!SkipBlockComment(x) = f[At(p + 2, d + 1)]
  BY <1>1, <1>2, <1>4, FoundAtOpening
<1>5. ASSUME T!Pair(x, p, Star, Slash)
      PROVE  T!SkipBlockComment(x) = IF d = 1 THEN p + 2 ELSE f[At(p + 2, d - 1)]
  BY <1>1, <1>2, <1>5, FoundAtClosing
<1>6. ASSUME p <= Len(x), ~T!Pair(x, p, Slash, Star), ~T!Pair(x, p, Star, Slash)
      PROVE  T!SkipBlockComment(x) = f[At(p + 1, d)]
  <2>1. p \in 1 .. Len(x)
    BY <1>1, <1>6
  <2> QED
    BY <1>1, <1>2, <1>6, <2>1, FoundElsewhere
<1>7. T!Pair(x, p, Star, Slash) /\ d = 1 => T!SkipBlockComment(x) = p + 2
  BY <1>5
<1>8. T!Pair(x, p, Star, Slash) /\ d # 1 => T!SkipBlockComment(x) = f[At(p + 2, d - 1)]
  BY <1>5
<1> QED
  BY <1>3, <1>4, <1>6, <1>7, <1>8 DEF Comes, f

\* One character further in every text the lexer may be reading.
LEMMA PassOne ==
  ASSUME TypeOK, Advance, lookahead \in Char
  PROVE  /\ text' = Append(text, lookahead)
         /\ Len(text') = Len(text) + 1
         /\ text'[Len(text')] = lookahead
         /\ \A x : Shows(x, text', lookahead') =>
              /\ Shows(x, text, lookahead)
              /\ Len(text) + 1 <= Len(x)
              /\ x[Len(text) + 1] = lookahead
<1>1. text \in Seq(Char) /\ text' = Append(text, lookahead) /\ lookahead # EndOfText
  BY CharFacts DEF TypeOK, Advance
<1>2. Len(text') = Len(text) + 1 /\ text'[Len(text) + 1] = lookahead
  BY <1>1
<1>3. ASSUME NEW x, Shows(x, text', lookahead')
      PROVE  /\ Shows(x, text, lookahead)
             /\ Len(text) + 1 <= Len(x)
             /\ x[Len(text) + 1] = lookahead
  <2>1. Shows(x, text, lookahead) /\ Len(text) + 1 <= Len(x)
    BY <1>1, <1>3, ShowsBefore
  <2> QED
    BY <1>1, <2>1 DEF Shows
<1> QED
  BY <1>1, <1>2, <1>3

\* What the first character of a token says of the symbol it is for.
LEMMA DollarTokens ==
  ASSUME NEW t \in Seq(Char), NEW i \in 1 .. Len(t), FirstAt(t, i)
  PROVE  /\ TokenIn(t) \in Seq(Char)
         /\ TokenIn(t) # <<>>
         /\ Head(TokenIn(t)) = t[i]
         /\ Len(TokenIn(t)) = Len(t) + 1 - i
         /\ \A k \in 1 .. Len(t) + 1 - i : TokenIn(t)[k] = t[i + k - 1]
<1>1. TokenIn(t) = SubSeq(t, i, Len(t))
  BY TokenFrom
<1>2. i \in 1 .. Len(t) /\ Len(t) \in Nat
  OBVIOUS
<1>3. \A k \in i .. Len(t) : t[k] \in Char
  BY <1>2
<1> DEFINE u == SubSeq(t, i, Len(t))
<1>4. /\ u \in Seq(Char)
      /\ Len(u) = Len(t) + 1 - i
      /\ \A k \in 1 .. Len(t) - i + 1 : u[k] = t[i + k - 1]
  BY <1>2, <1>3, SubSeqProperties
<1> HIDE DEF u
<1>5. u # <<>> /\ Head(u) = u[1] /\ u[1] = t[i]
  BY <1>2, <1>4
<1>6. \A k \in 1 .. Len(t) + 1 - i : u[k] = t[i + k - 1]
  BY <1>2, <1>4
<1> QED
  BY <1>1, <1>4, <1>5, <1>6 DEF u

LEMMA TokenTokenIn == Token = TokenIn(text) /\ Token' = TokenIn(text')
  BY DEF Token, TokenIn

\* A token that was begun as a string is one, and one begun as a comment is none.
LEMMA BegunDecides ==
  ASSUME TypeOK, Begun
  PROVE  /\ pc \in {"tag", "body", "match"} => IsDollar
         /\ pc \in {"comment", "slash", "star"} => ~IsDollar
<1>0. text \in Seq(Char)
  BY DEF TypeOK
<1>1. ASSUME pc \in {"tag", "body", "match"} PROVE IsDollar
  <2>1. PICK i \in 1 .. Len(text) : FirstAt(text, i) /\ text[i] = Dollar
    BY <1>1 DEF Begun
  <2> QED
    BY <1>0, <1>1, <2>1, DollarTokens, TokenTokenIn DEF Begun, IsDollar
<1>2. ASSUME pc \in {"comment", "slash", "star"}, DollarQuotedString \in valid PROVE ~IsDollar
  <2>1. CASE \E i \in 1 .. Len(text) : FirstAt(text, i) /\ text[i] # Dollar
    <3>1. PICK i \in 1 .. Len(text) : FirstAt(text, i) /\ text[i] # Dollar
      BY <2>1
    <3> QED
      BY <1>0, <3>1, DollarTokens, TokenTokenIn DEF IsDollar
  <2>2. CASE AllBlank(text)
    BY <1>0, <2>2, TokenOfBlanks, TokenTokenIn DEF IsDollar
  <2> QED
    BY <1>2, <2>1, <2>2 DEF Begun
<1> QED
  BY <1>1, <1>2 DEF IsDollar

\* A call that ends a string leaves a token that is a string.
LEMMA DollarEndsDollar ==
  ASSUME TypeOK, TypeOK', Begun, pc \in {"tag", "body", "match"}, Advance \/ Stay, valid' = valid
  PROVE  IsDollar'
<1>1. text \in Seq(Char) /\ text' \in Seq(Char)
  BY DEF TypeOK
<1>2. PICK i \in 1 .. Len(text) : FirstAt(text, i) /\ text[i] = Dollar
  BY DEF Begun
<1>3. i \in 1 .. Len(text') /\ FirstAt(text', i) /\ text'[i] = Dollar
  <2>1. CASE text' = text
    BY <1>2, <2>1
  <2>2. CASE lookahead \in Char /\ text' = Append(text, lookahead)
    <3>1. FirstAt(text', i) /\ text'[i] = Dollar
      BY <1>1, <1>2, <2>2, FirstStays
    <3> QED
      BY <3>1 DEF FirstAt
  <2> QED
    BY <2>1, <2>2, AdvancePasses
<1>4. TokenIn(text') # <<>> /\ Head(TokenIn(text')) = Dollar
  BY <1>1, <1>3, DollarTokens
<1>5. DollarQuotedString \in valid'
  BY DEF Begun
<1> QED
  BY <1>4, <1>5, TokenTokenIn DEF IsDollar

LEMMA NotReturnedYet ==
  ASSUME pc' \notin {"accepted", "refused"}
  PROVE  CommentAgreesWithFormatter' /\ DollarAgreesWithTokenizer'
  BY DEF CommentAgreesWithFormatter, DollarAgreesWithTokenizer, Returned

LEMMA StartComments ==
  ASSUME ScannerInv, Begun, CommentRead,
         (\E symbols \in SUBSET Symbol : Scan(symbols))
           \/ SkipBlank \/ StartDollar \/ StartComment \/ StartNothing
  PROVE  CommentRead'
<1> USE DEF ScannerInv
<1>0. text \in Seq(Char) /\ Len(text) \in Nat
  BY DEF TypeOK
<1>1. ASSUME NEW symbols \in SUBSET Symbol, Scan(symbols) PROVE CommentRead'
  <2>1. pc' = "start" /\ text' = <<>> /\ Len(text') + 1 = 1
    BY <1>1 DEF Scan, Fresh
  <2>2. \A x : Comes(x, 1, 1)
    BY DEF Comes, At, T!SkipBlockComment
  <2>3. CommentAgreesWithFormatter'
    BY <2>1, NotReturnedYet
  <2> QED
    BY <2>1, <2>2, <2>3 DEF CommentRead
<1>2. ASSUME SkipBlank PROVE CommentRead'
  <2>1. /\ pc = "start" /\ pc' = "start" /\ Advance
        /\ lookahead \in Char /\ lookahead # Slash /\ lookahead # Star
    BY <1>2, CharFacts DEF SkipBlank
  <2>2. ASSUME NEW x, Shows(x, text', lookahead') PROVE Comes(x, Len(text') + 1, 1)
    <3>1. /\ Shows(x, text, lookahead)
          /\ Len(text) + 1 <= Len(x)
          /\ x[Len(text) + 1] = lookahead
          /\ Len(text') = Len(text) + 1
      BY <2>1, <2>2, PassOne
    <3>2. x \in Seq(Char) /\ Len(x) \in Nat /\ Comes(x, Len(text) + 1, 1)
      BY <2>1, <3>1 DEF CommentRead, Shows
    <3>3. /\ ~T!Pair(x, Len(text) + 1, Slash, Star)
          /\ ~T!Pair(x, Len(text) + 1, Star, Slash)
      BY <2>1, <3>1 DEF T!Pair
    <3>4. Len(text) + 1 \in 1 .. Len(x) + 1 /\ 1 \in 1 .. Len(text) + 1
      BY <1>0, <3>1, <3>2
    <3> QED
      BY <3>1, <3>2, <3>3, <3>4, ComesOn
  <2>3. CommentAgreesWithFormatter'
    BY <2>1, NotReturnedYet
  <2> QED
    BY <2>1, <2>2, <2>3 DEF CommentRead
<1>3. ASSUME StartDollar PROVE CommentRead'
  BY <1>3, NotReturnedYet DEF StartDollar, CommentRead
<1>4. ASSUME StartComment PROVE CommentRead'
  <2>1. /\ pc = "start" /\ pc' = "comment" /\ depth' = 1
        /\ text' = text /\ lookahead' = lookahead
    BY <1>4 DEF StartComment, Stay
  <2>2. 1 \in 1 .. Len(text) + 1
    BY <1>0
  <2>3. CommentAgreesWithFormatter'
    BY <2>1, NotReturnedYet
  <2> QED
    BY <2>1, <2>2, <2>3 DEF CommentRead
<1>5. ASSUME StartNothing PROVE CommentRead'
  BY <1>5 DEF StartNothing, CommentRead, CommentAgreesWithFormatter, IsComment
<1> QED
  BY <1>1, <1>2, <1>3, <1>4, <1>5

\* The two agree on an ordinary character, and on a slash or a star that is
\* looked at once more.
LEMMA ReadComments ==
  ASSUME ScannerInv, CommentRead, ReadComment
  PROVE  CommentRead'
<1> USE DEF ScannerInv
<1>0. text \in Seq(Char) /\ Len(text) \in Nat
  BY DEF TypeOK
<1>1. pc = "comment" /\ Advance /\ lookahead \in Char /\ depth' = depth
  BY DEF ReadComment, TypeOK
<1>2. depth \in 1 .. Len(text) + 1
  BY <1>1 DEF CommentRead
<1>3. /\ text' = Append(text, lookahead)
      /\ Len(text') = Len(text) + 1
      /\ text'[Len(text')] = lookahead
  BY <1>1, PassOne
<1>4. ASSUME NEW x, Shows(x, text', lookahead')
      PROVE  /\ Comes(x, Len(text'), depth)
             /\ lookahead # Slash /\ lookahead # Star => Comes(x, Len(text') + 1, depth)
  <2>1. /\ Shows(x, text, lookahead)
        /\ Len(text) + 1 <= Len(x)
        /\ x[Len(text) + 1] = lookahead
    BY <1>1, <1>4, PassOne
  <2>2. x \in Seq(Char) /\ Len(x) \in Nat /\ Comes(x, Len(text) + 1, depth)
    BY <1>1, <2>1 DEF CommentRead, Shows
  <2>3. Len(text) + 1 \in 1 .. Len(x) + 1
    BY <1>0, <2>1, <2>2
  <2>4. ASSUME lookahead # Slash, lookahead # Star PROVE Comes(x, Len(text) + 1 + 1, depth)
    <3>1. /\ ~T!Pair(x, Len(text) + 1, Slash, Star)
          /\ ~T!Pair(x, Len(text) + 1, Star, Slash)
      BY <2>1, <2>4 DEF T!Pair
    <3> QED
      BY <1>2, <2>1, <2>2, <2>3, <3>1, ComesOn
  <2> QED
    BY <1>3, <2>2, <2>4
<1>5. text' # <<>> /\ depth \in 1 .. Len(text') /\ depth \in 1 .. Len(text') + 1
  <2>1. text' \in Seq(Char)
    BY <1>0, <1>1, <1>3
  <2>2. Len(text') > 0 /\ Len(text') \in Nat
    BY <1>0, <1>3
  <2>3. text' # <<>>
    BY <2>1, <2>2
  <2>4. depth \in 1 .. Len(text') /\ depth \in 1 .. Len(text') + 1
    <3> DEFINE n == Len(text)
    <3>1. n \in Nat /\ depth \in 1 .. n + 1 /\ Len(text') = n + 1
      BY <1>0, <1>2, <1>3
    <3> HIDE DEF n
    <3> QED
      BY <3>1
  <2> QED
    BY <2>3, <2>4
<1>6. CASE lookahead = Slash
  <2>1. pc' = "slash"
    BY <1>6, CharFacts DEF ReadComment
  <2>2. CommentAgreesWithFormatter'
    BY <2>1, NotReturnedYet
  <2> QED
    BY <1>1, <1>3, <1>4, <1>5, <1>6, <2>1, <2>2 DEF CommentRead
<1>7. CASE lookahead = Star
  <2>1. pc' = "star"
    BY <1>7, CharFacts DEF ReadComment
  <2>2. CommentAgreesWithFormatter'
    BY <2>1, NotReturnedYet
  <2> QED
    BY <1>1, <1>3, <1>4, <1>5, <1>7, <2>1, <2>2 DEF CommentRead
<1>8. CASE lookahead # Slash /\ lookahead # Star
  <2>1. pc' = "comment"
    BY <1>8 DEF ReadComment
  <2>2. CommentAgreesWithFormatter'
    BY <2>1, NotReturnedYet
  <2> QED
    BY <1>1, <1>3, <1>4, <1>5, <1>8, <2>1, <2>2 DEF CommentRead
<1> QED
  BY <1>6, <1>7, <1>8

\* A slash and a star in a row open a comment for both.
LEMMA AfterSlashes ==
  ASSUME ScannerInv, CommentRead, AfterSlash
  PROVE  CommentRead'
<1> USE DEF ScannerInv
<1>0. text \in Seq(Char) /\ Len(text) \in Nat
  BY DEF TypeOK
<1>1. pc = "slash" /\ pc' = "comment"
  BY DEF AfterSlash
<1>2. /\ text[Len(text)] = Slash /\ depth \in 1 .. Len(text) /\ Len(text) >= 1
      /\ \A x : Shows(x, text, lookahead) => Comes(x, Len(text), depth)
  BY <1>0, <1>1 DEF CommentRead
<1>3. ASSUME NEW x, Shows(x, text, lookahead)
      PROVE  /\ x \in Seq(Char) /\ Len(x) \in Nat /\ Len(text) <= Len(x)
             /\ Len(text) \in 1 .. Len(x) + 1
             /\ x[Len(text)] = Slash
             /\ Comes(x, Len(text), depth)
  <2>1. x \in Seq(Char) /\ Len(x) \in Nat /\ Len(text) <= Len(x)
    BY <1>3 DEF Shows
  <2>2. x[Len(text)] = text[Len(text)]
    BY <1>0, <1>2, <1>3 DEF Shows
  <2> QED
    BY <1>0, <1>2, <1>3, <2>1, <2>2
<1>4. CommentAgreesWithFormatter'
  BY <1>1, NotReturnedYet
<1>5. CASE lookahead = Star
  <2>1. Advance /\ lookahead \in Char /\ depth' = depth + 1
    BY <1>5, CharFacts DEF AfterSlash
  <2>2. Len(text') = Len(text) + 1
    BY <2>1, PassOne
  <2>3. ASSUME NEW x, Shows(x, text', lookahead') PROVE Comes(x, Len(text') + 1, depth')
    <3>1. /\ Shows(x, text, lookahead)
          /\ Len(text) + 1 <= Len(x)
          /\ x[Len(text) + 1] = Star
      BY <1>5, <2>1, <2>3, PassOne
    <3>2. T!Pair(x, Len(text), Slash, Star)
      BY <1>0, <1>3, <3>1 DEF T!Pair
    <3>3. Comes(x, Len(text) + 2, depth + 1)
      BY <1>2, <1>3, <3>1, <3>2, ComesOn
    <3>4. Len(text') + 1 = Len(text) + 2
      BY <1>0, <2>2
    <3> QED
      BY <2>1, <3>3, <3>4
  <2>4. depth' \in 1 .. Len(text') + 1
    BY <1>0, <1>2, <2>1, <2>2
  <2> QED
    BY <1>1, <1>4, <2>3, <2>4 DEF CommentRead
<1>6. CASE lookahead # Star
  <2>1. text' = text /\ lookahead' = lookahead /\ depth' = depth
    BY <1>6 DEF AfterSlash, Stay
  <2>2. ASSUME NEW x, Shows(x, text, lookahead) PROVE Comes(x, Len(text) + 1, depth)
    <3>1. ~T!Pair(x, Len(text), Slash, Star)
      BY <1>6, <2>2 DEF T!Pair, Shows
    <3>2. ~T!Pair(x, Len(text), Star, Slash)
      BY <1>3, <2>2, CharFacts DEF T!Pair
    <3> QED
      BY <1>2, <1>3, <2>2, <3>1, <3>2, ComesOn
  <2>3. depth \in 1 .. Len(text) + 1
    BY <1>0, <1>2
  <2> QED
    BY <1>1, <1>4, <2>1, <2>2, <2>3 DEF CommentRead
<1> QED
  BY <1>5, <1>6

\* A star and a slash in a row close one, and the outermost ends the token.
LEMMA AfterStars ==
  ASSUME ScannerInv, CommentRead, AfterStar
  PROVE  CommentRead'
<1> USE DEF ScannerInv
<1>0. text \in Seq(Char) /\ Len(text) \in Nat
  BY DEF TypeOK
<1>1. pc = "star"
  BY DEF AfterStar
<1>2. /\ text[Len(text)] = Star /\ depth \in 1 .. Len(text) /\ Len(text) >= 1
      /\ \A x : Shows(x, text, lookahead) => Comes(x, Len(text), depth)
  BY <1>0, <1>1 DEF CommentRead
<1>3. ASSUME NEW x, Shows(x, text, lookahead)
      PROVE  /\ x \in Seq(Char) /\ Len(x) \in Nat /\ Len(text) <= Len(x)
             /\ Len(text) \in 1 .. Len(x) + 1
             /\ x[Len(text)] = Star
             /\ Comes(x, Len(text), depth)
  <2>1. x \in Seq(Char) /\ Len(x) \in Nat /\ Len(text) <= Len(x)
    BY <1>3 DEF Shows
  <2>2. x[Len(text)] = text[Len(text)]
    BY <1>0, <1>2, <1>3 DEF Shows
  <2> QED
    BY <1>0, <1>2, <1>3, <2>1, <2>2
<1>4. CASE lookahead = Slash
  <2>1. /\ Advance /\ lookahead \in Char /\ depth' = depth - 1
        /\ pc' = IF depth = 1 THEN "accepted" ELSE "comment"
    BY <1>4, CharFacts DEF AfterStar
  <2>2. text' = Append(text, lookahead) /\ Len(text') = Len(text) + 1
    BY <2>1, PassOne
  <2>3. ASSUME NEW x, Shows(x, text, lookahead), Len(text) + 1 <= Len(x)
        PROVE  T!Pair(x, Len(text), Star, Slash)
    BY <1>0, <1>3, <1>4, <2>3, CharFacts DEF T!Pair, Shows
  <2>4. CASE depth = 1
    <3>1. Shows(text', text, lookahead)
      BY <1>0, <2>1, <2>2, ShowsNext
    <3>2. T!Pair(text', Len(text), Star, Slash)
      <4>1. Len(text) + 1 <= Len(text')
        BY <1>0, <2>2
      <4> QED
        BY <2>3, <3>1, <4>1
    <3>3. T!SkipBlockComment(text') = Len(text) + 2
      BY <1>2, <1>3, <2>4, <3>1, <3>2, ComesOn
    <3>4. Len(text) + 2 = Len(text') + 1 /\ pc' = "accepted"
      BY <1>0, <2>1, <2>2, <2>4
    <3>5. CommentAgreesWithFormatter'
      BY <3>3, <3>4 DEF CommentAgreesWithFormatter, EndsAt
    <3> QED
      BY <3>4, <3>5 DEF CommentRead
  <2>5. CASE depth # 1
    <3>1. pc' = "comment" /\ depth' \in 1 .. Len(text') + 1
      BY <1>0, <1>2, <2>1, <2>2, <2>5
    <3>2. ASSUME NEW x, Shows(x, text', lookahead') PROVE Comes(x, Len(text') + 1, depth')
      <4>1. Shows(x, text, lookahead) /\ Len(text) + 1 <= Len(x)
        BY <2>1, <3>2, PassOne
      <4>2. Comes(x, Len(text) + 2, depth - 1)
        BY <1>2, <1>3, <2>3, <2>5, <4>1, ComesOn
      <4>3. Len(text') + 1 = Len(text) + 2
        BY <1>0, <2>2
      <4> QED
        BY <2>1, <4>2, <4>3
    <3>3. CommentAgreesWithFormatter'
      BY <3>1, NotReturnedYet
    <3> QED
      BY <3>1, <3>2, <3>3 DEF CommentRead
  <2> QED
    BY <2>4, <2>5
<1>5. CASE lookahead # Slash
  <2>1. text' = text /\ lookahead' = lookahead /\ depth' = depth /\ pc' = "comment"
    BY <1>5 DEF AfterStar, Stay
  <2>2. ASSUME NEW x, Shows(x, text, lookahead) PROVE Comes(x, Len(text) + 1, depth)
    <3>1. ~T!Pair(x, Len(text), Star, Slash)
      BY <1>5, <2>2 DEF T!Pair, Shows
    <3>2. ~T!Pair(x, Len(text), Slash, Star)
      BY <1>3, <2>2, CharFacts DEF T!Pair
    <3> QED
      BY <1>2, <1>3, <2>2, <3>1, <3>2, ComesOn
  <2>3. depth \in 1 .. Len(text) + 1
    BY <1>0, <1>2
  <2>4. CommentAgreesWithFormatter'
    BY <2>1, NotReturnedYet
  <2> QED
    BY <2>1, <2>2, <2>3, <2>4 DEF CommentRead
<1> QED
  BY <1>4, <1>5

LEMMA CommentReadStep ==
  ASSUME ScannerInv, ScannerInv', Begun, CommentRead, [Next]_vars
  PROVE  CommentRead'
<1>1. ASSUME (\E symbols \in SUBSET Symbol : Scan(symbols))
               \/ SkipBlank \/ StartDollar \/ StartComment \/ StartNothing
      PROVE  CommentRead'
  BY <1>1, StartComments
<1>2. ASSUME ReadTag \/ EndTag \/ ReadBody \/ MatchTag \/ CloseDollar \/ NoMatch
             \/ (Refuse /\ pc # "comment")
      PROVE  CommentRead'
  <2>1. /\ Advance \/ Stay
        /\ valid' = valid
        /\ pc' \notin {"start", "comment", "slash", "star"}
    BY <1>2 DEF ReadTag, EndTag, ReadBody, MatchTag, CloseDollar, NoMatch, Refuse
  <2>2. pc \in {"tag", "body", "match"}
    BY <1>2 DEF ReadTag, EndTag, ReadBody, MatchTag, CloseDollar, NoMatch, Refuse
  <2>3. IsDollar'
    BY <2>1, <2>2, DollarEndsDollar DEF ScannerInv
  <2> QED
    BY <2>1, <2>3 DEF CommentRead, CommentAgreesWithFormatter, IsComment
<1>3. ASSUME ReadComment \/ AfterSlash \/ AfterStar PROVE CommentRead'
  BY <1>3, ReadComments, AfterSlashes, AfterStars
<1>4. ASSUME Refuse, pc = "comment" PROVE CommentRead'
  <2>1. /\ text' = text /\ text \in Seq(Char) /\ Len(text) \in Nat
        /\ lookahead = EndOfText /\ pc' = "refused"
    BY <1>4 DEF Refuse, Stay, ScannerInv, TypeOK
  <2>2. Comes(text, Len(text) + 1, depth) /\ depth \in 1 .. Len(text) + 1
    BY <1>4, <2>1, ShowsItself DEF CommentRead
  <2>3. T!SkipBlockComment(text) = T!Unterminated
    <3>1. Len(text) + 1 \in 1 .. Len(text) + 1 /\ Len(text) + 1 > Len(text)
      BY <2>1
    <3> QED
      BY <2>1, <2>2, <3>1, ComesOn
  <2>4. CommentAgreesWithFormatter'
    BY <2>1, <2>3 DEF CommentAgreesWithFormatter, EndsAt
  <2> QED
    BY <2>1, <2>4 DEF CommentRead
<1>5. ASSUME Serialize \/ Discard PROVE CommentRead'
  <2>1. pc' = "idle"
    BY <1>5 DEF Serialize, Discard, Return
  <2> QED
    BY <2>1, NotReturnedYet DEF CommentRead
<1>6. CASE UNCHANGED vars
  BY <1>6 DEF vars, CommentRead, CommentAgreesWithFormatter, Returned, IsComment, IsDollar,
              Token, EndsAt
<1> QED
  BY <1>1, <1>2, <1>3, <1>4, <1>5, <1>6 DEF Next, Step

\* Editor and formatter agree on where a block comment ends, for texts of any
\* length and whatever was scanned before (scanner.c:67-92 and scanutil.go:92-112).
THEOREM CommentsAgree == Spec => []CommentAgreesWithFormatter
<1>1. Init => CommentRead
  BY DEF Init, CommentRead, CommentAgreesWithFormatter, Returned
<1>2. ScannerInv /\ ScannerInv' /\ Begun /\ CommentRead /\ [Next]_vars => CommentRead'
  BY CommentReadStep
<1>3. CommentRead => CommentAgreesWithFormatter
  BY DEF CommentRead
<1> QED
  BY <1>1, <1>2, <1>3, AlwaysBegun, PTL DEF Spec

-------------------------------------------------------------------------------
(* Dollar-quoted strings *)

\* t opens a string with the tag g, whose end it may not have reached.
Opens(t, g) ==
  /\ t \in Seq(Char)
  /\ Len(t) >= Len(g) + 1
  /\ t[1] = Dollar
  /\ \A k \in 1 .. Len(g) : t[k + 1] # Dollar /\ g[k] = Narrow(t[k + 1])

\* The delimiter of t has w characters.
Delimited(t, w) ==
  /\ w \in 2 .. Len(t)
  /\ t[1] = Dollar
  /\ t[w] = Dollar
  /\ \A k \in 2 .. w - 1 : t[k] # Dollar

\* The tokenizer takes them for a delimiter.
Plain(t, w) == \A k \in 2 .. w - 1 : t[k] \in T!Letter \cup T!Digit

\* With c to come, the delimiter does not occur at p.
RuledOut(t, c, w, p) ==
  \E k \in 0 .. w - 1 : \/ p + k <= Len(t) /\ t[p + k] # t[1 + k]
                        \/ p + k = Len(t) + 1 /\ c # t[1 + k]

\* The scanner has found no delimiter but the one it may be reading.
StringRead ==
  /\ pc = "tag" =>
       /\ Opens(Token, tag)
       /\ Len(Token) = Len(tag) + 1
  /\ pc \in {"body", "match"} =>
       /\ Opens(Token, tag)
       /\ Delimited(Token, Len(tag) + 2)
  /\ pc = "body" /\ Plain(Token, Len(tag) + 2) =>
       \A p \in Len(tag) + 3 .. Len(Token) : RuledOut(Token, lookahead, Len(tag) + 2, p)
  /\ pc = "match" /\ Plain(Token, Len(tag) + 2) =>
       /\ Len(Token) - matched >= Len(tag) + 3
       /\ Token[Len(Token) - matched] = Dollar
       /\ \A k \in 1 .. matched : Token[Len(Token) - matched + k] = tag[k]
       /\ \A p \in Len(tag) + 3 .. Len(Token) - matched - 1 :
            RuledOut(Token, lookahead, Len(tag) + 2, p)
  /\ DollarAgreesWithTokenizer

LEMMA MinIs ==
  ASSUME NEW N \in SUBSET Nat, NEW m \in N, \A n \in N : m <= n
  PROVE  T!Min(N) = m
<1>1. T!Min(N) = CHOOSE x \in N : \A n \in N : x <= n
  BY DEF T!Min
<1>2. ASSUME NEW x \in N, \A n \in N : x <= n PROVE x = m
  <2>1. x <= m /\ m <= x /\ x \in Nat /\ m \in Nat
    BY <1>2
  <2> QED
    BY <2>1
<1> QED
  BY <1>1, <1>2

\* An opening delimiter ends with the second dollar sign of the token.
LEMMA PeekAtDelimiter ==
  ASSUME NEW t \in Seq(Char), NEW w, Delimited(t, w), T!PeekDollarTag(t) # T!Unterminated
  PROVE  T!PeekDollarTag(t) = w + 1 /\ Plain(t, w)
<1> DEFINE closes(i) == /\ t[i] = Dollar
                        /\ i > 2 => t[2] \in T!Letter
                        /\ \A j \in 2 .. i - 1 : t[j] \in T!Letter \cup T!Digit
           ends == {i \in 2 .. Len(t) : closes(i)}
<1>1. /\ ends # {}
      /\ T!PeekDollarTag(t) = T!Min(ends) + 1
  BY DEF T!PeekDollarTag
<1>2. w \in 2 .. Len(t) /\ Len(t) \in Nat /\ t[w] = Dollar
  BY DEF Delimited
<1>3. ASSUME NEW i \in ends PROVE w <= i
  <2>1. i \in 2 .. Len(t) /\ t[i] = Dollar
    OBVIOUS
  <2>2. ~(i \in 2 .. w - 1)
    BY <2>1 DEF Delimited
  <2> QED
    BY <1>2, <2>1, <2>2
<1>4. PICK i \in ends : TRUE
  BY <1>1
<1>5. i \in 2 .. Len(t) /\ closes(i) /\ w <= i
  BY <1>3, <1>4
<1>6. closes(w)
  <2>1. w > 2 => i > 2
    BY <1>2, <1>5
  <2>2. \A j \in 2 .. w - 1 : j \in 2 .. i - 1
    BY <1>2, <1>5
  <2> QED
    BY <1>2, <1>5, <2>1, <2>2
<1>7. w \in ends /\ ends \in SUBSET Nat
  BY <1>2, <1>6
<1>8. Plain(t, w)
  BY <1>6 DEF Plain
<1> HIDE DEF ends
<1>9. T!Min(ends) = w
  BY <1>3, <1>7, MinIs
<1> QED
  BY <1>1, <1>8, <1>9

\* Without a second dollar sign there is none.
LEMMA PeekWithoutDelimiter ==
  ASSUME NEW t \in Seq(Char), \A k \in 2 .. Len(t) : t[k] # Dollar
  PROVE  T!PeekDollarTag(t) = T!Unterminated
  BY DEF T!PeekDollarTag

\* Where the delimiter is found again.
Repeats(t, w) ==
  {p \in w + 1 .. Len(t) + 1 - w : SubSeq(t, p, p + w - 1) = SubSeq(t, 1, w)}

LEMMA SkipRepeats ==
  ASSUME NEW t \in Seq(Char), NEW w \in Nat
  PROVE  T!SkipDollarQuoted(t, w + 1) = IF Repeats(t, w) = {} THEN T!Unterminated
                                                              ELSE T!Min(Repeats(t, w)) + w
<1>1. (w + 1) - 1 = w
  OBVIOUS
<1> QED
  BY <1>1 DEF T!SkipDollarQuoted, Repeats

LEMMA RepeatsAt ==
  ASSUME NEW t \in Seq(Char), NEW w \in 1 .. Len(t), NEW p \in w + 1 .. Len(t) + 1 - w
  PROVE  p \in Repeats(t, w) <=> \A k \in 0 .. w - 1 : t[p + k] = t[1 + k]
<1> DEFINE a == SubSeq(t, p, p + w - 1)
           b == SubSeq(t, 1, w)
<1>1. Len(t) \in Nat /\ p \in Nat /\ w \in Nat /\ p + w - 1 <= Len(t) /\ w >= 1
  OBVIOUS
<1>2. /\ \A k \in p .. p + w - 1 : t[k] \in Char
      /\ \A k \in 1 .. w : t[k] \in Char
  BY <1>1
<1>3. /\ a \in Seq(Char)
      /\ Len(a) = w
      /\ \A k \in 1 .. w : a[k] = t[p + k - 1]
  <2>1. p \in 1 .. Len(t) + 1 /\ p + w - 1 \in p - 1 .. Len(t) /\ (p + w - 1) - p + 1 = w
    BY <1>1
  <2> QED
    BY <1>2, <2>1, SubSeqProperties
<1>4. /\ b \in Seq(Char)
      /\ Len(b) = w
      /\ \A k \in 1 .. w : b[k] = t[k]
  <2>1. 1 \in 1 .. Len(t) + 1 /\ w \in 1 - 1 .. Len(t) /\ w - 1 + 1 = w
    BY <1>1
  <2>2. \A k \in 1 .. w : t[1 + k - 1] = t[k]
    BY <1>1
  <2> QED
    BY <1>2, <2>1, <2>2, SubSeqProperties
<1>5. p \in Repeats(t, w) <=> a = b
  BY DEF Repeats
<1> HIDE DEF a, b
<1>6. a = b <=> \A k \in 1 .. w : a[k] = b[k]
  BY <1>3, <1>4, SeqEqual
<1>7. (\A k \in 1 .. w : a[k] = b[k]) <=> \A k \in 1 .. w : t[p + k - 1] = t[k]
  BY <1>3, <1>4
<1>8. (\A k \in 1 .. w : t[p + k - 1] = t[k]) <=> \A k \in 0 .. w - 1 : t[p + k] = t[1 + k]
  <2>1. ASSUME \A k \in 1 .. w : t[p + k - 1] = t[k], NEW k \in 0 .. w - 1
        PROVE  t[p + k] = t[1 + k]
    <3>1. 1 + k \in 1 .. w /\ p + (1 + k) - 1 = p + k
      BY <1>1
    <3> QED
      BY <2>1, <3>1
  <2>2. ASSUME \A k \in 0 .. w - 1 : t[p + k] = t[1 + k], NEW k \in 1 .. w
        PROVE  t[p + k - 1] = t[k]
    <3>1. k - 1 \in 0 .. w - 1 /\ p + (k - 1) = p + k - 1 /\ 1 + (k - 1) = k
      BY <1>1
    <3> QED
      BY <2>2, <3>1
  <2> QED
    BY <2>1, <2>2
<1> QED
  BY <1>5, <1>6, <1>7, <1>8

LEMMA AppendFacts ==
  ASSUME NEW S, NEW s \in Seq(S), NEW c \in S
  PROVE  /\ Append(s, c) \in Seq(S)
         /\ Len(Append(s, c)) = Len(s) + 1
         /\ Len(s) \in Nat
         /\ Append(s, c)[Len(s) + 1] = c
         /\ \A k \in 1 .. Len(s) : Append(s, c)[k] = s[k]
  OBVIOUS

\* What a string opens with stays, whatever is read after it.
LEMMA OpensPasses ==
  ASSUME NEW t \in Seq(Char), NEW c \in Char, NEW g, Len(g) \in Nat, Opens(t, g)
  PROVE  Opens(Append(t, c), g)
<1> DEFINE u == Append(t, c)
<1>1. /\ u \in Seq(Char) /\ Len(u) = Len(t) + 1 /\ Len(t) \in Nat
      /\ \A j \in 1 .. Len(t) : u[j] = t[j]
  BY AppendFacts
<1> HIDE DEF u
<1>2. u[1] = t[1] /\ \A k \in 1 .. Len(g) : u[k + 1] = t[k + 1]
  <2>1. Len(t) >= Len(g) + 1
    BY DEF Opens
  <2>2. 1 \in 1 .. Len(t) /\ \A k \in 1 .. Len(g) : k + 1 \in 1 .. Len(t)
    BY <1>1, <2>1
  <2> QED
    BY <1>1, <2>2
<1>3. Opens(u, g)
  BY <1>1, <1>2 DEF Opens
<1> QED
  BY <1>3 DEF u

LEMMA DelimitedPasses ==
  ASSUME NEW t \in Seq(Char), NEW c \in Char, NEW w, Delimited(t, w)
  PROVE  /\ Delimited(Append(t, c), w)
         /\ Plain(Append(t, c), w) <=> Plain(t, w)
<1> DEFINE u == Append(t, c)
<1>1. /\ u \in Seq(Char) /\ Len(u) = Len(t) + 1 /\ Len(t) \in Nat
      /\ \A j \in 1 .. Len(t) : u[j] = t[j]
  OBVIOUS
<1>2. w \in 2 .. Len(t)
  BY DEF Delimited
<1> HIDE DEF u
<1>3. u[1] = t[1] /\ u[w] = t[w] /\ \A k \in 2 .. w - 1 : u[k] = t[k]
  BY <1>1, <1>2
<1>4. Delimited(u, w)
  <2>1. w \in 2 .. Len(u)
    BY <1>1, <1>2
  <2> QED
    BY <1>3, <2>1 DEF Delimited
<1>5. Plain(u, w) <=> Plain(t, w)
  BY <1>3 DEF Plain
<1> QED
  BY <1>4, <1>5 DEF u

LEMMA RuledOutPasses ==
  ASSUME NEW t \in Seq(Char), NEW c \in Char, NEW e, NEW w \in 2 .. Len(t), NEW p \in Nat \ {0},
         RuledOut(t, c, w, p)
  PROVE  RuledOut(Append(t, c), e, w, p)
<1> DEFINE u == Append(t, c)
<1>1. /\ Len(u) = Len(t) + 1 /\ Len(t) \in Nat
      /\ \A j \in 1 .. Len(t) : u[j] = t[j]
      /\ u[Len(t) + 1] = c
  OBVIOUS
<1>2. PICK k \in 0 .. w - 1 : \/ p + k <= Len(t) /\ t[p + k] # t[1 + k]
                              \/ p + k = Len(t) + 1 /\ c # t[1 + k]
  BY DEF RuledOut
<1> HIDE DEF u
<1>3. u[1 + k] = t[1 + k]
  <2>1. 1 + k \in 1 .. Len(t)
    BY <1>1
  <2> QED
    BY <1>1, <2>1
<1>4. ASSUME p + k <= Len(t), t[p + k] # t[1 + k] PROVE RuledOut(u, e, w, p)
  <2>1. p + k \in 1 .. Len(t)
    BY <1>4
  <2> QED
    BY <1>1, <1>3, <1>4, <2>1 DEF RuledOut
<1>5. ASSUME p + k = Len(t) + 1, c # t[1 + k] PROVE RuledOut(u, e, w, p)
  <2>1. u[p + k] = c
    BY <1>1, <1>5
  <2>2. p + k <= Len(u)
    BY <1>1, <1>5
  <2> QED
    BY <1>3, <1>5, <2>1, <2>2 DEF RuledOut
<1>6. RuledOut(u, e, w, p)
  BY <1>2, <1>4, <1>5
<1> QED
  BY <1>6 DEF u

LEMMA AllRuledOutPasses ==
  ASSUME NEW t \in Seq(Char), NEW c \in Char, NEW e, NEW w \in 2 .. Len(t), NEW n \in Int,
         \A p \in w + 1 .. n : RuledOut(t, c, w, p)
  PROVE  \A p \in w + 1 .. n : RuledOut(Append(t, c), e, w, p)
<1>1. ASSUME NEW p \in w + 1 .. n PROVE RuledOut(Append(t, c), e, w, p)
  <2>1. p \in Nat \ {0} /\ RuledOut(t, c, w, p)
    OBVIOUS
  <2> QED
    BY <2>1, RuledOutPasses
<1> QED
  BY <1>1

\* No delimiter begins with an ordinary character of the string.
LEMMA OrdinaryRulesOut ==
  ASSUME NEW t \in Seq(Char), NEW c \in Char, NEW e, NEW w, Delimited(t, w), c # Dollar
  PROVE  RuledOut(Append(t, c), e, w, Len(t) + 1)
<1> DEFINE u == Append(t, c)
<1>1. /\ Len(u) = Len(t) + 1 /\ Len(t) \in Nat /\ Len(t) >= 1
      /\ \A j \in 1 .. Len(t) : u[j] = t[j]
      /\ u[Len(t) + 1] = c
  BY DEF Delimited
<1>2. w \in 2 .. Len(t) /\ u[1] = Dollar
  BY <1>1 DEF Delimited
<1> HIDE DEF u
<1>3. 0 \in 0 .. w - 1 /\ (Len(t) + 1) + 0 <= Len(u) /\ u[(Len(t) + 1) + 0] # u[1 + 0]
  BY <1>1, <1>2
<1>4. RuledOut(u, e, w, Len(t) + 1)
  BY <1>3 DEF RuledOut
<1> QED
  BY <1>4 DEF u

\* A plain tag is kept as it is: none of its characters is narrowed.
LEMMA PlainTagIsKept ==
  ASSUME NEW t \in Seq(Char), NEW g, Len(g) \in Nat, Opens(t, g), Plain(t, Len(g) + 2)
  PROVE  \A k \in 1 .. Len(g) : g[k] = t[k + 1]
<1> SUFFICES ASSUME NEW k \in 1 .. Len(g) PROVE g[k] = t[k + 1]
  OBVIOUS
<1>1. k + 1 \in 2 .. (Len(g) + 2) - 1
  OBVIOUS
<1>2. t[k + 1] \in T!Letter \cup T!Digit /\ g[k] = Narrow(t[k + 1])
  BY <1>1 DEF Plain, Opens
<1>3. t[k + 1] \in 0 .. 255
  BY <1>2 DEF T!Letter, T!Digit
<1>4. \A c \in 0 .. 255 : Narrow(c) = c
  BY DEF Narrow
<1> QED
  BY <1>2, <1>3, <1>4

\* A dollar sign after which the tag does not go on to its end begins no
\* delimiter, nor does a character of the tag that was read after it.
LEMMA MismatchRulesOut ==
  ASSUME NEW t \in Seq(Char), NEW g, Len(g) \in Nat, NEW c, NEW m \in 0 .. Len(g),
         Opens(t, g), Delimited(t, Len(g) + 2), Plain(t, Len(g) + 2),
         Len(t) - m >= Len(g) + 3,
         t[Len(t) - m] = Dollar,
         \A k \in 1 .. m : t[Len(t) - m + k] = g[k],
         \A p \in Len(g) + 3 .. Len(t) - m - 1 : RuledOut(t, c, Len(g) + 2, p),
         ~(m < Len(g) /\ c = g[m + 1]),
         ~(m = Len(g) /\ c = Dollar)
  PROVE  \A p \in Len(g) + 3 .. Len(t) : RuledOut(t, c, Len(g) + 2, p)
<1> DEFINE w == Len(g) + 2
           q == Len(t) - m
<1>1. /\ Len(t) \in Nat /\ w \in Nat /\ w >= 2 /\ w = Len(g) + 2 /\ q \in Nat
      /\ q >= w + 1 /\ Len(t) = q + m /\ m \in Nat
  OBVIOUS
<1>2. t[1] = Dollar /\ t[w] = Dollar /\ \A k \in 1 .. Len(g) : t[k + 1] # Dollar
  BY DEF Opens, Delimited
<1>3. \A k \in 1 .. Len(g) : g[k] = t[k + 1]
  BY PlainTagIsKept
<1>4. \A k \in 1 .. m : t[q + k] = g[k]
  OBVIOUS
<1>5. t[q] = Dollar
  OBVIOUS
<1>6. \A p \in w + 1 .. q - 1 : RuledOut(t, c, w, p)
  BY <1>1
<1> HIDE DEF w, q
<1>7. RuledOut(t, c, w, q)
  <2>1. m + 1 \in 0 .. w - 1 /\ q + (m + 1) = Len(t) + 1
    BY <1>1
  <2>2. c # t[1 + (m + 1)]
    <3>1. CASE m < Len(g)
      <4>1. m + 1 \in 1 .. Len(g)
        BY <1>1, <3>1
      <4>2. g[m + 1] = t[(m + 1) + 1] /\ (m + 1) + 1 = 1 + (m + 1)
        BY <1>1, <1>3, <4>1
      <4> QED
        BY <3>1, <4>2
    <3>2. CASE m = Len(g)
      <4>1. 1 + (m + 1) = w
        BY <1>1, <3>2
      <4> QED
        BY <1>2, <3>2, <4>1
    <3> QED
      BY <1>1, <3>1, <3>2
  <2> QED
    BY <2>1, <2>2 DEF RuledOut
<1>8. ASSUME NEW p \in q + 1 .. Len(t) PROVE RuledOut(t, c, w, p)
  <2>1. p - q \in 1 .. m /\ p - q \in 1 .. Len(g) /\ q + (p - q) = p /\ p \in Nat
    BY <1>1
  <2>2. t[p] = g[p - q] /\ g[p - q] = t[(p - q) + 1] /\ t[(p - q) + 1] # Dollar
    BY <1>2, <1>3, <1>4, <2>1
  <2>3. 0 \in 0 .. w - 1 /\ p + 0 = p /\ 1 + 0 = 1 /\ p <= Len(t)
    BY <1>1
  <2> QED
    BY <1>2, <2>2, <2>3 DEF RuledOut
<1>9. ASSUME NEW p \in w + 1 .. Len(t) PROVE RuledOut(t, c, w, p)
  <2>1. p \in w + 1 .. q - 1 \/ p = q \/ p \in q + 1 .. Len(t)
    BY <1>1
  <2> QED
    BY <1>6, <1>7, <1>8, <2>1
<1>10. w + 1 = Len(g) + 3
  BY <1>1
<1> QED
  BY <1>9, <1>10 DEF w

\* A position at which the delimiter is ruled out does not repeat it.
LEMMA RuledOutIsNoRepeat ==
  ASSUME NEW t \in Seq(Char), NEW c, NEW w \in 1 .. Len(t),
         NEW p \in w + 1 .. Len(t) + 1 - w, RuledOut(t, c, w, p)
  PROVE  p \notin Repeats(t, w)
<1>1. PICK k \in 0 .. w - 1 : \/ p + k <= Len(t) /\ t[p + k] # t[1 + k]
                              \/ p + k = Len(t) + 1 /\ c # t[1 + k]
  BY DEF RuledOut
<1>2. p + k <= Len(t)
  OBVIOUS
<1>3. t[p + k] # t[1 + k]
  BY <1>1, <1>2
<1> QED
  BY <1>3, RepeatsAt

LEMMA NothingRepeats ==
  ASSUME NEW t \in Seq(Char), NEW c, NEW w \in 2 .. Len(t),
         \A p \in w + 1 .. Len(t) : RuledOut(t, c, w, p)
  PROVE  Repeats(t, w) = {}
<1> SUFFICES ASSUME NEW p \in Repeats(t, w) PROVE FALSE
  OBVIOUS
<1>1. p \in w + 1 .. Len(t) + 1 - w
  BY DEF Repeats
<1>2. p \in w + 1 .. Len(t) /\ w \in 1 .. Len(t)
  BY <1>1
<1> QED
  BY <1>1, <1>2, RuledOutIsNoRepeat

\* The delimiter the scanner closes a string with is the first repetition.
LEMMA ClosingRepeats ==
  ASSUME NEW t \in Seq(Char), NEW g, Len(g) \in Nat,
         Opens(t, g), Delimited(t, Len(g) + 2), Plain(t, Len(g) + 2),
         Len(t) - Len(g) >= Len(g) + 3,
         t[Len(t) - Len(g)] = Dollar,
         \A k \in 1 .. Len(g) : t[Len(t) - Len(g) + k] = g[k],
         \A p \in Len(g) + 3 .. Len(t) - Len(g) - 1 : RuledOut(t, Dollar, Len(g) + 2, p)
  PROVE  T!SkipDollarQuoted(Append(t, Dollar), Len(g) + 3) = Len(Append(t, Dollar)) + 1
<1> DEFINE w == Len(g) + 2
           q == Len(t) - Len(g)
           u == Append(t, Dollar)
<1>1. /\ Len(t) \in Nat /\ w \in Nat /\ w >= 2 /\ w = Len(g) + 2 /\ q \in Nat
      /\ q >= w + 1 /\ Len(t) = q + Len(g)
  OBVIOUS
<1>2. t[1] = Dollar /\ t[w] = Dollar
  BY DEF Opens, Delimited
<1>3. \A k \in 1 .. Len(g) : g[k] = t[k + 1]
  BY PlainTagIsKept
<1>4. t[q] = Dollar /\ \A k \in 1 .. Len(g) : t[q + k] = g[k]
  OBVIOUS
<1>5. \A p \in w + 1 .. q - 1 : RuledOut(t, Dollar, w, p)
  BY <1>1
<1>6. /\ u \in Seq(Char) /\ Len(u) = Len(t) + 1 /\ u[Len(t) + 1] = Dollar
      /\ \A j \in 1 .. Len(t) : u[j] = t[j]
  BY CharFacts
<1>7. \A p \in w + 1 .. q - 1 : RuledOut(u, Dollar, w, p)
  <2>1. w \in 2 .. Len(t) /\ q - 1 \in Int
    BY <1>1
  <2> HIDE DEF w, q
  <2> QED
    BY <1>5, <2>1, AllRuledOutPasses, CharFacts
<1> HIDE DEF w, q, u
<1>8. q \in w + 1 .. Len(u) + 1 - w /\ w \in 1 .. Len(u) /\ Len(u) + 1 - w = q
  BY <1>1, <1>6
<1>9. \A k \in 0 .. w - 1 : u[q + k] = u[1 + k]
  <2>1. ASSUME NEW k \in 0 .. w - 1 PROVE u[q + k] = u[1 + k]
    <3>1. u[1 + k] = t[1 + k]
      <4>1. 1 + k \in 1 .. Len(t)
        BY <1>1
      <4> QED
        BY <1>6, <4>1
    <3>2. CASE k = 0
      <4>1. q + k = q /\ 1 + k = 1 /\ q \in 1 .. Len(t)
        BY <1>1, <3>2
      <4> QED
        BY <1>2, <1>4, <1>6, <3>1, <4>1
    <3>3. CASE k \in 1 .. Len(g)
      <4>1. q + k \in 1 .. Len(t) /\ k + 1 = 1 + k
        BY <1>1, <3>3
      <4> QED
        BY <1>3, <1>4, <1>6, <3>1, <3>3, <4>1
    <3>4. CASE k = w - 1
      <4>1. q + k = Len(t) + 1 /\ 1 + k = w
        BY <1>1, <3>4
      <4> QED
        BY <1>2, <1>6, <3>1, <4>1
    <3> QED
      BY <1>1, <3>2, <3>3, <3>4
  <2> QED
    BY <2>1
<1>10. q \in Repeats(u, w)
  BY <1>6, <1>8, <1>9, RepeatsAt
<1>11. ASSUME NEW p \in Repeats(u, w) PROVE q <= p
  <2>1. p \in w + 1 .. Len(u) + 1 - w
    BY DEF Repeats
  <2>2. p \notin w + 1 .. q - 1
    BY <1>6, <1>7, <1>8, <2>1, RuledOutIsNoRepeat
  <2> QED
    BY <1>1, <1>8, <2>1, <2>2
<1>12. T!Min(Repeats(u, w)) = q
  <2>1. Repeats(u, w) \in SUBSET Nat
    BY <1>1 DEF Repeats
  <2> QED
    BY <1>10, <1>11, <2>1, MinIs
<1>13. T!SkipDollarQuoted(u, w + 1) = q + w
  BY <1>1, <1>6, <1>10, <1>12, SkipRepeats
<1>14. w + 1 = Len(g) + 3 /\ q + w = Len(u) + 1
  BY <1>1, <1>6
<1> QED
  BY <1>13, <1>14 DEF u

\* The token grows by the character the lexer passes.
LEMMA TokenGrows ==
  ASSUME TypeOK, Begun, pc \in {"tag", "body", "match"}
  PROVE  /\ Token \in Seq(Char)
         /\ UNCHANGED text => Token' = Token
         /\ Advance /\ lookahead \in Char => Token' = Append(Token, lookahead)
<1>0. text \in Seq(Char)
  BY DEF TypeOK
<1>1. PICK i \in 1 .. Len(text) : FirstAt(text, i)
  BY DEF Begun
<1> DEFINE t == text
           u == Append(t, lookahead)
<1>2. /\ Token = TokenIn(t)
      /\ TokenIn(t) \in Seq(Char)
      /\ Len(TokenIn(t)) = Len(t) + 1 - i
      /\ \A k \in 1 .. Len(t) + 1 - i : TokenIn(t)[k] = t[i + k - 1]
  BY <1>0, <1>1, DollarTokens, TokenTokenIn
<1>3. ASSUME Advance, lookahead \in Char PROVE Token' = Append(Token, lookahead)
  <2>1. text' = u
    BY <1>3, PassOne
  <2>2. /\ u \in Seq(Char) /\ Len(u) = Len(t) + 1 /\ u[Len(t) + 1] = lookahead
        /\ Len(t) \in Nat /\ i \in 1 .. Len(t)
        /\ \A k \in 1 .. Len(t) : u[k] = t[k]
    BY <1>0, <1>3
  <2>3. FirstAt(u, i)
    BY <1>0, <1>1, <1>3, FirstStays
  <2> HIDE DEF u, t
  <2>4. i \in 1 .. Len(u)
    BY <2>2
  <2>5. /\ TokenIn(u) \in Seq(Char)
        /\ Len(TokenIn(u)) = Len(u) + 1 - i
        /\ \A k \in 1 .. Len(u) + 1 - i : TokenIn(u)[k] = u[i + k - 1]
    BY <2>2, <2>3, <2>4, DollarTokens
  <2> DEFINE a == TokenIn(t)
             b == Append(a, lookahead)
             n == Len(t) + 1 - i
  <2>6. /\ b \in Seq(Char) /\ Len(b) = n + 1 /\ b[n + 1] = lookahead /\ n \in Nat
        /\ \A k \in 1 .. n : b[k] = a[k]
    <3>1. a \in Seq(Char) /\ Len(a) = n
      BY <1>2
    <3> HIDE DEF a, n
    <3> QED
      BY <1>3, <3>1, AppendFacts
  <2>7. ASSUME NEW k \in 1 .. n + 1 PROVE TokenIn(u)[k] = b[k]
    <3>1. k \in 1 .. Len(u) + 1 - i
      BY <2>2
    <3>2. TokenIn(u)[k] = u[i + k - 1]
      BY <2>5, <3>1
    <3>3. CASE k = n + 1
      <4>1. i + k - 1 = Len(t) + 1
        BY <2>2, <3>3
      <4> QED
        BY <2>2, <2>6, <3>2, <3>3, <4>1
    <3>4. CASE k \in 1 .. n
      <4>1. i + k - 1 \in 1 .. Len(t) /\ k \in 1 .. Len(t) + 1 - i
        BY <2>2, <3>4
      <4>2. u[i + k - 1] = t[i + k - 1] /\ a[k] = t[i + k - 1]
        BY <1>2, <2>2, <4>1
      <4> QED
        BY <2>6, <3>2, <3>4, <4>2
    <3>5. k = n + 1 \/ k \in 1 .. n
      <4>1. n \in Nat
        BY <2>6
      <4> HIDE DEF n
      <4> QED
        BY <4>1
    <3> QED
      BY <3>3, <3>4, <3>5
  <2>8. Len(TokenIn(u)) = n + 1
    BY <2>2, <2>5
  <2> HIDE DEF b, n
  <2>9. TokenIn(u) = b
    BY <2>5, <2>6, <2>7, <2>8, SeqEqual
  <2>10. Token' = TokenIn(u)
    BY <2>1, TokenTokenIn
  <2> QED
    BY <1>2, <2>9, <2>10 DEF b
<1>4. UNCHANGED text => Token' = Token
  BY TokenTokenIn
<1> QED
  BY <1>2, <1>3, <1>4

LEMMA StartStrings ==
  ASSUME ScannerInv, Begun, StringRead,
         (\E symbols \in SUBSET Symbol : Scan(symbols))
           \/ SkipBlank \/ StartDollar \/ StartComment \/ StartNothing
  PROVE  StringRead'
<1> USE DEF ScannerInv
<1>0. text \in Seq(Char) /\ Len(text) \in Nat
  BY DEF TypeOK
<1>1. ASSUME (\E symbols \in SUBSET Symbol : Scan(symbols)) \/ SkipBlank \/ StartComment
      PROVE  StringRead'
  <2>1. pc' \in {"start", "comment"}
    BY <1>1 DEF Scan, SkipBlank, StartComment
  <2> QED
    BY <2>1, NotReturnedYet DEF StringRead
<1>2. ASSUME StartDollar PROVE StringRead'
  <2>1. /\ pc = "start" /\ pc' = "tag" /\ tag' = <<>> /\ Len(tag') = 0
        /\ lookahead = Dollar /\ lookahead \in Char /\ Advance
        /\ AllBlank(text)
    BY <1>2, CharFacts DEF StartDollar, AtDollar, Begun
  <2>2. text' = Append(text, Dollar) /\ Len(text') = Len(text) + 1
    BY <2>1, PassOne
  <2>3. FirstAt(text', Len(text) + 1) /\ text'[Len(text) + 1] = Dollar
    BY <1>0, <2>1, <2>2, FirstAfterBlanks, CharFacts
  <2>4. text' \in Seq(Char) /\ Len(text) + 1 \in 1 .. Len(text')
    BY <1>0, <2>2, CharFacts
  <2>5. /\ TokenIn(text') \in Seq(Char)
        /\ TokenIn(text') # <<>>
        /\ Head(TokenIn(text')) = Dollar
        /\ Len(TokenIn(text')) = Len(text') + 1 - (Len(text) + 1)
    BY <2>3, <2>4, DollarTokens
  <2>6. Len(Token') = 1 /\ Token' \in Seq(Char) /\ Token'[1] = Dollar
    BY <1>0, <2>2, <2>5, TokenTokenIn
  <2>7. Opens(Token', tag')
    BY <2>1, <2>6 DEF Opens
  <2>8. DollarAgreesWithTokenizer'
    BY <2>1, NotReturnedYet
  <2> QED
    BY <2>1, <2>6, <2>7, <2>8 DEF StringRead
<1>3. ASSUME StartNothing PROVE StringRead'
  <2>1. AllBlank(text) /\ text' = text /\ pc' = "refused"
    BY <1>3 DEF StartNothing, Stay, Begun
  <2>2. ~IsDollar'
    BY <1>0, <2>1, TokenOfBlanks, TokenTokenIn DEF IsDollar
  <2> QED
    BY <2>1, <2>2 DEF StringRead, DollarAgreesWithTokenizer
<1> QED
  BY <1>1, <1>2, <1>3

LEMMA ReadTags ==
  ASSUME ScannerInv, Begun, StringRead, ReadTag \/ EndTag
  PROVE  StringRead'
<1> DEFINE t == Token
           g == tag
           c == lookahead
           u == Append(t, c)
<1>1. /\ pc = "tag" /\ t \in Seq(Char) /\ g \in Seq(0 .. 255) /\ Len(g) \in Nat
      /\ c \in Char /\ Advance
  <2>1. pc = "tag" /\ c \in Char /\ Advance
    BY CharFacts DEF ScannerInv, TypeOK, ReadTag, EndTag
  <2>2. t \in Seq(Char)
    BY <2>1, TokenGrows DEF ScannerInv
  <2> QED
    BY <2>1, <2>2 DEF ScannerInv, TypeOK
<1>2. Token' = u
  BY <1>1, TokenGrows DEF ScannerInv
<1>3. Opens(t, g) /\ Len(t) = Len(g) + 1
  BY <1>1 DEF StringRead
<1>4. /\ u \in Seq(Char) /\ Len(u) = Len(g) + 2 /\ u[Len(g) + 2] = c
      /\ \A k \in 1 .. Len(t) : u[k] = t[k]
  BY <1>1, <1>3
<1>5. Opens(u, g)
  BY <1>1, <1>3, OpensPasses
<1>6. ASSUME ReadTag PROVE StringRead'
  <2> DEFINE h == Append(g, Narrow(c))
  <2>1. tag' = h /\ c # Dollar /\ pc' = "tag"
    BY <1>1, <1>6 DEF ReadTag
  <2>2. Narrow(c) \in 0 .. 255
    BY <1>1, NarrowType, CharFacts
  <2>3. /\ Len(h) = Len(g) + 1 /\ h[Len(g) + 1] = Narrow(c)
        /\ \A k \in 1 .. Len(g) : h[k] = g[k]
    BY <1>1, <2>2
  <2> HIDE DEF h, u, t
  <2>4. ASSUME NEW k \in 1 .. Len(h) PROVE u[k + 1] # Dollar /\ h[k] = Narrow(u[k + 1])
    <3>1. CASE k = Len(g) + 1
      <4>1. k + 1 = Len(g) + 2
        BY <1>1, <3>1
      <4> QED
        BY <1>4, <2>1, <2>3, <3>1, <4>1
    <3>2. CASE k \in 1 .. Len(g)
      BY <1>5, <2>3, <3>2 DEF Opens
    <3> QED
      BY <1>1, <2>3, <3>1, <3>2
  <2>5. Opens(u, h)
    BY <1>1, <1>4, <1>5, <2>3, <2>4 DEF Opens
  <2>6. Len(u) = Len(h) + 1
    BY <1>1, <1>4, <2>3
  <2>7. DollarAgreesWithTokenizer'
    BY <2>1, NotReturnedYet
  <2> QED
    BY <1>2, <2>1, <2>5, <2>6, <2>7 DEF StringRead
<1>7. ASSUME EndTag PROVE StringRead'
  <2>1. tag' = g /\ c = Dollar /\ pc' = "body"
    BY <1>7 DEF EndTag
  <2> HIDE DEF u, t
  <2>2. Delimited(u, Len(g) + 2)
    <3>1. Len(g) + 2 \in 2 .. Len(u)
      BY <1>1, <1>4
    <3>2. ASSUME NEW k \in 2 .. (Len(g) + 2) - 1 PROVE u[k] # Dollar
      <4>1. k - 1 \in 1 .. Len(g) /\ (k - 1) + 1 = k
        BY <1>1
      <4> QED
        BY <1>5, <4>1 DEF Opens
    <3> QED
      BY <1>4, <1>5, <2>1, <3>1, <3>2 DEF Delimited, Opens
  <2>3. \A p \in Len(g) + 3 .. Len(u) : RuledOut(u, lookahead', Len(g) + 2, p)
    BY <1>1, <1>4
  <2>4. DollarAgreesWithTokenizer'
    BY <2>1, NotReturnedYet
  <2> QED
    BY <1>2, <1>5, <2>1, <2>2, <2>3, <2>4 DEF StringRead, g
<1> QED
  BY <1>6, <1>7

\* A call that ends a comment leaves a token that is no string.
LEMMA CommentEndsNoDollar ==
  ASSUME TypeOK, TypeOK', Begun, pc \in {"comment", "slash", "star"}, Advance \/ Stay,
         valid' = valid
  PROVE  ~IsDollar'
<1>1. text \in Seq(Char) /\ text' \in Seq(Char)
  BY DEF TypeOK
<1>2. CASE DollarQuotedString \notin valid
  BY <1>2 DEF IsDollar
<1>3. CASE \E i \in 1 .. Len(text) : FirstAt(text, i) /\ text[i] # Dollar
  <2>1. PICK i \in 1 .. Len(text) : FirstAt(text, i) /\ text[i] # Dollar
    BY <1>3
  <2>2. i \in 1 .. Len(text') /\ FirstAt(text', i) /\ text'[i] # Dollar
    <3>1. CASE text' = text
      BY <2>1, <3>1
    <3>2. CASE lookahead \in Char /\ text' = Append(text, lookahead)
      <4>1. FirstAt(text', i) /\ text'[i] # Dollar
        BY <1>1, <2>1, <3>2, FirstStays
      <4> QED
        BY <4>1 DEF FirstAt
    <3> QED
      BY <3>1, <3>2, AdvancePasses
  <2>3. Head(TokenIn(text')) # Dollar
    BY <1>1, <2>2, DollarTokens
  <2> QED
    BY <2>3, TokenTokenIn DEF IsDollar
<1>4. CASE AllBlank(text) /\ lookahead \notin Blank /\ lookahead # Dollar
  <2>1. CASE text' = text
    <3>1. TokenIn(text') = <<>>
      BY <1>1, <1>4, <2>1, TokenOfBlanks
    <3> QED
      BY <3>1, TokenTokenIn DEF IsDollar
  <2>2. CASE lookahead \in Char /\ text' = Append(text, lookahead)
    <3>1. FirstAt(text', Len(text) + 1) /\ text'[Len(text) + 1] # Dollar
      BY <1>1, <1>4, <2>2, FirstAfterBlanks
    <3>2. Len(text) + 1 \in 1 .. Len(text')
      BY <3>1 DEF FirstAt
    <3>3. Head(TokenIn(text')) # Dollar
      BY <1>1, <3>1, <3>2, DollarTokens
    <3> QED
      BY <3>3, TokenTokenIn DEF IsDollar
  <2> QED
    BY <2>1, <2>2, AdvancePasses
<1> QED
  BY <1>2, <1>3, <1>4 DEF Begun

\* A character of the string is passed: a dollar sign may begin the delimiter.
LEMMA ReadBodies ==
  ASSUME ScannerInv, Begun, StringRead, ReadBody
  PROVE  StringRead'
<1> DEFINE t == Token
           g == tag
           c == lookahead
           w == Len(tag) + 2
           u == Append(t, c)
<1>1. pc = "body" /\ c \in Char /\ Advance /\ tag' = g
  BY CharFacts DEF ScannerInv, TypeOK, ReadBody
<1>2. t \in Seq(Char) /\ Token' = u /\ Len(g) \in Nat
  BY <1>1, TokenGrows DEF ScannerInv, TypeOK
<1>3. /\ Opens(t, g) /\ Delimited(t, w)
      /\ Plain(t, w) => \A p \in Len(g) + 3 .. Len(t) : RuledOut(t, c, w, p)
  BY <1>1 DEF StringRead
<1>4. /\ u \in Seq(Char) /\ Len(u) = Len(t) + 1 /\ Len(t) \in Nat /\ u[Len(t) + 1] = c
      /\ \A k \in 1 .. Len(t) : u[k] = t[k]
  BY <1>1, <1>2, AppendFacts
<1>5. Opens(u, g) /\ Delimited(u, w) /\ (Plain(u, w) <=> Plain(t, w))
  BY <1>1, <1>2, <1>3, OpensPasses, DelimitedPasses
<1>6. w \in 2 .. Len(t) /\ w \in Nat /\ w = Len(g) + 2 /\ w + 1 = Len(g) + 3
  BY <1>2, <1>3 DEF Delimited
<1>7. ASSUME Plain(u, w), NEW e
      PROVE  \A p \in w + 1 .. Len(t) : RuledOut(u, e, w, p)
  <2>1. \A p \in w + 1 .. Len(t) : RuledOut(t, c, w, p)
    BY <1>3, <1>5, <1>6, <1>7
  <2>2. Len(t) \in Int
    BY <1>4
  <2> HIDE DEF w, t, g, c
  <2> QED
    BY <1>1, <1>2, <1>6, <2>1, <2>2, AllRuledOutPasses
<1>8. CASE c = Dollar
  <2>1. pc' = "match" /\ matched' = 0
    BY <1>8 DEF ReadBody
  <2> HIDE DEF t, g, c, w, u
  <2>2. Len(u) - 0 >= Len(g) + 3 /\ Len(u) - 0 = Len(t) + 1 /\ Len(u) - 0 - 1 = Len(t)
    BY <1>2, <1>4, <1>6
  <2>3. u[Len(u) - 0] = Dollar
    BY <1>4, <1>8, <2>2
  <2>4. \A k \in 1 .. 0 : u[Len(u) - 0 + k] = g[k]
    OBVIOUS
  <2>5. Plain(u, w) => \A p \in Len(g) + 3 .. Len(u) - 0 - 1 : RuledOut(u, lookahead', w, p)
    BY <1>6, <1>7, <2>2
  <2>6. DollarAgreesWithTokenizer'
    BY <2>1, NotReturnedYet
  <2>7. Len(Token') - matched' = Len(u) - 0 /\ matched' = 0 /\ Len(tag') + 2 = w
    BY <1>1, <1>2, <1>6, <2>1
  <2>8. Plain(Token', Len(tag') + 2) =>
          /\ Len(Token') - matched' >= Len(tag') + 3
          /\ Token'[Len(Token') - matched'] = Dollar
          /\ \A k \in 1 .. matched' : Token'[Len(Token') - matched' + k] = tag'[k]
          /\ \A p \in Len(tag') + 3 .. Len(Token') - matched' - 1 :
               RuledOut(Token', lookahead', Len(tag') + 2, p)
    BY <1>1, <1>2, <2>2, <2>3, <2>4, <2>5, <2>7
  <2>9. Opens(Token', tag') /\ Delimited(Token', Len(tag') + 2)
    BY <1>1, <1>2, <1>5, <2>7
  <2> QED
    BY <2>1, <2>6, <2>8, <2>9 DEF StringRead
<1>9. CASE c # Dollar
  <2>1. pc' = "body"
    BY <1>1, <1>9 DEF ReadBody
  <2> HIDE DEF t, g, c, w, u
  <2>2. RuledOut(u, lookahead', w, Len(t) + 1)
    BY <1>1, <1>2, <1>3, <1>9, OrdinaryRulesOut DEF u
  <2>3. ASSUME Plain(u, w), NEW p \in Len(g) + 3 .. Len(u) PROVE RuledOut(u, lookahead', w, p)
    <3>1. p \in w + 1 .. Len(t) \/ p = Len(t) + 1
      BY <1>2, <1>4, <1>6
    <3> QED
      BY <1>7, <2>2, <2>3, <3>1
  <2>4. DollarAgreesWithTokenizer'
    BY <2>1, NotReturnedYet
  <2>5. Token' = u /\ tag' = g /\ Len(tag') + 2 = w
    BY <1>1, <1>2, <1>6
  <2> QED
    BY <1>5, <2>1, <2>3, <2>4, <2>5 DEF StringRead
<1> QED
  BY <1>8, <1>9

\* A character of the tag that is found again is passed; a character that was
\* narrowed to the code of the end of the text is in no plain tag.
LEMMA MatchTags ==
  ASSUME ScannerInv, Begun, StringRead, MatchTag
  PROVE  StringRead'
<1> DEFINE t == Token
           g == tag
           c == lookahead
           m == matched
           w == Len(tag) + 2
           u == Append(t, c)
<1>1. /\ pc = "match" /\ pc' = "match" /\ tag' = g /\ matched' = m + 1
      /\ m \in Nat /\ m < Len(g) /\ c = g[m + 1] /\ Advance
      /\ Len(g) \in Nat /\ c \in Char \cup {EndOfText}
  BY DEF ScannerInv, TypeOK, MatchTag, TagGoesOn
<1>2. t \in Seq(Char) /\ Opens(t, g) /\ Delimited(t, w) /\ w = Len(g) + 2
  BY <1>1, TokenGrows DEF ScannerInv, StringRead
<1>3. DollarAgreesWithTokenizer'
  BY <1>1, NotReturnedYet
<1>4. CASE c \in Char
  <2>1. Token' = u
    BY <1>1, <1>4, TokenGrows DEF ScannerInv
  <2>2. /\ u \in Seq(Char) /\ Len(u) = Len(t) + 1 /\ Len(t) \in Nat /\ u[Len(t) + 1] = c
        /\ \A k \in 1 .. Len(t) : u[k] = t[k]
    BY <1>2, <1>4, AppendFacts
  <2>3. Opens(u, g) /\ Delimited(u, w) /\ (Plain(u, w) <=> Plain(t, w))
    BY <1>1, <1>2, <1>4, OpensPasses, DelimitedPasses
  <2>4. w \in 2 .. Len(t) /\ w + 1 = Len(g) + 3
    BY <1>1, <1>2 DEF Delimited
  <2>5. ASSUME Plain(u, w)
        PROVE  /\ Len(u) - (m + 1) >= Len(g) + 3
               /\ u[Len(u) - (m + 1)] = Dollar
               /\ \A k \in 1 .. m + 1 : u[Len(u) - (m + 1) + k] = g[k]
               /\ \A p \in Len(g) + 3 .. Len(u) - (m + 1) - 1 : RuledOut(u, lookahead', w, p)
    <3> DEFINE q == Len(t) - m
    <3>1. /\ q >= Len(g) + 3
          /\ t[q] = Dollar
          /\ \A k \in 1 .. m : t[q + k] = g[k]
          /\ \A p \in Len(g) + 3 .. q - 1 : RuledOut(t, c, w, p)
      BY <1>1, <2>3, <2>5 DEF StringRead
    <3>2. /\ Len(u) - (m + 1) = q /\ q \in Nat /\ q - 1 \in Int
          /\ q \in 1 .. Len(t) /\ q + m = Len(t)
      BY <1>1, <2>2, <3>1
    <3> HIDE DEF q, u, w, t, g, c, m
    <3>3. u[q] = Dollar
      BY <2>2, <3>1, <3>2
    <3>4. ASSUME NEW k \in 1 .. m + 1 PROVE u[q + k] = g[k]
      <4>1. CASE k = m + 1
        <5>1. q + k = Len(t) + 1
          BY <1>1, <2>2, <3>2, <4>1
        <5> QED
          BY <1>1, <2>2, <4>1, <5>1
      <4>2. CASE k \in 1 .. m
        <5>1. q + k \in 1 .. Len(t)
          BY <1>1, <2>2, <3>2, <4>2
        <5> QED
          BY <2>2, <3>1, <4>2, <5>1
      <4> QED
        BY <1>1, <4>1, <4>2
    <3>5. \A p \in Len(g) + 3 .. q - 1 : RuledOut(u, lookahead', w, p)
      BY <1>2, <1>4, <2>4, <3>1, <3>2, AllRuledOutPasses DEF u
    <3> QED
      BY <3>1, <3>2, <3>3, <3>4, <3>5
  <2> HIDE DEF t, g, c, m, w, u
  <2>6. Len(tag') + 2 = w
    BY <1>1, <1>2
  <2> QED
    BY <1>1, <1>3, <2>1, <2>3, <2>5, <2>6 DEF StringRead
<1>5. CASE c = EndOfText
  <2>1. text' = text
    BY <1>1, <1>5 DEF Advance
  <2>2. Token' = t
    BY <1>1, <2>1, TokenGrows DEF ScannerInv
  <2>3. ~Plain(t, w)
    <3> SUFFICES ASSUME Plain(t, w) PROVE FALSE
      OBVIOUS
    <3>1. m + 1 \in 1 .. Len(g) /\ (m + 1) + 1 \in 2 .. w - 1
      <4>1. w = Len(g) + 2
        BY <1>2
      <4> HIDE DEF w, g, m
      <4> QED
        BY <1>1, <4>1
    <3>2. g[m + 1] = t[(m + 1) + 1]
      <4>1. t \in Seq(Char) /\ Len(g) \in Nat /\ Opens(t, g) /\ Plain(t, Len(g) + 2)
        BY <1>1, <1>2
      <4> HIDE DEF w, g, m, t
      <4>2. \A k \in 1 .. Len(g) : g[k] = t[k + 1]
        BY <4>1, PlainTagIsKept
      <4> QED
        BY <3>1, <4>2
    <3>3. t[(m + 1) + 1] \in T!Letter \cup T!Digit
      BY <3>1 DEF Plain
    <3>4. 0 \notin T!Letter \cup T!Digit
      BY DEF T!Letter, T!Digit
    <3>5. c = g[m + 1] /\ c = 0
      BY <1>1, <1>5 DEF EndOfText
    <3> HIDE DEF t, g, c, m
    <3> QED
      BY <3>2, <3>3, <3>4, <3>5
  <2> QED
    BY <1>1, <1>2, <1>3, <2>2, <2>3 DEF StringRead
<1> QED
  BY <1>1, <1>4, <1>5

\* The string ends where the delimiter is found again for the first time.
LEMMA ClosesString ==
  ASSUME ScannerInv, Begun, StringRead, CloseDollar
  PROVE  StringRead'
<1> DEFINE t == Token
           g == tag
           w == Len(tag) + 2
           u == Append(t, Dollar)
<1>1. /\ pc = "match" /\ pc' = "accepted" /\ tag' = g /\ matched = Len(g)
      /\ Len(g) \in Nat /\ lookahead = Dollar /\ Advance
  BY DEF ScannerInv, TypeOK, CloseDollar, TagEnds
<1>2. /\ t \in Seq(Char) /\ Opens(t, g) /\ Delimited(t, w) /\ w = Len(g) + 2
      /\ Token' = u
  BY <1>1, TokenGrows, CharFacts DEF ScannerInv, StringRead
<1>3. u \in Seq(Char) /\ Delimited(u, w) /\ (Plain(u, w) <=> Plain(t, w))
  BY <1>2, DelimitedPasses, AppendFacts, CharFacts
<1>4. ASSUME T!PeekDollarTag(u) # T!Unterminated
      PROVE  T!SkipDollarQuoted(u, T!PeekDollarTag(u)) = Len(u) + 1
  <2>1. T!PeekDollarTag(u) = w + 1 /\ Plain(t, w)
    BY <1>3, <1>4, PeekAtDelimiter
  <2>2. /\ Len(t) - Len(g) >= Len(g) + 3
        /\ t[Len(t) - Len(g)] = Dollar
        /\ \A k \in 1 .. Len(g) : t[Len(t) - Len(g) + k] = g[k]
        /\ \A p \in Len(g) + 3 .. Len(t) - Len(g) - 1 : RuledOut(t, Dollar, w, p)
    BY <1>1, <2>1 DEF StringRead
  <2> HIDE DEF t, g, w
  <2>3. T!SkipDollarQuoted(u, Len(g) + 3) = Len(u) + 1
    BY <1>1, <1>2, <2>1, <2>2, ClosingRepeats
  <2>4. w + 1 = Len(g) + 3
    BY <1>1, <1>2
  <2> QED
    BY <2>1, <2>3, <2>4
<1>5. DollarAgreesWithTokenizer'
  BY <1>1, <1>2, <1>4 DEF DollarAgreesWithTokenizer, EndsAt
<1> QED
  BY <1>1, <1>5 DEF StringRead

LEMMA NoMatches ==
  ASSUME ScannerInv, Begun, StringRead, NoMatch
  PROVE  StringRead'
<1> DEFINE t == Token
           g == tag
           c == lookahead
           m == matched
           w == Len(tag) + 2
<1>1. /\ pc = "match" /\ pc' = "body" /\ tag' = g /\ lookahead' = c /\ text' = text
      /\ Len(g) \in Nat /\ m \in 0 .. Len(g)
      /\ ~(m < Len(g) /\ c = g[m + 1]) /\ ~(m = Len(g) /\ c = Dollar)
  BY DEF ScannerInv, TypeOK, NoMatch, TagGoesOn, TagEnds, Stay
<1>2. t \in Seq(Char) /\ Opens(t, g) /\ Delimited(t, w) /\ w = Len(g) + 2 /\ Token' = t
  BY <1>1, TokenGrows DEF ScannerInv, StringRead
<1>3. ASSUME Plain(t, w) PROVE \A p \in Len(g) + 3 .. Len(t) : RuledOut(t, c, w, p)
  <2>1. /\ Len(t) - m >= Len(g) + 3
        /\ t[Len(t) - m] = Dollar
        /\ \A k \in 1 .. m : t[Len(t) - m + k] = g[k]
        /\ \A p \in Len(g) + 3 .. Len(t) - m - 1 : RuledOut(t, c, w, p)
    BY <1>1, <1>3 DEF StringRead
  <2> HIDE DEF t, g, c, m
  <2> QED
    BY <1>1, <1>2, <1>3, <2>1, MismatchRulesOut DEF g
<1>4. DollarAgreesWithTokenizer'
  BY <1>1, NotReturnedYet
<1> QED
  BY <1>1, <1>2, <1>3, <1>4 DEF StringRead

\* A text that ends within a string ends within it for the tokenizer, too.
LEMMA RefusesString ==
  ASSUME ScannerInv, Begun, StringRead, Refuse
  PROVE  StringRead'
<1> DEFINE t == Token
           w == Len(tag) + 2
<1>1. /\ pc \in {"tag", "body", "comment"} /\ pc' = "refused" /\ text' = text
      /\ valid' = valid /\ lookahead = EndOfText /\ Len(tag) \in Nat
  BY DEF ScannerInv, TypeOK, Refuse, Stay
<1>2. Token' = t
  BY <1>1, TokenTokenIn
<1>3. CASE pc = "comment"
  <2>1. ~IsDollar'
    BY <1>1, <1>2, <1>3, BegunDecides DEF ScannerInv, IsDollar
  <2>2. DollarAgreesWithTokenizer'
    BY <2>1 DEF DollarAgreesWithTokenizer
  <2> QED
    BY <1>1, <2>2 DEF StringRead
<1>4. CASE pc = "tag"
  <2>1. t \in Seq(Char) /\ Opens(t, tag) /\ Len(t) = Len(tag) + 1
    BY <1>4, TokenGrows DEF ScannerInv, StringRead
  <2>2. ASSUME NEW k \in 2 .. Len(t) PROVE t[k] # Dollar
    <3>1. k - 1 \in 1 .. Len(tag) /\ (k - 1) + 1 = k
      BY <1>1, <2>1
    <3> QED
      BY <2>1, <3>1 DEF Opens
  <2>3. T!PeekDollarTag(t) = T!Unterminated
    BY <2>1, <2>2, PeekWithoutDelimiter
  <2>4. DollarAgreesWithTokenizer'
    BY <1>2, <2>3 DEF DollarAgreesWithTokenizer
  <2> QED
    BY <1>1, <2>4 DEF StringRead
<1>5. CASE pc = "body"
  <2>1. /\ t \in Seq(Char) /\ Delimited(t, w)
        /\ Plain(t, w) => \A p \in Len(tag) + 3 .. Len(t) : RuledOut(t, EndOfText, w, p)
    BY <1>1, <1>5, TokenGrows DEF ScannerInv, StringRead
  <2>2. ASSUME T!PeekDollarTag(t) # T!Unterminated
        PROVE  T!SkipDollarQuoted(t, T!PeekDollarTag(t)) = T!Unterminated
    <3>1. T!PeekDollarTag(t) = w + 1 /\ Plain(t, w)
      BY <2>1, <2>2, PeekAtDelimiter
    <3>2. w + 1 = Len(tag) + 3 /\ w \in Nat
      BY <1>1
    <3>3. \A p \in w + 1 .. Len(t) : RuledOut(t, EndOfText, w, p)
      BY <2>1, <3>1, <3>2
    <3>4. w \in 2 .. Len(t)
      BY <2>1 DEF Delimited
    <3> HIDE DEF w, t
    <3>5. Repeats(t, w) = {}
      BY <2>1, <3>3, <3>4, NothingRepeats
    <3> QED
      BY <2>1, <3>1, <3>2, <3>5, SkipRepeats
  <2>3. DollarAgreesWithTokenizer'
    BY <1>1, <1>2, <2>2 DEF DollarAgreesWithTokenizer, EndsAt
  <2> QED
    BY <1>1, <2>3 DEF StringRead
<1> QED
  BY <1>1, <1>3, <1>4, <1>5

LEMMA StringReadStep ==
  ASSUME ScannerInv, ScannerInv', Begun, StringRead, [Next]_vars
  PROVE  StringRead'
<1>1. ASSUME (\E symbols \in SUBSET Symbol : Scan(symbols))
               \/ SkipBlank \/ StartDollar \/ StartComment \/ StartNothing
      PROVE  StringRead'
  BY <1>1, StartStrings
<1>2. ASSUME ReadTag \/ EndTag \/ ReadBody \/ MatchTag \/ CloseDollar \/ NoMatch \/ Refuse
      PROVE  StringRead'
  BY <1>2, ReadTags, ReadBodies, MatchTags, ClosesString, NoMatches, RefusesString
<1>3. ASSUME ReadComment \/ AfterSlash \/ AfterStar PROVE StringRead'
  <2>1. Advance \/ Stay
    BY <1>3 DEF ReadComment, AfterSlash, AfterStar
  <2>2. /\ valid' = valid
        /\ pc \in {"comment", "slash", "star"}
        /\ pc' \notin {"start", "tag", "body", "match"}
    BY <1>3 DEF ReadComment, AfterSlash, AfterStar
  <2>3. ~IsDollar'
    BY <2>1, <2>2, CommentEndsNoDollar DEF ScannerInv
  <2> QED
    BY <2>2, <2>3 DEF StringRead, DollarAgreesWithTokenizer
<1>4. ASSUME Serialize \/ Discard PROVE StringRead'
  <2>1. pc' = "idle"
    BY <1>4 DEF Serialize, Discard, Return
  <2> QED
    BY <2>1, NotReturnedYet DEF StringRead
<1>5. CASE UNCHANGED vars
  <2>1. Token' = Token
    BY <1>5, TokenTokenIn DEF vars
  <2> QED
    BY <1>5, <2>1 DEF vars, StringRead, DollarAgreesWithTokenizer, Returned, IsDollar, EndsAt
<1> QED
  BY <1>1, <1>2, <1>3, <1>4, <1>5 DEF Next, Step

\* Editor and compiler agree on where a dollar-quoted string ends, for tags and
\* texts of any length and whatever was scanned and restored before
\* (scanner.c:30-65 and scanner.go:253-294).
THEOREM StringsAgree == Spec => []DollarAgreesWithTokenizer
<1>1. Init => StringRead
  BY DEF Init, StringRead, DollarAgreesWithTokenizer, Returned
<1>2. ScannerInv /\ ScannerInv' /\ Begun /\ StringRead /\ [Next]_vars => StringRead'
  BY StringReadStep
<1>3. StringRead => DollarAgreesWithTokenizer
  BY DEF StringRead
<1> QED
  BY <1>1, <1>2, <1>3, AlwaysBegun, PTL DEF Spec

===============================================================================

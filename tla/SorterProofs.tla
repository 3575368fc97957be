---------------------------- MODULE SorterProofs ----------------------------
(* The order Resolver.Sort returns, for any number of objects and any edges. *)
EXTENDS Sorter, FiniteSetTheorems, SequenceTheorems, TLAPS

\* What has still to come before b.
Waiting(b) == Before(edges, b) \ Elements(sorted)

Distinct(s) == \A m, n \in 1 .. Len(s) : s[m] = s[n] => m = n

\* Degrees count what is waited for; what waits for nothing is queued or sorted, and
\* nothing else is.
Counted == \A b \in Node : inDegree[b] = Cardinality(Waiting(b))

Released == \A b \in Node : Waiting(b) = {} <=> b \in Elements(queue) \cup Elements(sorted)

\* A node is queued or sorted once.
Once ==
    /\ Distinct(queue)
    /\ Distinct(sorted)
    /\ Elements(queue) \cap Elements(sorted) = {}

Ordered ==
    \A n \in 1 .. Len(sorted) : \A a \in Before(edges, sorted[n]) :
        \E m \in 1 .. n - 1 : sorted[m] = a

Complete == outcome = "sorted" => Len(sorted) = N

KahnInv == TypeOK /\ Counted /\ Released /\ Once /\ Ordered /\ Complete

----------------------------------------------------------------------------

LEMMA NodeFinite ==
    /\ IsFiniteSet(Node)
    /\ Cardinality(Node) = N
    /\ \A S \in SUBSET Node : IsFiniteSet(S) /\ Cardinality(S) \in 0 .. N
<1>1. IsFiniteSet(Node) /\ Cardinality(Node) = N
  BY FS_Interval, ConstantsAssumption DEF Node
<1>2. ASSUME NEW S \in SUBSET Node
      PROVE  IsFiniteSet(S) /\ Cardinality(S) \in 0 .. N
  BY <1>1, <1>2, FS_Subset, FS_CardinalityType, ConstantsAssumption
<1> QED
  BY <1>1, <1>2

\* Listing a set in source order gives a sequence of it without repetition.
LEMMA AscendingFacts ==
    ASSUME NEW S \in SUBSET Node, NEW s \in Ascending(S)
    PROVE  s \in Seq(Node) /\ Elements(s) = S /\ Distinct(s)
<1>1. Cardinality(S) \in Nat
  BY NodeFinite
<1>2. s \in [1 .. Cardinality(S) -> S] /\ DOMAIN s = 1 .. Cardinality(S)
  BY DEF Ascending
<1>3. s \in Seq(S) /\ s \in Seq(Node) /\ Len(s) = Cardinality(S)
  BY <1>1, <1>2
<1>4. Elements(s) = S
  BY <1>2, <1>3 DEF Ascending, Elements
<1>5. Distinct(s)
  <2> SUFFICES ASSUME NEW m \in 1 .. Len(s), NEW n \in 1 .. Len(s), s[m] = s[n], m # n
               PROVE  FALSE
    BY DEF Distinct
  <2>1. s[m] \in Int /\ s[n] \in Int
    <3>1. s[m] \in Node /\ s[n] \in Node
      BY <1>3
    <3> QED
      BY <3>1, ConstantsAssumption DEF Node
  <2>2. m < n \/ n < m
    OBVIOUS
  <2> QED
    BY <1>2, <1>3, <2>1, <2>2 DEF Ascending
<1> QED
  BY <1>3, <1>4, <1>5

LEMMA BeforeInNode == \A E, b : Before(E, b) \in SUBSET Node
BY DEF Before

LEMMA WaitingInNode == \A b : Waiting(b) \in SUBSET Node
BY BeforeInNode DEF Waiting

\* A sequence taken apart at its head.
LEMMA HeadFacts ==
    ASSUME NEW s \in Seq(Node), s # <<>>, Distinct(s)
    PROVE  /\ Head(s) \in Node
           /\ Head(s) \in Elements(s)
           /\ Tail(s) \in Seq(Node)
           /\ Elements(Tail(s)) = Elements(s) \ {Head(s)}
           /\ Distinct(Tail(s))
<1>1. Len(s) \in Nat /\ Len(s) > 0 /\ Head(s) = s[1] /\ Head(s) \in Node
  BY HeadTailProperties, EmptySeq
<1>2. Tail(s) \in Seq(Node) /\ Len(Tail(s)) = Len(s) - 1
      /\ \A n \in 1 .. Len(Tail(s)) : Tail(s)[n] = s[n + 1]
  BY HeadTailProperties
<1>3. Elements(Tail(s)) \subseteq Elements(s) \ {Head(s)}
  BY <1>1, <1>2 DEF Elements, Distinct
<1>4. ASSUME NEW x \in Elements(s), x # Head(s)
      PROVE  x \in Elements(Tail(s))
  <2>1. PICK n \in 1 .. Len(s) : s[n] = x
    BY DEF Elements
  <2>2. n - 1 \in 1 .. Len(Tail(s)) /\ Tail(s)[n - 1] = x
    BY <2>1, <1>1, <1>2, <1>4
  <2> QED
    BY <2>2 DEF Elements
<1>5. Distinct(Tail(s))
  BY <1>1, <1>2 DEF Distinct
<1>6. Elements(Tail(s)) = Elements(s) \ {Head(s)}
  BY <1>3, <1>4, Zenon
<1>7. Head(s) \in Elements(s)
  BY <1>1 DEF Elements
<1> QED
  BY <1>1, <1>2, <1>5, <1>6, <1>7

\* Two sequences with nothing in common, one after the other.
LEMMA ConcatFacts ==
    ASSUME NEW s \in Seq(Node), NEW t \in Seq(Node), Distinct(s), Distinct(t),
           Elements(s) \cap Elements(t) = {}
    PROVE  /\ s \o t \in Seq(Node)
           /\ Elements(s \o t) = Elements(s) \cup Elements(t)
           /\ Distinct(s \o t)
<1> DEFINE u == s \o t
<1>1. /\ u \in Seq(Node)
      /\ Len(s) \in Nat /\ Len(t) \in Nat /\ Len(u) = Len(s) + Len(t)
      /\ \A n \in 1 .. Len(s) : u[n] = s[n]
      /\ \A n \in Len(s) + 1 .. Len(u) : u[n] = t[n - Len(s)] /\ n - Len(s) \in 1 .. Len(t)
  BY ConcatProperties, LenProperties
<1> HIDE DEF u
<1>2. Elements(u) \subseteq Elements(s) \cup Elements(t)
  <2> SUFFICES ASSUME NEW n \in 1 .. Len(u)
               PROVE  u[n] \in Elements(s) \cup Elements(t)
    BY DEF Elements
  <2>1. n \in 1 .. Len(s) \/ n \in Len(s) + 1 .. Len(u)
    BY <1>1
  <2> QED
    BY <1>1, <2>1 DEF Elements
<1>3. Elements(s) \subseteq Elements(u)
  BY <1>1 DEF Elements
<1>4. ASSUME NEW n \in 1 .. Len(t)
      PROVE  t[n] \in Elements(u)
  <2>1. /\ n + Len(s) \in Len(s) + 1 .. Len(u)
        /\ n + Len(s) \in 1 .. Len(u)
        /\ (n + Len(s)) - Len(s) = n
    BY <1>1
  <2>2. u[n + Len(s)] = t[(n + Len(s)) - Len(s)]
    BY <1>1, <2>1, Zenon
  <2>3. u[n + Len(s)] \in Elements(u)
    BY <2>1, Zenon DEF Elements
  <2> QED
    BY <2>1, <2>2, <2>3, Zenon
<1>5. ASSUME NEW m \in 1 .. Len(u), NEW n \in 1 .. Len(u), u[m] = u[n]
      PROVE  m = n
  <2>1. CASE m \in 1 .. Len(s) /\ n \in 1 .. Len(s)
    BY <1>1, <1>5, <2>1 DEF Distinct
  <2>2. CASE m \in Len(s) + 1 .. Len(u) /\ n \in Len(s) + 1 .. Len(u)
    <3>1. m - Len(s) = n - Len(s)
      BY <1>1, <1>5, <2>2 DEF Distinct
    <3> QED
      BY <3>1, <1>1
  <2> DEFINE Astride(x, y) == x \in 1 .. Len(s) /\ y \in Len(s) + 1 .. Len(u)
  <2>3. ASSUME NEW x, NEW y, Astride(x, y)
        PROVE  u[x] # u[y]
    <3>1. u[x] \in Elements(s)
      BY <1>1, <2>3 DEF Elements
    <3>2. u[y] \in Elements(t)
      BY <1>1, <2>3 DEF Elements
    <3> QED
      BY <3>1, <3>2
  <2>4. ~Astride(m, n) /\ ~Astride(n, m)
    BY <2>3, <1>5
  <2> QED
    BY <1>1, <2>1, <2>2, <2>3, <2>4
<1>6. Elements(u) = Elements(s) \cup Elements(t)
  BY <1>2, <1>3, <1>4 DEF Elements
<1>7. Distinct(u)
  BY <1>5 DEF Distinct
<1> QED
  BY <1>1, <1>6, <1>7 DEF u

LEMMA AppendFacts ==
    ASSUME NEW s \in Seq(Node), NEW x \in Node, Distinct(s), x \notin Elements(s)
    PROVE  /\ Append(s, x) \in Seq(Node)
           /\ Elements(Append(s, x)) = Elements(s) \cup {x}
           /\ Distinct(Append(s, x))
           /\ Len(Append(s, x)) = Len(s) + 1
           /\ Append(s, x)[Len(s) + 1] = x
           /\ \A n \in 1 .. Len(s) : Append(s, x)[n] = s[n]
<1> DEFINE u == Append(s, x)
<1>1. /\ u \in Seq(Node) /\ Len(s) \in Nat /\ Len(u) = Len(s) + 1
      /\ u[Len(s) + 1] = x
      /\ \A n \in 1 .. Len(s) : u[n] = s[n]
  BY AppendProperties, LenProperties
<1> HIDE DEF u
<1>2. \A n \in 1 .. Len(u) : n \in 1 .. Len(s) \/ n = Len(s) + 1
  BY <1>1
<1>3. Elements(u) = Elements(s) \cup {x}
  BY <1>1, <1>2 DEF Elements
<1>4. Distinct(u)
  BY <1>1, <1>2 DEF Distinct, Elements
<1> QED
  BY <1>1, <1>3, <1>4 DEF u

----------------------------------------------------------------------------
(* The invariant *)

LEMMA EdgesInNode == TypeOK => edges \subseteq Node \X Node
BY DEF TypeOK, edges, Edges, ForeignKey

\* A round that begins satisfies the invariant, whatever the edges are.
LEMMA FreshRound ==
    ASSUME NEW E, NEW deg, NEW q \in Ascending({b \in Node : Before(E, b) = {}}),
           deg = [b \in Node |-> Cardinality(Before(E, b))]
    PROVE  /\ deg \in [Node -> 0 .. N]
           /\ q \in Seq(Node)
           /\ Distinct(q)
           /\ Elements(q) = {b \in Node : Before(E, b) = {}}
<1> DEFINE S == {b \in Node : Before(E, b) = {}}
<1>1. S \in SUBSET Node
  OBVIOUS
<1>2. q \in Seq(Node) /\ Elements(q) = S /\ Distinct(q)
  BY <1>1, AscendingFacts
<1>3. \A b \in Node : Cardinality(Before(E, b)) \in 0 .. N
  BY BeforeInNode, NodeFinite
<1> QED
  BY <1>2, <1>3

LEMMA NothingSorted == <<>> \in Seq(Node) /\ Elements(<<>>) = {} /\ Distinct(<<>>) /\ Len(<<>>) = 0
BY DEF Elements, Distinct

LEMMA InitKahn == Init => KahnInv
<1> SUFFICES ASSUME Init PROVE KahnInv
  OBVIOUS
<1>1. /\ inDegree \in [Node -> 0 .. N] /\ queue \in Seq(Node) /\ Distinct(queue)
      /\ Elements(queue) = {b \in Node : Before(edges, b) = {}}
  BY FreshRound DEF Init
<1>2. sorted = <<>> /\ outcome = "running" /\ removed = {}
  BY DEF Init
<1>3. fixed \subseteq Node \X Node /\ fks \subseteq ForeignKey
  BY ConstantsAssumption DEF Init
<1>4. TypeOK
  BY <1>1, <1>2, <1>3, NothingSorted DEF TypeOK
<1>5. Elements(sorted) = {} /\ Len(sorted) = 0 /\ Distinct(sorted)
  BY <1>2, NothingSorted
<1>6. \A b : Waiting(b) = Before(edges, b)
  BY <1>5 DEF Waiting
<1>7. Counted
  BY <1>6 DEF Counted, Init
<1>8. Released
  BY <1>1, <1>5, <1>6 DEF Released
<1>9. Once /\ Ordered /\ Complete
  BY <1>1, <1>2, <1>5 DEF Once, Ordered, Complete
<1> QED
  BY <1>4, <1>7, <1>8, <1>9 DEF KahnInv

LEMMA DequeueKahn ==
    ASSUME KahnInv, Dequeue
    PROVE  KahnInv'
<1> DEFINE cur == Head(queue)
<1>1. TypeOK /\ Counted /\ Released /\ Once /\ Ordered
  BY DEF KahnInv
<1>2. queue \in Seq(Node) /\ sorted \in Seq(Node) /\ queue # <<>> /\ outcome = "running"
  BY <1>1 DEF TypeOK, Dequeue
<1>3. /\ cur \in Node /\ cur \in Elements(queue) /\ Tail(queue) \in Seq(Node)
      /\ Elements(Tail(queue)) = Elements(queue) \ {cur}
      /\ Distinct(Tail(queue))
  BY <1>1, <1>2, HeadFacts DEF Once
<1> HIDE DEF cur
<1>4. cur \notin Elements(sorted) /\ Waiting(cur) = {}
  BY <1>1, <1>3 DEF Once, Released
<1>5. PICK ready \in Ascending(Ready(cur)) : queue' = Tail(queue) \o ready
  BY DEF Dequeue, cur
<1>6. ready \in Seq(Node) /\ Elements(ready) = Ready(cur) /\ Distinct(ready)
  <2>1. Ready(cur) \in SUBSET Node
    BY DEF Ready
  <2> QED
    BY <1>5, <2>1, AscendingFacts
<1>7. /\ sorted' = Append(sorted, cur)
      /\ inDegree' = [b \in Node |-> IF <<cur, b>> \in edges THEN inDegree[b] - 1 ELSE inDegree[b]]
      /\ UNCHANGED <<fixed, fks, removed, outcome>>
  BY DEF Dequeue, cur
<1>8. edges' = edges
  BY <1>7 DEF edges
<1>9. /\ sorted' \in Seq(Node) /\ Elements(sorted)' = Elements(sorted) \cup {cur}
      /\ Distinct(sorted') /\ Len(sorted') = Len(sorted) + 1
      /\ sorted'[Len(sorted) + 1] = cur
      /\ \A n \in 1 .. Len(sorted) : sorted'[n] = sorted[n]
  BY <1>1, <1>2, <1>3, <1>4, <1>7, AppendFacts DEF Once, Elements
<1>10. \A b : Waiting(b)' = Waiting(b) \ {cur}
  BY <1>8, <1>9 DEF Waiting, Before
<1>11. \A b : cur \in Waiting(b) <=> <<cur, b>> \in edges
  BY <1>3, <1>4 DEF Waiting, Before
<1>12. ASSUME NEW b \in Node
       PROVE  inDegree'[b] = Cardinality(Waiting(b) \ {cur})
  <2>1. IsFiniteSet(Waiting(b)) /\ inDegree[b] = Cardinality(Waiting(b))
        /\ Cardinality(Waiting(b)) \in Nat
    BY <1>1, WaitingInNode, NodeFinite, FS_CardinalityType DEF Counted
  <2>2. Cardinality(Waiting(b) \ {cur})
          = IF cur \in Waiting(b) THEN Cardinality(Waiting(b)) - 1 ELSE Cardinality(Waiting(b))
    BY <2>1, FS_RemoveElement
  <2> QED
    BY <2>1, <2>2, <1>7, <1>11
<1>13. Counted'
  BY <1>10, <1>12 DEF Counted
<1>14. \A b \in Ready(cur) : Waiting(b) # {} /\ Waiting(b) \ {cur} = {}
  <2> SUFFICES ASSUME NEW b \in Ready(cur)
               PROVE  Waiting(b) # {} /\ Waiting(b) \ {cur} = {}
    OBVIOUS
  <2>1. b \in Node /\ <<cur, b>> \in edges /\ inDegree[b] = 1
    BY DEF Ready
  <2>2. cur \in Waiting(b) /\ inDegree'[b] = 0
    BY <2>1, <1>7, <1>11
  <2>3. IsFiniteSet(Waiting(b) \ {cur})
    BY WaitingInNode, NodeFinite
  <2> QED
    BY <2>1, <2>2, <2>3, <1>12, FS_EmptySet
<1>15. Elements(Tail(queue)) \cap Elements(ready) = {}
       /\ Elements(sorted) \cap Elements(ready) = {}
  <2>1. \A b \in Ready(cur) : b \in Node /\ Waiting(b) # {}
    BY <1>14 DEF Ready
  <2>2. \A b \in Ready(cur) : b \notin Elements(queue) \cup Elements(sorted)
    BY <1>1, <2>1 DEF Released
  <2> QED
    BY <1>3, <1>6, <2>2
<1>16. /\ queue' \in Seq(Node) /\ Distinct(queue')
       /\ Elements(queue)' = (Elements(queue) \ {cur}) \cup Ready(cur)
  <2>1. /\ Tail(queue) \o ready \in Seq(Node)
        /\ Distinct(Tail(queue) \o ready)
        /\ Elements(Tail(queue) \o ready) = Elements(Tail(queue)) \cup Elements(ready)
    BY <1>3, <1>6, <1>15, ConcatFacts
  <2>2. queue' \in Seq(Node) /\ Distinct(queue')
        /\ Elements(queue') = (Elements(queue) \ {cur}) \cup Ready(cur)
    BY <2>1, <1>3, <1>5, <1>6
  <2> QED
    BY <2>2 DEF Elements
<1>17. Released'
  <2> SUFFICES ASSUME NEW b \in Node
               PROVE  Waiting(b) \ {cur} = {} <=> b \in (Elements(queue) \cup Elements(sorted))'
    BY <1>10 DEF Released
  <2>1. CASE cur \in Waiting(b)
    <3>1. b \notin Elements(queue) \cup Elements(sorted) /\ b # cur
      BY <1>1, <1>4, <2>1 DEF Released
    <3>2. <<cur, b>> \in edges /\ inDegree'[b] = inDegree[b] - 1 /\ inDegree[b] \in Int
      BY <1>1, <1>7, <1>11, <2>1 DEF TypeOK
    <3>3. Waiting(b) \ {cur} = {} <=> inDegree'[b] = 0
      <4>1. IsFiniteSet(Waiting(b) \ {cur})
        BY WaitingInNode, NodeFinite
      <4> QED
        BY <1>12, <4>1, FS_EmptySet
    <3>4. Waiting(b) \ {cur} = {} <=> b \in Ready(cur)
      BY <3>2, <3>3 DEF Ready
    <3> QED
      BY <1>9, <1>16, <3>1, <3>4
  <2>2. CASE cur \notin Waiting(b)
    <3>1. b \notin Ready(cur) /\ Waiting(b) \ {cur} = Waiting(b)
      BY <1>11, <2>2 DEF Ready
    <3> QED
      BY <1>1, <1>3, <1>9, <1>16, <3>1 DEF Released
  <2> QED
    BY <2>1, <2>2
<1>18. Once'
  <2>1. Elements(queue)' \cap Elements(sorted)' = {}
    <3>1. cur \notin Ready(cur)
      BY <1>4, <1>14
    <3> QED
      BY <3>1, <1>1, <1>6, <1>9, <1>15, <1>16 DEF Once
  <2> QED
    BY <2>1, <1>9, <1>16 DEF Once, Distinct
<1>19. Ordered'
  <2> SUFFICES ASSUME NEW n \in 1 .. Len(sorted'), NEW a \in Before(edges, sorted'[n])
               PROVE  \E m \in 1 .. n - 1 : sorted'[m] = a
    BY <1>8 DEF Ordered, Before
  <2>1. Len(sorted) \in Nat
    BY <1>2
  <2>2. CASE n \in 1 .. Len(sorted)
    <3>1. PICK m \in 1 .. n - 1 : sorted[m] = a
      BY <2>2, <1>1, <1>9 DEF Ordered
    <3> QED
      BY <3>1, <2>1, <2>2, <1>9
  <2>3. CASE n = Len(sorted) + 1
    <3>1. a \in Elements(sorted)
      BY <2>3, <1>4, <1>9 DEF Waiting
    <3>2. PICK m \in 1 .. Len(sorted) : sorted[m] = a
      BY <3>1 DEF Elements
    <3> QED
      BY <3>2, <2>1, <2>3, <1>9
  <2> QED
    BY <2>1, <2>2, <2>3, <1>9
<1>20. Complete'
  BY <1>2, <1>7 DEF Complete
<1>21. TypeOK'
  <2>1. \A b \in Node : Waiting(b) \ {cur} \in SUBSET Node
    BY WaitingInNode
  <2>2. \A b \in Node : inDegree'[b] \in 0 .. N
    BY <2>1, <1>12, NodeFinite
  <2>3. inDegree' \in [Node -> 0 .. N]
    BY <2>2, <1>7
  <2> QED
    BY <2>3, <1>1, <1>7, <1>9, <1>16 DEF TypeOK
<1> QED
  BY <1>13, <1>17, <1>18, <1>19, <1>20, <1>21 DEF KahnInv

LEMMA DeferKahn ==
    ASSUME KahnInv, NEW C, Defer(C), outcome = "running"
    PROVE  KahnInv'
<1>1. TypeOK
  BY DEF KahnInv
<1>2. UNCHANGED <<fixed, outcome>> /\ sorted' = <<>>
  BY DEF Defer, Restart
<1>3. fks' \subseteq ForeignKey /\ removed' \subseteq ForeignKey
  BY <1>1 DEF Defer, Deferred, Closing, TypeOK
<1>4. Edges(fixed, fks') = edges'
  BY <1>2 DEF edges
<1>5. /\ inDegree' = [b \in Node |-> Cardinality(Before(edges', b))]
      /\ queue' \in Ascending({b \in Node : Before(edges', b) = {}})
  BY <1>4 DEF Defer, Restart
<1>6. /\ inDegree' \in [Node -> 0 .. N] /\ queue' \in Seq(Node) /\ Distinct(queue')
      /\ Elements(queue') = {b \in Node : Before(edges', b) = {}}
  BY <1>5, FreshRound
<1>7. TypeOK'
  BY <1>1, <1>2, <1>3, <1>6, NothingSorted DEF TypeOK
<1>8. Elements(sorted') = {} /\ Len(sorted') = 0 /\ Distinct(sorted')
  BY <1>2, NothingSorted
<1>9. \A b : Waiting(b)' = Before(edges', b)
  BY <1>8 DEF Waiting, Before, Elements
<1>10. Counted'
  BY <1>5, <1>9 DEF Counted
<1>11. Released'
  BY <1>6, <1>8, <1>9 DEF Released, Elements
<1>12. Once' /\ Ordered' /\ Complete'
  BY <1>2, <1>6, <1>8 DEF Once, Ordered, Complete, Distinct, Elements
<1> QED
  BY <1>7, <1>10, <1>11, <1>12 DEF KahnInv

\* The round ends: nothing moves but the outcome.
LEMMA EndKahn ==
    ASSUME KahnInv, UNCHANGED <<fixed, fks, inDegree, queue, sorted>>,
           removed' = removed,
           outcome' \in {"running", "sorted", "error", "unsorted"},
           outcome' = "sorted" => Len(sorted) = N
    PROVE  KahnInv'
<1>1. edges' = edges /\ Elements(sorted)' = Elements(sorted) /\ Elements(queue)' = Elements(queue)
  BY DEF edges, Elements
<1>2. \A b : Waiting(b)' = Waiting(b) /\ Before(edges, b)' = Before(edges, b)
  BY <1>1 DEF Waiting, Before
<1>3. TypeOK'
  BY DEF KahnInv, TypeOK
<1>4. Counted' /\ Released' /\ Once'
  BY <1>1, <1>2 DEF KahnInv, Counted, Released, Once, Distinct
<1>5. Ordered'
  BY <1>1 DEF KahnInv, Ordered, Before
<1>6. Complete'
  BY DEF KahnInv, Complete
<1> QED
  BY <1>3, <1>4, <1>5, <1>6 DEF KahnInv

LEMMA StepKahn == KahnInv /\ [Next]_vars => KahnInv'
<1> SUFFICES ASSUME KahnInv, [Next]_vars PROVE KahnInv'
  OBVIOUS
<1>1. CASE Dequeue
  BY <1>1, DequeueKahn
<1>2. CASE Finish
  BY <1>2, EndKahn DEF Finish
<1>3. CASE Break
  <2>1. ASSUME NEW C \in Cycles(edges), Defer(C)
        PROVE  KahnInv'
    BY <1>3, <2>1, DeferKahn DEF Break
  <2>2. CASE GiveUp
    BY <2>2, EndKahn DEF GiveUp
  <2> QED
    BY <1>3, <2>1, <2>2 DEF Break
<1>4. CASE UNCHANGED vars
  BY <1>4, EndKahn DEF vars, KahnInv, TypeOK, Complete
<1> QED
  BY <1>1, <1>2, <1>3, <1>4 DEF Next

THEOREM KahnHolds == Spec => []KahnInv
BY InitKahn, StepKahn, PTL DEF Spec

\* Degrees never go below zero, and only objects are queued and listed.
THEOREM SorterTypeCorrect == Spec => []TypeOK
<1>1. KahnInv => TypeOK
  BY DEF KahnInv
<1> QED
  BY <1>1, KahnHolds, PTL

\* Whatever the objects depend on, an order that Sort gives out as sorted has each of
\* them once, after what it depends on.
THEOREM SortedIsTopological == Spec => []SortIsTopological
<1>1. KahnInv => SortIsTopological
  <2> SUFFICES ASSUME KahnInv, outcome = "sorted" PROVE
                 /\ Len(sorted) = N
                 /\ \A m, n \in 1 .. N : sorted[m] = sorted[n] => m = n
                 /\ \A e \in edges : Precedes(sorted, e[1], e[2])
    BY DEF SortIsTopological
  <2>1. Len(sorted) = N /\ Distinct(sorted) /\ edges \subseteq Node \X Node
    BY EdgesInNode DEF KahnInv, Complete, Once
  <2>2. ASSUME NEW e \in edges, NEW n \in 1 .. Len(sorted), sorted[n] = e[2]
        PROVE  \E m \in 1 .. n - 1 : sorted[m] = e[1]
    <3>1. e[1] \in Node /\ e = <<e[1], e[2]>>
      BY <2>1
    <3>2. e[1] \in Before(edges, sorted[n])
      BY <3>1, <2>2 DEF Before
    <3> QED
      BY <3>2, <2>2 DEF KahnInv, Ordered
  <2> QED
    BY <2>1, <2>2 DEF Distinct, Precedes
<1> QED
  BY <1>1, KahnHolds, PTL

----------------------------------------------------------------------------
(* Where nothing can be dequeued there is a cycle *)

LEMMA Greatest ==
    ASSUME NEW S \in SUBSET Nat, S # {}, NEW b \in Nat, \A n \in S : n <= b
    PROVE  \E n \in S : \A m \in S : m <= n
<1> DEFINE T == {b - n : n \in S}
           R == OpToRel(<, Nat)
<1>1. \A n \in S : n \in Nat /\ n <= b /\ b - n \in Nat
  OBVIOUS
<1>2. T \subseteq Nat /\ T # {}
  BY <1>1
<1>3. PICK x \in T : \A y \in T : ~ (<<y, x>> \in R)
  <2> HIDE DEF T, R
  <2>1. IsWellFoundedOn(R, Nat)
    BY NatLessThanWellFounded DEF R
  <2> QED
    BY <1>2, <2>1, WFMin
<1>4. \A y \in T : ~(y < x)
  BY <1>2, <1>3 DEF OpToRel
<1>5. PICK n \in S : x = b - n
  OBVIOUS
<1>6. \A m \in S : ~(b - m < b - n)
  BY <1>4, <1>5
<1> QED
  BY <1>1, <1>6

\* A sequence of n nodes of U, none twice, each followed by its predecessor p.
Chain(U, p, n, s) ==
    /\ s \in [1 .. n -> U]
    /\ \A m, k \in 1 .. n : s[m] = s[k] => m = k
    /\ \A m \in 1 .. n : m + 1 <= n => s[m + 1] = p[s[m]]

\* There is a longest one.
LEMMA LongestChain ==
    ASSUME NEW U \in SUBSET Node, U # {}, NEW p \in [U -> U]
    PROVE  \E n \in Nat \ {0} : \E s : /\ Chain(U, p, n, s)
                                      /\ \A t : ~Chain(U, p, n + 1, t)
<1> DEFINE L == {n \in Nat \ {0} : \E s : Chain(U, p, n, s)}
<1>1. L # {}
  <2>1. PICK x \in U : TRUE
    OBVIOUS
  <2>2. Chain(U, p, 1, [m \in 1 .. 1 |-> x])
    BY DEF Chain
  <2> QED
    BY <2>2
<1>2. ASSUME NEW n \in L PROVE n <= N
  <2>1. PICK s : Chain(U, p, n, s)
    OBVIOUS
  <2>2. s \in Injection(1 .. n, Node)
    BY <2>1 DEF Chain, Injection, IsInjective
  <2>3. IsFiniteSet(1 .. n) /\ Cardinality(1 .. n) = n
    BY FS_Interval
  <2>4. Cardinality(1 .. n) <= Cardinality(Node)
    BY <2>2, NodeFinite, FS_Injection
  <2> QED
    BY <2>3, <2>4, NodeFinite
<1>3. PICK n \in L : \A m \in L : m <= n
  <2> HIDE DEF L
  <2>1. L \in SUBSET Nat
    BY DEF L
  <2> QED
    BY <1>1, <1>2, <2>1, ConstantsAssumption, Greatest
<1>4. n + 1 \notin L
  BY <1>3
<1> QED
  BY <1>4

LEMMA CycleExists ==
    ASSUME NEW E, NEW U \in SUBSET Node, U # {},
           \A b \in U : \E a \in U : a # b /\ <<a, b>> \in E
    PROVE  Cycles(E) # {}
<1> DEFINE p == [b \in U |-> CHOOSE a \in U : a # b /\ <<a, b>> \in E]
<1>1. p \in [U -> U] /\ \A b \in U : p[b] # b /\ <<p[b], b>> \in E
  OBVIOUS
<1> HIDE DEF p
<1>n. PICK n \in Nat \ {0} : \E s : Chain(U, p, n, s) /\ \A t : ~Chain(U, p, n + 1, t)
  BY <1>1, LongestChain
<1>2. PICK s : Chain(U, p, n, s) /\ \A t : ~Chain(U, p, n + 1, t)
  BY <1>n
<1>3. s \in [1 .. n -> U] /\ s[n] \in U
  BY <1>2 DEF Chain
\* It cannot be continued, so its end leads back into it.
<1>4. \E j \in 1 .. n : s[j] = p[s[n]]
  <2> SUFFICES ASSUME \A j \in 1 .. n : s[j] # p[s[n]] PROVE FALSE
    OBVIOUS
  <2> DEFINE t == [m \in 1 .. n + 1 |-> IF m <= n THEN s[m] ELSE p[s[n]]]
  <2>1. t \in [1 .. n + 1 -> U]
    BY <1>1, <1>3
  <2>2. \A m, k \in 1 .. n + 1 : t[m] = t[k] => m = k
    BY <1>2 DEF Chain
  <2>3. \A m \in 1 .. n + 1 : m + 1 <= n + 1 => t[m + 1] = p[t[m]]
    BY <1>2 DEF Chain
  <2> HIDE DEF t
  <2>4. Chain(U, p, n + 1, t)
    BY <2>1, <2>2, <2>3 DEF Chain
  <2> QED
    BY <1>2, <2>4
<1>5. PICK j \in 1 .. n : s[j] = p[s[n]]
  BY <1>4
<1>6. j < n
  <2>1. j # n
    BY <1>1, <1>3, <1>5
  <2> QED
    BY <2>1
<1> DEFINE K == n - j + 1
           C == {s[m] : m \in j .. n}
           t == [m \in 1 .. K |-> s[n + 1 - m]]
<1>7. K \in Nat /\ K > 1
  BY <1>6
<1>8. t \in [1 .. K -> C]
  BY <1>6
<1>9. \A m, k \in 1 .. K : m # k => t[m] # t[k]
  BY <1>2, <1>6 DEF Chain
<1>10. Cardinality(C) = K
  <2>1. \A c \in C : \E m \in 1 .. K : t[m] = c
    <3> SUFFICES ASSUME NEW m \in j .. n PROVE \E k \in 1 .. K : t[k] = s[m]
      OBVIOUS
    <3>1. n + 1 - m \in 1 .. K /\ t[n + 1 - m] = s[m]
      BY <1>6
    <3> QED
      BY <3>1
  <2> HIDE DEF t, C, K
  <2>2. t \in Bijection(1 .. K, C)
    BY <1>8, <1>9, <2>1 DEF Bijection, Injection, IsInjective, Surjection
  <2> QED
    BY <1>7, <2>2, FS_CountingElements DEF ExistsBijection
<1>11. ASSUME NEW m \in 1 .. K PROVE <<t[m], t[(m % K) + 1]>> \in E
  <2>1. CASE m = K
    <3>1. m % K = 0
      BY <1>7, <2>1
    <3>2. t[m] = s[j] /\ t[1] = s[n]
      BY <1>6, <2>1
    <3> QED
      BY <1>1, <1>3, <1>5, <3>1, <3>2
  <2>2. CASE m < K
    <3>1. m % K = m
      BY <1>7, <2>2
    <3>2. n - m \in 1 .. n /\ (n - m) + 1 <= n /\ t[m] = s[(n - m) + 1] /\ t[m + 1] = s[n - m]
      BY <1>6, <2>2
    <3>3. s[(n - m) + 1] = p[s[n - m]] /\ s[n - m] \in U
      BY <1>2, <1>3, <3>2 DEF Chain
    <3> QED
      BY <1>1, <3>1, <3>2, <3>3
  <2> QED
    BY <1>7, <2>1, <2>2
<1>12. C \in SUBSET Node
  BY <1>3
<1> HIDE DEF t, C, K
<1>13. DOMAIN t = 1 .. K
  BY <1>8
<1>14. C \in Cycles(E)
  BY <1>7, <1>8, <1>9, <1>10, <1>11, <1>12, <1>13 DEF Cycles
<1> QED
  BY <1>14

\* No object depends on itself, and what has been taken out could be deferred.
Loopless == \A a \in Node : <<a, a>> \notin fixed

ErrorInv == Loopless /\ ErrorsAreCycles

\* The queue is empty and not everything is sorted: what is left goes in circles.
LEMMA StalledInCycle ==
    ASSUME KahnInv, Loopless, queue = <<>>, Len(sorted) # N
    PROVE  Cycles(edges) # {}
<1> DEFINE U == Node \ Elements(sorted)
<1>1. sorted \in Seq(Node) /\ Distinct(sorted) /\ Len(sorted) \in Nat
  BY DEF KahnInv, TypeOK, Once
<1>2. U # {}
  <2> SUFFICES ASSUME Node \subseteq Elements(sorted) PROVE FALSE
    OBVIOUS
  <2>1. sorted \in Bijection(1 .. Len(sorted), Node)
    <3>1. sorted \in [1 .. Len(sorted) -> Node] /\ DOMAIN sorted = 1 .. Len(sorted)
      BY <1>1
    <3>2. sorted \in Injection(1 .. Len(sorted), Node)
      BY <1>1, <3>1 DEF Injection, IsInjective, Distinct
    <3>3. sorted \in Surjection(1 .. Len(sorted), Node)
      BY <3>1 DEF Surjection, Elements
    <3> QED
      BY <3>2, <3>3 DEF Bijection
  <2>2. Cardinality(Node) = Len(sorted)
    BY <1>1, <2>1, FS_CountingElements DEF ExistsBijection
  <2> QED
    BY <2>2, NodeFinite
<1>3. ASSUME NEW b \in U PROVE \E a \in U : a # b /\ <<a, b>> \in edges
  <2>1. Elements(queue) = {}
    BY DEF Elements
  <2>2. Waiting(b) # {}
    BY <2>1 DEF KahnInv, Released
  <2>3. PICK a \in Node : <<a, b>> \in edges /\ a \notin Elements(sorted)
    BY <2>2 DEF Waiting, Before
  <2>4. a # b
    BY <2>3 DEF Loopless, edges, Edges
  <2> QED
    BY <2>3, <2>4
<1> QED
  BY <1>2, <1>3, CycleExists

LEMMA InitError == Init => ErrorInv
BY ConstantsAssumption DEF Init, ErrorInv, Loopless, ErrorsAreCycles

LEMMA StepError == KahnInv /\ ErrorInv /\ [Next]_vars => ErrorInv'
<1> SUFFICES ASSUME KahnInv, ErrorInv, [Next]_vars PROVE ErrorInv'
  OBVIOUS
<1>1. CASE Dequeue
  BY <1>1 DEF Dequeue, ErrorInv, Loopless, ErrorsAreCycles
<1>2. CASE Finish
  BY <1>2 DEF Finish, ErrorInv, Loopless, ErrorsAreCycles
<1>3. CASE Break
  <2>1. outcome = "running" /\ queue = <<>> /\ Len(sorted) # N
    BY <1>3 DEF Break
  <2>2. ASSUME NEW C, Defer(C) PROVE ErrorInv'
    BY <2>1, <2>2 DEF Defer, Deferred, Closing, ErrorInv, Loopless, ErrorsAreCycles
  <2>3. ASSUME NEW C \in Cycles(edges), ~Defers(C), GiveUp PROVE ErrorInv'
    <3>1. UNCHANGED <<fixed, fks, removed>> /\ edges' = edges
      BY <2>3 DEF GiveUp, edges
    <3>2. LET closing == {f \in fks : f.from \in C /\ f.to \in C}
          IN  closing = {} \/ \E f \in closing : ~f.deferrable \/ ~f.qualified
      BY <2>3 DEF Defers, CanDefer, Deferred, Closing
    <3>3. Cycles(edges)' = Cycles(edges)
      BY <3>1 DEF Cycles
    <3> QED
      BY <2>3, <3>1, <3>2, <3>3 DEF ErrorInv, Loopless, ErrorsAreCycles
  <2>4. Cycles(edges) # {}
    BY <2>1, StalledInCycle DEF ErrorInv
  <2> QED
    BY <1>3, <2>2, <2>3, <2>4 DEF Break
<1>4. CASE UNCHANGED vars
  <2>1. edges' = edges
    BY <1>4 DEF vars, edges
  <2>2. Cycles(edges)' = Cycles(edges)
    BY <2>1 DEF Cycles
  <2> QED
    BY <1>4, <2>2 DEF vars, ErrorInv, Loopless, ErrorsAreCycles
<1> QED
  BY <1>1, <1>2, <1>3, <1>4 DEF Next

\* Whatever the objects are, DPG-E017 is reported of a real cycle, one that no foreign
\* key closes or that has a key Sort may not or cannot defer; and no key that is not
\* deferrable is ever taken out of its table (Resolver.Sort, canDefer).
THEOREM ErrorsAreOfCycles == Spec => []ErrorsAreCycles
<1>1. ErrorInv => ErrorsAreCycles
  BY DEF ErrorInv
<1>2. KahnInv /\ ErrorInv /\ [Next]_vars => KahnInv' /\ ErrorInv'
  BY StepKahn, StepError
<1> QED
  BY <1>1, <1>2, InitKahn, InitError, PTL DEF Spec
=============================================================================

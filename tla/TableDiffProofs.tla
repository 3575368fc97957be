---------------------------- MODULE TableDiffProofs ----------------------------
(***************************************************************************)
(* What diffTable plans for a table, and what becomes of the plan, for any *)
(* columns, expressions, constraints, indexes and directives, whether      *)
(* search_path has the table's schema or not.                              *)
(***************************************************************************)
EXTENDS TableDiff, FiniteSetTheorems, TLAPS

\* A partial function from A to B one can list.
IsPart(f, A, B) == DOMAIN f \in SUBSET A /\ f \in [DOMAIN f -> B] /\ IsFiniteSet(DOMAIN f)

\* What a constraint or an index may name.
Named == (SUBSET ColName) \ {{}}

\* A table with columns in C, in its three parts.
IsTable(t, C) ==
  /\ t = [columns |-> t.columns, constraints |-> t.constraints, indexes |-> t.indexes]
  /\ IsPart(t.columns, ColName, C)
  /\ IsPart(t.constraints, ConstraintName, Named)
  /\ IsPart(t.indexes, IndexName, Named)

TableInv ==
  /\ IsTable(declared, Column)
  /\ IsTable(recorded, SnapColumn)
  /\ edits \in 0 .. MaxEdits

-------------------------------------------------------------------------------
(* Sequences *)

LEMMA Least ==
  ASSUME NEW T \in SUBSET Nat, T # {}
  PROVE  \E m \in T : \A n \in T : ~(n < m)
<1> DEFINE R == OpToRel(<, Nat)
<1>1. PICK m \in T : \A n \in T : ~ (<<n, m>> \in R)
  <2> HIDE DEF R
  <2>1. IsWellFoundedOn(R, Nat)
    BY NatLessThanWellFounded DEF R
  <2> QED
    BY <2>1, WFMin
<1>2. \A n \in T : n \in Nat /\ m \in Nat
  OBVIOUS
<1> QED
  BY <1>1, <1>2 DEF OpToRel

\* A property of all numbers up to n that passes on from each to the next.
LEMMA Ascent ==
  ASSUME NEW n \in Nat, NEW P \in SUBSET (0 .. n), 0 \in P, \A m \in P : m < n => m + 1 \in P
  PROVE  P = 0 .. n
<1> SUFFICES ASSUME (0 .. n) \ P # {} PROVE FALSE
  OBVIOUS
<1>1. (0 .. n) \ P \in SUBSET Nat
  OBVIOUS
<1>2. PICK m \in (0 .. n) \ P : \A k \in (0 .. n) \ P : ~(k < m)
  BY <1>1, Least
<1>3. m - 1 \in 0 .. n /\ m - 1 < m
  BY <1>2
<1>4. m - 1 \in P /\ (m - 1) + 1 = m /\ m - 1 < n
  BY <1>2, <1>3
<1> QED
  BY <1>2, <1>4

IsSeq(s) == Len(s) \in Nat /\ s = [n \in 1 .. Len(s) |-> s[n]]

LEMMA SeqIsSeq ==
  ASSUME NEW S, NEW s \in Seq(S)
  PROVE  IsSeq(s)
BY DEF IsSeq

LEMMA Concatenation ==
  ASSUME NEW a, NEW b, IsSeq(a), IsSeq(b)
  PROVE  /\ IsSeq(a \o b) /\ Len(a \o b) = Len(a) + Len(b)
         /\ \A n \in 1 .. Len(a) : (a \o b)[n] = a[n]
         /\ \A n \in 1 .. Len(b) : (a \o b)[Len(a) + n] = b[n]
<1> DEFINE S == {a[n] : n \in 1 .. Len(a)} \cup {b[n] : n \in 1 .. Len(b)}
<1>1. a \in [1 .. Len(a) -> S] /\ b \in [1 .. Len(b) -> S]
  BY DEF IsSeq
<1> HIDE DEF S
<1>2. a \in Seq(S) /\ b \in Seq(S) /\ Len(a) \in Nat /\ Len(b) \in Nat
  BY <1>1 DEF IsSeq
<1>3. a \o b \in Seq(S) /\ Len(a \o b) = Len(a) + Len(b)
  BY <1>2
<1>4. IsSeq(a \o b)
  BY <1>3, SeqIsSeq
<1> QED
  BY <1>2, <1>3, <1>4

LEMMA EmptyAndOne ==
  /\ IsSeq(<<>>) /\ Len(<<>>) = 0
  /\ \A x : IsSeq(<<x>>) /\ Len(<<x>>) = 1 /\ <<x>>[1] = x
BY DEF IsSeq

\* FlattenSeq appends one sequence after the other; F has what it has made so far.
MadeBy(F, s) ==
  /\ FlattenSeq(s) = F[Len(s)]
  /\ \A m \in 1 .. Len(s) : F[m] = IF m = 1 THEN s[m] ELSE F[m - 1] \o s[m]

LEMMA FlattenSteps ==
  ASSUME NEW s, IsSeq(s), Len(s) # 0
  PROVE  \E F : MadeBy(F, s)
<1> DEFINE Flattens(f, n) == f = [m \in 1 .. n |-> IF m = 1 THEN s[m] ELSE f[m - 1] \o s[m]]
           P == {n \in 0 .. Len(s) : \E f : Flattens(f, n)}
<1>1. Len(s) \in Nat
  BY DEF IsSeq
<1>2. 0 \in P
  <2>1. Flattens([m \in 1 .. 0 |-> s[m]], 0)
    OBVIOUS
  <2> HIDE DEF Flattens
  <2> QED
    BY <1>1, <2>1
<1>3. ASSUME NEW n \in P, n < Len(s) PROVE n + 1 \in P
  <2>1. PICK f : Flattens(f, n)
    OBVIOUS
  <2> DEFINE g == [m \in 1 .. n + 1 |->
                     IF m = 1 THEN s[m] ELSE IF m = n + 1 THEN f[n] \o s[m] ELSE f[m]]
  <2>2. ASSUME NEW m \in 1 .. n + 1 PROVE g[m] = IF m = 1 THEN s[m] ELSE g[m - 1] \o s[m]
    <3>1. CASE m = 1
      BY <3>1
    <3>2. CASE m # 1 /\ m = n + 1
      <4>1. m - 1 = n /\ n \in 1 .. n + 1 /\ n # n + 1 /\ n \in Nat
        BY <1>1, <3>2
      <4>2. g[n] = f[n]
        BY <2>1, <4>1
      <4> QED
        BY <3>2, <4>1, <4>2
    <3>3. CASE m # 1 /\ m # n + 1
      <4>1. m \in 1 .. n /\ m - 1 \in 1 .. n /\ m - 1 # n + 1 /\ m - 1 \in 1 .. n + 1
        BY <1>1, <3>3
      <4>2. g[m] = f[m] /\ g[m - 1] = f[m - 1]
        BY <2>1, <3>3, <4>1
      <4> QED
        BY <2>1, <3>3, <4>1, <4>2
    <3> QED
      BY <3>1, <3>2, <3>3
  <2>3. Flattens(g, n + 1)
    BY <2>2
  <2> HIDE DEF g, Flattens
  <2> QED
    BY <1>1, <1>3, <2>3
<1> HIDE DEF P
<1>4. P \in SUBSET (0 .. Len(s))
  BY DEF P
<1>5. P = 0 .. Len(s)
  BY <1>1, <1>2, <1>3, <1>4, Ascent
<1> DEFINE F == CHOOSE f : Flattens(f, Len(s))
<1>6. Flattens(F, Len(s))
  <2>1. Len(s) \in P
    BY <1>1, <1>5
  <2> HIDE DEF Flattens
  <2>2. \E f : Flattens(f, Len(s))
    BY <2>1 DEF P
  <2> QED
    BY <2>2
<1>7. FlattenSeq(s) = F[Len(s)]
  BY DEF FlattenSeq
<1> HIDE DEF F
<1>8. MadeBy(F, s)
  BY <1>6, <1>7 DEF MadeBy
<1> QED
  BY <1>8

\* Sequences of statements without a statement make none.
LEMMA FlattenNothing ==
  ASSUME NEW n \in Nat, NEW s, s = [m \in 1 .. n |-> <<>>]
  PROVE  FlattenSeq(s) = <<>>
<1>1. IsSeq(s) /\ Len(s) = n
  BY DEF IsSeq
<1>2. CASE n = 0
  <2>1. s = <<>>
    BY <1>2
  <2> QED
    BY <1>1, <1>2, <2>1 DEF FlattenSeq
<1>3. CASE n # 0
  <2>0. PICK F : MadeBy(F, s)
    BY <1>1, <1>3, FlattenSteps
  <2>1. /\ FlattenSeq(s) = F[n]
        /\ \A m \in 1 .. n : F[m] = IF m = 1 THEN s[m] ELSE F[m - 1] \o s[m]
    BY <1>1, <2>0 DEF MadeBy
  <2> DEFINE P == {m \in 0 .. n : m = 0 \/ F[m] = <<>>}
  <2>2. ASSUME NEW m \in P, m < n PROVE m + 1 \in P
    <3>1. m + 1 \in 1 .. n /\ (m + 1) - 1 = m /\ (m + 1 = 1 <=> m = 0)
      BY <2>2
    <3>2. s[m + 1] = <<>> /\ <<>> \o <<>> = <<>>
      BY <3>1
    <3>3. F[m + 1] = IF m + 1 = 1 THEN s[m + 1] ELSE F[m] \o s[m + 1]
      BY <2>1, <3>1
    <3>4. m = 0 \/ F[m] = <<>>
      OBVIOUS
    <3> QED
      BY <3>1, <3>2, <3>3, <3>4
  <2>3. 0 \in P /\ P \in SUBSET (0 .. n)
    OBVIOUS
  <2> HIDE DEF P
  <2>4. n \in P
    BY <2>2, <2>3, Ascent
  <2> QED
    BY <1>3, <2>1, <2>4 DEF P
<1> QED
  BY <1>2, <1>3

LEMMA SeqOfNothing == SetToSeq({}) = <<>>
<1>1. Cardinality({}) = 0
  BY FS_EmptySet
<1>2. <<>> \in [1 .. 0 -> {}] /\ IsInjective(<<>>)
  BY DEF IsInjective
<1>3. \A f \in [1 .. 0 -> {}] : f = <<>>
  OBVIOUS
<1> QED
  BY <1>1, <1>2, <1>3 DEF SetToSeq

\* A finite set has a sequence of its elements, each of them once.
LEMMA SetToSeqFacts ==
  ASSUME NEW S, IsFiniteSet(S)
  PROVE  /\ Cardinality(S) \in Nat
         /\ SetToSeq(S) \in [1 .. Cardinality(S) -> S]
         /\ \A m, n \in 1 .. Cardinality(S) : SetToSeq(S)[m] = SetToSeq(S)[n] => m = n
         /\ \A x \in S : \E n \in 1 .. Cardinality(S) : SetToSeq(S)[n] = x
<1> DEFINE N == Cardinality(S)
<1>1. N \in Nat /\ ExistsBijection(1 .. N, S)
  BY FS_CardinalityType
<1>2. \E f \in [1 .. N -> S] : IsInjective(f)
  BY <1>1 DEF ExistsBijection, Bijection, Injection
<1>3. SetToSeq(S) \in [1 .. N -> S] /\ IsInjective(SetToSeq(S))
  BY <1>2 DEF SetToSeq
<1>4. SetToSeq(S) \in Injection(1 .. N, S)
  BY <1>3 DEF Injection
<1>5. Cardinality(1 .. N) = N
  BY <1>1, FS_Interval
<1>6. SetToSeq(S) \in Surjection(1 .. N, S)
  BY <1>4, <1>5, FS_Injection
<1>7. \A x \in S : \E n \in 1 .. N : SetToSeq(S)[n] = x
  BY <1>6 DEF Surjection
<1> QED
  BY <1>1, <1>3, <1>7 DEF IsInjective

-------------------------------------------------------------------------------
(* Transactions *)

\* The statements ops are accepted and take table t to table u.
Leads(t, ops, u) ==
  /\ IsSeq(ops)
  /\ \E tab : /\ tab[0] = t /\ tab[Len(ops)] = u
              /\ \A n \in 1 .. Len(ops) : /\ Sensible(tab[n - 1], ops[n])
                                          /\ tab[n] = Effect(tab[n - 1], ops[n])

LEMMA LeadsNowhere == \A t : Leads(t, <<>>, t)
<1> SUFFICES ASSUME NEW t PROVE Leads(t, <<>>, t)
  OBVIOUS
<1> DEFINE tab == [n \in 0 .. 0 |-> t]
<1>1. tab[0] = t
  OBVIOUS
<1> HIDE DEF tab
<1>2. 1 .. 0 = {}
  OBVIOUS
<1> QED
  BY <1>1, <1>2, EmptyAndOne DEF Leads

LEMMA LeadsByOne ==
  ASSUME NEW t, NEW op, Sensible(t, op)
  PROVE  Leads(t, <<op>>, Effect(t, op))
<1> DEFINE tab == [n \in 0 .. 1 |-> IF n = 0 THEN t ELSE Effect(t, op)]
<1>1. tab[0] = t /\ tab[1] = Effect(t, op)
  OBVIOUS
<1> HIDE DEF tab
<1>2. \A n \in 1 .. 1 : n = 1 /\ n - 1 = 0
  OBVIOUS
<1> QED
  BY <1>1, <1>2, EmptyAndOne DEF Leads

LEMMA LeadsOn ==
  ASSUME NEW t, NEW a, NEW u, NEW b, NEW v, Leads(t, a, u), Leads(u, b, v)
  PROVE  Leads(t, a \o b, v)
<1>1. IsSeq(a) /\ IsSeq(b) /\ Len(a) \in Nat /\ Len(b) \in Nat
  BY DEF Leads, IsSeq
<1>2. PICK ta : /\ ta[0] = t /\ ta[Len(a)] = u
                /\ \A n \in 1 .. Len(a) : /\ Sensible(ta[n - 1], a[n])
                                          /\ ta[n] = Effect(ta[n - 1], a[n])
  BY DEF Leads
<1>3. PICK tb : /\ tb[0] = u /\ tb[Len(b)] = v
                /\ \A n \in 1 .. Len(b) : /\ Sensible(tb[n - 1], b[n])
                                          /\ tb[n] = Effect(tb[n - 1], b[n])
  BY DEF Leads
<1> DEFINE k == Len(a)
           tab == [n \in 0 .. k + Len(b) |-> IF n <= k THEN ta[n] ELSE tb[n - k]]
<1>4. \A n \in 0 .. Len(b) : tab[k + n] = tb[n]
  <2>1. ASSUME NEW n \in 0 .. Len(b) PROVE tab[k + n] = tb[n]
    <3>1. CASE n = 0
      BY <1>1, <1>2, <1>3, <3>1
    <3>2. CASE n # 0
      BY <1>1, <2>1, <3>2
    <3> QED
      BY <3>1, <3>2
  <2> QED
    BY <2>1
<1>5. \A n \in 0 .. k : tab[n] = ta[n]
  BY <1>1
<1> HIDE DEF tab
<1>6. tab[0] = t /\ tab[k + Len(b)] = v
  BY <1>1, <1>2, <1>3, <1>4, <1>5
<1>7. /\ IsSeq(a \o b) /\ Len(a \o b) = k + Len(b)
      /\ \A n \in 1 .. k : (a \o b)[n] = a[n]
      /\ \A n \in 1 .. Len(b) : (a \o b)[k + n] = b[n]
  BY <1>1, Concatenation
<1> DEFINE ab == a \o b
<1> HIDE DEF ab
<1>8. ASSUME NEW n \in 1 .. k + Len(b)
      PROVE  Sensible(tab[n - 1], ab[n]) /\ tab[n] = Effect(tab[n - 1], ab[n])
  <2>1. CASE n <= k
    <3>1. n \in 1 .. k /\ n \in 0 .. k /\ n - 1 \in 0 .. k
      BY <1>1, <2>1
    <3>2. ab[n] = a[n] /\ tab[n] = ta[n] /\ tab[n - 1] = ta[n - 1]
      BY <1>5, <1>7, <3>1 DEF ab
    <3> QED
      BY <1>2, <3>1, <3>2
  <2>2. CASE ~(n <= k)
    <3>1. PICK m \in 1 .. Len(b) : n = k + m
      <4>1. n - k \in 1 .. Len(b) /\ n = k + (n - k)
        BY <1>1, <2>2
      <4> QED
        BY <4>1
    <3>2. m \in 0 .. Len(b) /\ m - 1 \in 0 .. Len(b) /\ n - 1 = k + (m - 1)
      BY <1>1, <3>1
    <3>3. ab[n] = b[m] /\ tab[n] = tb[m] /\ tab[n - 1] = tb[m - 1]
      BY <1>4, <1>7, <3>1, <3>2 DEF ab
    <3> QED
      BY <1>3, <3>1, <3>3
  <2> QED
    BY <2>1, <2>2
<1>9. Leads(t, ab, v)
  BY <1>6, <1>7, <1>8 DEF Leads, ab
<1> QED
  BY <1>9 DEF ab

\* What leads from one table to another is what a transaction of it leaves.
LEMMA LeadsExecutes ==
  ASSUME NEW t, NEW ops, NEW u, Leads(t, ops, u)
  PROVE  Execute(t, ops) = [ok |-> TRUE, table |-> u]
<1>1. Len(ops) \in Nat
  BY DEF Leads, IsSeq
<1>2. PICK tab : /\ tab[0] = t /\ tab[Len(ops)] = u
                 /\ \A n \in 1 .. Len(ops) : /\ Sensible(tab[n - 1], ops[n])
                                             /\ tab[n] = Effect(tab[n - 1], ops[n])
  BY DEF Leads
<1> DEFINE N == Len(ops)
           Follows(f) == f = [n \in 0 .. N |->
                               IF n = 0 THEN [ok |-> TRUE, table |-> t]
                               ELSE IF f[n - 1].ok /\ Sensible(f[n - 1].table, ops[n])
                                    THEN [ok |-> TRUE, table |-> Effect(f[n - 1].table, ops[n])]
                                    ELSE [ok |-> FALSE, table |-> t]]
           after == CHOOSE f : Follows(f)
           good == [n \in 0 .. N |-> [ok |-> TRUE, table |-> tab[n]]]
<1>3. Follows(good)
  <2>1. ASSUME NEW n \in 0 .. N, n # 0
        PROVE  /\ good[n - 1].ok = TRUE /\ good[n - 1].table = tab[n - 1]
               /\ Sensible(tab[n - 1], ops[n]) /\ tab[n] = Effect(tab[n - 1], ops[n])
    <3>1. n \in 1 .. N /\ n - 1 \in 0 .. N
      BY <1>1, <2>1
    <3>2. good[n - 1] = [ok |-> TRUE, table |-> tab[n - 1]]
      BY <3>1
    <3> QED
      BY <1>2, <3>1, <3>2
  <2>2. ASSUME NEW n \in 0 .. N
        PROVE  [ok |-> TRUE, table |-> tab[n]]
                 = IF n = 0 THEN [ok |-> TRUE, table |-> t]
                   ELSE IF good[n - 1].ok /\ Sensible(good[n - 1].table, ops[n])
                        THEN [ok |-> TRUE, table |-> Effect(good[n - 1].table, ops[n])]
                        ELSE [ok |-> FALSE, table |-> t]
    <3> HIDE DEF good
    <3> QED
      BY <1>2, <2>1
  <2> QED
    BY <2>2, Zenon
<1>4. Follows(after)
  <2> HIDE DEF Follows, good
  <2> QED
    BY <1>3
<1>5. Execute(t, ops) = after[N]
  BY DEF Execute
<1> HIDE DEF after, good
<1> DEFINE P == {n \in 0 .. N : after[n] = [ok |-> TRUE, table |-> tab[n]]}
<1>6. after[0] = [ok |-> TRUE, table |-> t]
  BY <1>1, <1>4
<1>7. ASSUME NEW n \in P, n < N PROVE n + 1 \in P
  <2>1. n + 1 \in 1 .. N /\ n + 1 \in 0 .. N /\ (n + 1) - 1 = n /\ n + 1 # 0
    BY <1>1, <1>7
  <2>2. after[n] = [ok |-> TRUE, table |-> tab[n]]
    OBVIOUS
  <2>3. after[n].ok /\ after[n].table = tab[n]
    BY <2>2
  <2>4. Sensible(tab[n], ops[n + 1]) /\ tab[n + 1] = Effect(tab[n], ops[n + 1])
    BY <1>2, <2>1
  <2>5. after[n + 1] = IF after[n].ok /\ Sensible(after[n].table, ops[n + 1])
                       THEN [ok |-> TRUE, table |-> Effect(after[n].table, ops[n + 1])]
                       ELSE [ok |-> FALSE, table |-> t]
    BY <1>4, <2>1
  <2>6. after[n + 1] = [ok |-> TRUE, table |-> tab[n + 1]]
    BY <2>3, <2>4, <2>5
  <2> QED
    BY <2>1, <2>6
<1>8. 0 \in P /\ P \in SUBSET (0 .. N)
  <2>1. P \in SUBSET (0 .. N)
    OBVIOUS
  <2>2. 0 \in 0 .. N
    BY <1>1
  <2>3. tab[0] = t
    BY <1>2
  <2>4. after[0] = [ok |-> TRUE, table |-> tab[0]]
    BY <1>6, <2>3
  <2> QED
    BY <2>1, <2>2, <2>4
<1> HIDE DEF P
<1>9. N \in P
  BY <1>1, <1>7, <1>8, Ascent
<1> QED
  BY <1>2, <1>5, <1>9 DEF P

\* The statements of a set, one for each c in C and in any order, lead from T[{}] to
\* T[C], where T[V] is the table when those of V have been executed.
LEMMA LeadsByEach ==
  ASSUME NEW C, IsFiniteSet(C), NEW op, NEW T, NEW S, S = {op[c] : c \in C},
         \A c, d \in C : op[c] = op[d] => c = d,
         \A V \in SUBSET C : \A c \in C \ V :
           Sensible(T[V], op[c]) /\ T[V \cup {c}] = Effect(T[V], op[c])
  PROVE  Leads(T[{}], SetToSeq(S), T[C])
<1> DEFINE s == SetToSeq(S)
           N == Cardinality(S)
<1>1. IsFiniteSet(S)
  <2>1. [c \in C |-> op[c]] \in Surjection(C, S)
    BY DEF Surjection
  <2> QED
    BY <2>1, FS_Surjection
<1>2. /\ N \in Nat /\ s \in [1 .. N -> S]
      /\ \A m, n \in 1 .. N : s[m] = s[n] => m = n
      /\ \A x \in S : \E n \in 1 .. N : s[n] = x
  BY <1>1, SetToSeqFacts
<1> HIDE DEF s, N
<1>3. IsSeq(s) /\ Len(s) = N
  <2>1. s \in Seq(S)
    BY <1>2
  <2> QED
    BY <1>2, <2>1, SeqIsSeq
<1> DEFINE V(n) == {c \in C : \E j \in 1 .. n : s[j] = op[c]}
           tab == [n \in 0 .. N |-> T[V(n)]]
<1>4. V(0) = {} /\ V(N) = C
  <2>1. V(0) = {}
    OBVIOUS
  <2>2. \A c \in C : op[c] \in S
    OBVIOUS
  <2>3. \A c \in C : \E j \in 1 .. N : s[j] = op[c]
    BY <1>2, <2>2
  <2> QED
    BY <2>1, <2>3
<1>5. ASSUME NEW n \in 1 .. N
      PROVE  Sensible(T[V(n - 1)], s[n]) /\ T[V(n)] = Effect(T[V(n - 1)], s[n])
  <2>1. PICK c \in C : s[n] = op[c]
    BY <1>2
  <2>2. c \notin V(n - 1)
    <3> SUFFICES ASSUME NEW j \in 1 .. n - 1, s[j] = op[c] PROVE FALSE
      OBVIOUS
    <3>1. j \in 1 .. N /\ j # n
      BY <1>2
    <3> QED
      BY <1>2, <2>1, <3>1
  <2>3. V(n) = V(n - 1) \cup {c}
    <3>1. 1 .. n = (1 .. n - 1) \cup {n}
      BY <1>2
    <3>2. \A d \in C : s[n] = op[d] <=> d = c
      BY <2>1
    <3> QED
      BY <3>1, <3>2
  <2>4. V(n - 1) \in SUBSET C
    OBVIOUS
  <2> DEFINE W == V(n - 1)
  <2> HIDE DEF W
  <2>5. Sensible(T[W], op[c]) /\ T[W \cup {c}] = Effect(T[W], op[c])
    BY <2>2, <2>4 DEF W
  <2> HIDE DEF V
  <2> QED
    BY <2>1, <2>3, <2>5 DEF W
<1>6. tab[0] = T[{}] /\ tab[N] = T[C]
  <2> HIDE DEF V
  <2>1. tab[0] = T[V(0)] /\ tab[N] = T[V(N)]
    BY <1>2
  <2> QED
    BY <1>4, <2>1
<1>7. ASSUME NEW n \in 1 .. N
      PROVE  Sensible(tab[n - 1], s[n]) /\ tab[n] = Effect(tab[n - 1], s[n])
  <2>1. n \in 0 .. N /\ n - 1 \in 0 .. N
    BY <1>2
  <2>2. Sensible(T[V(n - 1)], s[n]) /\ T[V(n)] = Effect(T[V(n - 1)], s[n])
    BY <1>5
  <2> HIDE DEF V
  <2>3. tab[n] = T[V(n)] /\ tab[n - 1] = T[V(n - 1)]
    BY <2>1
  <2> HIDE DEF tab
  <2> QED
    BY <2>2, <2>3
<1> HIDE DEF tab
<1>8. Leads(T[{}], s, T[C])
  BY <1>3, <1>6, <1>7 DEF Leads
<1> QED
  BY <1>8 DEF s

\* The first n elements of C.
First(C, n) == {SetToSeq(C)[j] : j \in 1 .. n}

LEMMA FirstFacts ==
  ASSUME NEW C, IsFiniteSet(C), NEW n \in 1 .. Cardinality(C)
  PROVE  /\ SetToSeq(C)[n] \in C \ First(C, n - 1)
         /\ First(C, n - 1) \in SUBSET C
         /\ First(C, n) = First(C, n - 1) \cup {SetToSeq(C)[n]}
<1> DEFINE N == Cardinality(C)
           q == SetToSeq(C)
<1>1. /\ N \in Nat /\ q \in [1 .. N -> C]
      /\ \A i, j \in 1 .. N : q[i] = q[j] => i = j
  BY SetToSeqFacts
<1>2. \A m \in Nat : First(C, m) = {q[j] : j \in 1 .. m}
  BY DEF First
<1> HIDE DEF N, q
<1>3. n \in 1 .. N /\ n - 1 \in Nat /\ n \in Nat
  BY <1>1 DEF N
<1>4. 1 .. n = (1 .. n - 1) \cup {n} /\ n \notin 1 .. n - 1 /\ 1 .. n \subseteq 1 .. N
  BY <1>1, <1>3
<1>5. /\ q[n] \in C \ {q[j] : j \in 1 .. n - 1}
      /\ {q[j] : j \in 1 .. n - 1} \in SUBSET C
      /\ {q[j] : j \in 1 .. n} = {q[j] : j \in 1 .. n - 1} \cup {q[n]}
  BY <1>1, <1>3, <1>4
<1> QED
  BY <1>2, <1>3, <1>5 DEF q

\* The same, when it takes several statements, or none, for each c in C, and they are
\* executed in the order of C.
LEMMA LeadsInTurn ==
  ASSUME NEW C, IsFiniteSet(C), NEW ops, NEW T,
         \A n \in 1 .. Cardinality(C) :
           Leads(T[First(C, n - 1)], ops[SetToSeq(C)[n]], T[First(C, n)])
  PROVE  Leads(T[{}],
               FlattenSeq([n \in 1 .. Cardinality(C) |-> ops[SetToSeq(C)[n]]]),
               T[C])
<1> DEFINE N == Cardinality(C)
           q == SetToSeq(C)
           s == [n \in 1 .. N |-> ops[q[n]]]
<1>1. /\ N \in Nat /\ q \in [1 .. N -> C]
      /\ \A m, n \in 1 .. N : q[m] = q[n] => m = n
      /\ \A x \in C : \E n \in 1 .. N : q[n] = x
  BY SetToSeqFacts
<1> DEFINE V(n) == First(C, n)
<1>0. V(0) = {} /\ V(N) = C
  <2>1. V(0) = {}
    BY DEF First
  <2>2. V(N) = {q[j] : j \in 1 .. N}
    BY DEF First
  <2> HIDE DEF V, N, q
  <2> QED
    BY <1>1, <2>1, <2>2
<1>a. \A n \in 1 .. N : Leads(T[V(n - 1)], ops[q[n]], T[V(n)])
  OBVIOUS
<1> HIDE DEF N, q, V
<1>2. Len(s) = N /\ IsSeq(s)
  BY <1>1 DEF IsSeq
<1>3. V(0) = {} /\ V(N) = C
  BY <1>0
<1>4. ASSUME NEW n \in 1 .. N PROVE Leads(T[V(n - 1)], s[n], T[V(n)])
  <2>1. s[n] = ops[q[n]]
    OBVIOUS
  <2> HIDE DEF s
  <2> QED
    BY <1>a, <2>1
<1>5. CASE N = 0
  <2>1. s = <<>>
    BY <1>5
  <2>2. FlattenSeq(s) = <<>>
    BY <1>2, <1>5, <2>1 DEF FlattenSeq
  <2>3. Leads(T[{}], FlattenSeq(s), T[C])
    BY <1>3, <1>5, <2>2, LeadsNowhere
  <2> QED
    BY <2>3 DEF N, q
<1>6. CASE N # 0
  <2> HIDE DEF s
  <2>0. PICK F : MadeBy(F, s)
    BY <1>2, <1>6, FlattenSteps
  <2>1. /\ FlattenSeq(s) = F[Len(s)]
        /\ \A m \in 1 .. Len(s) : F[m] = IF m = 1 THEN s[m] ELSE F[m - 1] \o s[m]
    BY <2>0 DEF MadeBy
  <2> DEFINE P == {n \in 0 .. N : n = 0 \/ Leads(T[{}], F[n], T[V(n)])}
  <2>2. ASSUME NEW n \in P, n < N PROVE n + 1 \in P
    <3>1. n + 1 \in 1 .. N /\ n + 1 \in 0 .. N /\ (n + 1) - 1 = n /\ (n + 1 = 1 <=> n = 0)
      BY <1>1, <2>2
    <3>2. Leads(T[V(n)], s[n + 1], T[V(n + 1)])
      <4>1. Leads(T[V((n + 1) - 1)], s[n + 1], T[V(n + 1)])
        BY <1>4, <3>1
      <4> QED
        BY <3>1, <4>1
    <3>3. F[n + 1] = IF n = 0 THEN s[n + 1] ELSE F[n] \o s[n + 1]
      BY <1>2, <2>1, <3>1
    <3>4. CASE n = 0
      BY <1>3, <3>1, <3>2, <3>3, <3>4
    <3>5. CASE n # 0
      <4>1. Leads(T[{}], F[n], T[V(n)])
        BY <3>5
      <4>2. Leads(T[{}], F[n] \o s[n + 1], T[V(n + 1)])
        BY <3>2, <4>1, LeadsOn
      <4> QED
        BY <3>1, <3>3, <3>5, <4>2
    <3> QED
      BY <3>4, <3>5
  <2>3. 0 \in P /\ P \in SUBSET (0 .. N)
    BY <1>1
  <2> HIDE DEF P
  <2>4. N \in P
    BY <1>1, <2>2, <2>3, Ascent
  <2>5. Leads(T[{}], FlattenSeq(s), T[C])
    BY <1>2, <1>3, <1>6, <2>1, <2>4 DEF P
  <2> QED
    BY <2>5 DEF s, N, q
<1> QED
  BY <1>5, <1>6

-------------------------------------------------------------------------------
(* Tables *)

LEMMA TableIsOfType ==
  ASSUME NEW C, NEW t, IsTable(t, C)
  PROVE  HasType(t, C)
<1>1. \A f, A : IsPart(f, A, Named) => IsPartial(f, A, SUBSET ColName)
  BY DEF IsPart, IsPartial, Named
<1>2. \A f, A, B : IsPart(f, A, B) => IsPartial(f, A, B)
  BY DEF IsPart, IsPartial
<1> QED
  BY <1>1, <1>2 DEF IsTable, HasType

\* A kind is its two fields; columns may be put for others in the second.
LEMMA KindFacts ==
  ASSUME NEW k \in Kind
  PROVE  /\ k = [is |-> k.is, uses |-> k.uses]
         /\ k.is = "plain" <=> k = Plain
         /\ k.uses \subseteq ColName
         /\ \A c : [k EXCEPT !.uses = k.uses \ {c}] \in Kind
         /\ \A c : \A d \in ColName : [k EXCEPT !.uses = Substitute(k.uses, c, d)] \in Kind
<1>1. CASE k = Plain
  BY <1>1 DEF Kind, Plain, Substitute
<1>2. CASE k \in [is : {"stored", "virtual"}, uses : SUBSET ColName]
  <2>1. \A c : \A d \in ColName : Substitute(k.uses, c, d) \in SUBSET ColName
    BY <1>2 DEF Substitute
  <2> QED
    BY <1>2, <2>1 DEF Kind, Plain
<1> QED
  BY <1>1, <1>2 DEF Kind

\* A part with an entry more, or with fewer.
LEMMA PutInPart ==
  ASSUME NEW A, NEW B, NEW f, IsPart(f, A, B), NEW x \in A, NEW v \in B
  PROVE  /\ IsPart(Put(f, x, v), A, B)
         /\ DOMAIN Put(f, x, v) = DOMAIN f \cup {x}
         /\ \A y \in DOMAIN f \cup {x} : Put(f, x, v)[y] = IF y = x THEN v ELSE f[y]
BY FS_AddElement DEF IsPart, Put

LEMMA RestOfPart ==
  ASSUME NEW A, NEW B, NEW f, IsPart(f, A, B), NEW D \in SUBSET DOMAIN f
  PROVE  IsPart(Restrict(f, D), A, B) /\ DOMAIN Restrict(f, D) = D
BY FS_Subset DEF IsPart, Restrict

\* A part whose entries are changed in place.
LEMMA SameDomainPart ==
  ASSUME NEW A, NEW B, NEW C, NEW f, IsPart(f, A, B), NEW g \in [DOMAIN f -> C]
  PROVE  IsPart(g, A, C)
BY DEF IsPart

LEMMA RenamedPart ==
  ASSUME NEW A, NEW f, IsPart(f, A, Named), NEW c, NEW d \in ColName
  PROVE  IsPart(RenameIn(f, c, d), A, Named)
<1>1. ASSUME NEW x \in DOMAIN f PROVE Substitute(f[x], c, d) \in Named
  <2>1. f[x] \in SUBSET ColName
    BY <1>1 DEF IsPart, Named
  <2>2. PICK y \in f[x] : TRUE
    BY <1>1 DEF IsPart, Named
  <2>3. (IF y = c THEN d ELSE y) \in {IF z = c THEN d ELSE z : z \in f[x]}
    OBVIOUS
  <2>4. {IF z = c THEN d ELSE z : z \in f[x]} \in SUBSET ColName
    BY <2>1
  <2> QED
    BY <2>3, <2>4 DEF Named, Substitute
<1> QED
  BY <1>1, SameDomainPart DEF RenameIn

LEMMA RenamedColumns ==
  ASSUME NEW f, IsPart(f, ColName, Column), NEW c, NEW d \in ColName
  PROVE  IsPart(RenameUses(f, c, d), ColName, Column)
<1>1. ASSUME NEW x \in DOMAIN f
      PROVE  [f[x] EXCEPT !.kind.uses = Substitute(@, c, d)] \in Column
  <2>1. f[x] \in Column /\ f[x].kind \in Kind
    BY DEF IsPart, Column
  <2>2. [f[x].kind EXCEPT !.uses = Substitute(f[x].kind.uses, c, d)] \in Kind
    BY <2>1, KindFacts
  <2> QED
    BY <2>1, <2>2 DEF Column
<1> QED
  BY <1>1, SameDomainPart DEF RenameUses

LEMMA ReleasedColumns ==
  ASSUME NEW f, IsPart(f, ColName, Column), NEW c
  PROVE  IsPart([d \in DOMAIN f \ {c} |-> [f[d] EXCEPT !.kind.uses = @ \ {c}]], ColName, Column)
<1>1. ASSUME NEW x \in DOMAIN f
      PROVE  [f[x] EXCEPT !.kind.uses = @ \ {c}] \in Column
  <2>1. f[x] \in Column /\ f[x].kind \in Kind
    BY DEF IsPart, Column
  <2>2. [f[x].kind EXCEPT !.uses = f[x].kind.uses \ {c}] \in Kind
    BY <2>1, KindFacts
  <2> QED
    BY <2>1, <2>2 DEF Column
<1>2. (DOMAIN f \ {c}) \in SUBSET ColName /\ IsFiniteSet(DOMAIN f \ {c})
  BY FS_Subset DEF IsPart
<1> QED
  BY <1>1, <1>2 DEF IsPart

LEMMA ReleasedPart ==
  ASSUME NEW A, NEW f, IsPart(f, A, Named), NEW c, NEW keep
  PROVE  IsPart(Released(f, c, keep), A, Named)
<1> DEFINE rest == {x \in DOMAIN f : c \notin f[x] \/ (keep /\ f[x] # {c})}
<1>1. \A x \in rest : f[x] \ {c} \in Named
  BY DEF IsPart, Named
<1>2. rest \in SUBSET A /\ IsFiniteSet(rest)
  BY FS_Subset DEF IsPart
<1> QED
  BY <1>1, <1>2 DEF IsPart, Released

LEMMA PartsMakeTable ==
  ASSUME NEW C, NEW f, NEW g, NEW h, IsPart(f, ColName, C),
         IsPart(g, ConstraintName, Named), IsPart(h, IndexName, Named)
  PROVE  IsTable([columns |-> f, constraints |-> g, indexes |-> h], C)
BY DEF IsTable

LEMMA ChangedIsTable ==
  ASSUME NEW C, NEW t, IsTable(t, C)
  PROVE  /\ \A f : IsPart(f, ColName, C) => IsTable([t EXCEPT !.columns = f], C)
         /\ \A g : IsPart(g, ConstraintName, Named) => IsTable([t EXCEPT !.constraints = g], C)
         /\ \A h : IsPart(h, IndexName, Named) => IsTable([t EXCEPT !.indexes = h], C)
<1>1. /\ t = [columns |-> t.columns, constraints |-> t.constraints, indexes |-> t.indexes]
      /\ IsPart(t.columns, ColName, C)
      /\ IsPart(t.constraints, ConstraintName, Named)
      /\ IsPart(t.indexes, IndexName, Named)
  BY DEF IsTable
<1>2. ASSUME NEW f, IsPart(f, ColName, C) PROVE IsTable([t EXCEPT !.columns = f], C)
  <2>1. [t EXCEPT !.columns = f]
          = [columns |-> f, constraints |-> t.constraints, indexes |-> t.indexes]
    BY <1>1
  <2> QED
    BY <1>1, <1>2, <2>1, PartsMakeTable
<1>3. ASSUME NEW g, IsPart(g, ConstraintName, Named)
      PROVE  IsTable([t EXCEPT !.constraints = g], C)
  <2>1. [t EXCEPT !.constraints = g]
          = [columns |-> t.columns, constraints |-> g, indexes |-> t.indexes]
    BY <1>1
  <2> QED
    BY <1>1, <1>3, <2>1, PartsMakeTable
<1>4. ASSUME NEW h, IsPart(h, IndexName, Named) PROVE IsTable([t EXCEPT !.indexes = h], C)
  <2>1. [t EXCEPT !.indexes = h]
          = [columns |-> t.columns, constraints |-> t.constraints, indexes |-> h]
    BY <1>1
  <2> QED
    BY <1>1, <1>4, <2>1, PartsMakeTable
<1> QED
  BY <1>2, <1>3, <1>4

LEMMA RecordedIsTable ==
  ASSUME NEW C, NEW t, IsTable(t, C),
         \A c \in C : c.kind \in Kind /\ c.notNull \in BOOLEAN
  PROVE  /\ IsTable(Recorded(t), SnapColumn) /\ IsTable(Sources(t), Column)
         /\ Columns(Recorded(t)) = Columns(t)
         /\ \A c \in Columns(t) : Recorded(t).columns[c]
                = [kind |-> t.columns[c].kind, notNull |-> t.columns[c].notNull]
         /\ Recorded(t).constraints = t.constraints
         /\ Recorded(t).indexes = t.indexes
<1> DEFINE F == [c \in Columns(t) |->
                   [kind |-> t.columns[c].kind, notNull |-> t.columns[c].notNull]]
           G == [c \in Columns(t) |->
                   [kind |-> t.columns[c].kind, notNull |-> t.columns[c].notNull, from |-> None]]
<1>0. t = [columns |-> t.columns, constraints |-> t.constraints, indexes |-> t.indexes]
  BY DEF IsTable
<1>1. Recorded(t) = [columns |-> F, constraints |-> t.constraints, indexes |-> t.indexes]
  BY <1>0 DEF Recorded, Columns
<1>2. Sources(t) = [columns |-> G, constraints |-> t.constraints, indexes |-> t.indexes]
  BY <1>0 DEF Sources, Columns
<1>3. \A c \in Columns(t) : t.columns[c] \in C
  BY DEF IsTable, IsPart, Columns
<1>4. /\ F \in [DOMAIN t.columns -> SnapColumn]
      /\ G \in [DOMAIN t.columns -> Column]
  BY <1>3 DEF SnapColumn, Column, Columns
<1>5. DOMAIN F = Columns(t) /\ \A c \in Columns(t) : F[c]
                = [kind |-> t.columns[c].kind, notNull |-> t.columns[c].notNull]
  OBVIOUS
<1> HIDE DEF F, G
<1>6. IsPart(F, ColName, SnapColumn) /\ IsPart(G, ColName, Column)
  BY <1>4, SameDomainPart DEF IsTable
<1>7. IsTable(Recorded(t), SnapColumn) /\ IsTable(Sources(t), Column)
  BY <1>1, <1>2, <1>6, PartsMakeTable DEF IsTable
<1> QED
  BY <1>1, <1>5, <1>7 DEF Columns

\* Columns of either kind.
LEMMA ColumnFacts ==
  /\ \A c \in SnapColumn : c.kind \in Kind /\ c.notNull \in BOOLEAN
  /\ \A c \in Column : /\ c.kind \in Kind /\ c.notNull \in BOOLEAN
                       /\ c.from \in ColName \cup {None}
BY DEF SnapColumn, Column

LEMMA TableStep == TableInv /\ [Next]_vars => TableInv'
<1> SUFFICES ASSUME TableInv, [Next]_vars PROVE TableInv'
  OBVIOUS
<1> DEFINE C == declared.columns
<1>0. /\ IsTable(declared, Column) /\ IsTable(recorded, SnapColumn)
      /\ IsPart(C, ColName, Column)
      /\ IsPart(declared.constraints, ConstraintName, Named)
      /\ IsPart(declared.indexes, IndexName, Named)
  BY DEF TableInv, IsTable
<1>1. ASSUME NEW t, Edit(t), IsTable(t, Column) PROVE TableInv'
  <2>1. edits' \in 0 .. MaxEdits
    BY <1>1, TableAssumption DEF Edit, TableInv
  <2>2. declared' = t /\ recorded' = recorded
    BY <1>1 DEF Edit
  <2> QED
    BY <1>0, <1>1, <2>1, <2>2 DEF TableInv, IsTable, IsPart
<1>2. ASSUME NEW f, IsPart(f, ColName, Column), Edit([declared EXCEPT !.columns = f])
      PROVE  TableInv'
  <2>1. IsTable([declared EXCEPT !.columns = f], Column)
    BY <1>0, <1>2, ChangedIsTable
  <2> QED
    BY <1>1, <1>2, <2>1
<1>3. ASSUME NEW c \in ColName, NEW notNull \in BOOLEAN, AddColumn(c, notNull) PROVE TableInv'
  <2>1. [kind |-> Plain, notNull |-> notNull, from |-> None] \in Column
    BY DEF Column, Kind
  <2> DEFINE f == Put(C, c, [kind |-> Plain, notNull |-> notNull, from |-> None])
  <2>2. IsPart(f, ColName, Column)
    BY <1>0, <1>3, <2>1, PutInPart
  <2>3. Edit([declared EXCEPT !.columns = f])
    BY <1>3 DEF AddColumn
  <2> HIDE DEF f
  <2> QED
    BY <1>2, <2>2, <2>3
<1>4. ASSUME NEW c, NEW keep, RemoveColumn(c, keep) PROVE TableInv'
  <2> DEFINE rest == [d \in DOMAIN C \ {c} |-> [C[d] EXCEPT !.kind.uses = @ \ {c}]]
  <2>1. IsPart(rest, ColName, Column)
    BY <1>0, ReleasedColumns
  <2>2. Edit([columns     |-> rest,
              constraints |-> Released(declared.constraints, c, keep),
              indexes     |-> Released(declared.indexes, c, keep)])
    BY <1>4 DEF RemoveColumn, Columns
  <2> HIDE DEF rest
  <2> QED
    BY <1>0, <1>1, <2>1, <2>2, PartsMakeTable, ReleasedPart
<1>5. ASSUME NEW c, NEW d \in ColName, NEW from \in ColName, NEW follow,
             RenameColumn(c, d, from, follow)
      PROVE  TableInv'
  <2> DEFINE col == [C[c] EXCEPT !.from = IF from = d THEN None ELSE from]
             f == Put(Without(C, c), d, col)
  <2>1. C[c] \in Column
    BY <1>0, <1>5 DEF RenameColumn, IsPart, Columns
  <2>2. col \in Column
    BY <2>1 DEF Column
  <2>3. IsPart(Without(C, c), ColName, Column)
    BY <1>0, RestOfPart DEF Without
  <2> HIDE DEF col
  <2>4. IsPart(f, ColName, Column)
    BY <2>2, <2>3, PutInPart
  <2>5. \/ Edit([columns     |-> RenameUses(f, c, d),
                 constraints |-> RenameIn(declared.constraints, c, d),
                 indexes     |-> RenameIn(declared.indexes, c, d)])
        \/ Edit([declared EXCEPT !.columns = f])
    BY <1>5 DEF RenameColumn, col
  <2> HIDE DEF f
  <2> QED
    BY <1>0, <1>1, <1>2, <2>4, <2>5, PartsMakeTable, RenamedPart, RenamedColumns
<1>6. ASSUME NEW c, NEW kind \in Kind, NEW notNull \in BOOLEAN, AlterColumn(c, kind, notNull)
      PROVE  TableInv'
  <2> DEFINE f == [C EXCEPT ![c].kind = kind]
             g == [f EXCEPT ![c].notNull = notNull]
  <2>1. f \in [DOMAIN C -> Column]
    BY <1>0 DEF IsPart, Column
  <2> HIDE DEF f
  <2>2. g \in [DOMAIN C -> Column]
    BY <2>1 DEF Column
  <2>3. Edit([declared EXCEPT !.columns = g])
    BY <1>0, <1>6, ChangedIsTable DEF AlterColumn, f
  <2> HIDE DEF g
  <2> QED
    BY <1>0, <1>2, <2>2, <2>3, SameDomainPart
<1>7. ASSUME NEW c, Tidy(c) PROVE TableInv'
  <2> DEFINE f == [C EXCEPT ![c].from = None]
  <2>1. f \in [DOMAIN C -> Column]
    BY <1>0 DEF IsPart, Column
  <2>2. Edit([declared EXCEPT !.columns = f])
    BY <1>7 DEF Tidy
  <2> HIDE DEF f
  <2> QED
    BY <1>0, <1>2, <2>1, <2>2, SameDomainPart
<1>8. CASE EditDependent
  <2>1. (SUBSET Columns(declared)) \ {{}} \subseteq Named
    BY <1>0 DEF IsPart, Named, Columns
  <2>2. \/ \E k \in ConstraintName, v \in Named :
             Edit([declared EXCEPT !.constraints = Put(declared.constraints, k, v)])
        \/ \E k : Edit([declared EXCEPT !.constraints = Without(declared.constraints, k)])
        \/ \E i \in IndexName, v \in Named :
             Edit([declared EXCEPT !.indexes = Put(declared.indexes, i, v)])
        \/ \E i : Edit([declared EXCEPT !.indexes = Without(declared.indexes, i)])
    BY <1>8, <2>1 DEF EditDependent, PutConstraint, RemoveConstraint, PutIndex, RemoveIndex
  <2>3. /\ \A k : IsPart(Without(declared.constraints, k), ConstraintName, Named)
        /\ \A i : IsPart(Without(declared.indexes, i), IndexName, Named)
    BY <1>0, RestOfPart DEF Without
  <2>4. /\ \A k \in ConstraintName, v \in Named :
             IsPart(Put(declared.constraints, k, v), ConstraintName, Named)
        /\ \A i \in IndexName, v \in Named : IsPart(Put(declared.indexes, i, v), IndexName, Named)
    BY <1>0, PutInPart
  <2>5. ASSUME NEW g, IsPart(g, ConstraintName, Named), Edit([declared EXCEPT !.constraints = g])
        PROVE  TableInv'
    <3>1. IsTable([declared EXCEPT !.constraints = g], Column)
      BY <1>0, <2>5, ChangedIsTable
    <3> QED
      BY <1>1, <2>5, <3>1
  <2>6. ASSUME NEW h, IsPart(h, IndexName, Named), Edit([declared EXCEPT !.indexes = h])
        PROVE  TableInv'
    <3>1. IsTable([declared EXCEPT !.indexes = h], Column)
      BY <1>0, <2>6, ChangedIsTable
    <3> QED
      BY <1>1, <2>6, <3>1
  <2> QED
    BY <2>2, <2>3, <2>4, <2>5, <2>6
<1>9. CASE Undo
  BY <1>0, <1>9, RecordedIsTable, ColumnFacts DEF Undo, TableInv
<1>10. CASE Migrate
  BY <1>0, <1>10, RecordedIsTable, ColumnFacts DEF Migrate, TableInv
<1>11. CASE UNCHANGED vars
  BY <1>11 DEF vars, TableInv
<1> QED
  BY <1>3, <1>4, <1>5, <1>6, <1>7, <1>8, <1>9, <1>10, <1>11 DEF Next, EditColumn

LEMMA StartIsTable == IsTable(Start, SnapColumn)
<1>1. HasType(Start, SnapColumn)
  BY StartAssumption DEF WellFormed
<1>2. /\ IsFiniteSet(DOMAIN Start.columns) /\ IsFiniteSet(DOMAIN Start.constraints)
      /\ IsFiniteSet(DOMAIN Start.indexes)
  BY StartAssumption
<1>3. /\ \A k \in DOMAIN Start.constraints : Start.constraints[k] # {}
      /\ \A i \in DOMAIN Start.indexes : Start.indexes[i] # {}
  BY StartAssumption DEF WellFormed
<1> QED
  BY <1>1, <1>2, <1>3 DEF HasType, IsPartial, IsTable, IsPart, Named

LEMMA InitTable == Init => TableInv
BY StartIsTable, RecordedIsTable, ColumnFacts, TableAssumption DEF Init, TableInv

LEMMA Tables == Spec => []TableInv
BY InitTable, TableStep, PTL DEF Spec

\* Only an apply touches the snapshot and the database.
LEMMA EditsRecordNothing ==
  ASSUME [Next]_vars, ~Migrate
  PROVE  UNCHANGED <<recorded, live>>
<1> DEFINE U == UNCHANGED <<recorded, live>>
<1>1. \A t : Edit(t) => U
  BY DEF Edit
<1> HIDE DEF U
<1>2. \A c, v : AddColumn(c, v) \/ RemoveColumn(c, v) => U
  BY <1>1 DEF AddColumn, RemoveColumn
<1>3. \A c, d, from, follow : RenameColumn(c, d, from, follow) => U
  BY <1>1 DEF RenameColumn
<1>4. \A c, kind, v : AlterColumn(c, kind, v) \/ Tidy(c) => U
  BY <1>1 DEF AlterColumn, Tidy
<1>5. \A x, cols : PutConstraint(x, cols) \/ RemoveConstraint(x) => U
  BY <1>1 DEF PutConstraint, RemoveConstraint
<1>6. \A x, cols : PutIndex(x, cols) \/ RemoveIndex(x) => U
  BY <1>1 DEF PutIndex, RemoveIndex
<1>7. Undo \/ UNCHANGED vars => U
  BY DEF Undo, vars, U
<1>8. EditColumn => U
  BY <1>2, <1>3, <1>4 DEF EditColumn
<1>9. EditDependent => U
  BY <1>5, <1>6 DEF EditDependent
<1> QED
  BY <1>7, <1>8, <1>9 DEF Next, U

-------------------------------------------------------------------------------
(* Plans *)

\* The table is recorded as it is declared.
JustApplied == recorded = Recorded(declared) /\ ~Collides

LEMMA NothingPlanned == TableInv /\ JustApplied => Nothing
<1> SUFFICES ASSUME TableInv, JustApplied PROVE Nothing
  OBVIOUS
<1> DEFINE C == Columns(declared)
<1>1. /\ Columns(recorded) = C
      /\ \A c \in C : /\ recorded.columns[c].kind = declared.columns[c].kind
                      /\ recorded.columns[c].notNull = declared.columns[c].notNull
      /\ recorded.constraints = declared.constraints
      /\ recorded.indexes = declared.indexes
      /\ IsFiniteSet(C)
  <2>1. IsTable(declared, Column) /\ recorded = Recorded(declared) /\ IsFiniteSet(C)
    BY DEF TableInv, JustApplied, IsTable, IsPart, Columns
  <2>2. \A c \in Column : c.kind \in Kind /\ c.notNull \in BOOLEAN
    BY ColumnFacts
  <2>3. /\ Columns(Recorded(declared)) = C
        /\ \A c \in C : Recorded(declared).columns[c]
                = [kind |-> declared.columns[c].kind, notNull |-> declared.columns[c].notNull]
        /\ Recorded(declared).constraints = declared.constraints
        /\ Recorded(declared).indexes = declared.indexes
    BY <2>1, <2>2, RecordedIsTable
  <2> HIDE DEF C
  <2>4. \A c \in C : recorded.columns[c]
           = [kind |-> declared.columns[c].kind, notNull |-> declared.columns[c].notNull]
    BY <2>1, <2>3
  <2>5. ASSUME NEW c \in C
        PROVE  /\ recorded.columns[c].kind = declared.columns[c].kind
               /\ recorded.columns[c].notNull = declared.columns[c].notNull
    <3>1. recorded.columns[c]
            = [kind |-> declared.columns[c].kind, notNull |-> declared.columns[c].notNull]
      BY <2>4
    <3> QED
      BY <3>1
  <2> QED
    BY <2>1, <2>3, <2>5
<1>2. \A c \in C : From(c) \notin C
  BY DEF Collides, JustApplied
<1>3. Renamed = {} /\ OldNames = {} /\ Dropped = {}
  BY <1>1 DEF Renamed, OldNames, Dropped
<1>4. ~Rejected
  BY <1>1, <1>3 DEF JustApplied, Rejected, StaleDirective, StaleReference
<1>5. \A c \in C : Entry(c) = c
  BY <1>1, <1>2 DEF Entry
<1>6. \A cols : Translated(cols) = cols
  BY <1>3 DEF Translated, NewName
<1>7. <<>> \o <<>> = <<>>
  OBVIOUS
<1>8. ColumnOps = <<>>
  <2> DEFINE alter(c) == LET old == recorded.columns[Entry(c)]
                         IN  KindOps(c, old) \o NotNullOps(c, old)
             columnOps(c) ==
               IF Entry(c) \in Columns(recorded) THEN alter(c)
               ELSE <<AddColumnOp(c, declared.columns[c].kind, declared.columns[c].notNull)>>
             n == Cardinality(C)
             s == [m \in 1 .. n |-> columnOps(SetToSeq(C)[m])]
  <2>1. ASSUME NEW c \in C PROVE columnOps(c) = <<>>
    <3> DEFINE old == recorded.columns[Entry(c)]
    <3>1. /\ Entry(c) \in Columns(recorded)
          /\ declared.columns[c].kind = old.kind /\ declared.columns[c].notNull = old.notNull
      BY <1>1, <1>5
    <3>2. columnOps(c) = KindOps(c, old) \o NotNullOps(c, old)
      BY <3>1
    <3> HIDE DEF columnOps, old
    <3>3. KindOps(c, old) = <<>>
      <4> DEFINE a == <<[do |-> "set expression", col |-> c, uses |-> declared.columns[c].kind.uses]>>
                 b == <<[do |-> "drop expression", col |-> c]>>
                 d == <<DropColumnOp(c), AddColumnOp(c, declared.columns[c].kind, FALSE)>>
      <4>1. KindOps(c, old)
              = CASE declared.columns[c].kind = old.kind -> <<>>
                  [] declared.columns[c].kind # old.kind
                     /\ declared.columns[c].kind.is = old.kind.is -> a
                  [] declared.columns[c].kind = Plain /\ old.kind.is = "stored" -> b
                  [] OTHER -> d
        BY DEF KindOps
      <4> HIDE DEF a, b, d
      <4>2. CASE declared.columns[c].kind = Plain /\ old.kind.is = "stored"
        BY <3>1, <4>2 DEF Plain
      <4>3. CASE ~(declared.columns[c].kind = Plain /\ old.kind.is = "stored")
        BY <3>1, <4>1, <4>3
      <4> QED
        BY <4>2, <4>3
    <3>4. NotNullOps(c, old) = <<>>
      BY <3>1 DEF NotNullOps
    <3> QED
      BY <1>7, <3>2, <3>3, <3>4
  <2>2. n \in Nat /\ \A m \in 1 .. n : SetToSeq(C)[m] \in C
    BY <1>1, SetToSeqFacts
  <2> HIDE DEF columnOps
  <2>3. s = [m \in 1 .. n |-> <<>>]
    BY <2>1, <2>2
  <2>4. FlattenSeq(s) = <<>>
    BY <2>2, <2>3, FlattenNothing
  <2>5. SetToSeq({[do |-> "rename column", col |-> From(c), to |-> c] : c \in Renamed}) = <<>>
    BY <1>3, SeqOfNothing
  <2>6. SetToSeq({DropColumnOp(c) : c \in Dropped}) = <<>>
    BY <1>3, SeqOfNothing
  <2> QED
    BY <1>7, <2>4, <2>5, <2>6 DEF ColumnOps, columnOps
<1>9. ConstraintOps = <<>>
  BY <1>1, <1>7, SeqOfNothing DEF ConstraintOps
<1>10. IndexOps = <<>>
  <2> DEFINE I == DOMAIN declared.indexes
  <2>1. {i \in I \cap I : Translated(declared.indexes[i]) # declared.indexes[i]} = {}
    BY <1>6
  <2>2. {i \in I \ I : Translated(declared.indexes[i]) \cap Dropped = {}} = {}
    OBVIOUS
  <2>3. /\ {IndexDrop(i) : i \in {}} = {}
        /\ {IndexCreate(i) : i \in (I \ I) \cup {}} = {}
    OBVIOUS
  <2>4. SetToSeq({}) = <<>>
    BY SeqOfNothing
  <2> QED
    BY <1>1, <1>7, <2>1, <2>2, <2>3, <2>4 DEF IndexOps
<1> QED
  BY <1>4, <1>7, <1>8, <1>9, <1>10 DEF Nothing, Plan

\* Sources that were just applied, their RENAMED FROM directives still in them, are
\* accepted again, and diffTable plans nothing for them.
THEOREM NothingAfterApply == Spec => AppliedOnce
<1>1. ASSUME [Next]_vars, recorded' # recorded PROVE JustApplied'
  <2>1. Migrate
    BY <1>1, EditsRecordNothing
  <2>2. recorded' = Recorded(declared) /\ declared' = declared /\ ~Collides
    BY <2>1 DEF Migrate, Rejected
  <2> QED
    BY <2>2 DEF JustApplied, Recorded, Collides, From, Columns
<1>2. [Next]_vars => (recorded' # recorded => JustApplied')
  BY <1>1
<1> QED
  BY <1>2, NothingPlanned, Tables, PTL DEF Spec, AppliedOnce

-------------------------------------------------------------------------------
(* What each statement needs and does *)

RenameOp(c, d)     == [do |-> "rename column", col |-> c, to |-> d]
SetNotNullOp(c, v) == [do |-> "set not null", col |-> c, notNull |-> v]
SetExprOp(c, uses) == [do |-> "set expression", col |-> c, uses |-> uses]
DropExprOp(c)      == [do |-> "drop expression", col |-> c]

\* A table by its parts.
Parts(f, g, h) == [columns |-> f, constraints |-> g, indexes |-> h]

\* Of columns f, those that are plain and those that are not VIRTUAL.
PlainIn(f)     == {c \in DOMAIN f : f[c].kind = Plain}
IndexableIn(f) == {c \in DOMAIN f : f[c].kind.is # "virtual"}

LEMMA PartsOf ==
  ASSUME NEW f, NEW g, NEW h
  PROVE  /\ Parts(f, g, h).columns = f /\ Parts(f, g, h).constraints = g
         /\ Parts(f, g, h).indexes = h /\ Columns(Parts(f, g, h)) = DOMAIN f
         /\ Usable(Parts(f, g, h)) = PlainIn(f)
         /\ Indexable(Parts(f, g, h)) = IndexableIn(f)
BY DEF Parts, Columns, Usable, Indexable, PlainIn, IndexableIn

LEMMA RenameOfColumn ==
  ASSUME NEW f, NEW g, NEW h, NEW c, NEW d, c \in DOMAIN f, d \notin DOMAIN f
  PROVE  /\ Sensible(Parts(f, g, h), RenameOp(c, d))
         /\ Effect(Parts(f, g, h), RenameOp(c, d))
              = Parts(Put(Without(RenameUses(f, c, d), c), d, RenameUses(f, c, d)[c]),
                      RenameIn(g, c, d), RenameIn(h, c, d))
BY DEF RenameOp, Sensible, Effect, Parts, Columns

LEMMA DropOfColumn ==
  ASSUME NEW f, NEW g, NEW h, NEW c, c \in DOMAIN f,
         \A x \in DOMAIN f : c \notin f[x].kind.uses
  PROVE  /\ Sensible(Parts(f, g, h), DropColumnOp(c))
         /\ Effect(Parts(f, g, h), DropColumnOp(c))
              = Parts(Without(f, c), DropIn(g, c), DropIn(h, c))
BY DEF DropColumnOp, Sensible, Effect, Parts, Columns, Users

LEMMA AddOfColumn ==
  ASSUME NEW f, NEW g, NEW h, NEW c, NEW kind, NEW notNull, c \notin DOMAIN f,
         kind.uses \subseteq PlainIn(f)
  PROVE  /\ Sensible(Parts(f, g, h), AddColumnOp(c, kind, notNull))
         /\ Effect(Parts(f, g, h), AddColumnOp(c, kind, notNull))
              = Parts(Put(f, c, [kind |-> kind, notNull |-> notNull, row |-> None]), g, h)
BY DEF AddColumnOp, Sensible, Effect, Parts, Columns, Usable, PlainIn

LEMMA SetNotNull ==
  ASSUME NEW f, NEW g, NEW h, NEW c, NEW v, c \in DOMAIN f
  PROVE  /\ Sensible(Parts(f, g, h), SetNotNullOp(c, v))
         /\ Effect(Parts(f, g, h), SetNotNullOp(c, v))
              = Parts([f EXCEPT ![c].notNull = v], g, h)
BY DEF SetNotNullOp, Sensible, Effect, Parts, Columns

LEMMA SetExpression ==
  ASSUME NEW f, NEW g, NEW h, NEW c, NEW uses, c \in DOMAIN f, f[c].kind # Plain,
         uses \subseteq PlainIn(f)
  PROVE  /\ Sensible(Parts(f, g, h), SetExprOp(c, uses))
         /\ Effect(Parts(f, g, h), SetExprOp(c, uses))
              = Parts([f EXCEPT ![c].kind.uses = uses], g, h)
BY DEF SetExprOp, Sensible, Effect, Parts, Columns, Usable, PlainIn

LEMMA DropExpression ==
  ASSUME NEW f, NEW g, NEW h, NEW c, c \in DOMAIN f, f[c].kind.is # "virtual"
  PROVE  /\ Sensible(Parts(f, g, h), DropExprOp(c))
         /\ Effect(Parts(f, g, h), DropExprOp(c)) = Parts([f EXCEPT ![c].kind = Plain], g, h)
BY DEF DropExprOp, Sensible, Effect, Parts, Columns, Indexable

LEMMA DropOfConstraint ==
  ASSUME NEW f, NEW g, NEW h, NEW k, k \in DOMAIN g
  PROVE  /\ Sensible(Parts(f, g, h), ConstraintDrop(k))
         /\ Effect(Parts(f, g, h), ConstraintDrop(k)) = Parts(f, Without(g, k), h)
BY DEF ConstraintDrop, Sensible, Effect, Parts

LEMMA AddOfConstraint ==
  ASSUME NEW f, NEW g, NEW h, NEW k, k \notin DOMAIN g,
         declared.constraints[k] \subseteq IndexableIn(f)
  PROVE  /\ Sensible(Parts(f, g, h), ConstraintAdd(k))
         /\ Effect(Parts(f, g, h), ConstraintAdd(k))
              = Parts(f, Put(g, k, declared.constraints[k]), h)
BY DEF ConstraintAdd, Sensible, Effect, Parts, Columns, Indexable, IndexableIn

\* Off the search path the statement is one that does nothing, as it should if the
\* index is gone.
LEMMA DropOfIndex ==
  ASSUME NEW f, NEW g, NEW h, NEW i, h = [x \in DOMAIN h |-> h[x]],
         OnSearchPath \/ i \notin DOMAIN h
  PROVE  /\ Sensible(Parts(f, g, h), IndexDrop(i))
         /\ Effect(Parts(f, g, h), IndexDrop(i)) = Parts(f, g, Without(h, i))
<1>1. Sensible(Parts(f, g, h), IndexDrop(i))
  BY DEF IndexDrop, Sensible
<1>2. CASE OnSearchPath
  BY <1>1, <1>2 DEF IndexDrop, Effect, Parts
<1>3. CASE ~OnSearchPath
  <2>1. DOMAIN h \ {i} = DOMAIN h
    BY <1>3
  <2>2. Without(h, i) = h
    BY <2>1 DEF Without, Restrict
  <2> QED
    BY <1>1, <1>3, <2>2 DEF IndexDrop, Effect
<1> QED
  BY <1>2, <1>3

LEMMA CreationOfIndex ==
  ASSUME NEW f, NEW g, NEW h, NEW i, i \notin DOMAIN h,
         declared.indexes[i] \subseteq IndexableIn(f)
  PROVE  /\ Sensible(Parts(f, g, h), IndexCreate(i))
         /\ Effect(Parts(f, g, h), IndexCreate(i))
              = Parts(f, g, Put(h, i, declared.indexes[i]))
BY DEF IndexCreate, Sensible, Effect, Parts, Columns, Indexable, IndexableIn

-------------------------------------------------------------------------------
(* Plans for a table that is as recorded *)

\* The database has the table the snapshot describes.
Faithful == live = recorded /\ Sound(recorded)

\* The sources are accepted, and hold nothing the differ does not carry out.
Accepted == Careless = {} /\ Orderly /\ ~Rejected

LEMMA AcceptedFacts ==
  ASSUME Accepted
  PROVE  /\ \A c \in Columns(declared) : From(c) \notin Columns(declared)
         /\ \A c \in Columns(declared) : From(c) \in Columns(recorded) => c \in Renamed
         /\ \A c, d \in Renamed : From(c) = From(d) => c = d
         /\ Sound(declared)
         /\ ~Rebuilds /\ ~Redefines /\ ~Undermines /\ ~Hastens /\ ~Misses
<1>1. /\ ~Dangles /\ ~Reuses /\ ~Rebuilds /\ ~Redefines /\ ~Undermines /\ ~Hastens
      /\ ~Misses /\ ~Collides /\ ~StaleReference
  BY DEF Accepted, Orderly, Rejected
<1>2. \A c \in Columns(declared) : From(c) \notin Columns(declared)
  BY <1>1 DEF Collides
<1>3. \A c \in Columns(declared) : From(c) \in Columns(recorded) => c \in Renamed
  BY <1>1 DEF Reuses, Renamed
<1>4. \A c, d \in Renamed : From(c) = From(d) => c = d
  BY <1>1 DEF Reuses
<1>5. /\ \A k \in DOMAIN declared.constraints :
             declared.constraints[k] \subseteq Indexable(declared)
      /\ \A i \in DOMAIN declared.indexes : declared.indexes[i] \subseteq Indexable(declared)
  BY <1>1 DEF Dangles, StaleReference
<1>6. \A c \in Columns(declared) : declared.columns[c].kind.uses \subseteq Usable(declared)
  BY <1>1 DEF Dangles
<1> QED
  BY <1>1, <1>2, <1>3, <1>4, <1>5, <1>6 DEF Sound

LEMMA RecordedKinds ==
  ASSUME TableInv
  PROVE  /\ \A x \in Columns(recorded) : recorded.columns[x].kind \in Kind
         /\ \A x \in Columns(declared) : declared.columns[x].kind \in Kind
BY ColumnFacts DEF TableInv, IsTable, IsPart, Columns

LEMMA RenamedFacts ==
  \A c \in Renamed : /\ c \in Columns(declared) /\ c \notin Columns(recorded)
                     /\ From(c) \in Columns(recorded) /\ From(c) \in OldNames
BY DEF Renamed, OldNames

-------------------------------------------------------------------------------
(* The renames of columns *)

OldOf(V) == {From(c) : c \in V}

\* What names the columns cols, when those of V have their new names.
Moved(V, cols) == (cols \ OldOf(V)) \cup {d \in V : From(d) \in cols}
MovedIn(V, f) == [k \in DOMAIN f |-> Moved(V, f[k])]

\* What was column x of the database before the migration then, with whose rows it
\* holds.
KindHeld(V, k) == [is |-> k.is, uses |-> Moved(V, k.uses)]
Held(V, x) == [kind    |-> KindHeld(V, recorded.columns[x].kind),
               notNull |-> recorded.columns[x].notNull,
               row     |-> x]

ColumnsRenamed(V) ==
  [x \in (Columns(recorded) \ OldOf(V)) \cup V |-> Held(V, IF x \in V THEN From(x) ELSE x)]

AfterRenames(V) == Parts(ColumnsRenamed(V), MovedIn(V, recorded.constraints),
                                            MovedIn(V, recorded.indexes))

LEMMA RenameMoves ==
  ASSUME Accepted, NEW V \in SUBSET Renamed, NEW c \in Renamed \ V, NEW cols
  PROVE  Substitute(Moved(V, cols), From(c), c) = Moved(V \cup {c}, cols)
<1>1. /\ \A d \in V : From(c) # From(d) /\ From(c) # d
      /\ OldOf(V \cup {c}) = OldOf(V) \cup {From(c)}
  BY AcceptedFacts, RenamedFacts DEF OldOf
<1>2. From(c) \notin OldOf(V)
  BY <1>1 DEF OldOf
<1>3. {d \in V \cup {c} : From(d) \in cols}
         = {d \in V : From(d) \in cols} \cup (IF From(c) \in cols THEN {c} ELSE {})
  OBVIOUS
<1>4. From(c) \in Moved(V, cols) <=> From(c) \in cols
  BY <1>1, <1>2 DEF Moved
<1>5. {IF x = From(c) THEN c ELSE x : x \in Moved(V, cols)}
         = (Moved(V, cols) \ {From(c)}) \cup (IF From(c) \in Moved(V, cols) THEN {c} ELSE {})
  OBVIOUS
<1>6. Moved(V, cols) \ {From(c)}
         = (cols \ (OldOf(V) \cup {From(c)})) \cup {d \in V : From(d) \in cols}
  BY <1>1 DEF Moved
<1> QED
  BY <1>1, <1>3, <1>4, <1>5, <1>6 DEF Moved, Substitute

LEMMA RenameInMoves ==
  ASSUME Accepted, NEW V \in SUBSET Renamed, NEW c \in Renamed \ V, NEW f
  PROVE  RenameIn(MovedIn(V, f), From(c), c) = MovedIn(V \cup {c}, f)
BY RenameMoves DEF RenameIn, MovedIn

LEMMA RenameHolds ==
  ASSUME Accepted, NEW V \in SUBSET Renamed, NEW c \in Renamed \ V, NEW x
  PROVE  [Held(V, x) EXCEPT !.kind.uses = Substitute(@, From(c), c)] = Held(V \cup {c}, x)
<1>1. Substitute(Moved(V, recorded.columns[x].kind.uses), From(c), c)
        = Moved(V \cup {c}, recorded.columns[x].kind.uses)
  BY RenameMoves
<1> QED
  BY <1>1 DEF Held, KindHeld

LEMMA RenameStep ==
  ASSUME Accepted, NEW V \in SUBSET Renamed, NEW c \in Renamed \ V
  PROVE  /\ Sensible(AfterRenames(V), RenameOp(From(c), c))
         /\ AfterRenames(V \cup {c}) = Effect(AfterRenames(V), RenameOp(From(c), c))
<1> DEFINE F == ColumnsRenamed(V)
           R == Columns(recorded)
<1>1. /\ \A d \in V : From(c) # From(d) /\ From(c) # d
      /\ OldOf(V \cup {c}) = OldOf(V) \cup {From(c)}
      /\ c \notin R /\ From(c) \in R /\ c # From(c)
  BY AcceptedFacts, RenamedFacts DEF OldOf
<1>2. DOMAIN F = (R \ OldOf(V)) \cup V
  BY DEF ColumnsRenamed
<1>3. From(c) \in DOMAIN F /\ c \notin DOMAIN F
  BY <1>1, <1>2 DEF OldOf
<1> DEFINE G == RenameUses(F, From(c), c)
<1>4. DOMAIN G = DOMAIN F /\ \A x \in DOMAIN F :
         G[x] = Held(V \cup {c}, IF x \in V THEN From(x) ELSE x)
  <2>1. \A x \in DOMAIN F : F[x] = Held(V, IF x \in V THEN From(x) ELSE x)
    BY DEF ColumnsRenamed
  <2> HIDE DEF F
  <2> QED
    BY <2>1, RenameHolds DEF RenameUses
<1>5. Put(Without(G, From(c)), c, G[From(c)]) = ColumnsRenamed(V \cup {c})
  <2>1. G[From(c)] = Held(V \cup {c}, From(c))
    <3>1. From(c) \notin V
      BY <1>1
    <3> HIDE DEF G, F
    <3> QED
      BY <1>3, <1>4, <3>1
  <2>2. (DOMAIN F \ {From(c)}) \cup {c} = (R \ OldOf(V \cup {c})) \cup (V \cup {c})
    BY <1>1, <1>2
  <2> HIDE DEF G, F
  <2>3. ASSUME NEW x \in (DOMAIN F \ {From(c)}) \cup {c}
        PROVE  (IF x = c THEN G[From(c)] ELSE G[x])
                 = Held(V \cup {c}, IF x \in V \cup {c} THEN From(x) ELSE x)
    BY <1>4, <2>1
  <2>4. Put(Without(G, From(c)), c, G[From(c)])
          = [x \in (DOMAIN F \ {From(c)}) \cup {c} |-> IF x = c THEN G[From(c)] ELSE G[x]]
    BY <1>3, <1>4 DEF Put, Without, Restrict
  <2> QED
    BY <2>2, <2>3, <2>4 DEF ColumnsRenamed
<1> HIDE DEF F
<1>6. /\ Sensible(AfterRenames(V), RenameOp(From(c), c))
      /\ Effect(AfterRenames(V), RenameOp(From(c), c))
           = Parts(Put(Without(G, From(c)), c, G[From(c)]),
                   RenameIn(MovedIn(V, recorded.constraints), From(c), c),
                   RenameIn(MovedIn(V, recorded.indexes), From(c), c))
  BY <1>3, RenameOfColumn DEF AfterRenames, F
<1> HIDE DEF G
<1> QED
  BY <1>5, <1>6, RenameInMoves DEF AfterRenames

LEMMA FinitePlans ==
  ASSUME TableInv
  PROVE  /\ IsFiniteSet(Columns(declared)) /\ IsFiniteSet(Columns(recorded))
         /\ IsFiniteSet(DOMAIN declared.constraints) /\ IsFiniteSet(DOMAIN recorded.constraints)
         /\ IsFiniteSet(DOMAIN declared.indexes) /\ IsFiniteSet(DOMAIN recorded.indexes)
         /\ IsFiniteSet(Renamed) /\ IsFiniteSet(Dropped)
<1>1. /\ IsFiniteSet(Columns(declared)) /\ IsFiniteSet(Columns(recorded))
      /\ IsFiniteSet(DOMAIN declared.constraints) /\ IsFiniteSet(DOMAIN recorded.constraints)
      /\ IsFiniteSet(DOMAIN declared.indexes) /\ IsFiniteSet(DOMAIN recorded.indexes)
  BY DEF TableInv, IsTable, IsPart, Columns
<1>2. Renamed \in SUBSET Columns(declared) /\ Dropped \in SUBSET Columns(recorded)
  BY DEF Renamed, Dropped
<1> QED
  BY <1>1, <1>2, FS_Subset

LEMMA RenamesLead ==
  ASSUME TableInv, Accepted
  PROVE  Leads(AfterRenames({}),
               SetToSeq({[do |-> "rename column", col |-> From(c), to |-> c] : c \in Renamed}),
               AfterRenames(Renamed))
<1> DEFINE op == [c \in Renamed |-> RenameOp(From(c), c)]
           T == [V \in SUBSET Renamed |-> AfterRenames(V)]
<1>1. \A c, d \in Renamed : op[c] = op[d] => c = d
  BY DEF RenameOp
<1>2. \A V \in SUBSET Renamed : \A c \in Renamed \ V :
         Sensible(T[V], op[c]) /\ T[V \cup {c}] = Effect(T[V], op[c])
  <2>1. ASSUME NEW V \in SUBSET Renamed, NEW c \in Renamed \ V
        PROVE  Sensible(T[V], op[c]) /\ T[V \cup {c}] = Effect(T[V], op[c])
    <3>1. /\ Sensible(AfterRenames(V), RenameOp(From(c), c))
          /\ AfterRenames(V \cup {c}) = Effect(AfterRenames(V), RenameOp(From(c), c))
      BY RenameStep
    <3>2. T[V] = AfterRenames(V) /\ T[V \cup {c}] = AfterRenames(V \cup {c})
      OBVIOUS
    <3>3. op[c] = RenameOp(From(c), c)
      OBVIOUS
    <3> HIDE DEF T, op
    <3> QED
      BY <3>1, <3>2, <3>3
  <2> QED
    BY <2>1
<1>3. /\ {op[c] : c \in Renamed}
           = {[do |-> "rename column", col |-> From(c), to |-> c] : c \in Renamed}
      /\ T[{}] = AfterRenames({}) /\ T[Renamed] = AfterRenames(Renamed)
  BY DEF RenameOp
<1>4. IsFiniteSet(Renamed)
  BY FinitePlans
<1> HIDE DEF T, op
<1> DEFINE S == {op[c] : c \in Renamed}
<1> HIDE DEF S
<1>s. S = {op[c] : c \in Renamed}
  BY DEF S
<1>5. Leads(T[{}], SetToSeq(S), T[Renamed])
  BY <1>1, <1>2, <1>4, <1>s, LeadsByEach
<1> QED
  BY <1>3, <1>5, <1>s

LEMMA BeforeRenames ==
  ASSUME TableInv, Faithful
  PROVE  Before = AfterRenames({})
<1>1. live = Parts(recorded.columns, recorded.constraints, recorded.indexes)
  BY DEF Faithful, TableInv, IsTable, Parts
<1> DEFINE now(c) == [kind    |-> recorded.columns[c].kind,
                      notNull |-> recorded.columns[c].notNull,
                      row     |-> c]
<1>2. Before = Parts([c \in Columns(recorded) |-> now(c)],
                     recorded.constraints, recorded.indexes)
  BY <1>1 DEF Before, Parts, Columns
<1>4. \A cols : Moved({}, cols) = cols
  BY DEF Moved, OldOf
<1>7. ASSUME NEW c \in Columns(recorded) PROVE Held({}, c) = now(c)
  <2>1. KindHeld({}, recorded.columns[c].kind) = recorded.columns[c].kind
    <3>1. recorded.columns[c].kind \in Kind
      BY RecordedKinds
    <3> QED
      BY <1>4, <3>1, KindFacts DEF KindHeld
  <2> QED
    BY <2>1 DEF Held
<1> HIDE DEF now
<1>3. ColumnsRenamed({}) = [c \in Columns(recorded) |-> now(c)]
  BY <1>7 DEF ColumnsRenamed, OldOf
<1>5. /\ recorded.constraints \in [DOMAIN recorded.constraints -> Named]
      /\ recorded.indexes \in [DOMAIN recorded.indexes -> Named]
  BY DEF TableInv, IsTable, IsPart
<1>6. /\ MovedIn({}, recorded.constraints) = recorded.constraints
      /\ MovedIn({}, recorded.indexes) = recorded.indexes
  BY <1>4, <1>5 DEF MovedIn
<1> QED
  BY <1>2, <1>3, <1>6 DEF AfterRenames

-------------------------------------------------------------------------------
(* The drops of columns, with what they take along *)

Untouched(W, f) == {k \in DOMAIN f : f[k] \cap W = {}}
Cut(W, f) == [k \in Untouched(W, f) |-> f[k]]

AfterDrops(W) ==
  Parts([x \in DOMAIN ColumnsRenamed(Renamed) \ W |-> ColumnsRenamed(Renamed)[x]],
        Cut(W, MovedIn(Renamed, recorded.constraints)),
        Cut(W, MovedIn(Renamed, recorded.indexes)))

LEMMA MovedFacts ==
  ASSUME Accepted, NEW cols
  PROVE  /\ Translated(cols) = Moved(Renamed, cols)
         /\ Moved(Renamed, cols) \cap Dropped = cols \cap Dropped
<1>1. \A c, d \in Renamed : From(c) = From(d) => c = d
  BY AcceptedFacts
<1>2. OldOf(Renamed) = OldNames
  BY DEF OldOf, OldNames
<1>3. ASSUME NEW d \in Renamed
      PROVE  NewName(From(d)) = d
  <2>1. From(d) \in OldNames
    BY RenamedFacts
  <2>2. NewName(From(d)) = CHOOSE e \in Renamed : From(e) = From(d)
    BY <2>1 DEF NewName
  <2> QED
    BY <1>1, <2>2
<1>4. \A c : c \notin OldNames => NewName(c) = c
  BY DEF NewName
<1>5. \A c \in OldNames : \E d \in Renamed : From(d) = c
  BY DEF OldNames
<1>6. Translated(cols) = Moved(Renamed, cols)
  <2>1. ASSUME NEW c \in cols PROVE NewName(c) \in Moved(Renamed, cols)
    <3>1. CASE c \in OldNames
      <4>1. PICK d \in Renamed : From(d) = c
        BY <1>5, <3>1
      <4> QED
        BY <1>3, <4>1 DEF Moved
    <3>2. CASE c \notin OldNames
      BY <1>2, <1>4, <3>2 DEF Moved
    <3> QED
      BY <3>1, <3>2
  <2>2. ASSUME NEW x \in Moved(Renamed, cols) PROVE \E c \in cols : x = NewName(c)
    <3>1. CASE x \in cols \ OldNames
      BY <1>4, <3>1
    <3>2. CASE x \in Renamed /\ From(x) \in cols
      BY <1>3, <3>2
    <3> QED
      BY <1>2, <3>1, <3>2 DEF Moved
  <2> QED
    BY <2>1, <2>2 DEF Translated
<1>7. Dropped \cap OldNames = {} /\ Dropped \cap Renamed = {}
  BY RenamedFacts DEF Dropped
<1>8. Moved(Renamed, cols) \cap Dropped = cols \cap Dropped
  BY <1>2, <1>7 DEF Moved
<1> QED
  BY <1>6, <1>8

LEMMA CutCuts ==
  ASSUME NEW W, NEW c, NEW f
  PROVE  DropIn(Cut(W, f), c) = Cut(W \cup {c}, f)
<1>1. {k \in Untouched(W, f) : c \notin Cut(W, f)[k]} = Untouched(W \cup {c}, f)
  BY DEF Cut, Untouched
<1>2. \A k \in Untouched(W \cup {c}, f) : k \in Untouched(W, f) /\ Cut(W, f)[k] = f[k]
  BY DEF Cut, Untouched
<1>3. DOMAIN Cut(W, f) = Untouched(W, f)
  BY DEF Cut
<1>4. DropIn(Cut(W, f), c) = [k \in Untouched(W \cup {c}, f) |-> Cut(W, f)[k]]
  BY <1>1, <1>3 DEF DropIn, Restrict
<1> QED
  BY <1>2, <1>4 DEF Cut

\* No column is computed from a dropped one.
LEMMA DroppedAreUnused ==
  ASSUME Accepted, NEW c \in Dropped, NEW x \in DOMAIN ColumnsRenamed(Renamed)
  PROVE  c \notin ColumnsRenamed(Renamed)[x].kind.uses
<1> DEFINE y == IF x \in Renamed THEN From(x) ELSE x
<1>1. y \in Columns(recorded)
  BY RenamedFacts DEF ColumnsRenamed
<1>2. ColumnsRenamed(Renamed)[x] = Held(Renamed, y)
  BY DEF ColumnsRenamed
<1> HIDE DEF y
<1>3. ColumnsRenamed(Renamed)[x].kind.uses = Moved(Renamed, recorded.columns[y].kind.uses)
  BY <1>2 DEF Held, KindHeld
<1>4. c \notin recorded.columns[y].kind.uses
  BY <1>1, AcceptedFacts DEF Undermines, Users
<1> QED
  BY <1>3, <1>4, MovedFacts

LEMMA DropStep ==
  ASSUME Accepted, NEW W \in SUBSET Dropped, NEW c \in Dropped \ W
  PROVE  /\ Sensible(AfterDrops(W), DropColumnOp(c))
         /\ AfterDrops(W \cup {c}) = Effect(AfterDrops(W), DropColumnOp(c))
<1> DEFINE A == ColumnsRenamed(Renamed)
           F(X) == [x \in DOMAIN A \ X |-> A[x]]
<1>1. c \in DOMAIN A
  BY DEF ColumnsRenamed, Dropped, OldOf, OldNames
<1>0. \A x \in DOMAIN A : c \notin A[x].kind.uses
  BY DroppedAreUnused
<1> HIDE DEF A
<1>2. c \in DOMAIN F(W) /\ Without(F(W), c) = F(W \cup {c})
  BY <1>1 DEF Without, Restrict
<1> DEFINE f == F(W)
           g == Cut(W, MovedIn(Renamed, recorded.constraints))
           h == Cut(W, MovedIn(Renamed, recorded.indexes))
<1>3. /\ DropIn(g, c) = Cut(W \cup {c}, MovedIn(Renamed, recorded.constraints))
      /\ DropIn(h, c) = Cut(W \cup {c}, MovedIn(Renamed, recorded.indexes))
  BY CutCuts
<1>4. AfterDrops(W) = Parts(f, g, h)
  BY DEF AfterDrops, A
<1>5. AfterDrops(W \cup {c}) = Parts(Without(f, c), DropIn(g, c), DropIn(h, c))
  BY <1>2, <1>3 DEF AfterDrops, A
<1>6. c \in DOMAIN f /\ \A x \in DOMAIN f : c \notin f[x].kind.uses
  BY <1>0, <1>2
<1> HIDE DEF f, g, h
<1>7. /\ Sensible(Parts(f, g, h), DropColumnOp(c))
      /\ Effect(Parts(f, g, h), DropColumnOp(c))
           = Parts(Without(f, c), DropIn(g, c), DropIn(h, c))
  BY <1>6, DropOfColumn
<1> QED
  BY <1>4, <1>5, <1>7

LEMMA DropsLead ==
  ASSUME TableInv, Accepted
  PROVE  Leads(AfterRenames(Renamed), SetToSeq({DropColumnOp(c) : c \in Dropped}),
               AfterDrops(Dropped))
<1> DEFINE op == [c \in Dropped |-> DropColumnOp(c)]
           T == [W \in SUBSET Dropped |-> AfterDrops(W)]
<1>1. \A c, d \in Dropped : op[c] = op[d] => c = d
  BY DEF DropColumnOp
<1>2. \A V \in SUBSET Dropped : \A c \in Dropped \ V :
         Sensible(T[V], op[c]) /\ T[V \cup {c}] = Effect(T[V], op[c])
  <2>1. ASSUME NEW V \in SUBSET Dropped, NEW c \in Dropped \ V
        PROVE  Sensible(T[V], op[c]) /\ T[V \cup {c}] = Effect(T[V], op[c])
    <3>1. /\ Sensible(AfterDrops(V), DropColumnOp(c))
          /\ AfterDrops(V \cup {c}) = Effect(AfterDrops(V), DropColumnOp(c))
      BY DropStep
    <3>2. T[V] = AfterDrops(V) /\ T[V \cup {c}] = AfterDrops(V \cup {c})
      OBVIOUS
    <3>3. op[c] = DropColumnOp(c)
      OBVIOUS
    <3> HIDE DEF T, op
    <3> QED
      BY <3>1, <3>2, <3>3
  <2> QED
    BY <2>1
<1>3. /\ {op[c] : c \in Dropped} = {DropColumnOp(c) : c \in Dropped}
      /\ T[{}] = AfterDrops({}) /\ T[Dropped] = AfterDrops(Dropped)
  <2>1. {op[c] : c \in Dropped} = {DropColumnOp(c) : c \in Dropped}
    OBVIOUS
  <2> HIDE DEF op
  <2>2. T[{}] = AfterDrops({}) /\ T[Dropped] = AfterDrops(Dropped)
    OBVIOUS
  <2> QED
    BY <2>1, <2>2
<1>4. AfterDrops({}) = AfterRenames(Renamed)
  <2>1. \A f : f = [k \in DOMAIN f |-> f[k]] => Cut({}, f) = f
    BY DEF Cut, Untouched
  <2>2. /\ Cut({}, MovedIn(Renamed, recorded.constraints)) = MovedIn(Renamed, recorded.constraints)
        /\ Cut({}, MovedIn(Renamed, recorded.indexes)) = MovedIn(Renamed, recorded.indexes)
    BY <2>1 DEF MovedIn
  <2>3. [x \in DOMAIN ColumnsRenamed(Renamed) \ {} |-> ColumnsRenamed(Renamed)[x]]
          = ColumnsRenamed(Renamed)
    BY DEF ColumnsRenamed
  <2> QED
    BY <2>2, <2>3 DEF AfterDrops, AfterRenames
<1>5. IsFiniteSet(Dropped)
  BY FinitePlans
<1> HIDE DEF T, op
<1> DEFINE S == {op[c] : c \in Dropped}
<1> HIDE DEF S
<1>s. S = {op[c] : c \in Dropped}
  BY DEF S
<1>6. Leads(T[{}], SetToSeq(S), T[Dropped])
  BY <1>1, <1>2, <1>5, <1>s, LeadsByEach
<1> QED
  BY <1>3, <1>4, <1>6, <1>s

-------------------------------------------------------------------------------
(* The declared columns, one after the other *)

Existing == {c \in Columns(declared) : Entry(c) \in Columns(recorded)}

\* What becomes of a declared column.
Becomes(c) == [kind    |-> declared.columns[c].kind,
               notNull |-> declared.columns[c].notNull,
               row     |-> IF NewKind(c) THEN None ELSE Continues(c)]

ColumnsAltered(X) == [c \in Existing \cup X |-> IF c \in X THEN Becomes(c)
                                           ELSE Held(Renamed, Entry(c))]

\* A column that is made again takes its indexes along; no constraint is on one.
NewKinds(X) == {c \in X : NewKind(c)}
ConstraintsLeft == Cut(Dropped, MovedIn(Renamed, recorded.constraints))
IndexesLeft(X)  == Cut(Dropped \cup NewKinds(X), MovedIn(Renamed, recorded.indexes))

AfterColumns(X) == Parts(ColumnsAltered(X), ConstraintsLeft, IndexesLeft(X))

LEMMA EntryFacts ==
  ASSUME Accepted, NEW c \in Columns(declared)
  PROVE  /\ Entry(c) = IF c \in Renamed THEN From(c) ELSE c
         /\ Continues(c) = IF Entry(c) \in Columns(recorded) THEN Entry(c) ELSE None
         /\ c \notin OldNames
<1>1. From(c) \in Columns(recorded) <=> c \in Renamed
  BY AcceptedFacts, RenamedFacts
<1>2. c \notin OldNames
  BY AcceptedFacts, RenamedFacts DEF OldNames
<1> QED
  BY <1>1, <1>2 DEF Entry, Continues

LEMMA DropsLeaveExisting ==
  ASSUME Accepted
  PROVE  AfterDrops(Dropped) = AfterColumns({})
<1> DEFINE A == ColumnsRenamed(Renamed)
           R == Columns(recorded)
           D == Columns(declared)
<1>1. DOMAIN A = (R \ OldNames) \cup Renamed
  BY DEF ColumnsRenamed, OldOf, OldNames
<1>2. \A c \in D : Entry(c) = (IF c \in Renamed THEN From(c) ELSE c) /\ c \notin OldNames
  BY EntryFacts
<1>3. DOMAIN A \ Dropped = Existing
  <2>1. ASSUME NEW c \in DOMAIN A \ Dropped PROVE c \in Existing
    <3>1. CASE c \in Renamed
      BY <1>2, <3>1, RenamedFacts DEF Existing
    <3>2. CASE c \notin Renamed
      <4>1. c \in R \ OldNames /\ c \in D
        BY <1>1, <2>1, <3>2 DEF Dropped
      <4> QED
        BY <1>2, <3>2, <4>1 DEF Existing
    <3> QED
      BY <3>1, <3>2
  <2>2. ASSUME NEW c \in Existing PROVE c \in DOMAIN A \ Dropped
    <3>1. c \in D /\ Entry(c) \in R
      BY DEF Existing
    <3>2. c \notin Dropped
      BY <3>1 DEF Dropped
    <3> QED
      BY <1>1, <1>2, <3>1, <3>2
  <2> QED
    BY <2>1, <2>2
<1>4. \A c \in Existing : A[c] = Held(Renamed, Entry(c))
  <2>1. ASSUME NEW c \in Existing PROVE A[c] = Held(Renamed, Entry(c))
    <3>1. c \in DOMAIN A /\ c \in D
      BY <1>3 DEF Existing
    <3>2. A[c] = Held(Renamed, IF c \in Renamed THEN From(c) ELSE c)
      BY <3>1 DEF ColumnsRenamed
    <3> HIDE DEF A
    <3> QED
      BY <1>2, <3>1, <3>2
  <2> QED
    BY <2>1
<1>5. NewKinds({}) = {} /\ Dropped \cup {} = Dropped
  BY DEF NewKinds
<1> HIDE DEF A
<1>6. [x \in DOMAIN A \ Dropped |-> A[x]] = ColumnsAltered({})
  BY <1>3, <1>4 DEF ColumnsAltered
<1> QED
  BY <1>5, <1>6 DEF AfterDrops, AfterColumns, ConstraintsLeft, IndexesLeft, A

LEMMA PutFacts ==
  ASSUME NEW f, f = [x \in DOMAIN f |-> f[x]], NEW c
  PROVE  /\ c \in DOMAIN f => Put(f, c, f[c]) = f
         /\ \A v, w : /\ Put(Put(f, c, v), c, w) = Put(f, c, w)
                      /\ Put(Without(f, c), c, v) = Put(f, c, v)
                      /\ [Put(f, c, v) EXCEPT ![c] = w] = Put(f, c, w)
<1>1. c \in DOMAIN f => Put(f, c, f[c]) = f
  <2> SUFFICES ASSUME c \in DOMAIN f PROVE Put(f, c, f[c]) = f
    OBVIOUS
  <2>1. DOMAIN f \cup {c} = DOMAIN f
    OBVIOUS
  <2>2. Put(f, c, f[c]) = [x \in DOMAIN f |-> f[x]]
    BY <2>1 DEF Put
  <2> QED
    BY <2>2
<1>2. ASSUME NEW v, NEW w PROVE Put(Put(f, c, v), c, w) = Put(f, c, w)
  BY DEF Put
<1>3. ASSUME NEW v PROVE Put(Without(f, c), c, v) = Put(f, c, v)
  <2>1. (DOMAIN f \ {c}) \cup {c} = DOMAIN f \cup {c}
    OBVIOUS
  <2> QED
    BY <2>1 DEF Put, Without, Restrict
<1>4. ASSUME NEW v, NEW w PROVE [Put(f, c, v) EXCEPT ![c] = w] = Put(f, c, w)
  BY DEF Put
<1> QED
  BY <1>1, <1>2, <1>3, <1>4

\* No constraint is on a column that is made again.
LEMMA RebuiltAreFree ==
  ASSUME Accepted, Faithful, NEW c \in Columns(declared), NewKind(c)
  PROVE  DropIn(ConstraintsLeft, c) = ConstraintsLeft
<1> DEFINE M == MovedIn(Renamed, recorded.constraints)
<1>1. ASSUME NEW k \in DOMAIN recorded.constraints PROVE c \notin M[k]
  <2>1. Entry(c) \notin recorded.constraints[k]
    BY AcceptedFacts DEF Rebuilds
  <2>2. Entry(c) = IF c \in Renamed THEN From(c) ELSE c
    BY EntryFacts
  <2>3. recorded.constraints[k] \subseteq Columns(recorded)
    BY DEF Faithful, Sound, Indexable
  <2>4. c \notin Moved(Renamed, recorded.constraints[k])
    BY <2>1, <2>2, <2>3, RenamedFacts DEF Moved
  <2> QED
    BY <2>4 DEF MovedIn
<1>2. DOMAIN M = DOMAIN recorded.constraints
  BY DEF MovedIn
<1> HIDE DEF M
<1>3. Untouched(Dropped \cup {c}, M) = Untouched(Dropped, M)
  BY <1>1, <1>2 DEF Untouched
<1>4. Cut(Dropped \cup {c}, M) = Cut(Dropped, M)
  BY <1>3 DEF Cut
<1> QED
  BY <1>4, CutCuts DEF ConstraintsLeft, M

\* A column between the statements for its kind and the one for its NOT NULL.
Between(c) ==
  [kind    |-> declared.columns[c].kind,
   notNull |-> IF NewKind(c) THEN FALSE ELSE recorded.columns[Entry(c)].notNull,
   row     |-> IF NewKind(c) THEN None ELSE Entry(c)]

LEMMA AlteredFacts ==
  ASSUME NEW X \in SUBSET Columns(declared), NEW c \in Columns(declared) \ X
  PROVE  /\ ColumnsAltered(X) = [x \in DOMAIN ColumnsAltered(X) |-> ColumnsAltered(X)[x]]
         /\ DOMAIN ColumnsAltered(X) = Existing \cup X
         /\ c \in Existing => ColumnsAltered(X)[c] = Held(Renamed, Entry(c))
         /\ Put(ColumnsAltered(X), c, Becomes(c)) = ColumnsAltered(X \cup {c})
         /\ IndexesLeft(X \cup {c}) = IF NewKind(c) THEN DropIn(IndexesLeft(X), c)
                                       ELSE IndexesLeft(X)
<1>1. /\ ColumnsAltered(X) = [x \in DOMAIN ColumnsAltered(X) |-> ColumnsAltered(X)[x]]
      /\ DOMAIN ColumnsAltered(X) = Existing \cup X
      /\ c \in Existing => ColumnsAltered(X)[c] = Held(Renamed, Entry(c))
  BY DEF ColumnsAltered
<1>2. Put(ColumnsAltered(X), c, Becomes(c)) = ColumnsAltered(X \cup {c})
  <2>1. Existing \cup (X \cup {c}) = (Existing \cup X) \cup {c}
    OBVIOUS
  <2>2. \A x \in (Existing \cup X) \cup {c} :
           (IF x = c THEN Becomes(c) ELSE ColumnsAltered(X)[x])
             = IF x \in X \cup {c} THEN Becomes(x) ELSE Held(Renamed, Entry(x))
    BY DEF ColumnsAltered
  <2>3. Put(ColumnsAltered(X), c, Becomes(c))
          = [x \in (Existing \cup X) \cup {c} |->
               IF x = c THEN Becomes(c) ELSE ColumnsAltered(X)[x]]
    BY <1>1 DEF Put
  <2> QED
    BY <2>1, <2>2, <2>3 DEF ColumnsAltered
<1>3. ASSUME NewKind(c) PROVE IndexesLeft(X \cup {c}) = DropIn(IndexesLeft(X), c)
  <2>1. Dropped \cup NewKinds(X \cup {c}) = (Dropped \cup NewKinds(X)) \cup {c}
    BY <1>3 DEF NewKinds
  <2> QED
    BY <2>1, CutCuts DEF IndexesLeft
<1>4. ASSUME ~NewKind(c) PROVE IndexesLeft(X \cup {c}) = IndexesLeft(X)
  <2>1. NewKinds(X \cup {c}) = NewKinds(X)
    BY <1>4 DEF NewKinds
  <2> QED
    BY <2>1 DEF IndexesLeft
<1>5. IndexesLeft(X \cup {c}) = IF NewKind(c) THEN DropIn(IndexesLeft(X), c)
                                         ELSE IndexesLeft(X)
  BY <1>3, <1>4
<1> QED
  BY <1>1, <1>2, <1>5

\* Those of X, and no others, come before c.
InTurn(X, c) == /\ \A b : Precedes(b, c) => b \in X
                /\ \A b \in X : ~Precedes(c, b)

\* A column that c is computed from is there and plain when it is c's turn.
LEMMA UsedAreReady ==
  ASSUME TableInv, Accepted, Faithful, NEW X \in SUBSET Columns(declared),
         NEW c \in Columns(declared) \ X, InTurn(X, c)
  PROVE  declared.columns[c].kind.uses \subseteq PlainIn(ColumnsAltered(X)) \ {c}
<1> SUFFICES ASSUME NEW b \in declared.columns[c].kind.uses
             PROVE  b \in PlainIn(ColumnsAltered(X)) \ {c}
  OBVIOUS
<1>1. b \in Columns(declared) /\ declared.columns[b].kind = Plain
  BY AcceptedFacts DEF Sound, Usable
<1>2. b # c
  BY <1>1 DEF Plain
<1>3. CASE b \in X
  <2>1. ColumnsAltered(X)[b] = Becomes(b) /\ b \in DOMAIN ColumnsAltered(X)
    BY <1>3 DEF ColumnsAltered
  <2>2. Becomes(b).kind = Plain
    BY <1>1 DEF Becomes
  <2> QED
    BY <1>2, <2>1, <2>2 DEF PlainIn
<1>4. CASE b \notin X
  <2>1. Entry(b) \in Usable(recorded)
    BY <1>1, <1>4, AcceptedFacts DEF Hastens, InTurn
  <2>2. b \in Existing /\ recorded.columns[Entry(b)].kind = Plain
    BY <1>1, <2>1 DEF Usable, Existing
  <2>3. ColumnsAltered(X)[b] = Held(Renamed, Entry(b)) /\ b \in DOMAIN ColumnsAltered(X)
    BY <1>4, <2>2 DEF ColumnsAltered
  <2>4. KindHeld(Renamed, Plain) = Plain
    BY DEF KindHeld, Plain, Moved
  <2>5. Held(Renamed, Entry(b)).kind = Plain
    BY <2>2, <2>4 DEF Held
  <2> QED
    BY <1>2, <2>3, <2>5 DEF PlainIn
<1> QED
  BY <1>3, <1>4

\* No column is computed from one that is made again when it is its turn.
LEMMA RebuiltAreUnused ==
  ASSUME TableInv, Accepted, Faithful, NEW X \in SUBSET Columns(declared),
         NEW c \in Columns(declared) \ X, InTurn(X, c), NewKind(c),
         NEW x \in DOMAIN ColumnsAltered(X)
  PROVE  c \notin ColumnsAltered(X)[x].kind.uses
<1>1. CASE x \in X
  <2>1. ColumnsAltered(X)[x].kind = declared.columns[x].kind
    BY <1>1 DEF ColumnsAltered, Becomes
  <2> SUFFICES ASSUME c \in declared.columns[x].kind.uses PROVE FALSE
    BY <2>1
  <2>2. declared.columns[c].kind = Plain
    BY <1>1, AcceptedFacts DEF Sound, Usable
  <2>3. Entry(c) \in Columns(recorded) /\ recorded.columns[Entry(c)].kind # Plain
    BY <2>2 DEF NewKind
  <2>4. Precedes(c, x)
    BY <1>1, <2>3, AcceptedFacts DEF Hastens, Usable
  <2> QED
    BY <1>1, <2>4 DEF InTurn
<1>2. CASE x \notin X
  <2>1. x \in Existing /\ x \in Columns(declared) /\ Entry(x) \in Columns(recorded)
    BY <1>2 DEF ColumnsAltered, Existing
  <2> DEFINE used == recorded.columns[Entry(x)].kind.uses
  <2>2. ColumnsAltered(X)[x].kind.uses = Moved(Renamed, used)
    BY <1>2, <2>1 DEF ColumnsAltered, Held, KindHeld
  <2>3. Entry(c) \notin used
    <3>1. ~Precedes(x, c)
      BY <1>2 DEF InTurn
    <3> QED
      BY <2>1, <3>1, AcceptedFacts DEF Undermines, Users
  <2>4. used \subseteq Columns(recorded)
    BY <2>1 DEF Faithful, Sound, Usable
  <2>5. Entry(c) = IF c \in Renamed THEN From(c) ELSE c
    BY EntryFacts
  <2> HIDE DEF used
  <2>6. c \notin Moved(Renamed, used)
    BY <2>3, <2>4, <2>5, RenamedFacts DEF Moved
  <2> QED
    BY <2>2, <2>6
<1> QED
  BY <1>1, <1>2

\* Declared columns have their new names.
LEMMA DeclaredAreMoved ==
  ASSUME Accepted, NEW cols, cols \subseteq Columns(declared)
  PROVE  Moved(Renamed, cols) = cols
<1>1. cols \cap OldNames = {}
  BY EntryFacts
<1>2. OldOf(Renamed) = OldNames /\ \A d \in Renamed : From(d) \in OldNames
  BY RenamedFacts DEF OldOf, OldNames
<1> QED
  BY <1>1, <1>2 DEF Moved

LEMMA LeadsByOneTo ==
  ASSUME NEW t, NEW op, NEW u, Sensible(t, op), Effect(t, op) = u
  PROVE  Leads(t, <<op>>, u)
BY LeadsByOne

LEMMA LeadsByTwo ==
  ASSUME NEW t, NEW a, NEW u, NEW b, NEW v,
         Sensible(t, a), Effect(t, a) = u, Sensible(u, b), Effect(u, b) = v
  PROVE  Leads(t, <<a, b>>, v)
<1>1. Leads(t, <<a>>, u) /\ Leads(u, <<b>>, v)
  BY LeadsByOneTo
<1>2. Leads(t, <<a>> \o <<b>>, v)
  BY <1>1, LeadsOn
<1>3. <<a>> \o <<b>> = <<a, b>>
  <2> DEFINE s == <<a>> \o <<b>>
  <2>1. IsSeq(<<a>>) /\ Len(<<a>>) = 1 /\ <<a>>[1] = a /\ IsSeq(<<b>>) /\ Len(<<b>>) = 1 /\ <<b>>[1] = b
    BY EmptyAndOne
  <2>2. IsSeq(s) /\ Len(s) = 2 /\ s[1] = a /\ s[2] = b
    BY <2>1, Concatenation
  <2> HIDE DEF s
  <2>3. s = [n \in 1 .. 2 |-> s[n]]
    BY <2>2 DEF IsSeq
  <2>4. <<a, b>> = [n \in 1 .. 2 |-> IF n = 1 THEN a ELSE b]
    OBVIOUS
  <2>5. ASSUME NEW n \in 1 .. 2
        PROVE  s[n] = IF n = 1 THEN a ELSE b
    BY <2>2
  <2>6. s = [n \in 1 .. 2 |-> IF n = 1 THEN a ELSE b]
    BY <2>3, <2>5
  <2> QED
    BY <2>4, <2>6 DEF s
<1> QED
  BY <1>2, <1>3

\* The four ways to alter a column c of a table with columns f.
LEMMA AlterLeads ==
  ASSUME NEW f, NEW g, NEW h, NEW c, NEW e, NEW op, NEW new, f = [x \in DOMAIN f |-> f[x]],
         c \in DOMAIN f, new = [f EXCEPT ![c] = e],
         Sensible(Parts(f, g, h), op), Effect(Parts(f, g, h), op) = Parts(new, g, h)
  PROVE  Leads(Parts(f, g, h), <<op>>, Parts(Put(f, c, e), g, h))
<1>1. Put(f, c, f[c]) = f
  BY PutFacts
<1>2. \A v, w : [Put(f, c, v) EXCEPT ![c] = w] = Put(f, c, w)
  BY PutFacts
<1>3. new = Put(f, c, e)
  BY <1>1, <1>2
<1> QED
  BY <1>3, LeadsByOneTo

LEMMA SetExpressionLeads ==
  ASSUME NEW f, NEW g, NEW h, NEW c, NEW e, NEW uses, c \in DOMAIN f, f[c].kind # Plain,
         uses \subseteq PlainIn(f), e = [f[c] EXCEPT !.kind.uses = uses],
         f = [x \in DOMAIN f |-> f[x]]
  PROVE  Leads(Parts(f, g, h), <<SetExprOp(c, uses)>>, Parts(Put(f, c, e), g, h))
<1> DEFINE new == [f EXCEPT ![c].kind.uses = uses]
           op == SetExprOp(c, uses)
<1>1. new = [f EXCEPT ![c] = e]
  OBVIOUS
<1>2. Sensible(Parts(f, g, h), op) /\ Effect(Parts(f, g, h), op) = Parts(new, g, h)
  BY SetExpression
<1> HIDE DEF new, op
<1>3. Leads(Parts(f, g, h), <<op>>, Parts(Put(f, c, e), g, h))
  BY <1>1, <1>2, AlterLeads
<1> QED
  BY <1>3 DEF op

LEMMA DropExpressionLeads ==
  ASSUME NEW f, NEW g, NEW h, NEW c, NEW e, c \in DOMAIN f, f[c].kind.is # "virtual",
         e = [f[c] EXCEPT !.kind = Plain], f = [x \in DOMAIN f |-> f[x]]
  PROVE  Leads(Parts(f, g, h), <<DropExprOp(c)>>, Parts(Put(f, c, e), g, h))
<1> DEFINE new == [f EXCEPT ![c].kind = Plain]
           op == DropExprOp(c)
<1>1. new = [f EXCEPT ![c] = e]
  OBVIOUS
<1>2. Sensible(Parts(f, g, h), op) /\ Effect(Parts(f, g, h), op) = Parts(new, g, h)
  BY DropExpression
<1> HIDE DEF new, op
<1>3. Leads(Parts(f, g, h), <<op>>, Parts(Put(f, c, e), g, h))
  BY <1>1, <1>2, AlterLeads
<1> QED
  BY <1>3 DEF op

LEMMA RebuildLeads ==
  ASSUME NEW f, NEW g, NEW h, NEW c, NEW kind, c \in DOMAIN f, f = [x \in DOMAIN f |-> f[x]],
         \A x \in DOMAIN f : c \notin f[x].kind.uses, kind.uses \subseteq PlainIn(f) \ {c}
  PROVE  Leads(Parts(f, g, h), <<DropColumnOp(c), AddColumnOp(c, kind, FALSE)>>,
               Parts(Put(f, c, [kind |-> kind, notNull |-> FALSE, row |-> None]),
                     DropIn(g, c), DropIn(h, c)))
<1> DEFINE rest == Without(f, c)
           g1 == DropIn(g, c)
           h1 == DropIn(h, c)
           e == [kind |-> kind, notNull |-> FALSE, row |-> None]
           t == Parts(f, g, h)
           u == Parts(rest, g1, h1)
           v == Parts(Put(f, c, e), g1, h1)
           a == DropColumnOp(c)
           b == AddColumnOp(c, kind, FALSE)
<1>1. Sensible(t, a) /\ Effect(t, a) = u
  BY DropOfColumn
<1>2. c \notin DOMAIN rest /\ kind.uses \subseteq PlainIn(rest)
  BY DEF Without, Restrict, PlainIn
<1>3. \A x, y : Put(Without(f, c), c, y) = Put(f, c, y)
  BY PutFacts
<1>4. Put(rest, c, e) = Put(f, c, e)
  BY <1>3
<1>5. Sensible(u, b) /\ Effect(u, b) = Parts(Put(rest, c, e), g1, h1)
  <2> DEFINE no == FALSE
  <2> HIDE DEF rest, g1, h1, no
  <2>1. /\ Sensible(Parts(rest, g1, h1), AddColumnOp(c, kind, no))
        /\ Effect(Parts(rest, g1, h1), AddColumnOp(c, kind, no))
             = Parts(Put(rest, c, [kind |-> kind, notNull |-> no, row |-> None]), g1, h1)
    BY <1>2, AddOfColumn
  <2> QED
    BY <2>1 DEF no
<1>6. Effect(u, b) = v
  BY <1>4, <1>5
<1> HIDE DEF rest, g1, h1, e, t, u, v, a, b
<1>7. Leads(t, <<a, b>>, v)
  BY <1>1, <1>5, <1>6, LeadsByTwo
<1> QED
  BY <1>7 DEF t, a, b, v, e, g1, h1

LEMMA SetNotNullLeads ==
  ASSUME NEW f, NEW g, NEW h, NEW c, NEW e, NEW new, NEW e2,
         f = [x \in DOMAIN f |-> f[x]], e2 = [e EXCEPT !.notNull = new]
  PROVE  Leads(Parts(Put(f, c, e), g, h), <<SetNotNullOp(c, new)>>, Parts(Put(f, c, e2), g, h))
<1> DEFINE p == Put(f, c, e)
           t == Parts(p, g, h)
           op == SetNotNullOp(c, new)
           u == Parts(Put(f, c, e2), g, h)
<1>1. c \in DOMAIN p /\ p[c] = e
  BY DEF Put
<1>2. \A v, w : [Put(f, c, v) EXCEPT ![c] = w] = Put(f, c, w)
  BY PutFacts
<1>3. [p EXCEPT ![c] = e2] = Put(f, c, e2)
  BY <1>2
<1>4. Sensible(t, op) /\ Effect(t, op) = Parts([p EXCEPT ![c].notNull = new], g, h)
  <2> HIDE DEF p
  <2> QED
    BY <1>1, SetNotNull
<1> HIDE DEF p
<1>5. [p EXCEPT ![c].notNull = new] = [p EXCEPT ![c] = [p[c] EXCEPT !.notNull = new]]
  OBVIOUS
<1>6. [p EXCEPT ![c].notNull = new] = [p EXCEPT ![c] = e2]
  BY <1>1, <1>5
<1>7. Effect(t, op) = u
  BY <1>3, <1>4, <1>6
<1> HIDE DEF t, op, u
<1>8. Leads(t, <<op>>, u)
  BY <1>4, <1>7, LeadsByOneTo
<1> QED
  BY <1>8 DEF t, op, u, p

LEMMA KindLeads ==
  ASSUME TableInv, Accepted, Faithful,
         NEW X \in SUBSET Columns(declared), NEW c \in Columns(declared) \ X, c \in Existing,
         InTurn(X, c)
  PROVE  Leads(AfterColumns(X), KindOps(c, recorded.columns[Entry(c)]),
               Parts(Put(ColumnsAltered(X), c, Between(c)), ConstraintsLeft, IndexesLeft(X \cup {c})))
<1> DEFINE f == ColumnsAltered(X)
           g == ConstraintsLeft
           h == IndexesLeft(X)
           old == recorded.columns[Entry(c)]
           kind == declared.columns[c].kind
           e == Between(c)
<1>1. /\ f = [x \in DOMAIN f |-> f[x]] /\ DOMAIN f = Existing \cup X /\ f[c] = Held(Renamed, Entry(c))
      /\ IndexesLeft(X \cup {c}) = IF NewKind(c) THEN DropIn(h, c) ELSE h
  BY AlteredFacts
<1>2. /\ NewKind(c) <=> kind.is # old.kind.is /\ ~(kind = Plain /\ old.kind.is = "stored")
      /\ c \in DOMAIN f
      /\ f[c] = [kind |-> KindHeld(Renamed, old.kind), notNull |-> old.notNull, row |-> Entry(c)]
      /\ KindHeld(Renamed, old.kind).is = old.kind.is
  BY <1>1 DEF NewKind, Existing, Held, KindHeld
<1>3. AfterColumns(X) = Parts(f, g, h)
  BY DEF AfterColumns
<1>4. Put(f, c, f[c]) = f
  BY <1>1, <1>2, PutFacts
<1>5. /\ NewKind(c) => DropIn(g, c) = g
      /\ NewKind(c) => \A x \in DOMAIN f : c \notin f[x].kind.uses
      /\ kind.uses \subseteq PlainIn(f) \ {c}
  BY RebuiltAreFree, RebuiltAreUnused, UsedAreReady
<1>9. kind \in Kind /\ old.kind \in Kind
  BY RecordedKinds DEF Existing
<1>10. /\ kind = [is |-> kind.is, uses |-> kind.uses] /\ (kind.is = "plain" <=> kind = Plain)
       /\ old.kind.is = "plain" <=> old.kind = Plain
  BY <1>9, KindFacts
<1>11. Moved(Renamed, kind.uses) = kind.uses
  <2>1. kind.uses \subseteq Columns(declared)
    BY AcceptedFacts DEF Sound, Usable
  <2> QED
    BY <2>1, DeclaredAreMoved
<1>12. /\ kind = old.kind => KindOps(c, old) = <<>>
       /\ kind # old.kind /\ kind.is = old.kind.is =>
            KindOps(c, old) = <<SetExprOp(c, kind.uses)>>
       /\ kind # old.kind /\ kind.is # old.kind.is /\ kind = Plain /\ old.kind.is = "stored" =>
            KindOps(c, old) = <<DropExprOp(c)>>
       /\ NewKind(c) => KindOps(c, old) = <<DropColumnOp(c), AddColumnOp(c, kind, FALSE)>>
  <2> DEFINE p == kind = old.kind
             q == kind # old.kind /\ kind.is = old.kind.is
             r == kind = Plain /\ old.kind.is = "stored"
             a == <<SetExprOp(c, kind.uses)>>
             b == <<DropExprOp(c)>>
             d == <<DropColumnOp(c), AddColumnOp(c, kind, FALSE)>>
  <2>1. KindOps(c, old) = CASE p -> <<>> [] q -> a [] r -> b [] OTHER -> d
    BY DEF KindOps, SetExprOp, DropExprOp
  <2>2. p => ~q /\ ~r
    BY DEF Plain
  <2>3. q => ~r
    BY DEF Plain
  <2>4. NewKind(c) <=> ~p /\ ~q /\ ~r
    BY <1>2
  <2>5. kind # old.kind /\ kind.is # old.kind.is => ~p /\ ~q
    OBVIOUS
  <2> HIDE DEF a, b, d
  <2>6. /\ p => KindOps(c, old) = <<>>
        /\ q => KindOps(c, old) = a
        /\ ~p /\ ~q /\ r => KindOps(c, old) = b
        /\ ~p /\ ~q /\ ~r => KindOps(c, old) = d
    BY <2>1, <2>2, <2>3
  <2> QED
    BY <2>4, <2>5, <2>6 DEF a, b, d
<1> HIDE DEF f, g, h, e
<1>6. CASE kind = old.kind
  <2>1. KindOps(c, old) = <<>> /\ ~NewKind(c)
    BY <1>2, <1>6, <1>12
  <2>2. e = f[c]
    <3>1. KindHeld(Renamed, old.kind) = kind
      BY <1>6, <1>10, <1>11 DEF KindHeld
    <3> QED
      BY <1>2, <2>1, <3>1 DEF Between, e
  <2>3. Leads(Parts(f, g, h), <<>>, Parts(f, g, h))
    BY LeadsNowhere
  <2> QED
    BY <1>1, <1>3, <1>4, <2>1, <2>2, <2>3 DEF f, g, e
<1>7. CASE kind # old.kind /\ kind.is = old.kind.is
  <2>1. KindOps(c, old) = <<SetExprOp(c, kind.uses)>> /\ ~NewKind(c)
    BY <1>2, <1>7, <1>12
  <2>2. f[c].kind # Plain
    BY <1>2, <1>7, <1>10 DEF Plain
  <2>3. e = [f[c] EXCEPT !.kind.uses = kind.uses]
    <3>1. [KindHeld(Renamed, old.kind) EXCEPT !.uses = kind.uses] = kind
      BY <1>7, <1>10 DEF KindHeld
    <3> QED
      BY <1>2, <2>1, <3>1 DEF Between, e
  <2> DEFINE uses == kind.uses
  <2>4. uses \subseteq PlainIn(f) /\ e = [f[c] EXCEPT !.kind.uses = uses]
    BY <1>5, <2>3
  <2> HIDE DEF uses
  <2>5. Leads(Parts(f, g, h), <<SetExprOp(c, uses)>>, Parts(Put(f, c, e), g, h))
    BY <1>1, <1>2, <2>2, <2>4, SetExpressionLeads
  <2> QED
    BY <1>1, <1>3, <2>1, <2>5 DEF f, g, e, uses
<1>8. CASE kind.is # old.kind.is /\ kind = Plain /\ old.kind.is = "stored"
  <2>1. KindOps(c, old) = <<DropExprOp(c)>> /\ ~NewKind(c)
    BY <1>2, <1>8, <1>12
  <2>2. f[c].kind.is # "virtual" /\ e = [f[c] EXCEPT !.kind = Plain]
    BY <1>2, <1>8, <2>1 DEF Between, e
  <2>3. Leads(Parts(f, g, h), <<DropExprOp(c)>>, Parts(Put(f, c, e), g, h))
    BY <1>1, <1>2, <2>2, DropExpressionLeads
  <2> QED
    BY <1>1, <1>3, <2>1, <2>3 DEF f, g, e
<1>13. CASE NewKind(c)
  <2>1. KindOps(c, old) = <<DropColumnOp(c), AddColumnOp(c, kind, FALSE)>>
    BY <1>13, <1>12
  <2>2. e = [kind |-> kind, notNull |-> FALSE, row |-> None]
    BY <1>13 DEF Between, e
  <2>3. Leads(Parts(f, g, h), <<DropColumnOp(c), AddColumnOp(c, kind, FALSE)>>,
              Parts(Put(f, c, [kind |-> kind, notNull |-> FALSE, row |-> None]),
                    DropIn(g, c), DropIn(h, c)))
    <3> HIDE DEF kind
    <3> QED
      BY <1>1, <1>2, <1>5, <1>13, RebuildLeads
  <2> QED
    BY <1>1, <1>3, <1>5, <1>13, <2>1, <2>2, <2>3 DEF f, g, e
<1> QED
  BY <1>2, <1>6, <1>7, <1>8, <1>13

LEMMA NotNullLeads ==
  ASSUME TableInv, Accepted, NEW c \in Existing, NEW f, f = [x \in DOMAIN f |-> f[x]],
         NEW g, NEW h
  PROVE  Leads(Parts(Put(f, c, Between(c)), g, h), NotNullOps(c, recorded.columns[Entry(c)]),
               Parts(Put(f, c, Becomes(c)), g, h))
<1> DEFINE old == recorded.columns[Entry(c)]
           new == declared.columns[c].notNull
           e1 == Between(c)
           e2 == Becomes(c)
<1>1. c \in Columns(declared) /\ Entry(c) \in Columns(recorded) /\ Continues(c) = Entry(c)
  BY EntryFacts DEF Existing
<1>2. new \in BOOLEAN /\ old.notNull \in BOOLEAN
  BY <1>1 DEF TableInv, IsTable, IsPart, Columns, Column, SnapColumn
<1>3. NewKind(c) => ~(new /\ old.notNull)
  BY <1>1, AcceptedFacts DEF Rebuilds
<1>4. CASE new = old.notNull
  <2>1. NotNullOps(c, old) = <<>>
    BY <1>4 DEF NotNullOps
  <2>2. (IF NewKind(c) THEN FALSE ELSE old.notNull) = new
    BY <1>2, <1>3, <1>4
  <2>3. e1 = e2
    BY <1>1, <2>2 DEF Between, Becomes
  <2> HIDE DEF e1, e2
  <2> QED
    BY <2>1, <2>3, LeadsNowhere DEF e1, e2
<1>5. CASE new # old.notNull
  <2>1. NotNullOps(c, old) = <<SetNotNullOp(c, new)>>
    BY <1>5 DEF NotNullOps, SetNotNullOp
  <2>2. e2 = [e1 EXCEPT !.notNull = new]
    BY <1>1 DEF Between, Becomes
  <2>3. Leads(Parts(Put(f, c, e1), g, h), <<SetNotNullOp(c, new)>>, Parts(Put(f, c, e2), g, h))
    <3> HIDE DEF e1, e2, new
    <3> QED
      BY <2>2, SetNotNullLeads
  <2> QED
    BY <2>1, <2>3
<1> QED
  BY <1>4, <1>5

\* The statements for a declared column.
OpsOfColumn(c) ==
  IF Entry(c) \in Columns(recorded)
  THEN KindOps(c, recorded.columns[Entry(c)]) \o NotNullOps(c, recorded.columns[Entry(c)])
  ELSE <<AddColumnOp(c, declared.columns[c].kind, declared.columns[c].notNull)>>

LEMMA ColumnLeads ==
  ASSUME TableInv, Accepted, Faithful,
         NEW X \in SUBSET Columns(declared), NEW c \in Columns(declared) \ X, InTurn(X, c)
  PROVE  Leads(AfterColumns(X), OpsOfColumn(c), AfterColumns(X \cup {c}))
<1> DEFINE f == ColumnsAltered(X)
           g == ConstraintsLeft
           h == IndexesLeft(X \cup {c})
           old == recorded.columns[Entry(c)]
<1>1. /\ f = [x \in DOMAIN f |-> f[x]] /\ DOMAIN f = Existing \cup X
      /\ Put(f, c, Becomes(c)) = ColumnsAltered(X \cup {c})
      /\ h = IF NewKind(c) THEN DropIn(IndexesLeft(X), c) ELSE IndexesLeft(X)
  BY AlteredFacts
<1>2. AfterColumns(X \cup {c}) = Parts(Put(f, c, Becomes(c)), g, h)
  BY <1>1 DEF AfterColumns
<1>3. CASE c \in Existing
  <2>1. Leads(AfterColumns(X), KindOps(c, old), Parts(Put(f, c, Between(c)), g, h))
    BY <1>3, KindLeads
  <2> HIDE DEF f, g, h
  <2>2. Leads(Parts(Put(f, c, Between(c)), g, h), NotNullOps(c, old),
              Parts(Put(f, c, Becomes(c)), g, h))
    BY <1>1, <1>3, NotNullLeads
  <2>3. OpsOfColumn(c) = KindOps(c, old) \o NotNullOps(c, old)
    BY <1>3 DEF OpsOfColumn, Existing
  <2> QED
    BY <1>2, <2>1, <2>2, <2>3, LeadsOn
<1>4. CASE c \notin Existing
  <2>1. Entry(c) \notin Columns(recorded) /\ ~NewKind(c) /\ c \notin DOMAIN f
    BY <1>1, <1>4 DEF Existing, NewKind
  <2>2. Continues(c) = None
    BY <2>1, EntryFacts
  <2> DEFINE kind == declared.columns[c].kind
             notNull == declared.columns[c].notNull
             t == Parts(f, g, h)
             op == AddColumnOp(c, kind, notNull)
             u == Parts(Put(f, c, Becomes(c)), g, h)
  <2>3. Becomes(c) = [kind |-> kind, notNull |-> notNull, row |-> None]
    BY <2>1, <2>2 DEF Becomes
  <2>4. OpsOfColumn(c) = <<op>>
    BY <2>1 DEF OpsOfColumn
  <2>5. AfterColumns(X) = t
    BY <1>1, <2>1 DEF AfterColumns
  <2>8. kind.uses \subseteq PlainIn(f)
    BY UsedAreReady
  <2>6. Sensible(t, op) /\ Effect(t, op) = u
    <3> HIDE DEF f, g, h, kind, notNull
    <3>1. /\ Sensible(t, op)
          /\ Effect(t, op)
               = Parts(Put(f, c, [kind |-> kind, notNull |-> notNull, row |-> None]), g, h)
      BY <2>1, <2>8, AddOfColumn
    <3> QED
      BY <2>3, <3>1
  <2> HIDE DEF t, op, u
  <2>7. Leads(t, <<op>>, u)
    BY <2>6, LeadsByOneTo
  <2> QED
    BY <1>2, <2>4, <2>5, <2>7 DEF u
<1> QED
  BY <1>3, <1>4

\* diffColumns comes to the columns in the order of Precedes.
LEMMA Turns ==
  ASSUME TableInv, NEW n \in 1 .. Cardinality(Columns(declared))
  PROVE  InTurn(First(Columns(declared), n - 1), SetToSeq(Columns(declared))[n])
<1> DEFINE C == Columns(declared)
           N == Cardinality(C)
           q == SetToSeq(C)
           X == First(C, n - 1)
<1>1. /\ N \in Nat /\ q \in [1 .. N -> C]
      /\ \A i, j \in 1 .. N : q[i] = q[j] => i = j
  BY FinitePlans, SetToSeqFacts
<1>2. /\ X = {q[j] : j \in 1 .. n - 1}
      /\ \A b, c : Precedes(b, c) <=> \E i \in DOMAIN q : \E j \in 1 .. i - 1 : q[j] = b /\ q[i] = c
  BY DEF First, Precedes
<1> HIDE DEF C, N, q, X
<1>3. n \in 1 .. N
  BY DEF N, C
<1>4. \A b : Precedes(b, q[n]) => b \in X
  BY <1>1, <1>2, <1>3
<1>5. ASSUME NEW b \in X, Precedes(q[n], b) PROVE FALSE
  <2>1. PICK j \in 1 .. n - 1 : b = q[j]
    BY <1>2
  <2>2. PICK i \in 1 .. N : \E k \in 1 .. i - 1 : q[k] = q[n] /\ q[i] = b
    BY <1>1, <1>2, <1>5
  <2>5. PICK k \in 1 .. i - 1 : q[k] = q[n] /\ q[i] = b
    BY <2>2
  <2>3. j \in 1 .. N /\ k \in 1 .. N
    BY <1>1, <1>3, <2>5
  <2>4. i = j /\ k = n
    BY <1>1, <1>3, <2>1, <2>3, <2>5
  <2> QED
    BY <1>1, <1>3, <2>1, <2>4, <2>5
<1>6. InTurn(X, q[n])
  BY <1>4, <1>5 DEF InTurn
<1> QED
  BY <1>6 DEF X, q, C

LEMMA ColumnOpsLead ==
  ASSUME TableInv, Accepted, Faithful
  PROVE  Leads(Before, ColumnOps, AfterColumns(Columns(declared)))
<1> DEFINE C == Columns(declared)
           ops == [c \in C |-> OpsOfColumn(c)]
           T == [X \in SUBSET C |-> AfterColumns(X)]
           n == Cardinality(C)
           renames == SetToSeq({[do |-> "rename column", col |-> From(c), to |-> c] : c \in Renamed})
           drops == SetToSeq({DropColumnOp(c) : c \in Dropped})
           others == FlattenSeq([m \in 1 .. n |-> ops[SetToSeq(C)[m]]])
<1>1. IsFiniteSet(C)
  BY FinitePlans
<1>2. \A m \in 1 .. n : Leads(T[First(C, m - 1)], ops[SetToSeq(C)[m]], T[First(C, m)])
  <2>1. ASSUME NEW m \in 1 .. n
        PROVE  Leads(T[First(C, m - 1)], ops[SetToSeq(C)[m]], T[First(C, m)])
    <3> DEFINE X == First(C, m - 1)
               c == SetToSeq(C)[m]
    <3>1. X \in SUBSET C /\ c \in C \ X /\ First(C, m) = X \cup {c}
      BY <1>1, FirstFacts
    <3>2. InTurn(X, c)
      BY Turns
    <3> HIDE DEF X, c
    <3>3. Leads(AfterColumns(X), OpsOfColumn(c), AfterColumns(X \cup {c}))
      BY <3>1, <3>2, ColumnLeads
    <3>4. T[X] = AfterColumns(X) /\ T[X \cup {c}] = AfterColumns(X \cup {c})
      BY <3>1
    <3>5. ops[c] = OpsOfColumn(c)
      BY <3>1
    <3> HIDE DEF T, ops
    <3> QED
      BY <3>1, <3>3, <3>4, <3>5 DEF X, c
  <2> QED
    BY <2>1
<1>3. Leads(T[{}], others, T[C])
  <2> HIDE DEF C, T, ops
  <2> QED
    BY <1>1, <1>2, LeadsInTurn
<1>4. T[{}] = AfterColumns({}) /\ T[C] = AfterColumns(C)
  OBVIOUS
<1>5. ColumnOps = renames \o drops \o others
  <2> DEFINE alter(c) == LET old == recorded.columns[Entry(c)]
                         IN  KindOps(c, old) \o NotNullOps(c, old)
             columnOps(c) ==
               IF Entry(c) \in Columns(recorded) THEN alter(c)
               ELSE <<AddColumnOp(c, declared.columns[c].kind, declared.columns[c].notNull)>>
             last == [m \in 1 .. n |-> columnOps(SetToSeq(C)[m])]
  <2>1. ColumnOps = renames \o drops \o FlattenSeq(last)
    BY DEF ColumnOps
  <2>2. \A m \in 1 .. n : SetToSeq(C)[m] \in C
    BY <1>1, SetToSeqFacts
  <2>3. ASSUME NEW m \in 1 .. n
        PROVE  columnOps(SetToSeq(C)[m]) = ops[SetToSeq(C)[m]]
    <3> DEFINE c == SetToSeq(C)[m]
    <3>1. c \in C
      BY <2>2
    <3> HIDE DEF c, C
    <3>2. ops[c] = OpsOfColumn(c)
      BY <3>1
    <3>3. columnOps(c) = OpsOfColumn(c)
      BY DEF OpsOfColumn
    <3> QED
      BY <3>2, <3>3 DEF c
  <2> HIDE DEF columnOps, ops
  <2>4. last = [m \in 1 .. n |-> ops[SetToSeq(C)[m]]]
    BY <2>3
  <2> HIDE DEF last, renames, drops
  <2> QED
    BY <2>1, <2>4
<1> HIDE DEF renames, drops, others, T
<1>6. Leads(Before, renames, AfterRenames(Renamed))
  BY RenamesLead, BeforeRenames DEF renames
<1>7. Leads(AfterRenames(Renamed), drops, AfterColumns({}))
  BY DropsLead, DropsLeaveExisting DEF drops
<1>8. Leads(Before, renames \o drops, AfterColumns({}))
  BY <1>6, <1>7, LeadsOn
<1>9. Leads(AfterColumns({}), others, AfterColumns(C))
  BY <1>3, <1>4
<1>10. Leads(Before, (renames \o drops) \o others, AfterColumns(C))
  BY <1>8, <1>9, LeadsOn
<1> QED
  BY <1>5, <1>10

\* Function f without the entries of K.
Less(f, K) == [x \in DOMAIN f \ K |-> f[x]]

LEMMA LessOne ==
  ASSUME NEW f, NEW K, NEW x
  PROVE  Less(f, K \cup {x}) = Without(Less(f, K), x)
<1>1. DOMAIN f \ (K \cup {x}) = (DOMAIN f \ K) \ {x}
  OBVIOUS
<1> QED
  BY <1>1 DEF Less, Without, Restrict

\* The entries that declared has under K.
Taken(f, K) == [k \in K |-> f[k]]

LEMMA TakenOne ==
  ASSUME NEW f, NEW K, NEW x, x \notin K
  PROVE  Taken(f, K \cup {x}) = Put(Taken(f, K), x, f[x])
BY DEF Taken, Put

LEMMA ConstraintDropsLead ==
  ASSUME NEW f, NEW g, NEW h, NEW K, IsFiniteSet(K), K \subseteq DOMAIN g,
         g = [x \in DOMAIN g |-> g[x]]
  PROVE  Leads(Parts(f, g, h), SetToSeq({ConstraintDrop(k) : k \in K}),
               Parts(f, Less(g, K), h))
<1> DEFINE op == [k \in K |-> ConstraintDrop(k)]
           T == [V \in SUBSET K |-> Parts(f, Less(g, V), h)]
           S == {ConstraintDrop(k) : k \in K}
<1>1. \A k, l \in K : op[k] = op[l] => k = l
  BY DEF ConstraintDrop
<1>2. \A V \in SUBSET K : \A k \in K \ V :
         Sensible(T[V], op[k]) /\ T[V \cup {k}] = Effect(T[V], op[k])
  <2>1. ASSUME NEW V \in SUBSET K, NEW k \in K \ V
        PROVE  Sensible(T[V], op[k]) /\ T[V \cup {k}] = Effect(T[V], op[k])
    <3> DEFINE rest == Less(g, V)
    <3>1. k \in DOMAIN rest
      BY DEF Less
    <3>2. Less(g, V \cup {k}) = Without(rest, k)
      BY LessOne
    <3>3. T[V] = Parts(f, rest, h) /\ T[V \cup {k}] = Parts(f, Less(g, V \cup {k}), h)
      OBVIOUS
    <3>4. op[k] = ConstraintDrop(k)
      OBVIOUS
    <3> HIDE DEF rest, T, op
    <3>5. /\ Sensible(Parts(f, rest, h), ConstraintDrop(k))
          /\ Effect(Parts(f, rest, h), ConstraintDrop(k)) = Parts(f, Without(rest, k), h)
      BY <3>1, DropOfConstraint
    <3> QED
      BY <3>2, <3>3, <3>4, <3>5
  <2> QED
    BY <2>1
<1>3. S = {op[k] : k \in K}
  OBVIOUS
<1>4. T[{}] = Parts(f, g, h) /\ T[K] = Parts(f, Less(g, K), h)
  BY DEF Less
<1> HIDE DEF op, T, S
<1>5. Leads(T[{}], SetToSeq(S), T[K])
  BY <1>1, <1>2, <1>3, LeadsByEach
<1> QED
  BY <1>4, <1>5 DEF S

LEMMA ConstraintAddsLead ==
  ASSUME NEW f, NEW h, NEW J, NEW K, IsFiniteSet(K), J \cap K = {},
         \A k \in K : declared.constraints[k] \subseteq IndexableIn(f)
  PROVE  Leads(Parts(f, Taken(declared.constraints, J), h),
               SetToSeq({ConstraintAdd(k) : k \in K}),
               Parts(f, Taken(declared.constraints, J \cup K), h))
<1> DEFINE op == [k \in K |-> ConstraintAdd(k)]
           all == declared.constraints
           T == [V \in SUBSET K |-> Parts(f, Taken(all, J \cup V), h)]
           S == {ConstraintAdd(k) : k \in K}
<1>1. \A k, l \in K : op[k] = op[l] => k = l
  BY DEF ConstraintAdd
<1>2. \A V \in SUBSET K : \A k \in K \ V :
         Sensible(T[V], op[k]) /\ T[V \cup {k}] = Effect(T[V], op[k])
  <2>1. ASSUME NEW V \in SUBSET K, NEW k \in K \ V
        PROVE  Sensible(T[V], op[k]) /\ T[V \cup {k}] = Effect(T[V], op[k])
    <3> DEFINE g == Taken(all, J \cup V)
    <3>1. k \notin DOMAIN g
      BY DEF Taken
    <3>2. Taken(all, J \cup (V \cup {k})) = Put(g, k, all[k])
      <4>1. J \cup (V \cup {k}) = (J \cup V) \cup {k} /\ k \notin J \cup V
        OBVIOUS
      <4> QED
        BY <4>1, TakenOne
    <3>3. T[V] = Parts(f, g, h) /\ T[V \cup {k}] = Parts(f, Taken(all, J \cup (V \cup {k})), h)
      OBVIOUS
    <3>4. op[k] = ConstraintAdd(k)
      OBVIOUS
    <3> HIDE DEF g, T, op
    <3>5. /\ Sensible(Parts(f, g, h), ConstraintAdd(k))
          /\ Effect(Parts(f, g, h), ConstraintAdd(k)) = Parts(f, Put(g, k, all[k]), h)
      BY <3>1, AddOfConstraint
    <3> QED
      BY <3>2, <3>3, <3>4, <3>5
  <2> QED
    BY <2>1
<1>3. S = {op[k] : k \in K}
  OBVIOUS
<1>4. J \cup {} = J /\ T[{}] = Parts(f, Taken(all, J \cup {}), h)
      /\ T[K] = Parts(f, Taken(all, J \cup K), h)
  OBVIOUS
<1> HIDE DEF op, T, S
<1>5. Leads(T[{}], SetToSeq(S), T[K])
  BY <1>1, <1>2, <1>3, LeadsByEach
<1> QED
  BY <1>4, <1>5 DEF S

LEMMA IndexDropsLead ==
  ASSUME NEW f, NEW g, NEW h, NEW K, IsFiniteSet(K), h = [x \in DOMAIN h |-> h[x]],
         OnSearchPath \/ K \cap DOMAIN h = {}
  PROVE  Leads(Parts(f, g, h), SetToSeq({IndexDrop(i) : i \in K}), Parts(f, g, Less(h, K)))
<1> DEFINE op == [i \in K |-> IndexDrop(i)]
           T == [V \in SUBSET K |-> Parts(f, g, Less(h, V))]
           S == {IndexDrop(i) : i \in K}
<1>1. \A i, j \in K : op[i] = op[j] => i = j
  BY DEF IndexDrop
<1>2. \A V \in SUBSET K : \A i \in K \ V :
         Sensible(T[V], op[i]) /\ T[V \cup {i}] = Effect(T[V], op[i])
  <2>1. ASSUME NEW V \in SUBSET K, NEW i \in K \ V
        PROVE  Sensible(T[V], op[i]) /\ T[V \cup {i}] = Effect(T[V], op[i])
    <3> DEFINE rest == Less(h, V)
    <3>1. Less(h, V \cup {i}) = Without(rest, i)
      BY LessOne
    <3>2. T[V] = Parts(f, g, rest) /\ T[V \cup {i}] = Parts(f, g, Less(h, V \cup {i}))
      OBVIOUS
    <3>3. op[i] = IndexDrop(i)
      OBVIOUS
    <3>5. rest = [x \in DOMAIN rest |-> rest[x]] /\ (OnSearchPath \/ i \notin DOMAIN rest)
      BY DEF Less
    <3> HIDE DEF rest, T, op
    <3>4. /\ Sensible(Parts(f, g, rest), IndexDrop(i))
          /\ Effect(Parts(f, g, rest), IndexDrop(i)) = Parts(f, g, Without(rest, i))
      BY <3>5, DropOfIndex
    <3> QED
      BY <3>1, <3>2, <3>3, <3>4
  <2> QED
    BY <2>1
<1>3. S = {op[i] : i \in K}
  OBVIOUS
<1>4. T[{}] = Parts(f, g, h) /\ T[K] = Parts(f, g, Less(h, K))
  BY DEF Less
<1> HIDE DEF op, T, S
<1>5. Leads(T[{}], SetToSeq(S), T[K])
  BY <1>1, <1>2, <1>3, LeadsByEach
<1> QED
  BY <1>4, <1>5 DEF S

LEMMA IndexCreatesLead ==
  ASSUME NEW f, NEW g, NEW J, NEW K, IsFiniteSet(K), J \cap K = {},
         \A i \in K : declared.indexes[i] \subseteq IndexableIn(f)
  PROVE  Leads(Parts(f, g, Taken(declared.indexes, J)),
               SetToSeq({IndexCreate(i) : i \in K}),
               Parts(f, g, Taken(declared.indexes, J \cup K)))
<1> DEFINE op == [i \in K |-> IndexCreate(i)]
           all == declared.indexes
           T == [V \in SUBSET K |-> Parts(f, g, Taken(all, J \cup V))]
           S == {IndexCreate(i) : i \in K}
<1>1. \A i, j \in K : op[i] = op[j] => i = j
  BY DEF IndexCreate
<1>2. \A V \in SUBSET K : \A i \in K \ V :
         Sensible(T[V], op[i]) /\ T[V \cup {i}] = Effect(T[V], op[i])
  <2>1. ASSUME NEW V \in SUBSET K, NEW i \in K \ V
        PROVE  Sensible(T[V], op[i]) /\ T[V \cup {i}] = Effect(T[V], op[i])
    <3> DEFINE h == Taken(all, J \cup V)
    <3>1. i \notin DOMAIN h
      BY DEF Taken
    <3>2. Taken(all, J \cup (V \cup {i})) = Put(h, i, all[i])
      <4>1. J \cup (V \cup {i}) = (J \cup V) \cup {i} /\ i \notin J \cup V
        OBVIOUS
      <4> QED
        BY <4>1, TakenOne
    <3>3. T[V] = Parts(f, g, h) /\ T[V \cup {i}] = Parts(f, g, Taken(all, J \cup (V \cup {i})))
      OBVIOUS
    <3>4. op[i] = IndexCreate(i)
      OBVIOUS
    <3> HIDE DEF h, T, op
    <3>5. /\ Sensible(Parts(f, g, h), IndexCreate(i))
          /\ Effect(Parts(f, g, h), IndexCreate(i)) = Parts(f, g, Put(h, i, all[i]))
      BY <3>1, CreationOfIndex
    <3> QED
      BY <3>2, <3>3, <3>4, <3>5
  <2> QED
    BY <2>1
<1>3. S = {op[i] : i \in K}
  OBVIOUS
<1>4. J \cup {} = J /\ T[{}] = Parts(f, g, Taken(all, J \cup {}))
      /\ T[K] = Parts(f, g, Taken(all, J \cup K))
  OBVIOUS
<1> HIDE DEF op, T, S
<1>5. Leads(T[{}], SetToSeq(S), T[K])
  BY <1>1, <1>2, <1>3, LeadsByEach
<1> QED
  BY <1>4, <1>5 DEF S

\* The table once the statements for its columns and its constraints have run.
AfterConstraints ==
  Parts(ColumnsAltered(Columns(declared)), declared.constraints,
        IndexesLeft(Columns(declared)))

LEMMA ColumnsMade ==
  ASSUME Accepted
  PROVE  /\ ColumnsAltered(Columns(declared)) = [c \in Columns(declared) |-> Becomes(c)]
         /\ DOMAIN ColumnsAltered(Columns(declared)) = Columns(declared)
         /\ IndexableIn(ColumnsAltered(Columns(declared))) = Indexable(declared)
<1>1. Existing \cup Columns(declared) = Columns(declared)
  BY DEF Existing
<1>2. /\ ColumnsAltered(Columns(declared)) = [c \in Columns(declared) |-> Becomes(c)]
      /\ DOMAIN ColumnsAltered(Columns(declared)) = Columns(declared)
  BY <1>1 DEF ColumnsAltered
<1>3. \A c \in Columns(declared) : Becomes(c).kind = declared.columns[c].kind
  BY DEF Becomes
<1> QED
  BY <1>2, <1>3 DEF IndexableIn, Indexable

\* No constraint is on a dropped column, and those that stay are as declared.
LEMMA ConstraintOpsLead ==
  ASSUME TableInv, Accepted
  PROVE  Leads(AfterColumns(Columns(declared)), ConstraintOps, AfterConstraints)
<1> DEFINE f == ColumnsAltered(Columns(declared))
           g == ConstraintsLeft
           h == IndexesLeft(Columns(declared))
           R == DOMAIN recorded.constraints
           D == DOMAIN declared.constraints
           gone == {k \in R \ D : recorded.constraints[k] \cap Dropped = {}}
           new == D \ R
<1>1. /\ DOMAIN g = {k \in R : recorded.constraints[k] \cap Dropped = {}}
      /\ \A k \in DOMAIN g : g[k] = Moved(Renamed, recorded.constraints[k])
      /\ g = [k \in DOMAIN g |-> g[k]]
  BY MovedFacts DEF ConstraintsLeft, Cut, Untouched, MovedIn
<1>2. \A k \in D \cap R : declared.constraints[k] = Moved(Renamed, recorded.constraints[k])
  BY AcceptedFacts, MovedFacts DEF Redefines
<1>0. \A k \in D : declared.constraints[k] \subseteq Indexable(declared)
  BY AcceptedFacts DEF Sound
<1>3. \A k \in D : declared.constraints[k] \subseteq Columns(declared)
  BY <1>0 DEF Indexable
<1>4. Dropped \cap Columns(declared) = {}
  BY DEF Dropped
<1>5. \A k \in D \cap R : recorded.constraints[k] \cap Dropped = {}
  BY <1>2, <1>3, <1>4, MovedFacts
<1>6. IsFiniteSet(gone) /\ IsFiniteSet(new)
  <2>1. gone \in SUBSET R /\ new \in SUBSET D /\ IsFiniteSet(R) /\ IsFiniteSet(D)
    BY FinitePlans
  <2> QED
    BY <2>1, FS_Subset
<1>7. IndexableIn(f) = Indexable(declared)
  BY ColumnsMade
<1>8. Less(g, gone) = Taken(declared.constraints, D \cap R)
  <2>1. DOMAIN g \ gone = D \cap R
    BY <1>1, <1>5
  <2>2. \A k \in D \cap R : g[k] = declared.constraints[k]
    BY <1>1, <1>2, <2>1
  <2> HIDE DEF g, gone, D, R
  <2> QED
    BY <2>1, <2>2 DEF Less, Taken
<1>9. Taken(declared.constraints, (D \cap R) \cup new) = declared.constraints
  <2>1. (D \cap R) \cup new = D
    OBVIOUS
  <2>2. declared.constraints = [k \in D |-> declared.constraints[k]]
    BY DEF TableInv, IsTable, IsPart
  <2> QED
    BY <2>1, <2>2 DEF Taken
<1>10. ConstraintOps = SetToSeq({ConstraintDrop(k) : k \in gone})
                       \o SetToSeq({ConstraintAdd(k) : k \in new})
  BY DEF ConstraintOps
<1>11. (D \cap R) \cap new = {} /\ gone \subseteq DOMAIN g /\ new \subseteq D
  BY <1>1
<1>12. AfterColumns(Columns(declared)) = Parts(f, g, h)
  BY DEF AfterColumns
<1>13. AfterConstraints = Parts(f, declared.constraints, h)
  BY DEF AfterConstraints
<1> DEFINE J == D \cap R
<1> HIDE DEF f, g, h, gone, new, J, R
<1>14. Leads(Parts(f, g, h), SetToSeq({ConstraintDrop(k) : k \in gone}),
             Parts(f, Less(g, gone), h))
  BY <1>1, <1>6, <1>11, ConstraintDropsLead
<1>15. Leads(Parts(f, Taken(declared.constraints, J), h),
             SetToSeq({ConstraintAdd(k) : k \in new}),
             Parts(f, Taken(declared.constraints, J \cup new), h))
  <2>1. J \cap new = {}
    BY <1>11 DEF J
  <2>2. \A k \in new : declared.constraints[k] \subseteq IndexableIn(f)
    BY <1>0, <1>7, <1>11
  <2> QED
    BY <1>6, <2>1, <2>2, ConstraintAddsLead
<1> QED
  BY <1>8, <1>9, <1>10, <1>12, <1>13, <1>14, <1>15, LeadsOn DEF J

\* The table the sources declare.
Made == Parts([c \in Columns(declared) |-> Becomes(c)], declared.constraints, declared.indexes)

\* An index that stays is as declared, and on no column that was dropped or made again.
LEMMA IndexOpsLead ==
  ASSUME TableInv, Accepted
  PROVE  Leads(AfterConstraints, IndexOps, Made)
<1> DEFINE f == ColumnsAltered(Columns(declared))
           g == declared.constraints
           h == IndexesLeft(Columns(declared))
           R == DOMAIN recorded.indexes
           D == DOMAIN declared.indexes
           gone == {i \in R \ D : Translated(recorded.indexes[i]) \cap Dropped = {}}
           new == D \ R
           redefined == {i \in D \cap R : Translated(recorded.indexes[i]) # declared.indexes[i]}
           made == new \cup redefined
           J == (D \cap R) \ redefined
           W == Dropped \cup NewKinds(Columns(declared))
<1>1. /\ DOMAIN h = {i \in R : Translated(recorded.indexes[i]) \cap W = {}}
      /\ \A i \in DOMAIN h : h[i] = Translated(recorded.indexes[i])
      /\ h = [i \in DOMAIN h |-> h[i]]
  BY MovedFacts DEF IndexesLeft, Cut, Untouched, MovedIn
<1>0. \A i \in D : declared.indexes[i] \subseteq Indexable(declared)
  BY AcceptedFacts DEF Sound
<1>2. \A i \in D : declared.indexes[i] \subseteq Columns(declared)
  BY <1>0 DEF Indexable
<1>3. Dropped \cap Columns(declared) = {} /\ Dropped \subseteq W
  BY DEF Dropped
<1>4. \A i \in J : /\ Translated(recorded.indexes[i]) = declared.indexes[i]
                   /\ declared.indexes[i] \cap NewKinds(Columns(declared)) = {}
  BY AcceptedFacts DEF Rebuilds, NewKinds
<1>5. IsFiniteSet(gone) /\ IsFiniteSet(redefined) /\ IsFiniteSet(made)
  <2>1. gone \in SUBSET R /\ redefined \in SUBSET D /\ made \in SUBSET D
    OBVIOUS
  <2>2. IsFiniteSet(R) /\ IsFiniteSet(D)
    BY FinitePlans
  <2> QED
    BY <2>1, <2>2, FS_Subset
<1>6. IndexableIn(f) = Indexable(declared)
  BY ColumnsMade
<1> DEFINE h1 == Less(h, gone)
<1>7. Less(h1, redefined) = Taken(declared.indexes, J)
  <2>1. (DOMAIN h \ gone) \ redefined = J
    <3>1. ASSUME NEW i \in J PROVE i \in DOMAIN h
      BY <1>1, <1>2, <1>3, <1>4
    <3>2. ASSUME NEW i \in (DOMAIN h \ gone) \ redefined PROVE i \in J
      BY <1>1, <1>3
    <3> QED
      BY <3>1, <3>2
  <2>2. \A i \in J : h[i] = declared.indexes[i]
    BY <1>1, <1>4, <2>1
  <2> HIDE DEF h, gone, redefined, J
  <2> QED
    BY <2>1, <2>2 DEF Less, Taken
<1>8. Taken(declared.indexes, J \cup made) = declared.indexes
  <2>1. J \cup made = D
    OBVIOUS
  <2>2. declared.indexes = [i \in D |-> declared.indexes[i]]
    BY DEF TableInv, IsTable, IsPart
  <2> QED
    BY <2>1, <2>2 DEF Taken
<1>9. IndexOps = SetToSeq({IndexDrop(i) : i \in gone})
                 \o SetToSeq({IndexDrop(i) : i \in redefined})
                 \o SetToSeq({IndexCreate(i) : i \in made})
  BY DEF IndexOps
<1>10. J \cap made = {} /\ made \subseteq D
  OBVIOUS
<1>11. AfterConstraints = Parts(f, g, h)
  BY DEF AfterConstraints
<1>12. Made = Parts(f, g, declared.indexes)
  BY ColumnsMade DEF Made
<1>13. h1 = [i \in DOMAIN h1 |-> h1[i]] /\ DOMAIN h1 \subseteq DOMAIN h
  BY DEF Less
<1>19. OnSearchPath \/ (gone \cup redefined) \cap DOMAIN h = {}
  <2> SUFFICES ASSUME ~OnSearchPath, NEW i \in gone \cup redefined PROVE i \notin DOMAIN h
    OBVIOUS
  <2>1. i \in R /\ (i \in D => declared.indexes[i] # Translated(recorded.indexes[i]))
    OBVIOUS
  <2>2. Translated(recorded.indexes[i]) \cap W # {}
    BY <2>1, AcceptedFacts DEF Misses, NewKinds
  <2> QED
    BY <1>1, <2>2
<1> DEFINE a == SetToSeq({IndexDrop(i) : i \in gone})
           b == SetToSeq({IndexDrop(i) : i \in redefined})
           c == SetToSeq({IndexCreate(i) : i \in made})
<1> HIDE DEF f, g, h, h1, gone, made, redefined, J, R
<1>14. Leads(Parts(f, g, h), a, Parts(f, g, h1))
  BY <1>1, <1>5, <1>19, IndexDropsLead DEF h1
<1>15. Leads(Parts(f, g, h1), b, Parts(f, g, Taken(declared.indexes, J)))
  BY <1>5, <1>7, <1>13, <1>19, IndexDropsLead
<1>16. Leads(Parts(f, g, Taken(declared.indexes, J)), c,
             Parts(f, g, Taken(declared.indexes, J \cup made)))
  <2>1. \A i \in made : declared.indexes[i] \subseteq IndexableIn(f)
    BY <1>0, <1>6, <1>10
  <2> QED
    BY <1>5, <1>10, <2>1, IndexCreatesLead
<1> HIDE DEF a, b, c
<1>17. Leads(Parts(f, g, h), a \o b, Parts(f, g, Taken(declared.indexes, J)))
  BY <1>14, <1>15, LeadsOn
<1>18. Leads(Parts(f, g, h), (a \o b) \o c, Parts(f, g, declared.indexes))
  BY <1>8, <1>16, <1>17, LeadsOn
<1> QED
  BY <1>9, <1>11, <1>12, <1>18 DEF a, b, c

\* The whole plan makes the declared table of the one in the database.
LEMMA PlanLeads ==
  ASSUME TableInv, Accepted, Faithful
  PROVE  Leads(Before, Plan, Made)
<1>1. Leads(Before, ColumnOps, AfterColumns(Columns(declared)))
  BY ColumnOpsLead
<1>2. Leads(AfterColumns(Columns(declared)), ConstraintOps, AfterConstraints)
  BY ConstraintOpsLead
<1>3. Leads(Before, ColumnOps \o ConstraintOps, AfterConstraints)
  BY <1>1, <1>2, LeadsOn
<1>4. Leads(Before, (ColumnOps \o ConstraintOps) \o IndexOps, Made)
  BY <1>3, IndexOpsLead, LeadsOn
<1> QED
  BY <1>4 DEF Plan

LEMMA RunMakes ==
  ASSUME TableInv, Accepted, Faithful
  PROVE  Run = [ok |-> TRUE, table |-> Made]
BY PlanLeads, LeadsExecutes DEF Run

LEMMA MadeIsRecorded ==
  ASSUME TableInv
  PROVE  Recorded(Made) = Recorded(declared)
<1> DEFINE f == [c \in Columns(declared) |-> Becomes(c)]
           g == declared.constraints
           h == declared.indexes
           told == [c \in Columns(declared) |-> [kind    |-> declared.columns[c].kind,
                                                 notNull |-> declared.columns[c].notNull]]
<1>1. declared = Parts(declared.columns, g, h)
  BY DEF TableInv, IsTable, Parts
<1>2. Recorded(declared) = Parts(told, g, h)
  BY <1>1 DEF Recorded, Parts, Columns
<1>3. ASSUME NEW c \in Columns(declared)
      PROVE  /\ f[c].kind = declared.columns[c].kind
             /\ f[c].notNull = declared.columns[c].notNull
  BY DEF Becomes
<1>4. DOMAIN f = Columns(declared)
  OBVIOUS
<1>5. Made = Parts(f, g, h)
  BY DEF Made
<1> HIDE DEF f, g, h
<1>6. Recorded(Parts(f, g, h))
        = Parts([c \in DOMAIN f |-> [kind |-> f[c].kind, notNull |-> f[c].notNull]], g, h)
  BY DEF Recorded, Parts
<1>7. [c \in DOMAIN f |-> [kind |-> f[c].kind, notNull |-> f[c].notNull]] = told
  BY <1>3, <1>4
<1> QED
  BY <1>2, <1>5, <1>6, <1>7

-------------------------------------------------------------------------------
(* What holds when only edits the differ carries out are applied *)

LEMMA StartIsFaithful == Init => Faithful
BY StartAssumption DEF Init, Faithful, WellFormed

LEMMA RecordedIsSound ==
  ASSUME TableInv, Sound(declared)
  PROVE  Sound(Recorded(declared))
<1> DEFINE t == Recorded(declared)
<1>1. /\ Columns(t) = Columns(declared)
      /\ \A c \in Columns(declared) : t.columns[c]
           = [kind |-> declared.columns[c].kind, notNull |-> declared.columns[c].notNull]
      /\ t.constraints = declared.constraints
      /\ t.indexes = declared.indexes
  BY RecordedIsTable, ColumnFacts DEF TableInv
<1> HIDE DEF t
<1>2. ASSUME NEW c \in Columns(declared) PROVE t.columns[c].kind = declared.columns[c].kind
  <2>1. t.columns[c]
          = [kind |-> declared.columns[c].kind, notNull |-> declared.columns[c].notNull]
    BY <1>1
  <2> QED
    BY <2>1
<1>3. Usable(t) = Usable(declared) /\ Indexable(t) = Indexable(declared)
  BY <1>1, <1>2 DEF Usable, Indexable
<1>4. Sound(t)
  BY <1>1, <1>2, <1>3 DEF Sound
<1> QED
  BY <1>4 DEF t

LEMMA FaithfulStep ==
  ASSUME Careless = {}, TableInv, Faithful, [Next]_vars
  PROVE  Faithful'
<1>1. CASE Migrate
  <2>1. Accepted /\ live' = Recorded(Run.table) /\ recorded' = Recorded(declared)
    BY <1>1 DEF Migrate, Accepted
  <2>2. Run.table = Made
    BY <2>1, RunMakes
  <2>3. live' = recorded'
    BY <2>1, <2>2, MadeIsRecorded
  <2>4. Sound(recorded')
    BY <2>1, AcceptedFacts, RecordedIsSound
  <2>5. Sound(recorded)' = Sound(recorded')
    BY DEF Sound, Usable, Indexable, Columns
  <2> QED
    BY <2>3, <2>4, <2>5 DEF Faithful
<1>2. CASE ~Migrate
  <2>1. UNCHANGED <<recorded, live>>
    BY <1>2, EditsRecordNothing
  <2> QED
    BY <2>1 DEF Faithful, Sound, Usable, Indexable, Columns
<1> QED
  BY <1>1, <1>2

LEMMA AlwaysFaithful ==
  ASSUME Careless = {}
  PROVE  Spec => [](TableInv /\ Faithful)
<1>1. Init => TableInv /\ Faithful
  BY InitTable, StartIsFaithful
<1>2. TableInv /\ Faithful /\ [Next]_vars => (TableInv /\ Faithful)'
  BY TableStep, FaithfulStep
<1> QED
  BY <1>1, <1>2, PTL DEF Spec

\* However a table was edited and migrated, the snapshot says what is in the database,
\* if no edit was applied that the differ does not carry out; an index changed in a
\* schema off the search path is such an edit.
THEOREM RecordsMatch ==
  ASSUME Careless = {}
  PROVE  Spec => []RecordIsLive
<1>1. TableInv /\ Faithful => RecordIsLive
  BY DEF Faithful, RecordIsLive
<1> QED
  BY <1>1, AlwaysFaithful, PTL

\* PostgreSQL takes every statement of a plan of diffTable: none needs what an earlier one,
\* or a cascade of it, dropped or already made, and no column goes that another is computed
\* from.
THEOREM PlansRun ==
  ASSUME Careless = {}
  PROVE  Spec => []PlanRuns
<1>1. TableInv /\ Faithful => PlanRuns
  BY RunMakes DEF PlanRuns, Accepted
<1> QED
  BY <1>1, AlwaysFaithful, PTL

\* A migration leaves each declared column with the rows of the one it goes on with, and
\* a new one with none.
THEOREM RowsSurvive ==
  ASSUME Careless = {}
  PROVE  Spec => []RowsAreKept
<1>1. ASSUME TableInv, Faithful, Orderly, ~Rejected, NEW c \in Columns(declared)
      PROVE  /\ c \in Columns(Run.table)
             /\ NewKind(c) \/ Run.table.columns[c].row = Continues(c)
  <2>1. Run.table = Made
    BY <1>1, RunMakes DEF Accepted
  <2>2. Columns(Made) = Columns(declared) /\ Made.columns[c] = Becomes(c)
    BY DEF Made, Parts, Columns
  <2>3. ~NewKind(c) => Becomes(c).row = Continues(c)
    BY DEF Becomes
  <2> QED
    BY <2>1, <2>2, <2>3
<1>2. TableInv /\ Faithful => RowsAreKept
  BY <1>1 DEF RowsAreKept
<1> QED
  BY <1>2, AlwaysFaithful, PTL

\* The sources, the snapshot and the database each hold a table, and in the last two no
\* expression, constraint or index names a column that is not there or that it cannot use.
THEOREM TableTypeCorrect ==
  ASSUME Careless = {}
  PROVE  Spec => []TypeOK
<1>1. ASSUME NEW t, IsTable(t, SnapColumn), Sound(t) PROVE WellFormed(t)
  <2>1. HasType(t, SnapColumn)
    BY <1>1, TableIsOfType
  <2>2. /\ \A k \in DOMAIN t.constraints : t.constraints[k] # {}
        /\ \A i \in DOMAIN t.indexes : t.indexes[i] # {}
    BY <1>1 DEF IsTable, IsPart, Named
  <2> QED
    BY <1>1, <2>1, <2>2 DEF WellFormed
<1>2. TableInv /\ Faithful => WellFormed(recorded) /\ WellFormed(live)
  BY <1>1 DEF TableInv, Faithful
<1>3. TableInv => HasType(declared, Column) /\ edits \in 0 .. MaxEdits
  BY TableIsOfType DEF TableInv
<1>4. TableInv /\ Faithful => TypeOK
  BY <1>2, <1>3 DEF TypeOK
<1> QED
  BY <1>4, AlwaysFaithful, PTL

===============================================================================

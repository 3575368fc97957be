-------------------------- MODULE DiffPassesProofs --------------------------
(***************************************************************************)
(* Theorems about the passes of the differ, for any schemas, names, bodies *)
(* and sources.                                                            *)
(***************************************************************************)
EXTENDS DiffPasses, FiniteSetTheorems, TLAPS

CatalogEntry == [uses : SUBSET Key, body : Bodies, origin : Key \cup {NoKey}]

IsCatalog(c) == DOMAIN c \subseteq Key /\ \A k \in DOMAIN c : c[k] \in CatalogEntry

\* Between migrations nothing is under way; a loop has begun with the first object.
Positions == IF pc = "idle" THEN order = <<>> /\ i = 0 ELSE i > 0

TInv == TypeOK /\ sources \in Sources /\ Positions

-------------------------------------------------------------------------------
\* Keys.

LEMMA SchemaKeyIsKey == \A s \in Schemas : SchemaKey(s) \in Key /\ IsSchema(SchemaKey(s))
  BY DEF SchemaKeys, Key, IsSchema

LEMMA KeyParts ==
  ASSUME NEW k \in Key
  PROVE  /\ k = <<k[1], k[2]>>
         /\ k[1] \in Schemas
         /\ k[2] \in Names \cup {Itself}
         /\ IsSchema(k) <=> k[2] = Itself
         /\ IsSchema(k) <=> k = SchemaKey(k[1])
<1>1. CASE k \in SchemaKeys
  BY <1>1 DEF SchemaKeys, SchemaKey, IsSchema
<1>2. CASE k \in Schemas \X Names
  BY <1>2, ConstantsAssumption DEF SchemaKeys, SchemaKey, IsSchema
<1> QED
  BY <1>1, <1>2 DEF Key

LEMMA PairIsKey == \A s \in Schemas, n \in Names \cup {Itself} : <<s, n>> \in Key
  BY DEF Key, SchemaKeys, SchemaKey

-------------------------------------------------------------------------------
\* Statements make catalogs of catalogs.

LEMMA CreateIsCatalog ==
  ASSUME NEW cat, IsCatalog(cat), NEW k \in Key, NEW d \in Declaration,
         NEW c \in Create(cat, k, d)
  PROVE  /\ IsCatalog(c)
         /\ DOMAIN c = DOMAIN cat \cup {k}
<1>1. CASE c = cat /\ k \in DOMAIN cat
  BY <1>1
<1>2. CASE c = Put(cat, k, [uses |-> d.uses, body |-> d.body, origin |-> NoKey])
  <2>1. [uses |-> d.uses, body |-> d.body, origin |-> NoKey] \in CatalogEntry
    BY DEF CatalogEntry, Declaration
  <2> QED
    BY <1>2, <2>1 DEF Put, IsCatalog
<1> QED
  BY <1>1, <1>2 DEF Create, Fails

LEMMA AlterIsCatalog ==
  ASSUME NEW cat, IsCatalog(cat), NEW k, NEW e, NEW d \in Declaration,
         NEW c \in Alter(cat, k, e, d)
  PROVE  /\ IsCatalog(c)
         /\ DOMAIN c = DOMAIN cat
<1>1. CASE c = cat
  BY <1>1
<1>2. CASE /\ k \in DOMAIN cat
           /\ c = [cat EXCEPT ![k].uses = d.uses, ![k].body = d.body]
  <2>1. d.uses \in SUBSET Key /\ d.body \in Bodies
    BY DEF Declaration
  <2>2. DOMAIN c = DOMAIN cat
    BY <1>2
  <2>3. ASSUME NEW x \in DOMAIN cat PROVE c[x] \in CatalogEntry
    <3>1. CASE x # k
      BY <1>2, <2>3, <3>1 DEF IsCatalog
    <3>2. CASE x = k
      BY <1>2, <2>1, <2>3, <3>2 DEF IsCatalog, CatalogEntry
    <3> QED
      BY <3>1, <3>2
  <2> QED
    BY <2>2, <2>3 DEF IsCatalog
<1> QED
  BY <1>1, <1>2 DEF Alter, Fails

LEMMA RekeyedIsCatalog ==
  ASSUME NEW cat, IsCatalog(cat), NEW to \in [Key -> Key]
  PROVE  /\ IsCatalog(Rekeyed(cat, to))
         /\ DOMAIN Rekeyed(cat, to) = {to[k] : k \in DOMAIN cat}
<1> DEFINE D == {to[k] : k \in DOMAIN cat}
           Old(x) == cat[CHOOSE k \in DOMAIN cat : to[k] = x]
           New(x) == [Old(x) EXCEPT !.uses = {to[u] : u \in @}]
<1>1. D \subseteq Key
  BY DEF IsCatalog
<1>2. ASSUME NEW x \in D PROVE New(x) \in CatalogEntry
  <2>1. \E k \in DOMAIN cat : to[k] = x
    OBVIOUS
  <2>2. Old(x) \in CatalogEntry
    BY <2>1 DEF IsCatalog
  <2> HIDE DEF Old
  <2>3. {to[u] : u \in Old(x).uses} \in SUBSET Key
    BY <2>2 DEF CatalogEntry
  <2> QED
    BY <2>2, <2>3 DEF CatalogEntry
<1>3. Rekeyed(cat, to) = [x \in D |-> New(x)]
  BY DEF Rekeyed
<1> HIDE DEF New
<1>4. DOMAIN Rekeyed(cat, to) = D
  BY <1>3
<1>5. \A x \in D : Rekeyed(cat, to)[x] \in CatalogEntry
  BY <1>2, <1>3
<1> QED
  BY <1>1, <1>4, <1>5 DEF IsCatalog

\* A schema that is renamed takes nothing but its contents along.
LEMMA RenameSchemaIsCatalog ==
  ASSUME NEW cat, IsCatalog(cat), NEW old \in SchemaKeys, NEW k \in SchemaKeys,
         NEW c \in RenameSchema(cat, old, k)
  PROVE  /\ IsCatalog(c)
         /\ k \in DOMAIN c
         /\ \A s \in SchemaKeys \cap DOMAIN cat : s # old => s \in DOMAIN c
<1> DEFINE to == [x \in Key |-> IF x[1] = old[1] THEN <<k[1], x[2]>> ELSE x]
<1>1. c = Rekeyed(cat, to) /\ old \in DOMAIN cat
  BY DEF RenameSchema, Fails
<1>2. old \in Key /\ k \in Key /\ IsSchema(old) /\ IsSchema(k)
  BY DEF Key, IsSchema
<1>3. to \in [Key -> Key]
  <2> SUFFICES ASSUME NEW x \in Key
               PROVE  (IF x[1] = old[1] THEN <<k[1], x[2]>> ELSE x) \in Key
    OBVIOUS
  <2> QED
    BY <1>2, KeyParts, PairIsKey
<1>4. to[old] = k
  <2>1. old[2] = k[2] /\ k = <<k[1], k[2]>>
    BY <1>2, KeyParts
  <2> QED
    BY <1>2, <2>1
<1>5. ASSUME NEW s \in SchemaKeys, s # old PROVE to[s] = s
  <2>1. s \in Key /\ s = SchemaKey(s[1]) /\ old = SchemaKey(old[1])
    BY <1>2, KeyParts DEF Key, IsSchema
  <2>2. s[1] # old[1]
    BY <1>5, <2>1
  <2> QED
    BY <2>1, <2>2
<1>6. IsCatalog(c) /\ DOMAIN c = {to[x] : x \in DOMAIN cat}
  BY <1>1, <1>3, RekeyedIsCatalog
<1> HIDE DEF to
<1> QED
  BY <1>1, <1>4, <1>5, <1>6

LEMMA MoveIsCatalog ==
  ASSUME NEW cat, IsCatalog(cat), NEW old \in Key, ~IsSchema(old), NEW k \in Key,
         NEW c \in Move(cat, old, k)
  PROVE  /\ IsCatalog(c)
         /\ \A s \in SchemaKeys \cap DOMAIN cat : s \in DOMAIN c
<1> DEFINE to == [x \in Key |-> IF x = old THEN k ELSE x]
<1>1. c = Rekeyed(cat, to)
  BY DEF Move, Fails
<1>2. to \in [Key -> Key]
  OBVIOUS
<1>3. ASSUME NEW s \in SchemaKeys PROVE to[s] = s
  BY DEF IsSchema, Key
<1>4. IsCatalog(c) /\ DOMAIN c = {to[x] : x \in DOMAIN cat}
  BY <1>1, <1>2, RekeyedIsCatalog
<1> HIDE DEF to
<1> QED
  BY <1>3, <1>4

LEMMA DropIsCatalog ==
  ASSUME NEW cat, IsCatalog(cat), NEW k, NEW c \in Drop(cat, k)
  PROVE  /\ IsCatalog(c)
         /\ DOMAIN c = DOMAIN cat \ {k}
  BY DEF Drop, Without, Fails, IsCatalog

-------------------------------------------------------------------------------
\* What the sources declare.

LEMMA Declared ==
  ASSUME TypeOK, NEW k \in DOMAIN sources
  PROVE  /\ k \in Key
         /\ sources[k] \in Declaration
         /\ sources[k].from # NoKey => sources[k].from \in Key
         /\ sources[k].from # NoKey => (IsSchema(sources[k].from) <=> IsSchema(k))
  BY DEF TypeOK, WellFormed, Declaration

LEMMA RenamedFrom ==
  ASSUME TypeOK, NEW k \in Renamed
  PROVE  k \in DOMAIN sources /\ k \notin Recorded /\ sources[k].from # NoKey
         /\ sources[k].from \in Recorded /\ sources[k].from \in Key
  BY DEF TypeOK, Renamed, Unrecorded, Recorded

LEMMA RenameAndAlterIsCatalog ==
  ASSUME TypeOK, NEW k \in Renamed, NEW c \in RenameAndAlter(work, k)
  PROVE  /\ IsCatalog(c)
         /\ IsSchema(k) => k \in DOMAIN c
         /\ \A s \in SchemaKeys \cap DOMAIN work : s # sources[k].from => s \in DOMAIN c
<1> DEFINE d == sources[k]
<1>1. IsCatalog(work)
  BY DEF TypeOK, IsCatalog, CatalogEntry
<1>2. k \in Key /\ d \in Declaration /\ d.from \in Key /\ (IsSchema(d.from) <=> IsSchema(k))
  BY RenamedFrom, Declared
<1>3. PICK b \in IF IsSchema(k) THEN RenameSchema(work, d.from, k)
                 ELSE Move(work, d.from, k) : c \in Alter(b, k, snap[d.from], d)
  BY DEF RenameAndAlter
<1> HIDE DEF d
<1>4. /\ IsCatalog(b)
      /\ IsSchema(k) => k \in DOMAIN b
      /\ \A s \in SchemaKeys \cap DOMAIN work : s # d.from => s \in DOMAIN b
  <2>1. CASE IsSchema(k)
    <3>1. d.from \in SchemaKeys /\ k \in SchemaKeys
      BY <1>2, <2>1 DEF IsSchema
    <3> QED
      BY <1>1, <1>3, <2>1, <3>1, RenameSchemaIsCatalog
  <2>2. CASE ~IsSchema(k)
    BY <1>1, <1>2, <1>3, <2>2, MoveIsCatalog
  <2> QED
    BY <2>1, <2>2
<1>5. IsCatalog(c) /\ DOMAIN c = DOMAIN b
  BY <1>2, <1>3, <1>4, AlterIsCatalog
<1> QED
  BY <1>4, <1>5 DEF d

LEMMA CreateOrAlterIsCatalog ==
  ASSUME TypeOK, NEW k \in DOMAIN sources, NEW c \in CreateOrAlter(work, k)
  PROVE  IsCatalog(c) /\ DOMAIN work \subseteq DOMAIN c
<1>1. IsCatalog(work)
  BY DEF TypeOK, IsCatalog, CatalogEntry
<1>2. k \in Key /\ sources[k] \in Declaration
  BY Declared
<1>3. CASE k \in Recorded
  BY <1>1, <1>2, <1>3, AlterIsCatalog DEF CreateOrAlter
<1>4. CASE k \notin Recorded
  <2>1. c \in Create(work, k, sources[k])
    BY <1>4 DEF CreateOrAlter
  <2>2. IsCatalog(c) /\ DOMAIN c = DOMAIN work \cup {k}
    BY <1>1, <1>2, <2>1, CreateIsCatalog
  <2> QED
    BY <2>2
<1> QED
  BY <1>3, <1>4

-------------------------------------------------------------------------------
\* The order of the declared objects has each of them once.

LEMMA OrderHasAll ==
  ASSUME NEW S, IsFiniteSet(S), NEW ord \in SetToSeqs(S)
  PROVE  /\ ord \in Seq(S)
         /\ \A k \in S : \E n \in 1 .. Len(ord) : ord[n] = k
         /\ \A m, n \in 1 .. Len(ord) : ord[m] = ord[n] => m = n
<1> DEFINE N == Cardinality(S)
<1>1. N \in Nat
  BY FS_CardinalityType
<1>2. ord \in [1 .. N -> S] /\ \A m, n \in 1 .. N : m # n => ord[m] # ord[n]
  BY DEF SetToSeqs
<1>3. ord \in Seq(S) /\ Len(ord) = N
  BY <1>1, <1>2
<1>4. ASSUME NEW k \in S, \A n \in 1 .. N : ord[n] # k PROVE FALSE
  <2>1. ord \in [1 .. N -> S \ {k}]
    BY <1>2, <1>4
  <2>2. IsFiniteSet(S \ {k}) /\ Cardinality(S \ {k}) = N - 1
    BY FS_RemoveElement
  <2>3. IsFiniteSet(1 .. N) /\ Cardinality(1 .. N) = N
    BY <1>1, FS_Interval
  <2>4. \E m, n \in 1 .. N : m # n /\ ord[m] = ord[n]
    BY <1>1, <2>1, <2>2, <2>3, FS_PigeonHole
  <2> QED
    BY <1>2, <2>4
<1> QED
  BY <1>2, <1>3, <1>4

-------------------------------------------------------------------------------
\* Types.

LEMMA InitTypes == Init => TInv
<1> SUFFICES ASSUME Init PROVE TInv
  OBVIOUS
<1> USE DEF Init
<1>1. WellFormed(sources)
  BY ConstantsAssumption
<1>2. SchemaKey(Public) \in Key
  BY ConstantsAssumption, SchemaKeyIsKey
<1>3. DOMAIN db \subseteq Key /\ \A k \in DOMAIN db : db[k] \in [uses : SUBSET Key, body : Bodies]
  BY <1>2, ConstantsAssumption DEF Untouched
<1>4. DOMAIN snap = {} /\ DOMAIN work = {}
  BY DEF Empty
<1>5. TypeOK
  BY <1>1, <1>3, <1>4 DEF TypeOK
<1> QED
  BY <1>5 DEF TInv, Positions

LEMMA VisitTypes ==
  ASSUME TInv, NEW pass \in {"pass0", "pass1", "pass3"}, NEW outcomes,
         \A c \in outcomes : IsCatalog(c), Visit(pass, outcomes)
  PROVE  TInv'
<1> USE DEF TInv, TypeOK, Positions, Visit
<1>1. CASE outcomes = Fails
  BY <1>1
<1>2. CASE outcomes # Fails
  <2>1. IsCatalog(work')
    BY <1>2
  <2>2. i' \in 0 .. Len(order') + 1 /\ i' > 0
    BY <1>2
  <2> QED
    BY <1>2, <2>1, <2>2 DEF IsCatalog, CatalogEntry
<1> QED
  BY <1>1, <1>2

LEMMA Position ==
  ASSUME TInv, pc # "idle", i <= Len(order)
  PROVE  order[i] \in DOMAIN sources /\ i \in 1 .. Len(order)
  BY DEF TInv, TypeOK, Positions

LEMMA TypeStep == TInv /\ [Next]_vars => TInv'
<1> SUFFICES ASSUME TInv, [Next]_vars PROVE TInv'
  OBVIOUS
<1>0. TypeOK /\ IsCatalog(work)
  BY DEF TInv, TypeOK, IsCatalog, CatalogEntry
<1>1. ASSUME NEW S \in Sources, Edit(S) PROVE TInv'
  BY <1>1, ConstantsAssumption DEF Edit, TInv, TypeOK, Positions
<1>2. ASSUME NEW ord \in SetToSeqs(DOMAIN sources), Begin(ord) PROVE TInv'
  <2>1. ord \in Seq(DOMAIN sources)
    BY OrderHasAll, ConstantsAssumption DEF TInv
  <2>2. DOMAIN work' \subseteq Key /\ \A k \in DOMAIN work' : work'[k] \in CatalogEntry
    BY <1>0, <1>2 DEF Begin, Opened, TypeOK, CatalogEntry
  <2>3. left' \subseteq DOMAIN snap
    BY <1>2 DEF Begin, Dropped, Recorded
  <2> QED
    BY <1>2, <2>1, <2>2, <2>3 DEF Begin, TInv, TypeOK, Positions, CatalogEntry
<1>3. CASE Pass0
  <2> DEFINE k == order[i]
             outcomes == IF k \in Early THEN Create(work, k, sources[k]) ELSE {work}
  <2>1. Visit("pass0", outcomes)
    BY <1>3 DEF Pass0
  <2>2. k \in DOMAIN sources
    BY <2>1, Position DEF Visit
  <2>3. \A c \in outcomes : IsCatalog(c)
    BY <1>0, <2>2, Declared, CreateIsCatalog
  <2> HIDE DEF outcomes
  <2> QED
    BY <2>1, <2>3, VisitTypes
<1>4. CASE Pass1
  <2> DEFINE k == order[i]
             outcomes == IF k \in Renamed THEN RenameAndAlter(work, k) ELSE {work}
  <2>1. Visit("pass1", outcomes)
    BY <1>4 DEF Pass1
  <2>2. \A c \in outcomes : IsCatalog(c)
    BY <1>0, RenameAndAlterIsCatalog
  <2> HIDE DEF outcomes
  <2> QED
    BY <2>1, <2>2, VisitTypes
<1>5. CASE Pass3
  <2> DEFINE k == order[i]
             outcomes == IF Handled(k) THEN {work} ELSE CreateOrAlter(work, k)
  <2>1. Visit("pass3", outcomes)
    BY <1>5 DEF Pass3
  <2>2. k \in DOMAIN sources
    BY <2>1, Position DEF Visit
  <2>3. \A c \in outcomes : IsCatalog(c)
    BY <1>0, <2>2, CreateOrAlterIsCatalog
  <2> HIDE DEF outcomes
  <2> QED
    BY <2>1, <2>3, VisitTypes
<1>6. ASSUME NEW k \in left, Pass2(k) PROVE TInv'
  <2>1. IsCatalog(work')
    BY <1>0, <1>6, DropIsCatalog DEF Pass2, Fails
  <2> QED
    BY <1>6, <2>1 DEF Pass2, TInv, TypeOK, Positions, IsCatalog, CatalogEntry
<1>7. CASE EndLoop("pass0", "pass1") \/ EndLoop("pass1", "pass2") \/ EndDrops
  BY <1>7 DEF EndLoop, EndDrops, TInv, TypeOK, Positions
<1>8. CASE Commit
  <2>1. /\ DOMAIN db' \subseteq Key
        /\ \A k \in DOMAIN db' : db'[k] \in [uses : SUBSET Key, body : Bodies]
    BY <1>0, <1>8 DEF Commit, Closed, IsCatalog, CatalogEntry
  <2>2. /\ DOMAIN snap' \subseteq Key
        /\ \A k \in DOMAIN snap' :
             snap'[k] \in [uses : SUBSET Key, body : Bodies, protected : BOOLEAN]
    BY <1>0, <1>8, Declared DEF Commit, Entry, Declaration
  <2>3. EndTransaction
    BY <1>8 DEF Commit
  <2>4. DOMAIN work' = {}
    BY <2>3 DEF EndTransaction, Empty
  <2> QED
    BY <2>1, <2>2, <2>3, <2>4 DEF EndTransaction, TInv, TypeOK, Positions
<1>9. CASE Rollback
  <2>1. DOMAIN work' = {}
    BY <1>9 DEF Rollback, EndTransaction, Empty
  <2> QED
    BY <1>9, <2>1 DEF Rollback, EndTransaction, TInv, TypeOK, Positions
<1>10. CASE UNCHANGED vars
  BY <1>10 DEF vars, TInv, TypeOK, Positions
<1> QED
  BY <1>1, <1>2, <1>3, <1>4, <1>5, <1>6, <1>7, <1>8, <1>9, <1>10 DEF Next

-------------------------------------------------------------------------------
\* Schemas.

\* A schema that is renamed is not declared under its old name too.
SchemasAreRenamedAway ==
  \A S \in Sources : \A k \in DOMAIN S :
    IsSchema(k) /\ S[k].from # NoKey => S[k].from \notin DOMAIN S \cup {SchemaKey(Public)}

RecordedSchemas == SchemaKeys \cap (Recorded \cup {SchemaKey(Public)})
DeclaredSchemas == SchemaKeys \cap (DOMAIN sources \cup {SchemaKey(Public)})

Passes == {"pass0", "pass1", "pass2", "pass3"}

\* What Begin has seen to.
Planned ==
  /\ Stale = {}
  /\ Sorted(order)
  /\ \A k \in DOMAIN sources : \E n \in 1 .. Len(order) : order[n] = k
  /\ left \subseteq Dropped

AfterCreations ==
  \A s \in SchemaKeys :
    s \in RecordedSchemas \/ (\E n \in 1 .. Len(order) : n < i /\ order[n] = s /\ s \in Early)
      => s \in DOMAIN work

AfterRenames ==
  \A s \in DeclaredSchemas :
    \/ s \in DOMAIN work
    \/ s \in Renamed /\ \E n \in 1 .. Len(order) : n >= i /\ order[n] = s

\* The schemas of the snapshot are there, and those of the sources more and more.
SchemaInv ==
  /\ RecordedSchemas \subseteq DOMAIN db
  /\ pc \in Passes => Planned
  /\ pc = "pass0" => AfterCreations
  /\ pc = "pass1" => AfterRenames
  /\ pc \in {"pass2", "pass3"} => DeclaredSchemas \subseteq DOMAIN work

LEMMA SamePlan ==
  ASSUME UNCHANGED <<sources, snap>>
  PROVE  /\ Stale' = Stale /\ Renamed' = Renamed /\ Early' = Early /\ Dropped' = Dropped
         /\ RecordedSchemas' = RecordedSchemas /\ DeclaredSchemas' = DeclaredSchemas
  BY DEF Stale, Renamed, Unrecorded, Early, Dropped, consumed, Recorded,
         RecordedSchemas, DeclaredSchemas

LEMMA StillPlanned ==
  ASSUME Planned, UNCHANGED <<sources, snap, order>>, left' \subseteq left
  PROVE  Planned'
  BY SamePlan DEF Planned, Sorted

LEMMA InitSchemas == Init => SchemaInv
  BY DEF Init, SchemaInv, RecordedSchemas, Recorded, Passes, Empty, Untouched

\* A schema that is to be created is created when its turn comes.
LEMMA CreationStep ==
  ASSUME TInv, SchemaInv, Pass0 PROVE SchemaInv'
<1> DEFINE k == order[i]
<1>1. /\ pc = "pass0" /\ i <= Len(order)
      /\ UNCHANGED <<sources, snap, db, order, left>>
      /\ pc' = "failed" \/ (pc' = pc /\ i' = i + 1)
  BY DEF Pass0, Visit
<1>2. k \in DOMAIN sources /\ i \in 1 .. Len(order)
  BY <1>1, Position
<1>3. RecordedSchemas' \subseteq DOMAIN db' /\ Planned'
  BY <1>1, SamePlan, StillPlanned DEF SchemaInv, Passes
<1>4. CASE pc' = "failed"
  BY <1>3, <1>4 DEF SchemaInv, Passes
<1>5. CASE pc' = pc /\ i' = i + 1
  <2>1. DOMAIN work \subseteq DOMAIN work' /\ (k \in Early => k \in DOMAIN work')
    <3>1. CASE k \in Early
      <4>1. work' \in Create(work, k, sources[k])
        BY <1>1, <1>5, <3>1 DEF Pass0, Visit
      <4>2. IsCatalog(work) /\ k \in Key /\ sources[k] \in Declaration
        BY <1>2, Declared DEF TInv, TypeOK, IsCatalog, CatalogEntry
      <4>3. DOMAIN work' = DOMAIN work \cup {k}
        BY <4>1, <4>2, CreateIsCatalog
      <4> QED
        BY <4>3
    <3>2. CASE k \notin Early
      BY <1>1, <1>5, <3>2 DEF Pass0, Visit
    <3> QED
      BY <3>1, <3>2
  <2>2. ASSUME NEW s \in SchemaKeys,
               s \in RecordedSchemas \/ \E n \in 1 .. Len(order) : n < i + 1 /\ order[n] = s /\ s \in Early
        PROVE  s \in DOMAIN work'
    <3>1. CASE s = k /\ s \in Early
      BY <2>1, <3>1
    <3>2. CASE s \in RecordedSchemas \/ \E n \in 1 .. Len(order) : n < i /\ order[n] = s /\ s \in Early
      BY <1>1, <2>1, <3>2 DEF SchemaInv, AfterCreations
    <3> QED
      BY <1>2, <2>2, <3>1, <3>2
  <2>3. AfterCreations'
    BY <1>1, <1>5, <2>2, SamePlan DEF AfterCreations
  <2> QED
    BY <1>1, <1>3, <1>5, <2>3 DEF SchemaInv, Passes
<1> QED
  BY <1>1, <1>4, <1>5

\* What is neither recorded nor created is renamed, or there would be no migration.
LEMMA CreationsEnd ==
  ASSUME TInv, SchemaInv, EndLoop("pass0", "pass1") PROVE SchemaInv'
<1>1. /\ pc = "pass0" /\ pc' = "pass1" /\ i > Len(order) /\ i' = 1
      /\ UNCHANGED <<sources, snap, db, order, left, work>>
  BY DEF EndLoop
<1>2. Planned /\ AfterCreations
  BY <1>1 DEF SchemaInv, Passes
<1>3. RecordedSchemas' \subseteq DOMAIN db' /\ Planned'
  BY <1>1, SamePlan, StillPlanned DEF SchemaInv, Passes
<1>4. ASSUME NEW s \in DeclaredSchemas
      PROVE  \/ s \in DOMAIN work
             \/ s \in Renamed /\ \E n \in 1 .. Len(order) : n >= 1 /\ order[n] = s
  <2>1. s \in SchemaKeys /\ Len(order) \in Nat /\ i \in Nat
    BY DEF DeclaredSchemas, TInv, TypeOK
  <2>2. CASE s \in RecordedSchemas
    BY <1>2, <2>1, <2>2 DEF AfterCreations
  <2>3. CASE s \notin RecordedSchemas
    <3>1. s \in DOMAIN sources /\ s \notin Recorded
      BY <2>3 DEF DeclaredSchemas, RecordedSchemas
    <3>2. PICK n \in 1 .. Len(order) : order[n] = s
      BY <1>2, <3>1 DEF Planned
    <3>3. CASE sources[s].from = NoKey
      <4>1. s \in Early
        BY <2>1, <3>1, <3>3 DEF Early, IsSchema
      <4> QED
        BY <1>1, <1>2, <2>1, <3>2, <4>1 DEF AfterCreations
    <3>4. CASE sources[s].from # NoKey
      <4>1. s \in Renamed
        BY <1>2, <3>1, <3>4 DEF Planned, Stale, Unrecorded
      <4> QED
        BY <3>2, <4>1
    <3> QED
      BY <3>3, <3>4
  <2> QED
    BY <2>2, <2>3
<1>5. AfterRenames'
  BY <1>1, <1>4, SamePlan DEF AfterRenames
<1> QED
  BY <1>1, <1>3, <1>5 DEF SchemaInv, Passes

\* A schema that is renamed is there afterwards, and what goes is not declared.
LEMMA RenameStep ==
  ASSUME SchemasAreRenamedAway, TInv, SchemaInv, Pass1 PROVE SchemaInv'
<1> DEFINE k == order[i]
<1>1. /\ pc = "pass1" /\ i <= Len(order)
      /\ UNCHANGED <<sources, snap, db, order, left>>
      /\ pc' = "failed" \/ (pc' = pc /\ i' = i + 1)
  BY DEF Pass1, Visit
<1>2. k \in DOMAIN sources /\ i \in 1 .. Len(order) /\ TypeOK
  BY <1>1, Position DEF TInv
<1>3. RecordedSchemas' \subseteq DOMAIN db' /\ Planned'
  BY <1>1, SamePlan, StillPlanned DEF SchemaInv, Passes
<1>4. CASE pc' = "failed"
  BY <1>3, <1>4 DEF SchemaInv, Passes
<1>5. CASE pc' = pc /\ i' = i + 1
  <2>1. ASSUME NEW s \in DeclaredSchemas, s \in DOMAIN work PROVE s \in DOMAIN work'
    <3>1. CASE k \in Renamed
      <4>1. work' \in RenameAndAlter(work, k)
        BY <1>1, <1>5, <3>1 DEF Pass1, Visit
      <4>2. s # sources[k].from
        <5>1. s \in SchemaKeys /\ s \in DOMAIN sources \cup {SchemaKey(Public)}
          BY DEF DeclaredSchemas
        <5>2. sources[k].from # NoKey /\ (IsSchema(sources[k].from) <=> IsSchema(k))
          BY <1>2, <3>1, RenamedFrom, Declared
        <5>3. sources \in Sources
          BY DEF TInv
        <5> QED
          BY <1>2, <5>1, <5>2, <5>3 DEF SchemasAreRenamedAway, IsSchema
      <4> QED
        BY <1>2, <2>1, <3>1, <4>1, <4>2, RenameAndAlterIsCatalog DEF DeclaredSchemas
    <3>2. CASE k \notin Renamed
      BY <1>1, <1>5, <2>1, <3>2 DEF Pass1, Visit
    <3> QED
      BY <3>1, <3>2
  <2>2. ASSUME k \in Renamed, k \in SchemaKeys PROVE k \in DOMAIN work'
    <3>1. work' \in RenameAndAlter(work, k)
      BY <1>1, <1>5, <2>2 DEF Pass1, Visit
    <3> QED
      BY <1>2, <2>2, <3>1, RenameAndAlterIsCatalog DEF IsSchema
  <2>3. ASSUME NEW s \in DeclaredSchemas
        PROVE  \/ s \in DOMAIN work'
               \/ s \in Renamed /\ \E n \in 1 .. Len(order) : n >= i + 1 /\ order[n] = s
    <3>1. CASE s \in DOMAIN work
      BY <2>1, <3>1
    <3>2. CASE s \notin DOMAIN work
      <4>1. s \in Renamed /\ \E n \in 1 .. Len(order) : n >= i /\ order[n] = s
        BY <1>1, <3>2 DEF SchemaInv, AfterRenames
      <4>2. s = k => s \in DOMAIN work'
        BY <2>2, <4>1 DEF DeclaredSchemas
      <4> QED
        BY <1>2, <4>1, <4>2
    <3> QED
      BY <3>1, <3>2
  <2>4. AfterRenames'
    BY <1>1, <1>5, <2>3, SamePlan DEF AfterRenames
  <2> QED
    BY <1>1, <1>3, <1>5, <2>4 DEF SchemaInv, Passes
<1> QED
  BY <1>1, <1>4, <1>5

LEMMA RenamesEnd ==
  ASSUME TInv, SchemaInv, EndLoop("pass1", "pass2") PROVE SchemaInv'
<1>1. /\ pc = "pass1" /\ pc' = "pass2" /\ i > Len(order)
      /\ UNCHANGED <<sources, snap, db, order, left, work>>
  BY DEF EndLoop
<1>2. Planned /\ AfterRenames /\ Len(order) \in Nat /\ i \in Nat
  BY <1>1 DEF SchemaInv, Passes, TInv, TypeOK
<1>3. RecordedSchemas' \subseteq DOMAIN db' /\ Planned'
  BY <1>1, <1>2, SamePlan, StillPlanned DEF SchemaInv
<1>4. DeclaredSchemas' \subseteq DOMAIN work'
  BY <1>1, <1>2, SamePlan DEF AfterRenames
<1> QED
  BY <1>1, <1>3, <1>4 DEF SchemaInv, Passes

\* Only what is not declared is dropped.
LEMMA DropStep ==
  ASSUME TInv, SchemaInv, NEW k \in left, Pass2(k) PROVE SchemaInv'
<1>1. /\ pc = "pass2" /\ pc' \in {"pass2", "failed"} /\ left' \subseteq left
      /\ UNCHANGED <<sources, snap, db, order>>
  BY DEF Pass2
<1>2. Planned /\ DeclaredSchemas \subseteq DOMAIN work
  BY <1>1 DEF SchemaInv, Passes
<1>3. RecordedSchemas' \subseteq DOMAIN db' /\ Planned'
  BY <1>1, <1>2, SamePlan, StillPlanned DEF SchemaInv
<1>4. pc' = "pass2" => DeclaredSchemas' \subseteq DOMAIN work'
  <2> SUFFICES ASSUME pc' = "pass2" PROVE DeclaredSchemas \subseteq DOMAIN work'
    BY <1>1, SamePlan
  <2>1. IsCatalog(work) /\ work' \in Drop(work, k)
    BY <1>1 DEF Pass2, TInv, TypeOK, IsCatalog, CatalogEntry
  <2>2. DOMAIN work' = DOMAIN work \ {k}
    BY <2>1, DropIsCatalog
  <2>3. k \notin DeclaredSchemas
    BY <1>2 DEF Planned, Dropped, DeclaredSchemas
  <2> QED
    BY <1>2, <2>2, <2>3
<1> QED
  BY <1>1, <1>3, <1>4 DEF SchemaInv, Passes

LEMMA AlterationStep ==
  ASSUME TInv, SchemaInv, Pass3 PROVE SchemaInv'
<1> DEFINE k == order[i]
<1>1. /\ pc = "pass3" /\ i <= Len(order) /\ pc' \in {"pass3", "failed"}
      /\ UNCHANGED <<sources, snap, db, order, left>>
  BY DEF Pass3, Visit
<1>2. Planned /\ DeclaredSchemas \subseteq DOMAIN work
  BY <1>1 DEF SchemaInv, Passes
<1>3. RecordedSchemas' \subseteq DOMAIN db' /\ Planned'
  BY <1>1, <1>2, SamePlan, StillPlanned DEF SchemaInv
<1>4. pc' = "pass3" => DeclaredSchemas' \subseteq DOMAIN work'
  <2> SUFFICES ASSUME pc' = "pass3" PROVE DeclaredSchemas \subseteq DOMAIN work'
    BY <1>1, SamePlan
  <2>1. k \in DOMAIN sources /\ TypeOK
    BY <1>1, Position DEF TInv
  <2>2. work' \in IF Handled(k) THEN {work} ELSE CreateOrAlter(work, k)
    BY <1>1 DEF Pass3, Visit
  <2>3. DOMAIN work \subseteq DOMAIN work'
    BY <2>1, <2>2, CreateOrAlterIsCatalog
  <2> QED
    BY <1>2, <2>3
<1> QED
  BY <1>1, <1>3, <1>4 DEF SchemaInv, Passes

LEMMA BeginStep ==
  ASSUME TInv, SchemaInv, NEW ord \in SetToSeqs(DOMAIN sources), Begin(ord) PROVE SchemaInv'
<1>1. /\ pc' = "pass0" /\ order' = ord /\ i' = 1 /\ left' = Dropped
      /\ DOMAIN work' = DOMAIN db /\ Stale = {} /\ Sorted(ord)
      /\ UNCHANGED <<sources, snap, db>>
  BY DEF Begin, Opened, Rejected
<1>2. RecordedSchemas' = RecordedSchemas /\ Stale' = {} /\ Dropped' = Dropped
  BY <1>1, SamePlan
<1>3. \A k \in DOMAIN sources : \E n \in 1 .. Len(ord) : ord[n] = k
  BY OrderHasAll, ConstantsAssumption DEF TInv
<1>4. Sorted(order)'
  BY <1>1 DEF Sorted
<1>5. Planned'
  BY <1>1, <1>2, <1>3, <1>4 DEF Planned
<1>6. Len(ord) \in Nat
  BY OrderHasAll, ConstantsAssumption DEF TInv
<1>7. AfterCreations'
  BY <1>1, <1>2, <1>6 DEF AfterCreations, SchemaInv
<1> QED
  BY <1>1, <1>2, <1>5, <1>7 DEF SchemaInv

LEMMA SchemaStep ==
  SchemasAreRenamedAway /\ TInv /\ SchemaInv /\ [Next]_vars => SchemaInv'
<1> SUFFICES ASSUME SchemasAreRenamedAway, TInv, SchemaInv, [Next]_vars PROVE SchemaInv'
  OBVIOUS
<1>1. ASSUME NEW S \in Sources, Edit(S) PROVE SchemaInv'
  BY <1>1 DEF Edit, SchemaInv, Passes, RecordedSchemas, Recorded
<1>2. CASE EndDrops
  <2>1. /\ pc = "pass2" /\ pc' = "pass3"
        /\ UNCHANGED <<sources, snap, db, order, left, work>>
    BY <1>2 DEF EndDrops
  <2> QED
    BY <2>1, SamePlan, StillPlanned DEF SchemaInv, Passes
<1>3. CASE Commit
  <2>1. pc = "pass3" /\ pc' = "idle" /\ DOMAIN db' = DOMAIN work /\ DOMAIN snap' = DOMAIN sources
    BY <1>3 DEF Commit, EndTransaction, Closed
  <2> QED
    BY <2>1 DEF SchemaInv, Passes, RecordedSchemas, DeclaredSchemas, Recorded
<1>4. CASE Rollback
  BY <1>4 DEF Rollback, EndTransaction, SchemaInv, Passes, RecordedSchemas, Recorded
<1>5. CASE UNCHANGED vars
  <2>1. UNCHANGED <<sources, snap, db, pc, order, i, left, work>>
    BY <1>5 DEF vars
  <2>2. (pc \in Passes => Planned)'
    BY <2>1, StillPlanned DEF SchemaInv
  <2> QED
    BY <2>1, <2>2, SamePlan DEF SchemaInv, AfterCreations, AfterRenames
<1> QED
  BY <1>1, <1>2, <1>3, <1>4, <1>5, BeginStep, CreationStep, CreationsEnd, RenameStep,
     RenamesEnd, DropStep, AlterationStep DEF Next

LEMMA SchemaIsThere == TInv /\ SchemaInv => MovesFindTheirSchema
<1> SUFFICES ASSUME TInv, SchemaInv, pc = "pass1", i <= Len(order), order[i] \in Renamed,
                    ~IsSchema(order[i])
             PROVE  SchemaKey(order[i][1]) \in DOMAIN work
  BY DEF MovesFindTheirSchema
<1> DEFINE k == order[i]
           s == SchemaKey(k[1])
<1>1. k \in DOMAIN sources /\ i \in 1 .. Len(order)
  BY Position
<1>2. Planned /\ AfterRenames
  BY DEF SchemaInv, Passes
<1>3. s \in DeclaredSchemas
  <2>1. k \in Key /\ s \in DOMAIN sources \cup {SchemaKey(Public)}
    BY <1>1 DEF TInv, TypeOK, WellFormed
  <2>2. s \in SchemaKeys
    BY <2>1, KeyParts DEF SchemaKeys
  <2> QED
    BY <2>1, <2>2 DEF DeclaredSchemas
<1>4. ASSUME NEW n \in 1 .. Len(order), n >= i, order[n] = s PROVE FALSE
  <2>1. i \in DOMAIN order /\ n \in DOMAIN order
    BY <1>1, <1>4 DEF TInv, TypeOK
  <2>2. n < i
    BY <1>2, <1>4, <2>1 DEF Planned, Sorted
  <2> QED
    BY <1>1, <1>4, <2>2
<1> QED
  BY <1>2, <1>3, <1>4 DEF AfterRenames

-------------------------------------------------------------------------------
\* What the differ plans and the statements do keeps sources, snapshot, catalogs
\* and the loops of the passes well formed (Differ.Diff).
THEOREM PassesTypeCorrect == Spec => []TypeOK
<1>1. TInv => TypeOK
  BY DEF TInv
<1> QED
  BY <1>1, InitTypes, TypeStep, PTL DEF Spec

\* An object is never moved to a schema that is not there, be it an old one, a
\* new one, which pass 0 creates, or a renamed one, which comes first in the
\* order of the resolver: provided that no schema is renamed whose old name the
\* same sources declare, public included (Differ.Diff, passes 0 and 1).
THEOREM MovesAreToSchemas ==
  ASSUME SchemasAreRenamedAway
  PROVE  Spec => []MovesFindTheirSchema
<1>1. Init => TInv /\ SchemaInv
  BY InitTypes, InitSchemas
<1>2. TInv /\ SchemaInv /\ [Next]_vars => TInv' /\ SchemaInv'
  BY TypeStep, SchemaStep
<1> QED
  BY <1>1, <1>2, SchemaIsThere, PTL DEF Spec

===============================================================================

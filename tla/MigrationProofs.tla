--------------------------- MODULE MigrationProofs ---------------------------
(***************************************************************************)
(* A migration that is executed to its end does what the sources say, for  *)
(* any schemas, names, bodies and sources that keep to the discipline of   *)
(* renames below.  Without it the runs show migrations that do not.        *)
(***************************************************************************)
EXTENDS DiffPassesProofs

PublicKey == SchemaKey(Public)
PlainBody == CHOOSE b \in Bodies : TRUE

-------------------------------------------------------------------------------
(* The discipline *)

\* A name that was renamed away is not declared again, nor renamed twice, and the
\* schema every database has keeps its name.
NamesAreDisciplined ==
  \A S \in Sources : \A k \in DOMAIN S :
    S[k].from # NoKey =>
      /\ S[k].from \notin DOMAIN S \cup {PublicKey}
      /\ \A l \in DOMAIN S : S[l].from = S[k].from => l = k

\* A schema that is ever renamed never has contents under its old name, which the
\* rename would take along.
RenamedSchemasAreEmpty ==
  \A S, T \in Sources : \A k \in DOMAIN S :
    IsSchema(k) /\ S[k].from # NoKey =>
      \A x \in DOMAIN T : x[1] = S[k].from[1] => x = S[k].from

\* The schema "public", if it is declared, is declared as every database has it.
PublicIsPlain ==
  \A S \in Sources : PublicKey \in DOMAIN S =>
    S[PublicKey].uses = {} /\ S[PublicKey].body = PlainBody

SourcesAreDisciplined == NamesAreDisciplined /\ RenamedSchemasAreEmpty /\ PublicIsPlain

-------------------------------------------------------------------------------
(* The inductive invariant: what the open transaction has of every object, when *)
(* the loops of the passes have come to where they are.                         *)

Visited == {order[n] : n \in {m \in 1 .. Len(order) : m < i}}

\* Object x of the catalog is as e says; what e refers to may still be renamed, unless
\* it has its declared name already.
Reflects(cat, x, e) ==
  /\ cat[x].body = e.body
  /\ e.uses \subseteq DOMAIN sources => cat[x].uses = e.uses

\* The objects in settled are as declared, those in gone are gone, and the other
\* recorded ones as recorded; what was there when the transaction began has kept its
\* contents, under whichever name.
Stands(cat, settled, gone) ==
  /\ DOMAIN cat = ((Recorded \cup {PublicKey}) \ gone) \cup settled
  /\ \A x \in settled : Reflects(cat, x, sources[x])
  /\ \A x \in Recorded \ (gone \cup settled) : Reflects(cat, x, snap[x])
  /\ cat[PublicKey].uses = {} /\ cat[PublicKey].body = PlainBody
  /\ \A x \in settled \cap Renamed : cat[x].origin = sources[x].from
  /\ \A x \in (Recorded \cup {PublicKey}) \ gone : cat[x].origin = x

RenamedSoFar == Renamed \cap Visited

WorkInv ==
  /\ pc = "pass0" => Stands(work, Early \cap Visited, {})
  /\ pc = "pass1" => Stands(work, Early \cup RenamedSoFar, {sources[k].from : k \in RenamedSoFar})
  /\ pc = "pass2" => Stands(work, Early \cup Renamed, consumed \cup (Dropped \ left))
  /\ pc = "pass3" => Stands(work, Early \cup Renamed \cup Visited, consumed \cup Dropped)

\* Between migrations the database is what the snapshot records.
RecordInv ==
  /\ DOMAIN db = Recorded \cup {PublicKey}
  /\ \A x \in Recorded : db[x].uses = snap[x].uses /\ db[x].body = snap[x].body
  /\ db[PublicKey].uses = {} /\ db[PublicKey].body = PlainBody
  /\ \A x \in Recorded : \E S \in Sources : x \in DOMAIN S /\ snap[x] = Entry(S[x])

\* What Begin has seen to.
Accepted ==
  /\ Stale = {}
  /\ \A k \in Dropped : ~snap[k].protected
  /\ Sorted(order)
  /\ \A k \in DOMAIN sources : \E n \in 1 .. Len(order) : order[n] = k
  /\ \A m, n \in 1 .. Len(order) : order[m] = order[n] => m = n
  /\ left \subseteq Dropped

MigrationInv ==
  /\ RecordInv
  /\ WorkInv
  /\ pc \in Passes => Accepted
  /\ pc \in {"pass0", "pass1"} => left = Dropped
  /\ pc = "pass2" => i = 1

-------------------------------------------------------------------------------
(* Keys *)

LEMMA PublicIsSchema == PublicKey \in Key /\ IsSchema(PublicKey)
  BY ConstantsAssumption, SchemaKeyIsKey DEF PublicKey

LEMMA DisciplineFacts ==
  ASSUME SourcesAreDisciplined, TInv, NEW k \in DOMAIN sources, sources[k].from # NoKey
  PROVE  /\ sources[k].from \notin DOMAIN sources \cup {PublicKey}
         /\ \A l \in DOMAIN sources : sources[l].from = sources[k].from => l = k
  BY DEF SourcesAreDisciplined, NamesAreDisciplined, TInv

\* What pass 2 may find gone is not declared, and is not public.
LEMMA GoneIsUndeclared ==
  ASSUME SourcesAreDisciplined, TInv
  PROVE  (consumed \cup Dropped) \cap (DOMAIN sources \cup {PublicKey}) = {}
<1>1. ASSUME NEW k \in Renamed PROVE sources[k].from \notin DOMAIN sources \cup {PublicKey}
  BY <1>1, RenamedFrom, DisciplineFacts DEF TInv
<1> QED
  BY <1>1 DEF consumed, Dropped, PublicKey

\* Pass 3 leaves alone exactly what passes 0 and 1 have dealt with.
LEMMA HandledIsDone ==
  ASSUME SourcesAreDisciplined, TInv, NEW k \in DOMAIN sources
  PROVE  Handled(k) <=> k \in Renamed \cup Early
<1>1. ASSUME sources[k].from \in consumed PROVE k \in Renamed
  <2>1. PICK l \in Renamed : sources[k].from = sources[l].from
    BY <1>1 DEF consumed
  <2>2. l \in DOMAIN sources /\ sources[l].from # NoKey
    BY RenamedFrom DEF TInv
  <2> QED
    BY <2>1, <2>2, DisciplineFacts
<1> QED
  BY <1>1 DEF Handled, consumed

LEMMA DeclaredPublicIsPlain ==
  ASSUME SourcesAreDisciplined, TInv, RecordInv
  PROVE  /\ PublicKey \in DOMAIN sources =>
              sources[PublicKey].uses = {} /\ sources[PublicKey].body = PlainBody
         /\ PublicKey \in Recorded =>
              snap[PublicKey].uses = {} /\ snap[PublicKey].body = PlainBody
<1>1. PublicKey \in DOMAIN sources =>
         sources[PublicKey].uses = {} /\ sources[PublicKey].body = PlainBody
  BY DEF SourcesAreDisciplined, PublicIsPlain, TInv
<1>2. ASSUME PublicKey \in Recorded
      PROVE  snap[PublicKey].uses = {} /\ snap[PublicKey].body = PlainBody
  <2>1. PICK S \in Sources : PublicKey \in DOMAIN S /\ snap[PublicKey] = Entry(S[PublicKey])
    BY <1>2 DEF RecordInv
  <2>2. S[PublicKey].uses = {} /\ S[PublicKey].body = PlainBody
    BY <2>1 DEF SourcesAreDisciplined, PublicIsPlain
  <2> QED
    BY <2>1, <2>2 DEF Entry
<1> QED
  BY <1>1, <1>2

LEMMA UsesAreDeclared ==
  ASSUME TInv, NEW k \in DOMAIN sources
  PROVE  sources[k].uses \subseteq DOMAIN sources \ {k}
  BY DEF TInv, TypeOK, WellFormed

LEMMA WorkIsCatalog == TInv => IsCatalog(work)
  BY DEF TInv, TypeOK, IsCatalog, CatalogEntry

-------------------------------------------------------------------------------
(* Statements *)

LEMMA CreateSettles ==
  ASSUME SourcesAreDisciplined, TInv, RecordInv, NEW k \in DOMAIN sources, k \notin Recorded \cup Renamed,
         NEW settled, NEW gone, Stands(work, settled, gone), PublicKey \notin gone,
         NEW c \in Create(work, k, sources[k])
  PROVE  Stands(c, settled \cup {k}, gone)
<1>1. PublicKey \in DOMAIN work
  BY DEF Stands
<1>2. CASE c = work /\ k \in DOMAIN work
  <2>1. k = PublicKey \/ k \in settled
    BY <1>2 DEF Stands
  <2>2. Reflects(work, k, sources[k])
    <3>1. CASE k = PublicKey
      BY <3>1, DeclaredPublicIsPlain DEF Stands, Reflects
    <3>2. CASE k \in settled
      BY <3>2 DEF Stands
    <3> QED
      BY <2>1, <3>1, <3>2
  <2>3. DOMAIN work = ((Recorded \cup {PublicKey}) \ gone) \cup (settled \cup {k})
    BY <1>2 DEF Stands
  <2> QED
    BY <1>2, <2>2, <2>3 DEF Stands
<1>3. CASE /\ k \notin DOMAIN work
           /\ c = Put(work, k, [uses |-> sources[k].uses, body |-> sources[k].body, origin |-> NoKey])
  <2>1. /\ DOMAIN c = DOMAIN work \cup {k}
        /\ \A x \in DOMAIN work : c[x] = work[x]
        /\ c[k].uses = sources[k].uses /\ c[k].body = sources[k].body
    BY <1>3 DEF Put
  <2>2. k # PublicKey /\ k \notin settled
    BY <1>1, <1>3 DEF Stands
  <2>3. DOMAIN c = ((Recorded \cup {PublicKey}) \ gone) \cup (settled \cup {k})
    BY <2>1 DEF Stands
  <2>4. \A x \in settled \cup {k} : Reflects(c, x, sources[x])
    BY <2>1 DEF Stands, Reflects
  <2>5. \A x \in Recorded \ (gone \cup (settled \cup {k})) : Reflects(c, x, snap[x])
    BY <2>1 DEF Stands, Reflects
  <2>6. c[PublicKey].uses = {} /\ c[PublicKey].body = PlainBody
    BY <1>1, <2>1 DEF Stands
  <2>7. \A x \in (settled \cup {k}) \cap Renamed : c[x].origin = sources[x].from
    BY <2>1 DEF Stands
  <2>8. \A x \in (Recorded \cup {PublicKey}) \ gone : c[x].origin = x
    BY <2>1 DEF Stands
  <2> QED
    BY <2>3, <2>4, <2>5, <2>6, <2>7, <2>8 DEF Stands
<1> QED
  BY <1>2, <1>3 DEF Create, Fails

LEMMA AlterSettles ==
  ASSUME SourcesAreDisciplined, TInv, RecordInv, NEW k \in DOMAIN sources, k \in Recorded,
         NEW settled, NEW gone, Stands(work, settled, gone), k \notin gone, PublicKey \notin gone,
         NEW c \in Alter(work, k, snap[k], sources[k])
  PROVE  Stands(c, settled \cup {k}, gone)
<1>1. k \in DOMAIN work /\ PublicKey \in DOMAIN work
  BY DEF Stands
<1>2. DOMAIN work = ((Recorded \cup {PublicKey}) \ gone) \cup (settled \cup {k})
  BY DEF Stands
<1>3. CASE c = work /\ snap[k].uses = sources[k].uses /\ snap[k].body = sources[k].body
  <2>1. Reflects(work, k, sources[k])
    <3>1. CASE k \in settled
      BY <3>1 DEF Stands
    <3>2. CASE k \notin settled
      BY <1>3, <3>2 DEF Stands, Reflects
    <3> QED
      BY <3>1, <3>2
  <2>2. k \notin Renamed
    BY DEF Renamed, Unrecorded
  <2> QED
    BY <1>2, <1>3, <2>1, <2>2 DEF Stands
<1>4. CASE /\ c = [work EXCEPT ![k].uses = sources[k].uses, ![k].body = sources[k].body]
           /\ ~(snap[k].uses = sources[k].uses /\ snap[k].body = sources[k].body)
  <2>1. k # PublicKey
    BY <1>4, DeclaredPublicIsPlain
  <2>2. work[k] \in CatalogEntry
    BY <1>1, WorkIsCatalog DEF IsCatalog
  <2>3. /\ DOMAIN c = DOMAIN work
        /\ \A x \in DOMAIN work : x # k => c[x] = work[x]
        /\ c[k].uses = sources[k].uses /\ c[k].body = sources[k].body
        /\ c[k].origin = work[k].origin
    BY <1>1, <1>4, <2>2 DEF CatalogEntry
  <2>4. k \notin Renamed
    BY DEF Renamed, Unrecorded
  <2>5. \A x \in settled \cup {k} : Reflects(c, x, sources[x])
    BY <2>3 DEF Stands, Reflects
  <2>6. \A x \in Recorded \ (gone \cup (settled \cup {k})) : Reflects(c, x, snap[x])
    BY <2>3 DEF Stands, Reflects
  <2>7. c[PublicKey].uses = {} /\ c[PublicKey].body = PlainBody
    BY <1>1, <2>1, <2>3 DEF Stands
  <2>8. \A x \in (settled \cup {k}) \cap Renamed : c[x].origin = sources[x].from
    BY <2>3, <2>4 DEF Stands
  <2>9. \A x \in (Recorded \cup {PublicKey}) \ gone : c[x].origin = x
    BY <2>3 DEF Stands
  <2> QED
    BY <1>2, <2>3, <2>5, <2>6, <2>7, <2>8, <2>9 DEF Stands
<1> QED
  BY <1>3, <1>4 DEF Alter, Fails

LEMMA DropGoes ==
  ASSUME TInv, NEW k, k \notin DOMAIN sources \cup {PublicKey},
         NEW settled, settled \subseteq DOMAIN sources, NEW gone, PublicKey \notin gone,
         Stands(work, settled, gone),
         NEW c \in Drop(work, k)
  PROVE  Stands(c, settled, gone \cup {k})
<1>1. DOMAIN c = DOMAIN work \ {k} /\ \A x \in DOMAIN c : c[x] = work[x]
  BY DEF Drop, Without, Fails
<1>2. DOMAIN c = ((Recorded \cup {PublicKey}) \ (gone \cup {k})) \cup settled
  BY <1>1 DEF Stands
<1>3. \A x \in settled : Reflects(c, x, sources[x])
  BY <1>1, <1>2 DEF Stands, Reflects
<1>4. \A x \in Recorded \ ((gone \cup {k}) \cup settled) : Reflects(c, x, snap[x])
  BY <1>1, <1>2 DEF Stands, Reflects
<1>5. c[PublicKey].uses = {} /\ c[PublicKey].body = PlainBody
  BY <1>1, <1>2 DEF Stands
<1>6. \A x \in settled \cap Renamed : c[x].origin = sources[x].from
  BY <1>1, <1>2 DEF Stands
<1>7. \A x \in (Recorded \cup {PublicKey}) \ (gone \cup {k}) : c[x].origin = x
  BY <1>1, <1>2 DEF Stands
<1> QED
  BY <1>2, <1>3, <1>4, <1>5, <1>6, <1>7 DEF Stands

\* A rename of one object moves its entry and leaves the others alone, but for their
\* references.
LEMMA RekeyedMoves ==
  ASSUME NEW cat, IsCatalog(cat), NEW to \in [Key -> Key], NEW old \in DOMAIN cat,
         \A x \in DOMAIN cat \ {old} : to[x] = x,
         to[old] \notin DOMAIN cat \ {old}
  PROVE  /\ DOMAIN Rekeyed(cat, to) = (DOMAIN cat \ {old}) \cup {to[old]}
         /\ \A x \in DOMAIN cat :
              /\ Rekeyed(cat, to)[to[x]].uses = {to[u] : u \in cat[x].uses}
              /\ Rekeyed(cat, to)[to[x]].body = cat[x].body
              /\ Rekeyed(cat, to)[to[x]].origin = cat[x].origin
<1> DEFINE D == {to[k] : k \in DOMAIN cat}
           At(x) == CHOOSE k \in DOMAIN cat : to[k] = x
           Moved(y) == [cat[y] EXCEPT !.uses = {to[u] : u \in @}]
<1>1. D = (DOMAIN cat \ {old}) \cup {to[old]}
  OBVIOUS
<1>2. ASSUME NEW x \in DOMAIN cat PROVE At(to[x]) = x
  <2>1. \A y \in DOMAIN cat : to[y] = to[x] => y = x
    OBVIOUS
  <2> QED
    BY <2>1
<1>3. Rekeyed(cat, to) = [x \in D |-> Moved(At(x))]
  BY DEF Rekeyed
<1> HIDE DEF At
<1>4. ASSUME NEW x \in DOMAIN cat
      PROVE  /\ Rekeyed(cat, to)[to[x]].uses = {to[u] : u \in cat[x].uses}
             /\ Rekeyed(cat, to)[to[x]].body = cat[x].body
             /\ Rekeyed(cat, to)[to[x]].origin = cat[x].origin
  <2>1. to[x] \in D
    OBVIOUS
  <2>2. Rekeyed(cat, to)[to[x]] = Moved(x)
    <3> HIDE DEF Moved
    <3> QED
      BY <1>2, <1>3, <2>1
  <2>3. cat[x] \in CatalogEntry
    BY DEF IsCatalog
  <2> QED
    BY <2>2, <2>3 DEF CatalogEntry
<1> QED
  BY <1>1, <1>3, <1>4

\* The statements of pass 1, before the renamed object is altered.
Renaming(k) ==
  IF IsSchema(k) THEN RenameSchema(work, sources[k].from, k)
  ELSE Move(work, sources[k].from, k)

\* In catalog b every object has the key that to gives it: k instead of old, and its own
\* if it is another one, or has its declared name.
MovedBy(b, to, old, k) ==
  /\ to[old] = k
  /\ \A x \in DOMAIN sources \cup (DOMAIN work \ {old}) : to[x] = x
  /\ \A x \in DOMAIN work :
       /\ b[to[x]].uses = {to[u] : u \in work[x].uses}
       /\ b[to[x]].body = work[x].body
       /\ b[to[x]].origin = work[x].origin

LEMMA RenamedMoves ==
  ASSUME SourcesAreDisciplined, TInv, RecordInv, NEW k \in Renamed,
         NEW settled, settled \subseteq DOMAIN sources, NEW gone,
         sources[k].from \notin gone, Stands(work, settled, gone),
         NEW b \in Renaming(k)
  PROVE  /\ k \notin DOMAIN work /\ sources[k].from \in DOMAIN work
         /\ IsCatalog(b)
         /\ DOMAIN b = (DOMAIN work \ {sources[k].from}) \cup {k}
         /\ \E to \in [Key -> Key] : MovedBy(b, to, sources[k].from, k)
<1> DEFINE old == sources[k].from
           to == IF IsSchema(k)
                 THEN [x \in Key |-> IF x[1] = old[1] THEN <<k[1], x[2]>> ELSE x]
                 ELSE [x \in Key |-> IF x = old THEN k ELSE x]
<1>1. /\ k \in DOMAIN sources /\ k \in Key /\ old \in Key /\ old \in Recorded /\ old # k
      /\ (IsSchema(old) <=> IsSchema(k)) /\ old \notin DOMAIN sources \cup {PublicKey}
      /\ old # NoKey
  BY RenamedFrom, Declared, DisciplineFacts DEF TInv
<1>2. b = Rekeyed(work, to) /\ old \in DOMAIN work /\ k \notin DOMAIN work \ {old}
  BY DEF Renaming, RenameSchema, Move, Fails
<1>3. to \in [Key -> Key]
  <2>1. CASE IsSchema(k)
    <3> SUFFICES ASSUME NEW x \in Key
                 PROVE  (IF x[1] = old[1] THEN <<k[1], x[2]>> ELSE x) \in Key
      BY <2>1
    <3> QED
      BY <1>1, KeyParts, PairIsKey
  <2>2. CASE ~IsSchema(k)
    BY <1>1, <2>2
  <2> QED
    BY <2>1, <2>2
<1>4. to[old] = k
  <2>1. CASE IsSchema(k)
    <3>1. old[2] = k[2] /\ k = <<k[1], k[2]>>
      BY <1>1, <2>1, KeyParts
    <3> QED
      BY <1>1, <2>1, <3>1
  <2>2. CASE ~IsSchema(k)
    BY <1>1, <2>2
  <2> QED
    BY <2>1, <2>2
<1>5. DOMAIN work \subseteq Key /\ DOMAIN sources \subseteq Key
  BY DEF TInv, TypeOK, WellFormed
<1>6. ASSUME NEW x \in DOMAIN sources \cup (DOMAIN work \ {old}) PROVE to[x] = x
  <2>1. x \in Key /\ x # old
    BY <1>1, <1>5, <1>6
  <2>2. CASE ~IsSchema(k)
    BY <2>1, <2>2
  <2>3. CASE IsSchema(k) /\ x[1] # old[1]
    BY <2>1, <2>3
  <2>4. CASE IsSchema(k) /\ x[1] = old[1]
    <3>1. IsSchema(old) /\ old = SchemaKey(x[1])
      BY <1>1, <2>4, KeyParts
    <3>2. ~IsSchema(x)
      BY <2>1, <3>1, KeyParts
    <3>3. x \notin DOMAIN sources
      BY <1>1, <3>1, <3>2 DEF TInv, TypeOK, WellFormed, PublicKey
    <3>4. x # PublicKey
      BY <3>2, PublicIsSchema
    <3>5. x \in Recorded
      BY <1>6, <3>3, <3>4 DEF Stands
    <3>6. PICK S \in Sources : x \in DOMAIN S
      BY <3>5 DEF RecordInv
    <3> QED
      BY <1>1, <2>1, <2>4, <3>6 DEF SourcesAreDisciplined, RenamedSchemasAreEmpty, TInv
  <2> QED
    BY <2>2, <2>3, <2>4
<1> HIDE DEF to
<1>7. IsCatalog(work)
  BY WorkIsCatalog
<1>8. /\ DOMAIN b = (DOMAIN work \ {old}) \cup {to[old]}
      /\ \A x \in DOMAIN work :
           /\ b[to[x]].uses = {to[u] : u \in work[x].uses}
           /\ b[to[x]].body = work[x].body
           /\ b[to[x]].origin = work[x].origin
  <2>1. /\ \A x \in DOMAIN work \ {old} : to[x] = x
        /\ to[old] \notin DOMAIN work \ {old} /\ old \in DOMAIN work
    BY <1>2, <1>4, <1>6
  <2> HIDE DEF old
  <2>2. /\ DOMAIN Rekeyed(work, to) = (DOMAIN work \ {old}) \cup {to[old]}
        /\ \A x \in DOMAIN work :
             /\ Rekeyed(work, to)[to[x]].uses = {to[u] : u \in work[x].uses}
             /\ Rekeyed(work, to)[to[x]].body = work[x].body
             /\ Rekeyed(work, to)[to[x]].origin = work[x].origin
    BY <1>3, <1>7, <2>1, RekeyedMoves
  <2> QED
    BY <1>2, <2>2
<1>9. IsCatalog(b)
  BY <1>2, <1>3, <1>7, RekeyedIsCatalog
<1>10. MovedBy(b, to, old, k)
  BY <1>4, <1>6, <1>8 DEF MovedBy
<1> QED
  BY <1>1, <1>2, <1>3, <1>4, <1>8, <1>9, <1>10

LEMMA RenameSettles ==
  ASSUME SourcesAreDisciplined, TInv, RecordInv, NEW k \in Renamed,
         NEW settled, settled \subseteq DOMAIN sources, NEW gone,
         sources[k].from \notin gone, PublicKey \notin gone, Stands(work, settled, gone),
         NEW c \in RenameAndAlter(work, k)
  PROVE  Stands(c, settled \cup {k}, gone \cup {sources[k].from})
<1> DEFINE d == sources[k]
           old == sources[k].from
<1>1. /\ k \in DOMAIN sources /\ k \notin Recorded /\ old \in Recorded
      /\ old \notin DOMAIN sources \cup {PublicKey} /\ d.uses \subseteq DOMAIN sources
  BY RenamedFrom, DisciplineFacts, UsesAreDeclared DEF TInv
<1>2. PICK b \in Renaming(k) : c \in Alter(b, k, snap[old], d)
  BY DEF RenameAndAlter, Renaming
<1>3. /\ k \notin DOMAIN work /\ old \in DOMAIN work /\ IsCatalog(b)
      /\ DOMAIN b = (DOMAIN work \ {old}) \cup {k}
      /\ \E to \in [Key -> Key] : MovedBy(b, to, old, k)
  BY RenamedMoves
<1>4. PICK to \in [Key -> Key] : MovedBy(b, to, old, k)
  BY <1>3
<1>5. ASSUME NEW U, U \subseteq DOMAIN sources PROVE {to[u] : u \in U} = U
  BY <1>4, <1>5 DEF MovedBy
<1>6. Reflects(work, old, snap[old]) /\ work[old].origin = old
  BY <1>1 DEF Stands
<1>7. /\ b[k].body = snap[old].body /\ b[k].origin = old
      /\ snap[old].uses \subseteq DOMAIN sources => b[k].uses = snap[old].uses
  <2>1. /\ b[k].uses = {to[u] : u \in work[old].uses}
        /\ b[k].body = work[old].body /\ b[k].origin = work[old].origin
    BY <1>3, <1>4 DEF MovedBy
  <2> QED
    BY <1>5, <1>6, <2>1 DEF Reflects
<1> HIDE DEF d, old
<1>8. ASSUME NEW x \in DOMAIN work \ {old}
      PROVE  /\ b[x].uses = {to[u] : u \in work[x].uses}
             /\ b[x].body = work[x].body
             /\ b[x].origin = work[x].origin
  BY <1>4 DEF MovedBy
<1>9. /\ DOMAIN c = DOMAIN b
      /\ \A x \in DOMAIN b : x # k => c[x] = b[x]
      /\ c[k].uses = d.uses /\ c[k].body = d.body /\ c[k].origin = old
  <2>1. CASE c = b /\ snap[old].uses = d.uses /\ snap[old].body = d.body
    BY <1>1, <1>7, <2>1
  <2>2. CASE c = [b EXCEPT ![k].uses = d.uses, ![k].body = d.body]
    <3>1. k \in DOMAIN b /\ b[k] \in CatalogEntry
      BY <1>3 DEF IsCatalog
    <3> QED
      BY <1>7, <2>2, <3>1 DEF CatalogEntry
  <2> QED
    BY <1>2, <2>1, <2>2 DEF Alter, Fails
<1>10. ASSUME NEW x \in DOMAIN work \ {old}, NEW e, Reflects(work, x, e) PROVE Reflects(c, x, e)
  <2>1. x # k /\ c[x] = b[x]
    BY <1>3, <1>9, <1>10
  <2> QED
    BY <1>5, <1>8, <1>10, <2>1 DEF Reflects
<1>11. k \notin settled /\ old \notin settled /\ k # PublicKey /\ PublicKey \in DOMAIN work
  BY <1>1, <1>3 DEF Stands, old
<1>12. DOMAIN c = ((Recorded \cup {PublicKey}) \ (gone \cup {old})) \cup (settled \cup {k})
  BY <1>1, <1>3, <1>9, <1>11 DEF Stands, old
<1>13. ASSUME NEW x \in settled \cup {k} PROVE Reflects(c, x, sources[x])
  <2>1. CASE x = k
    BY <1>9, <2>1 DEF Reflects, d
  <2>2. CASE x \in settled
    <3>1. x \in DOMAIN work \ {old} /\ Reflects(work, x, sources[x])
      BY <1>11, <2>2 DEF Stands
    <3> QED
      BY <1>10, <3>1
  <2> QED
    BY <1>13, <2>1, <2>2
<1>14. ASSUME NEW x \in Recorded \ ((gone \cup {old}) \cup (settled \cup {k}))
       PROVE  Reflects(c, x, snap[x])
  <2>1. x \in DOMAIN work \ {old} /\ Reflects(work, x, snap[x])
    BY <1>14 DEF Stands
  <2> QED
    BY <1>10, <2>1
<1>15. c[PublicKey].uses = {} /\ c[PublicKey].body = PlainBody
  <2>1. PublicKey \in DOMAIN work \ {old} /\ work[PublicKey].uses = {} /\ work[PublicKey].body = PlainBody
    BY <1>1, <1>11 DEF Stands, old
  <2>2. b[PublicKey].uses = {} /\ b[PublicKey].body = PlainBody /\ PublicKey \in DOMAIN b
    BY <1>3, <1>5, <1>8, <2>1
  <2> QED
    BY <1>9, <1>11, <2>2
<1>16. ASSUME NEW x \in (settled \cup {k}) \cap Renamed PROVE c[x].origin = sources[x].from
  <2>1. CASE x = k
    BY <1>9, <2>1 DEF old
  <2>2. CASE x # k
    <3>1. x \in DOMAIN work \ {old} /\ work[x].origin = sources[x].from
      BY <1>11, <1>16, <2>2 DEF Stands
    <3> QED
      BY <1>3, <1>8, <1>9, <2>2, <3>1
  <2> QED
    BY <2>1, <2>2
<1>17. ASSUME NEW x \in (Recorded \cup {PublicKey}) \ (gone \cup {old}) PROVE c[x].origin = x
  <2>1. x \in DOMAIN work \ {old} /\ work[x].origin = x
    BY <1>17 DEF Stands
  <2> QED
    BY <1>3, <1>8, <1>9, <2>1
<1> QED
  BY <1>12, <1>13, <1>14, <1>15, <1>16, <1>17 DEF Stands, old

-------------------------------------------------------------------------------
(* Loops *)

LEMMA VisitedGrows ==
  ASSUME TInv, i \in 1 .. Len(order), i' = i + 1, UNCHANGED order
  PROVE  Visited' = Visited \cup {order[i]}
<1>1. Len(order) \in Nat
  BY DEF TInv, TypeOK
<1>2. {m \in 1 .. Len(order) : m < i + 1} = {m \in 1 .. Len(order) : m < i} \cup {i}
  BY <1>1
<1> QED
  BY <1>2 DEF Visited

LEMMA NothingVisited == (i = 1 => Visited = {}) /\ (i' = 1 => Visited' = {})
  BY DEF Visited

LEMMA AllVisited ==
  ASSUME TInv, Accepted, i > Len(order)
  PROVE  Visited = DOMAIN sources
<1>1. Len(order) \in Nat /\ i \in Nat /\ \A n \in 1 .. Len(order) : order[n] \in DOMAIN sources
  BY DEF TInv, TypeOK
<1>2. \A n \in 1 .. Len(order) : n < i
  BY <1>1
<1>3. \A k \in DOMAIN sources : \E n \in 1 .. Len(order) : order[n] = k
  BY DEF Accepted
<1> QED
  BY <1>1, <1>2, <1>3 DEF Visited

LEMMA PlannedAreDeclared ==
  ASSUME TInv
  PROVE  /\ Early \subseteq DOMAIN sources /\ Renamed \subseteq DOMAIN sources
         /\ Early \cap Recorded = {} /\ Renamed \cap Recorded = {} /\ Early \cap Renamed = {}
  BY DEF Early, Renamed, Unrecorded

\* What is planned does not change during a migration.
LEMMA StillAccepted ==
  ASSUME MigrationInv, UNCHANGED <<sources, snap, db, order>>, left' \subseteq left
  PROVE  /\ RecordInv' /\ (pc \in Passes => Accepted')
         /\ Recorded' = Recorded /\ consumed' = consumed
<1>1. RecordInv' /\ Recorded' = Recorded /\ consumed' = consumed
  BY SamePlan DEF MigrationInv, RecordInv, Recorded, consumed
<1>2. pc \in Passes => Accepted'
  BY SamePlan DEF MigrationInv, Accepted, Sorted
<1> QED
  BY <1>1, <1>2

-------------------------------------------------------------------------------
(* Passes *)

LEMMA InitMigration == Init => MigrationInv
  BY DEF Init, MigrationInv, RecordInv, Recorded, WorkInv, Passes, Empty, Untouched,
     PublicKey, PlainBody

LEMMA BeginKeeps ==
  ASSUME TInv, MigrationInv, NEW ord \in SetToSeqs(DOMAIN sources), Begin(ord)
  PROVE  MigrationInv'
<1>1. /\ pc' = "pass0" /\ order' = ord /\ i' = 1 /\ left' = Dropped /\ work' = Opened(db)
      /\ ~Rejected /\ Sorted(ord) /\ UNCHANGED <<sources, snap, db>>
  BY DEF Begin
<1>2. Recorded' = Recorded /\ Dropped' = Dropped /\ Stale' = Stale /\ Early' = Early
  BY <1>1, SamePlan DEF Recorded
<1>3. RecordInv'
  BY <1>1, <1>2 DEF MigrationInv, RecordInv
<1>4. Accepted'
  <2>1. /\ \A k \in DOMAIN sources : \E n \in 1 .. Len(ord) : ord[n] = k
        /\ \A m, n \in 1 .. Len(ord) : ord[m] = ord[n] => m = n
    BY OrderHasAll, ConstantsAssumption DEF TInv
  <2>2. Stale = {} /\ \A k \in Dropped : ~snap[k].protected
    BY <1>1 DEF Rejected
  <2>3. Sorted(order)'
    BY <1>1 DEF Sorted
  <2> QED
    BY <1>1, <1>2, <2>1, <2>2, <2>3 DEF Accepted
<1>5. Visited' = {}
  BY <1>1, NothingVisited
<1>6. /\ DOMAIN work' = Recorded \cup {PublicKey}
      /\ \A x \in DOMAIN work' : /\ work'[x].uses = db[x].uses
                                /\ work'[x].body = db[x].body
                                /\ work'[x].origin = x
  BY <1>1 DEF Opened, MigrationInv, RecordInv
<1>7. Stands(work, Early \cap Visited, {})'
  BY <1>1, <1>2, <1>3, <1>5, <1>6 DEF Stands, Reflects, RecordInv
<1> QED
  BY <1>1, <1>2, <1>3, <1>4, <1>7 DEF MigrationInv, WorkInv

LEMMA Pass0Keeps ==
  ASSUME SourcesAreDisciplined, TInv, MigrationInv, Pass0
  PROVE  MigrationInv'
<1> DEFINE k == order[i]
<1>1. /\ pc = "pass0" /\ i <= Len(order)
      /\ UNCHANGED <<sources, snap, db, order, left>>
      /\ pc' = "failed" \/ (pc' = pc /\ i' = i + 1)
  BY DEF Pass0, Visit
<1>2. k \in DOMAIN sources /\ i \in 1 .. Len(order)
  BY <1>1, Position
<1>3. RecordInv /\ RecordInv' /\ Accepted' /\ Recorded' = Recorded /\ Early' = Early
      /\ Dropped' = Dropped /\ Renamed' = Renamed
  BY <1>1, StillAccepted, SamePlan DEF MigrationInv, Passes
<1>4. CASE pc' = "failed"
  BY <1>3, <1>4 DEF MigrationInv, WorkInv, Passes
<1>5. CASE pc' = pc /\ i' = i + 1
  <2>1. Stands(work, Early \cap Visited, {}) /\ Visited' = Visited \cup {k}
    BY <1>1, <1>2, <1>5, VisitedGrows DEF MigrationInv, WorkInv
  <2>2. Stands(work', Early \cap (Visited \cup {k}), {})
    <3>1. CASE k \in Early
      <4>1. work' \in Create(work, k, sources[k])
        BY <1>1, <1>5, <3>1 DEF Pass0, Visit
      <4>2. k \notin Recorded \cup Renamed
        BY <3>1, PlannedAreDeclared
      <4>3. Stands(work', (Early \cap Visited) \cup {k}, {})
        BY <1>2, <1>3, <2>1, <4>1, <4>2, CreateSettles
      <4>4. (Early \cap Visited) \cup {k} = Early \cap (Visited \cup {k})
        BY <3>1
      <4> QED
        BY <4>3, <4>4
    <3>2. CASE k \notin Early
      <4>1. work' = work /\ Early \cap (Visited \cup {k}) = Early \cap Visited
        BY <1>1, <1>5, <3>2 DEF Pass0, Visit
      <4> QED
        BY <2>1, <4>1
    <3> QED
      BY <3>1, <3>2
  <2>3. Stands(work, Early \cap Visited, {})'
    BY <1>1, <1>3, <2>1, <2>2 DEF Stands, Reflects
  <2> QED
    BY <1>1, <1>3, <1>5, <2>3 DEF MigrationInv, WorkInv
<1> QED
  BY <1>1, <1>4, <1>5

LEMMA Pass0EndKeeps ==
  ASSUME TInv, MigrationInv, EndLoop("pass0", "pass1")
  PROVE  MigrationInv'
<1>1. /\ pc = "pass0" /\ pc' = "pass1" /\ i > Len(order) /\ i' = 1
      /\ UNCHANGED <<sources, snap, db, order, left, work>>
  BY DEF EndLoop
<1>2. RecordInv' /\ Accepted /\ Accepted' /\ Recorded' = Recorded /\ Early' = Early
      /\ Renamed' = Renamed /\ Dropped' = Dropped
  BY <1>1, StillAccepted, SamePlan DEF MigrationInv, Passes
<1>3. Stands(work, Early, {})
  <2>1. Early \cap Visited = Early
    BY <1>1, <1>2, AllVisited, PlannedAreDeclared
  <2> QED
    BY <1>1, <2>1 DEF MigrationInv, WorkInv
<1>4. RenamedSoFar' = {}
  BY <1>1, NothingVisited DEF RenamedSoFar
<1>5. Stands(work, Early \cup RenamedSoFar, {sources[k].from : k \in RenamedSoFar})'
  <2>1. (Early \cup RenamedSoFar)' = Early /\ {sources[k].from : k \in RenamedSoFar}' = {}
    BY <1>2, <1>4
  <2> QED
    BY <1>1, <1>2, <1>3, <2>1 DEF Stands, Reflects
<1> QED
  BY <1>1, <1>2, <1>5 DEF MigrationInv, WorkInv

LEMMA Pass1Keeps ==
  ASSUME SourcesAreDisciplined, TInv, MigrationInv, Pass1
  PROVE  MigrationInv'
<1> DEFINE k == order[i]
           settled == Early \cup RenamedSoFar
           gone == {sources[l].from : l \in RenamedSoFar}
<1>1. /\ pc = "pass1" /\ i <= Len(order)
      /\ UNCHANGED <<sources, snap, db, order, left>>
      /\ pc' = "failed" \/ (pc' = pc /\ i' = i + 1)
  BY DEF Pass1, Visit
<1>2. k \in DOMAIN sources /\ i \in 1 .. Len(order)
  BY <1>1, Position
<1>3. RecordInv /\ RecordInv' /\ Accepted' /\ Recorded' = Recorded /\ Early' = Early
      /\ Dropped' = Dropped /\ Renamed' = Renamed
  BY <1>1, StillAccepted, SamePlan DEF MigrationInv, Passes
<1>4. CASE pc' = "failed"
  BY <1>3, <1>4 DEF MigrationInv, WorkInv, Passes
<1>5. CASE pc' = pc /\ i' = i + 1
  <2>1. Stands(work, settled, gone) /\ Visited' = Visited \cup {k}
    BY <1>1, <1>2, <1>5, VisitedGrows DEF MigrationInv, WorkInv
  <2>2. CASE k \in Renamed
    <3>1. work' \in RenameAndAlter(work, k)
      BY <1>1, <1>5, <2>2 DEF Pass1, Visit
    <3>2. k \notin DOMAIN work
      <4>1. Renaming(k) # {} /\ sources[k].from # k
        BY <3>1, <2>2, RenamedFrom DEF RenameAndAlter, Renaming, TInv
      <4> QED
        BY <4>1 DEF Renaming, RenameSchema, Move, Fails
    <3>3. k \notin RenamedSoFar
      BY <2>1, <3>2 DEF Stands
    <3>4. sources[k].from \notin gone
      <4>1. sources[k].from # NoKey
        BY <2>2, RenamedFrom DEF TInv
      <4>2. \A l \in RenamedSoFar : l \in DOMAIN sources
        BY PlannedAreDeclared DEF RenamedSoFar
      <4> QED
        BY <1>2, <3>3, <4>1, <4>2, DisciplineFacts
    <3>5. gone \subseteq consumed
      BY DEF consumed, RenamedSoFar
    <3>6. PublicKey \notin gone /\ settled \subseteq DOMAIN sources
      BY <3>5, GoneIsUndeclared, PlannedAreDeclared DEF RenamedSoFar
    <3> HIDE DEF settled, gone, k
    <3>7. Stands(work', settled \cup {k}, gone \cup {sources[k].from})
      BY <1>3, <2>1, <2>2, <3>1, <3>4, <3>6, RenameSettles
    <3>8. RenamedSoFar' = RenamedSoFar \cup {k}
      BY <1>3, <2>1, <2>2 DEF RenamedSoFar
    <3>9. settled' = settled \cup {k} /\ gone' = gone \cup {sources[k].from}
      BY <1>1, <1>3, <3>8 DEF settled, gone
    <3>10. Stands(work, settled, gone)'
      BY <1>1, <1>3, <3>7, <3>9 DEF Stands, Reflects
    <3> QED
      BY <1>1, <1>3, <1>5, <3>10 DEF MigrationInv, WorkInv, settled, gone
  <2>3. CASE k \notin Renamed
    <3>1. work' = work /\ RenamedSoFar' = RenamedSoFar
      BY <1>1, <1>3, <1>5, <2>1, <2>3 DEF Pass1, Visit, RenamedSoFar
    <3>2. settled' = settled /\ gone' = gone
      BY <1>1, <1>3, <3>1
    <3> HIDE DEF settled, gone
    <3>3. Stands(work, settled, gone)'
      BY <1>1, <1>3, <2>1, <3>1, <3>2 DEF Stands, Reflects
    <3> QED
      BY <1>1, <1>3, <1>5, <3>3 DEF MigrationInv, WorkInv, settled, gone
  <2> QED
    BY <2>2, <2>3
<1> QED
  BY <1>1, <1>4, <1>5

LEMMA Pass1EndKeeps ==
  ASSUME TInv, MigrationInv, EndLoop("pass1", "pass2")
  PROVE  MigrationInv'
<1>1. /\ pc = "pass1" /\ pc' = "pass2" /\ i > Len(order) /\ i' = 1
      /\ UNCHANGED <<sources, snap, db, order, left, work>>
  BY DEF EndLoop
<1>2. RecordInv' /\ Accepted /\ Accepted' /\ Recorded' = Recorded /\ Early' = Early
      /\ Renamed' = Renamed /\ Dropped' = Dropped /\ consumed' = consumed
  BY <1>1, StillAccepted, SamePlan DEF MigrationInv, Passes
<1>3. RenamedSoFar = Renamed
  BY <1>1, <1>2, AllVisited, PlannedAreDeclared DEF RenamedSoFar
<1>4. Stands(work, Early \cup Renamed, consumed)
  BY <1>1, <1>3 DEF MigrationInv, WorkInv, consumed
<1>5. consumed \cup (Dropped \ left) = consumed
  BY <1>1 DEF MigrationInv
<1>6. Stands(work, Early \cup Renamed, consumed \cup (Dropped \ left))'
  BY <1>1, <1>2, <1>4, <1>5 DEF Stands, Reflects
<1> QED
  BY <1>1, <1>2, <1>6 DEF MigrationInv, WorkInv

LEMMA Pass2Keeps ==
  ASSUME SourcesAreDisciplined, TInv, MigrationInv, NEW k \in left, Pass2(k)
  PROVE  MigrationInv'
<1> DEFINE settled == Early \cup Renamed
           gone == consumed \cup (Dropped \ left)
<1>1. /\ pc = "pass2" /\ UNCHANGED <<sources, snap, db, order, i>>
      /\ \/ pc' = "failed" /\ UNCHANGED <<left, work>>
         \/ pc' = pc /\ left' = left \ {k} /\ work' \in Drop(work, k)
  BY DEF Pass2
<1>2. RecordInv /\ RecordInv' /\ Accepted /\ Accepted' /\ Recorded' = Recorded /\ Early' = Early
      /\ Dropped' = Dropped /\ Renamed' = Renamed /\ consumed' = consumed
  BY <1>1, StillAccepted, SamePlan DEF MigrationInv, Passes
<1>3. CASE pc' = "failed"
  BY <1>2, <1>3 DEF MigrationInv, WorkInv, Passes
<1>4. CASE pc' = pc /\ left' = left \ {k} /\ work' \in Drop(work, k)
  <2>1. Stands(work, settled, gone)
    BY <1>1 DEF MigrationInv, WorkInv
  <2>2. k \in Dropped
    BY <1>2 DEF Accepted
  <2>3. k \notin DOMAIN sources \cup {PublicKey} /\ PublicKey \notin gone
        /\ settled \subseteq DOMAIN sources
    BY <2>2, GoneIsUndeclared, PlannedAreDeclared
  <2>4. gone' = gone \cup {k} /\ settled' = settled
    BY <1>2, <1>4, <2>2
  <2> HIDE DEF settled, gone
  <2>5. Stands(work', settled, gone \cup {k})
    BY <1>4, <2>1, <2>3, DropGoes
  <2>6. Stands(work, settled, gone)'
    BY <1>1, <1>2, <2>4, <2>5 DEF Stands, Reflects
  <2> QED
    BY <1>1, <1>2, <1>4, <2>6 DEF MigrationInv, WorkInv, settled, gone
<1> QED
  BY <1>1, <1>3, <1>4

LEMMA EndDropsKeeps ==
  ASSUME TInv, MigrationInv, EndDrops
  PROVE  MigrationInv'
<1>1. /\ pc = "pass2" /\ pc' = "pass3" /\ left = {}
      /\ UNCHANGED <<sources, snap, db, order, i, left, work>>
  BY DEF EndDrops
<1>2. RecordInv' /\ Accepted' /\ Recorded' = Recorded /\ Early' = Early
      /\ Renamed' = Renamed /\ Dropped' = Dropped /\ consumed' = consumed
  BY <1>1, StillAccepted, SamePlan DEF MigrationInv, Passes
<1>3. Stands(work, Early \cup Renamed, consumed \cup Dropped)
  BY <1>1 DEF MigrationInv, WorkInv
<1>4. Visited' = {}
  BY <1>1, NothingVisited DEF MigrationInv
<1>5. Stands(work, Early \cup Renamed \cup Visited, consumed \cup Dropped)'
  <2>1. (Early \cup Renamed \cup Visited)' = Early \cup Renamed
    BY <1>2, <1>4
  <2> QED
    BY <1>1, <1>2, <1>3, <2>1 DEF Stands, Reflects
<1> QED
  BY <1>1, <1>2, <1>5 DEF MigrationInv, WorkInv

LEMMA Pass3Keeps ==
  ASSUME SourcesAreDisciplined, TInv, MigrationInv, Pass3
  PROVE  MigrationInv'
<1> DEFINE k == order[i]
           settled == Early \cup Renamed \cup Visited
           gone == consumed \cup Dropped
<1>1. /\ pc = "pass3" /\ i <= Len(order)
      /\ UNCHANGED <<sources, snap, db, order, left>>
      /\ pc' = "failed" \/ (pc' = pc /\ i' = i + 1)
  BY DEF Pass3, Visit
<1>2. k \in DOMAIN sources /\ i \in 1 .. Len(order)
  BY <1>1, Position
<1>3. RecordInv /\ RecordInv' /\ Accepted' /\ Recorded' = Recorded /\ Early' = Early
      /\ Dropped' = Dropped /\ Renamed' = Renamed /\ consumed' = consumed
  BY <1>1, StillAccepted, SamePlan DEF MigrationInv, Passes
<1>4. CASE pc' = "failed"
  BY <1>3, <1>4 DEF MigrationInv, WorkInv, Passes
<1>5. CASE pc' = pc /\ i' = i + 1
  <2>1. Stands(work, settled, gone) /\ Visited' = Visited \cup {k}
    BY <1>1, <1>2, <1>5, VisitedGrows DEF MigrationInv, WorkInv
  <2>2. settled' = settled \cup {k} /\ gone' = gone
    BY <1>3, <2>1
  <2>3. k \notin gone /\ PublicKey \notin gone
    BY <1>2, GoneIsUndeclared
  <2>4. Stands(work', settled \cup {k}, gone)
    <3>1. CASE Handled(k)
      <4>1. work' = work
        BY <1>1, <1>5, <3>1 DEF Pass3, Visit
      <4>2. settled \cup {k} = settled
        BY <1>2, <3>1, HandledIsDone
      <4> QED
        BY <2>1, <4>1, <4>2
    <3>2. CASE ~Handled(k)
      <4>1. work' \in CreateOrAlter(work, k)
        BY <1>1, <1>5, <3>2 DEF Pass3, Visit
      <4>2. k \notin Renamed
        BY <1>2, <3>2, HandledIsDone
      <4> HIDE DEF settled, gone, k
      <4>3. CASE k \in Recorded
        BY <1>2, <1>3, <2>1, <2>3, <4>1, <4>3, AlterSettles DEF CreateOrAlter
      <4>4. CASE k \notin Recorded
        BY <1>2, <1>3, <2>1, <2>3, <4>1, <4>2, <4>4, CreateSettles DEF CreateOrAlter
      <4> QED
        BY <4>3, <4>4
    <3> QED
      BY <3>1, <3>2
  <2> HIDE DEF settled, gone, k
  <2>5. Stands(work, settled, gone)'
    BY <1>1, <1>3, <2>2, <2>4 DEF Stands, Reflects
  <2> QED
    BY <1>1, <1>3, <1>5, <2>5 DEF MigrationInv, WorkInv, settled, gone
<1> QED
  BY <1>1, <1>4, <1>5

\* At the end of pass 3, everything declared is as declared, and nothing else is left.
LEMMA LoopsAreThrough ==
  ASSUME SourcesAreDisciplined, TInv, MigrationInv, pc = "pass3", i > Len(order)
  PROVE  /\ Stands(work, DOMAIN sources, consumed \cup Dropped)
         /\ DOMAIN work = DOMAIN sources \cup {PublicKey}
         /\ \A k \in DOMAIN sources : work[k].uses = sources[k].uses
                                     /\ work[k].body = sources[k].body
<1>1. Early \cup Renamed \cup Visited = DOMAIN sources
  BY AllVisited, PlannedAreDeclared DEF MigrationInv, Passes
<1>2. Stands(work, DOMAIN sources, consumed \cup Dropped)
  BY <1>1 DEF MigrationInv, WorkInv
<1>3. (Recorded \cup {PublicKey}) \ (consumed \cup Dropped) \subseteq DOMAIN sources \cup {PublicKey}
  BY DEF Dropped, PublicKey
<1>4. PublicKey \notin consumed \cup Dropped
  BY GoneIsUndeclared
<1>5. DOMAIN work = DOMAIN sources \cup {PublicKey}
  BY <1>2, <1>3, <1>4 DEF Stands
<1>6. ASSUME NEW k \in DOMAIN sources
      PROVE  work[k].uses = sources[k].uses /\ work[k].body = sources[k].body
  BY <1>2, UsesAreDeclared DEF Stands, Reflects
<1> QED
  BY <1>2, <1>5, <1>6

LEMMA CommitKeeps ==
  ASSUME SourcesAreDisciplined, TInv, MigrationInv, Commit
  PROVE  MigrationInv'
<1>1. /\ pc = "pass3" /\ i > Len(order) /\ pc' = "idle" /\ UNCHANGED sources
      /\ db' = Closed(work) /\ snap' = [k \in DOMAIN sources |-> Entry(sources[k])]
  BY DEF Commit, EndTransaction
<1>2. /\ Stands(work, DOMAIN sources, consumed \cup Dropped)
      /\ DOMAIN work = DOMAIN sources \cup {PublicKey}
      /\ \A k \in DOMAIN sources : work[k].uses = sources[k].uses
                                  /\ work[k].body = sources[k].body
  BY <1>1, LoopsAreThrough
<1>3. /\ DOMAIN db' = DOMAIN work
      /\ \A k \in DOMAIN work : db'[k].uses = work[k].uses /\ db'[k].body = work[k].body
      /\ DOMAIN snap' = DOMAIN sources
      /\ \A k \in DOMAIN sources : /\ snap'[k].uses = sources[k].uses
                                  /\ snap'[k].body = sources[k].body
                                  /\ snap'[k] = Entry(sources[k])
  BY <1>1 DEF Closed, Entry
<1>4. sources \in Sources /\ work[PublicKey].uses = {} /\ work[PublicKey].body = PlainBody
  BY <1>2 DEF TInv, Stands
<1>5. RecordInv'
  <2>1. Recorded' = DOMAIN sources
    BY <1>3 DEF Recorded
  <2> QED
    BY <1>1, <1>2, <1>3, <1>4, <2>1 DEF RecordInv
<1> QED
  BY <1>1, <1>5 DEF MigrationInv, WorkInv, Passes

LEMMA MigrationStep == SourcesAreDisciplined /\ TInv /\ MigrationInv /\ [Next]_vars => MigrationInv'
<1> SUFFICES ASSUME SourcesAreDisciplined, TInv, MigrationInv, [Next]_vars PROVE MigrationInv'
  OBVIOUS
<1>1. ASSUME NEW S \in Sources, Edit(S) PROVE MigrationInv'
  BY <1>1 DEF Edit, MigrationInv, RecordInv, Recorded, WorkInv, Passes
<1>2. CASE Rollback
  BY <1>2 DEF Rollback, EndTransaction, MigrationInv, RecordInv, Recorded, WorkInv, Passes
<1>3. CASE UNCHANGED vars
  <2>1. UNCHANGED <<sources, snap, db, pc, order, i, left, work>>
    BY <1>3 DEF vars
  <2>2. /\ RecordInv' /\ (pc \in Passes => Accepted') /\ Recorded' = Recorded
        /\ consumed' = consumed /\ Dropped' = Dropped /\ Early' = Early /\ Renamed' = Renamed
    BY <2>1, StillAccepted, SamePlan
  <2>3. Visited' = Visited /\ RenamedSoFar' = RenamedSoFar
    BY <2>1, <2>2 DEF Visited, RenamedSoFar
  <2>4. WorkInv'
    BY <2>1, <2>2, <2>3 DEF MigrationInv, WorkInv, Stands, Reflects
  <2> QED
    BY <2>1, <2>2, <2>4 DEF MigrationInv
<1> QED
  BY <1>1, <1>2, <1>3, BeginKeeps, Pass0Keeps, Pass0EndKeeps, Pass1Keeps, Pass1EndKeeps,
     Pass2Keeps, EndDropsKeeps, Pass3Keeps, CommitKeeps DEF Next

LEMMA Migrations == ASSUME SourcesAreDisciplined PROVE Spec => [](TInv /\ MigrationInv)
<1>1. Init => TInv /\ MigrationInv
  BY InitTypes, InitMigration
<1>2. TInv /\ MigrationInv /\ [Next]_vars => TInv' /\ MigrationInv'
  BY TypeStep, MigrationStep
<1> QED
  BY <1>1, <1>2, PTL DEF Spec

-------------------------------------------------------------------------------
(* The theorems *)

LEMMA CommittedByCommit ==
  ASSUME [Next]_vars, Committed
  PROVE  Commit
  BY DEF Committed, Next, vars, Edit, Begin, Pass0, Pass1, Pass2, Pass3, Visit, EndLoop,
     EndDrops, Rollback

\* A migration that is committed leaves in the database what is declared: nothing else,
\* nothing less, and as declared (differ.Diff, whose statements runApply executes).
THEOREM MigrationsApply ==
  ASSUME SourcesAreDisciplined
  PROVE  Spec => Applied
<1>1. ASSUME TInv, MigrationInv, [Next]_vars, Committed
      PROVE  /\ DOMAIN db' \ {SchemaKey(Public)} = DOMAIN sources \ {SchemaKey(Public)}
             /\ \A k \in DOMAIN sources : /\ db'[k].uses = sources[k].uses
                                          /\ db'[k].body = sources[k].body
  <2>1. pc = "pass3" /\ i > Len(order) /\ db' = Closed(work)
    BY <1>1, CommittedByCommit DEF Commit
  <2>2. /\ DOMAIN work = DOMAIN sources \cup {PublicKey}
        /\ \A k \in DOMAIN sources : work[k].uses = sources[k].uses
                                    /\ work[k].body = sources[k].body
    BY <1>1, <2>1, LoopsAreThrough
  <2> QED
    BY <2>1, <2>2 DEF Closed, PublicKey
<1> QED
  BY <1>1, Migrations, PTL DEF Spec, Applied

\* The next plan for the same sources is empty, and is not refused, although the
\* directives of renames that are done are still there (DPG-E021).
THEOREM PlansAreIdempotent == Spec => AppliedTwice
<1>1. ASSUME TInv, [Next]_vars, Committed PROVE NothingToDo' /\ ~Rejected'
  <2>1. snap' = [k \in DOMAIN sources |-> Entry(sources[k])] /\ UNCHANGED sources
    BY <1>1, CommittedByCommit DEF Commit, EndTransaction
  <2>2. Recorded' = DOMAIN sources'
    BY <2>1 DEF Recorded
  <2>3. Unrecorded' = {} /\ Early' = {}
    BY <2>2 DEF Unrecorded, Early
  <2>4. Renamed' = {} /\ Stale' = {} /\ consumed' = {}
    BY <2>3 DEF Renamed, Stale, consumed
  <2>5. Dropped' = {}
    BY <2>2 DEF Dropped
  <2>6. \A k \in DOMAIN sources' : k \in Recorded' /\ snap'[k] = Entry(sources'[k])
    BY <2>1, <2>2
  <2> QED
    BY <2>3, <2>4, <2>5, <2>6 DEF NothingToDo, Rejected, Differs
<1>2. TInv /\ [Next]_vars => (Committed => NothingToDo' /\ ~Rejected')
  BY <1>1
<1> QED
  BY <1>2, InitTypes, TypeStep, PTL DEF Spec, AppliedTwice

\* What pass 3 refers to has been created or altered before.
LEMMA DependenciesAreDone ==
  ASSUME TInv, MigrationInv, pc = "pass3", i \in 1 .. Len(order)
  PROVE  /\ sources[order[i]].uses \subseteq Visited
         /\ ~IsSchema(order[i]) => SchemaKey(order[i][1]) \in Visited \cup {PublicKey}
<1> DEFINE k == order[i]
<1>1. /\ k \in DOMAIN sources /\ sources[k].uses \subseteq DOMAIN sources
      /\ IsSchema(k) \/ SchemaKey(k[1]) \in DOMAIN sources \cup {PublicKey}
  BY DEF TInv, TypeOK, WellFormed, PublicKey
<1>2. DOMAIN order = 1 .. Len(order)
  BY DEF TInv, TypeOK
<1>3. ASSUME NEW x \in DOMAIN sources,
             x \in sources[k].uses \/ (~IsSchema(k) /\ x = SchemaKey(k[1]))
      PROVE  x \in Visited
  <2>1. PICK n \in 1 .. Len(order) : order[n] = x
    BY DEF MigrationInv, Accepted, Passes
  <2>2. n < i
    BY <1>2, <1>3, <2>1 DEF MigrationInv, Accepted, Passes, Sorted
  <2> QED
    BY <2>1, <2>2 DEF Visited
<1> QED
  BY <1>1, <1>3

\* Nothing that the sources declare is visited twice.
LEMMA NotYetVisited ==
  ASSUME TInv, MigrationInv, pc \in Passes, i \in 1 .. Len(order)
  PROVE  order[i] \notin Visited
<1>1. \A m, n \in 1 .. Len(order) : order[m] = order[n] => m = n
  BY DEF MigrationInv, Accepted
<1> QED
  BY <1>1 DEF Visited, TInv, TypeOK

\* A schema refers to nothing.
SchemasReferToNothing ==
  \A S \in Sources : \A k \in DOMAIN S : IsSchema(k) => S[k].uses = {}

\* A plan without renames fails at no CREATE and no ALTER: what they refer to is there,
\* and what they create is not (differ.Diff, passes 0 and 3, in the order of graph.Sort).
THEOREM CreationsSucceed ==
  ASSUME SourcesAreDisciplined, SchemasReferToNothing
  PROVE  Spec => OnlyDropsFail
<1>1. ASSUME TInv, MigrationInv, [Next]_vars, pc' = "failed", pc # "failed", Renamed = {}
      PROVE  pc = "pass2"
  <2>1. CASE Pass0
    <3> DEFINE k == order[i]
    <3>1. k \in Early /\ Create(work, k, sources[k]) = {}
      BY <1>1, <2>1 DEF Pass0, Visit, Fails
    <3>2. IsSchema(k) /\ k \in DOMAIN sources /\ sources[k].uses = {}
      BY <1>1, <3>1 DEF Early, SchemasReferToNothing, TInv
    <3> QED
      BY <3>1, <3>2 DEF Create
  <2>2. CASE Pass1
    BY <1>1, <2>2 DEF Pass1, Visit, Fails
  <2>3. CASE Pass3
    <3> DEFINE k == order[i]
               settled == Early \cup Renamed \cup Visited
               gone == consumed \cup Dropped
    <3>1. /\ pc = "pass3" /\ i <= Len(order)
          /\ ~Handled(k) /\ CreateOrAlter(work, k) = {}
      BY <1>1, <2>3 DEF Pass3, Visit, Fails
    <3>2. k \in DOMAIN sources /\ i \in 1 .. Len(order)
      BY <1>1, <3>1, Position
    <3>3. Stands(work, settled, gone) /\ gone \cap (DOMAIN sources \cup {PublicKey}) = {}
      BY <1>1, <3>1, GoneIsUndeclared DEF MigrationInv, WorkInv
    <3>4. /\ sources[k].uses \subseteq DOMAIN work
          /\ ~IsSchema(k) => SchemaKey(k[1]) \in DOMAIN work
      <4>1. Visited \cup {PublicKey} \subseteq DOMAIN work
        BY <3>3 DEF Stands
      <4> QED
        BY <1>1, <3>1, <3>2, <4>1, DependenciesAreDone
    <3>5. CASE k \in Recorded
      <4>1. k \in DOMAIN work
        BY <3>2, <3>3, <3>5 DEF Stands
      <4> QED
        BY <3>1, <3>4, <3>5, <4>1 DEF CreateOrAlter, Alter
    <3>6. CASE k \notin Recorded
      <4>1. k \notin Early \cup Renamed \cup Visited
        BY <1>1, <3>1, <3>2, HandledIsDone, NotYetVisited DEF Passes
      <4>2. k \in DOMAIN work => IsSchema(k)
        BY <3>3, <3>6, <4>1, PublicIsSchema DEF Stands
      <4> QED
        BY <3>1, <3>4, <3>6, <4>2 DEF CreateOrAlter, Create
    <3> QED
      BY <3>5, <3>6
  <2> QED
    BY <1>1, <2>1, <2>2, <2>3 DEF Next, vars, Edit, Begin, EndLoop, Pass2, EndDrops, Commit,
       Rollback, EndTransaction
<1>2. TInv /\ MigrationInv /\ [Next]_vars =>
         (pc' = "failed" /\ pc # "failed" => pc = "pass2" \/ Renamed # {})
  BY <1>1
<1> QED
  BY <1>2, Migrations, PTL DEF Spec, OnlyDropsFail

\* An object that is renamed is the one that had the old name when the transaction
\* began, contents and all (diffObject, pass 1).
THEOREM RenamesKeepContents ==
  ASSUME SourcesAreDisciplined
  PROVE  Spec => RenameKeepsContents
<1>1. ASSUME TInv, MigrationInv, [Next]_vars, Committed
      PROVE  \A k \in Renamed : work[k].origin = sources[k].from
  <2>1. pc = "pass3" /\ i > Len(order)
    BY <1>1, CommittedByCommit DEF Commit
  <2>2. Stands(work, DOMAIN sources, consumed \cup Dropped)
    BY <1>1, <2>1, LoopsAreThrough
  <2> QED
    BY <1>1, <2>2, PlannedAreDeclared DEF Stands
<1> QED
  BY <1>1, Migrations, PTL DEF Spec, RenameKeepsContents

\* Whatever is PROTECTED in the snapshot outlives a migration, under its name or a new
\* one: a plan that drops it is refused, and none drops it on the way (DPG-E022).
THEOREM ProtectedSurvives ==
  ASSUME SourcesAreDisciplined
  PROVE  Spec => ProtectedIsKept
<1>1. ASSUME TInv, MigrationInv, [Next]_vars, Committed
      PROVE  \A k \in Recorded :
               snap[k].protected => \E x \in DOMAIN work : work[x].origin = k
  <2>1. pc = "pass3" /\ i > Len(order)
    BY <1>1, CommittedByCommit DEF Commit
  <2>2. Stands(work, DOMAIN sources, consumed \cup Dropped)
    BY <1>1, <2>1, LoopsAreThrough
  <2>3. ASSUME NEW k \in Recorded, snap[k].protected
        PROVE  \E x \in DOMAIN work : work[x].origin = k
    <3>1. k \notin Dropped
      BY <1>1, <2>1, <2>3 DEF MigrationInv, Accepted, Passes
    <3>2. CASE k \in consumed
      <4>1. PICK x \in Renamed : sources[x].from = k
        BY <3>2 DEF consumed
      <4>2. x \in DOMAIN work /\ work[x].origin = k
        BY <1>1, <2>2, <4>1, PlannedAreDeclared DEF Stands
      <4> QED
        BY <4>2
    <3>3. CASE k \notin consumed
      BY <2>2, <2>3, <3>1, <3>3 DEF Stands
    <3> QED
      BY <3>2, <3>3
  <2> QED
    BY <2>3
<1> QED
  BY <1>1, Migrations, PTL DEF Spec, ProtectedIsKept

===============================================================================

----------------------------- MODULE DiffPasses -----------------------------
(***************************************************************************)
(* The passes of differ.Diff over whole objects, and what PostgreSQL makes *)
(* of the statements they emit, in the order they emit them.               *)
(*                                                                         *)
(* A migration is planned from the declared objects and the snapshot only  *)
(* and executed in one transaction; here an object's statements are        *)
(* executed where they are emitted, since neither input changes meanwhile. *)
(* A statement that fails rolls everything back.  What a step does inside  *)
(* an object (columns, constraints, grants) is one ALTER here; partitions  *)
(* and DROP CASCADE are left out.                                          *)
(***************************************************************************)
EXTENDS Naturals, Sequences, FiniteSets, SequencesExt

CONSTANTS
    Schemas,     \* schema names; "public" exists in every database
    Names,       \* names of the other objects
    Bodies,      \* what an object may look like, its references apart
    Sources      \* what the .dpg files may declare

Itself == "schema"
Public == "public"
SchemaKey(s) == <<s, Itself>>
SchemaKeys == {SchemaKey(s) : s \in Schemas}
Key == SchemaKeys \cup (Schemas \X Names)
IsSchema(k) == k \in SchemaKeys
NoKey == <<"none", "none">>

\* A declared object: its RENAMED FROM, the objects it refers to, the rest of it,
\* and its PROTECTED directive.
Declaration == [from : Key \cup {NoKey}, uses : SUBSET Key, body : Bodies,
                protected : BOOLEAN]

\* The declarations of one project state: references resolve, a schema is declared
\* before anything is put in it, and RENAMED FROM names an object of the same kind.
WellFormed(S) ==
    \A k \in DOMAIN S :
        /\ k \in Key /\ S[k] \in Declaration
        /\ S[k].uses \subseteq DOMAIN S \ {k}
        /\ IsSchema(k) \/ SchemaKey(k[1]) \in DOMAIN S \cup {SchemaKey(Public)}
        /\ S[k].from # NoKey => S[k].from # k /\ (IsSchema(S[k].from) <=> IsSchema(k))

ASSUME ConstantsAssumption ==
    /\ Public \in Schemas /\ Itself \notin Names
    /\ "none" \notin Schemas
    /\ Bodies # {}
    /\ \A S \in Sources : IsFiniteSet(DOMAIN S) /\ WellFormed(S)

VARIABLES
    sources,  \* what the files declare
    snap,     \* the snapshot: key -> entry
    db,       \* the database: key -> what PostgreSQL holds
    pc,       \* the pass that is under way
    order,    \* the declared keys as graph.Sort orders them
    i,        \* position in order
    left,     \* pass 2: keys the loop over the snapshot has not reached
    work      \* the database as the open transaction sees it

vars == <<sources, snap, db, pc, order, i, left, work>>

----------------------------------------------------------------------------
(* What the differ computes from the sources and the snapshot *)

Recorded == DOMAIN snap
Entry(d) == [uses |-> d.uses, body |-> d.body, protected |-> d.protected]

\* Pass 1 renames an object the snapshot knows under its old name only; one known
\* under neither name is DPG-E021.
Unrecorded == {k \in DOMAIN sources : sources[k].from # NoKey /\ k \notin Recorded}
Renamed == {k \in Unrecorded : sources[k].from \in Recorded}
Stale == Unrecorded \ Renamed

consumed == {sources[k].from : k \in Renamed}

\* Pass 2 drops what is recorded, not declared and not claimed by a rename.
Dropped == (Recorded \ (DOMAIN sources \cup consumed)) \ {SchemaKey(Public)}

\* Mutants: PROTECTED is not read back; a rename that has been applied is not told
\* from one that is stale.
RejectedStaleOnly == Stale # {}
RejectedApplied ==
    \/ \E k \in DOMAIN sources : sources[k].from # NoKey /\ sources[k].from \notin Recorded
    \/ \E k \in Dropped : snap[k].protected

\* DPG-E021, DPG-E022: no migration at all.
Rejected == Stale # {} \/ \E k \in Dropped : snap[k].protected

\* Mutant: schemas wait for pass 3.
EarlyNever == {}

\* Pass 0 creates new schemas ahead of everything.
Early == {k \in DOMAIN sources : IsSchema(k) /\ sources[k].from = NoKey /\ k \notin Recorded}

\* Mutant: an object with a RENAMED FROM is left alone, applied or not.
HandledWhenNamed(k) == sources[k].from # NoKey \/ k \in Early

\* Pass 3 leaves alone what an earlier pass is thought to have dealt with.
Handled(k) == sources[k].from \in consumed \/ k \in Early

\* diffObject finds something to change between an entry and a declaration.
Differs(e, d) == Entry(d) # e

NothingToDo ==
    /\ Renamed = {} /\ Dropped = {} /\ Early = {}
    /\ \A k \in DOMAIN sources :
         ~Handled(k) => k \in Recorded /\ ~Differs(snap[k], sources[k])

\* Mutant: only schemas come first.
SortedBySchema(ord) ==
    \A m, n \in DOMAIN ord :
        ~IsSchema(ord[m]) /\ ord[n] = SchemaKey(ord[m][1]) => n < m

\* Mutant: a schema is no dependency of what is in it.
SortedByUse(ord) ==
    \A m, n \in DOMAIN ord : ord[n] \in sources[ord[m]].uses => n < m

\* The orders graph.Sort may return: dependencies first.
Sorted(ord) ==
    \A m, n \in DOMAIN ord :
        \/ ord[n] \in sources[ord[m]].uses
        \/ ~IsSchema(ord[m]) /\ ord[n] = SchemaKey(ord[m][1])
        => n < m

----------------------------------------------------------------------------
(* Statements: each maps a catalog to the set of what it may leave, empty if it fails.
   References in PostgreSQL follow an object that is renamed or moved. *)

Put(cat, k, e) == [x \in DOMAIN cat \cup {k} |-> IF x = k THEN e ELSE cat[x]]
Without(cat, k) == [x \in DOMAIN cat \ {k} |-> cat[x]]

Rekeyed(cat, to) ==
    [x \in {to[k] : k \in DOMAIN cat} |->
        LET old == cat[CHOOSE k \in DOMAIN cat : to[k] = x]
        IN  [old EXCEPT !.uses = {to[u] : u \in @}]]

Fails == {}

\* CREATE, for a schema with IF NOT EXISTS.  The origin of an object is its key when
\* the transaction began, if it was there then.
Create(cat, k, d) ==
    IF IsSchema(k) /\ k \in DOMAIN cat THEN {cat}
    ELSE IF /\ k \notin DOMAIN cat
            /\ d.uses \subseteq DOMAIN cat
            /\ IsSchema(k) \/ SchemaKey(k[1]) \in DOMAIN cat
         THEN {Put(cat, k, [uses |-> d.uses, body |-> d.body, origin |-> NoKey])}
         ELSE Fails

\* ALTER ... of what differs; a change of PROTECTED is an SQL comment.
Alter(cat, k, e, d) ==
    IF e.uses = d.uses /\ e.body = d.body THEN {cat}
    ELSE IF k \in DOMAIN cat /\ d.uses \subseteq DOMAIN cat
         THEN {[cat EXCEPT ![k].uses = d.uses, ![k].body = d.body]}
         ELSE Fails

\* ALTER SCHEMA ... RENAME TO takes the schema's contents along.
RenameSchema(cat, old, k) ==
    IF old \in DOMAIN cat /\ k \notin DOMAIN cat
    THEN {Rekeyed(cat, [x \in Key |-> IF x[1] = old[1] THEN <<k[1], x[2]>> ELSE x])}
    ELSE Fails

\* ALTER ... SET SCHEMA, then ALTER ... RENAME TO; in between the object has its
\* old name in its new schema.
Move(cat, old, k) ==
    IF /\ old \in DOMAIN cat
       /\ {<<k[1], old[2]>>, k} \cap (DOMAIN cat \ {old}) = {}
       /\ SchemaKey(k[1]) \in DOMAIN cat
    THEN {Rekeyed(cat, [x \in Key |-> IF x = old THEN k ELSE x])}
    ELSE Fails

\* DROP ... IF EXISTS (RESTRICT): refused while something refers to it or is in it.
Drop(cat, k) ==
    IF k \notin DOMAIN cat THEN {cat}
    ELSE IF \E x \in DOMAIN cat \ {k} : k \in cat[x].uses \/ (IsSchema(k) /\ x[1] = k[1])
         THEN Fails
         ELSE {Without(cat, k)}

\* Mutant: an object under a new name is a new object.
DropAndCreate(cat, k) ==
    UNION {Create(c, k, sources[k]) : c \in Drop(cat, sources[k].from)}

\* diffObject on an object that is renamed, against the entry under its old name.
RenameAndAlter(cat, k) ==
    LET d == sources[k]
    IN  UNION {Alter(c, k, snap[d.from], d) :
                 c \in IF IsSchema(k) THEN RenameSchema(cat, d.from, k)
                       ELSE Move(cat, d.from, k)}

CreateOrAlter(cat, k) ==
    IF k \in Recorded THEN Alter(cat, k, snap[k], sources[k]) ELSE Create(cat, k, sources[k])

----------------------------------------------------------------------------
(* A project without a snapshot and an empty database *)

Empty == [k \in {} |-> NoKey]
Untouched == [k \in {SchemaKey(Public)} |-> [uses |-> {}, body |-> CHOOSE b \in Bodies : TRUE]]

Opened(catalog) ==
    [k \in DOMAIN catalog |-> [uses |-> catalog[k].uses, body |-> catalog[k].body,
                               origin |-> k]]
Closed(catalog) ==
    [k \in DOMAIN catalog |-> [uses |-> catalog[k].uses, body |-> catalog[k].body]]

Init ==
    /\ sources \in Sources
    /\ snap = Empty
    /\ db = Untouched
    /\ pc = "idle"
    /\ order = <<>> /\ i = 0 /\ left = {} /\ work = Empty

----------------------------------------------------------------------------

Edit(S) ==
    /\ pc = "idle"
    /\ S # sources
    /\ sources' = S
    /\ UNCHANGED <<snap, db, pc, order, i, left, work>>

\* A migration is planned, has statements, and its transaction begins.
Begin(ord) ==
    /\ pc = "idle"
    /\ ~Rejected
    /\ ~NothingToDo
    /\ Sorted(ord)
    /\ pc' = "pass0"
    /\ order' = ord
    /\ i' = 1
    /\ left' = Dropped
    /\ work' = Opened(db)
    /\ UNCHANGED <<sources, snap, db>>

\* The loop of a pass over the declared objects: statements leaves one of the
\* catalogs of outcomes, or fails.
Visit(pass, outcomes) ==
    /\ pc = pass
    /\ i <= Len(order)
    /\ IF outcomes = Fails
       THEN pc' = "failed" /\ UNCHANGED <<i, work>>
       ELSE i' = i + 1 /\ work' \in outcomes /\ UNCHANGED pc
    /\ UNCHANGED <<sources, snap, db, order, left>>

EndLoop(pass, next) ==
    /\ pc = pass
    /\ i > Len(order)
    /\ pc' = next
    /\ i' = 1
    /\ UNCHANGED <<sources, snap, db, order, left, work>>

Pass0 ==
    LET k == order[i]
    IN  Visit("pass0", IF k \in Early THEN Create(work, k, sources[k]) ELSE {work})

Pass1 ==
    LET k == order[i]
    IN  Visit("pass1", IF k \in Renamed THEN RenameAndAlter(work, k) ELSE {work})

\* The loop over the snapshot, a Go map: in any order.
Pass2(k) ==
    /\ pc = "pass2"
    /\ k \in left
    /\ IF Drop(work, k) = Fails
       THEN pc' = "failed" /\ UNCHANGED <<left, work>>
       ELSE left' = left \ {k} /\ work' \in Drop(work, k) /\ UNCHANGED pc
    /\ UNCHANGED <<sources, snap, db, order, i>>

EndDrops ==
    /\ pc = "pass2"
    /\ left = {}
    /\ pc' = "pass3"
    /\ UNCHANGED <<sources, snap, db, order, i, left, work>>

Pass3 ==
    LET k == order[i]
    IN  Visit("pass3", IF Handled(k) THEN {work} ELSE CreateOrAlter(work, k))

\* Mutant: the next migration starts where this one stopped.
EndInPlace ==
    /\ pc' = "idle"
    /\ order' = <<>> /\ i' = i /\ left' = {} /\ work' = Empty
    /\ UNCHANGED sources

EndTransaction ==
    /\ pc' = "idle"
    /\ order' = <<>> /\ i' = 0 /\ left' = {} /\ work' = Empty
    /\ UNCHANGED sources

\* Everything was executed: commit, and the snapshot records what is declared.
Commit ==
    /\ pc = "pass3"
    /\ i > Len(order)
    /\ db' = Closed(work)
    /\ snap' = [k \in DOMAIN sources |-> Entry(sources[k])]
    /\ EndTransaction

Rollback ==
    /\ pc = "failed"
    /\ EndTransaction
    /\ UNCHANGED <<snap, db>>

Next ==
    \/ \E S \in Sources : Edit(S)
    \/ \E ord \in SetToSeqs(DOMAIN sources) : Begin(ord)
    \/ Pass0
    \/ EndLoop("pass0", "pass1")
    \/ Pass1
    \/ EndLoop("pass1", "pass2")
    \/ \E k \in left : Pass2(k)
    \/ EndDrops
    \/ Pass3
    \/ Commit
    \/ Rollback

Spec == Init /\ [][Next]_vars

----------------------------------------------------------------------------
(* Properties *)

TypeOK ==
    /\ WellFormed(sources)
    /\ DOMAIN snap \subseteq Key
    /\ \A k \in DOMAIN snap :
         snap[k] \in [uses : SUBSET Key, body : Bodies, protected : BOOLEAN]
    /\ DOMAIN db \subseteq Key
    /\ \A k \in DOMAIN db : db[k] \in [uses : SUBSET Key, body : Bodies]
    /\ DOMAIN work \subseteq Key
    /\ \A k \in DOMAIN work :
         work[k] \in [uses : SUBSET Key, body : Bodies, origin : Key \cup {NoKey}]
    /\ pc \in {"idle", "pass0", "pass1", "pass2", "pass3", "failed"}
    /\ order \in Seq(DOMAIN sources)
    /\ i \in 0 .. Len(order) + 1
    /\ left \subseteq DOMAIN snap

Committed == pc = "pass3" /\ pc' = "idle"

\* A migration that is executed to its end leaves in the database what is declared:
\* nothing else, nothing less, and as declared (the promise of `dpg apply`).
Applied ==
    [][Committed =>
         /\ DOMAIN db' \ {SchemaKey(Public)} = DOMAIN sources \ {SchemaKey(Public)}
         /\ \A k \in DOMAIN sources : /\ db'[k].uses = sources[k].uses
                                      /\ db'[k].body = sources[k].body]_vars

\* "Applying the same plan twice produces zero SQL on the second run", with the
\* RENAMED FROM directives still in the sources, and no error either.
AppliedTwice == [][Committed => NothingToDo' /\ ~Rejected']_vars

\* An object that is renamed while only its old name is known keeps its contents:
\* it is never dropped and created again.
RenameKeepsContents ==
    [][Committed => \A k \in Renamed : work[k].origin = sources[k].from]_vars

\* What is PROTECTED in the snapshot is still there after a migration, whatever its name.
ProtectedIsKept ==
    [][Committed => \A k \in Recorded :
         snap[k].protected => \E x \in DOMAIN work : work[x].origin = k]_vars

\* Without renames it is only a DROP that can fail: creations and alterations come
\* in the order of their dependencies (what graph.Sort is for).
OnlyDropsFail ==
    [][pc' = "failed" /\ pc # "failed" => pc = "pass2" \/ Renamed # {}]_vars

\* An object never moves to a schema that is still to be created.
MovesFindTheirSchema ==
    pc = "pass1" /\ i <= Len(order) /\ order[i] \in Renamed =>
        IsSchema(order[i]) \/ SchemaKey(order[i][1]) \in DOMAIN work

============================================================================

------------------------------- MODULE TableDiff -------------------------------
(***************************************************************************)
(* One table through repeated edits and migrations: what diffTable         *)
(* (differ.go) plans for its columns, its named constraints and its        *)
(* indexes, and what PostgreSQL makes of the plan.  DiffPasses is about    *)
(* whole objects; this module is about the inside of one of them.          *)
(*                                                                         *)
(* A column has a kind, NOT NULL, and in the sources perhaps a RENAMED     *)
(* FROM; a generated one names the columns it is computed from.  A         *)
(* constraint (UNIQUE, say) or an index is the set of the columns it       *)
(* names.                                                                  *)
(***************************************************************************)
EXTENDS Naturals, Sequences, SequencesExt, Functions, FiniteSets

CONSTANTS
  ColName, ConstraintName, IndexName,
  None,
  Start,       \* the table as first applied
  OnSearchPath,  \* whether search_path has the table's schema; nothing sets it
  Careless,    \* edits the differ does not carry out, see Orderly, that are applied all the same
  MaxColumns,  \* bound: columns of the table
  MaxEdits     \* bound: edits in a behaviour

ASSUME TableAssumption ==
  /\ None \notin ColName
  /\ Careless \subseteq {"reuse", "rebuild", "redefine", "dangle", "compute", "miss"}
  /\ OnSearchPath \in BOOLEAN
  /\ {MaxColumns, MaxEdits} \subseteq Nat

VARIABLES
  declared,  \* ir.Table, what the sources say
  recorded,  \* snapshot.SnapTable, what was last applied
  live,      \* the table in the database
  edits      \* edits so far

vars == <<declared, recorded, live, edits>>

\* ir.Generated: STORED or not, and the columns its expression names, by which
\* expressions are told apart.
Plain == [is |-> "plain", uses |-> {}]
Kind  == {Plain} \cup [is : {"stored", "virtual"}, uses : SUBSET ColName]

SnapColumn == [kind : Kind, notNull : BOOLEAN]
Column     == [kind : Kind, notNull : BOOLEAN, from : ColName \cup {None}]

IsPartial(f, A, B) == DOMAIN f \subseteq A /\ f \in [DOMAIN f -> B]

\* Its parts by name; the columns are in C.
HasType(t, C) ==
  /\ t = [columns |-> t.columns, constraints |-> t.constraints, indexes |-> t.indexes]
  /\ IsPartial(t.columns, ColName, C)
  /\ IsPartial(t.constraints, ConstraintName, SUBSET ColName)
  /\ IsPartial(t.indexes, IndexName, SUBSET ColName)

Columns(t)    == DOMAIN t.columns
Without(f, x) == Restrict(f, DOMAIN f \ {x})
Put(f, x, v)  == [y \in DOMAIN f \cup {x} |-> IF y = x THEN v ELSE f[y]]

\* What PostgreSQL computes a column from, and what it indexes.
Usable(t)    == {c \in Columns(t) : t.columns[c].kind = Plain}
Indexable(t) == {c \in Columns(t) : t.columns[c].kind.is # "virtual"}

\* What the table's columns, constraints and indexes name is there to be named.
Sound(t) ==
  /\ \A c \in Columns(t) : t.columns[c].kind.uses \subseteq Usable(t)
  /\ \A k \in DOMAIN t.constraints : t.constraints[k] \subseteq Indexable(t)
  /\ \A i \in DOMAIN t.indexes : t.indexes[i] \subseteq Indexable(t)

\* A table of the snapshot or the database.
WellFormed(t) ==
  /\ HasType(t, SnapColumn)
  /\ Sound(t)
  /\ \A k \in DOMAIN t.constraints : t.constraints[k] # {}
  /\ \A i \in DOMAIN t.indexes : t.indexes[i] # {}

ASSUME StartAssumption ==
  /\ WellFormed(Start)
  /\ \A part \in {Start.columns, Start.constraints, Start.indexes} : IsFiniteSet(DOMAIN part)

\* What is compared of a snapshot's table; nothing reads the directives in it.
\* Mutant: generated columns are left out.
RecordedWhenPlain(t) ==
  LET plain == {c \in DOMAIN t.columns : t.columns[c].kind = Plain}
  IN  [t EXCEPT !.columns = [c \in plain |->
         [kind |-> @[c].kind, notNull |-> @[c].notNull]]]

Recorded(t) ==
  [t EXCEPT !.columns = [c \in DOMAIN @ |->
     [kind |-> @[c].kind, notNull |-> @[c].notNull]]]

\* The table as its author first wrote it, or writes it again after Undo.
Sources(t) ==
  [t EXCEPT !.columns = [c \in DOMAIN @ |->
     [kind |-> @[c].kind, notNull |-> @[c].notNull, from |-> None]]]

-------------------------------------------------------------------------------
\* The directives RENAMED FROM.

From(c) == declared.columns[c].from

\* Carried out: the old name is recorded and the new one is not yet.
Renamed == {c \in Columns(declared) : /\ From(c) \in Columns(recorded)
                                      /\ c \notin Columns(recorded)}
OldNames == {From(c) : c \in Renamed}
NewName(c) == IF c \in OldNames THEN CHOOSE d \in Renamed : From(d) = c ELSE c
Translated(cols) == {NewName(c) : c \in cols}

Collides == \E c \in Columns(declared) : From(c) \in Columns(declared)

\* DPG-E021.  Mutant: what has been carried out is not recognised.
StaleAlsoOnceApplied ==
  \E c \in Columns(declared) : From(c) # None /\ From(c) \notin Columns(recorded)

StaleDirective ==
  \E c \in Columns(declared) :
    From(c) # None /\ {c, From(c)} \cap Columns(recorded) = {}

\* DPG-E019: a constraint or an index still names the old column.
\* Mutant: only constraints are looked at.
StaleConstraint ==
  \E k \in DOMAIN declared.constraints :
    declared.constraints[k] \cap OldNames # {}

StaleReference ==
  \/ \E k \in DOMAIN declared.constraints : declared.constraints[k] \cap OldNames # {}
  \/ \E i \in DOMAIN declared.indexes : declared.indexes[i] \cap OldNames # {}

Rejected == Collides \/ StaleDirective \/ StaleReference

-------------------------------------------------------------------------------
\* diffColumns: renames, then drops, then per declared column what it takes.

Dropped == Columns(recorded) \ (Columns(declared) \cup OldNames)

\* The entry of the snapshot a declared column is compared with.
Entry(c) == IF From(c) \in Columns(recorded) THEN From(c) ELSE c

AddColumnOp(c, kind, notNull) ==
  [do |-> "add column", col |-> c, kind |-> kind, notNull |-> notNull]
DropColumnOp(c) == [do |-> "drop column", col |-> c]

\* diffGeneratedColumn.  A change of expression has an ALTER, and STORED to plain;
\* every other change of kind is a column dropped and added, without its NOT NULL.
\* The recorded expression is compared as it is: renames are not carried into it.
\* Mutant: DROP EXPRESSION is not used.
KindOpsByRebuild(c, old) ==
  IF declared.columns[c].kind = old.kind THEN <<>>
  ELSE <<DropColumnOp(c), AddColumnOp(c, declared.columns[c].kind, FALSE)>>

KindOps(c, old) ==
  LET kind == declared.columns[c].kind
  IN  CASE kind = old.kind -> <<>>
        [] kind # old.kind /\ kind.is = old.kind.is ->
             <<[do |-> "set expression", col |-> c, uses |-> kind.uses]>>
        [] kind = Plain /\ old.kind.is = "stored" ->
             <<[do |-> "drop expression", col |-> c]>>
        [] OTHER -> <<DropColumnOp(c), AddColumnOp(c, kind, FALSE)>>

NotNullOps(c, old) ==
  LET notNull == declared.columns[c].notNull
  IN  IF notNull = old.notNull THEN <<>>
      ELSE <<[do |-> "set not null", col |-> c, notNull |-> notNull]>>

ColumnOps ==
  LET rename(c) == [do |-> "rename column", col |-> From(c), to |-> c]
      alter(c)  == LET old == recorded.columns[Entry(c)]
                   IN  KindOps(c, old) \o NotNullOps(c, old)
      columnOps(c) ==
        IF Entry(c) \in Columns(recorded) THEN alter(c)
        ELSE <<AddColumnOp(c, declared.columns[c].kind, declared.columns[c].notNull)>>
  IN  SetToSeq({rename(c) : c \in Renamed})
      \o SetToSeq({DropColumnOp(c) : c \in Dropped})
      \o FlattenSeq([i \in 1 .. Cardinality(Columns(declared)) |->
                       columnOps(SetToSeq(Columns(declared))[i])])

-------------------------------------------------------------------------------
\* diffConstraints, of named constraints: matched by name and no further.
\* DROP COLUMN has taken the constraints of the column with it.

ConstraintDrop(k) == [do |-> "drop constraint", name |-> k]
ConstraintAdd(k)  ==
  [do |-> "add constraint", name |-> k, cols |-> declared.constraints[k]]

ConstraintOps ==
  LET gone == {k \in DOMAIN recorded.constraints \ DOMAIN declared.constraints :
                 recorded.constraints[k] \cap Dropped = {}}
      new  == DOMAIN declared.constraints \ DOMAIN recorded.constraints
  IN  SetToSeq({ConstraintDrop(k) : k \in gone})
      \o SetToSeq({ConstraintAdd(k) : k \in new})

-------------------------------------------------------------------------------
\* diffIndexes: an index of the same name is compared, with the recorded
\* columns under their new names, and dropped and created when it differs.

IndexDrop(i)   == [do |-> "drop index", name |-> i]
IndexCreate(i) == [do |-> "create index", name |-> i, cols |-> declared.indexes[i]]

\* Mutant: an index of the same name is taken to be the same.
IndexOpsByName ==
  SetToSeq({IndexDrop(i) : i \in DOMAIN recorded.indexes \ DOMAIN declared.indexes})
  \o SetToSeq({IndexCreate(i) : i \in DOMAIN declared.indexes \ DOMAIN recorded.indexes})

IndexOps ==
  LET gone == {i \in DOMAIN recorded.indexes \ DOMAIN declared.indexes :
                 Translated(recorded.indexes[i]) \cap Dropped = {}}
      new  == DOMAIN declared.indexes \ DOMAIN recorded.indexes
      redefined == {i \in DOMAIN declared.indexes \cap DOMAIN recorded.indexes :
                      Translated(recorded.indexes[i]) # declared.indexes[i]}
  IN  SetToSeq({IndexDrop(i) : i \in gone})
      \o SetToSeq({IndexDrop(i) : i \in redefined})
      \o SetToSeq({IndexCreate(i) : i \in new \cup redefined})

Plan == ColumnOps \o ConstraintOps \o IndexOps

-------------------------------------------------------------------------------
\* PostgreSQL.

\* The columns computed from c.
Users(t, c) == {g \in Columns(t) : c \in t.columns[g].kind.uses}

\* A column that others are computed from is not dropped, and one that is computed
\* neither used by another nor, unless it is stored, indexed.
Sensible(t, op) ==
  CASE op.do = "rename column" -> op.col \in Columns(t) /\ op.to \notin Columns(t)
    [] op.do = "add column" ->
         op.col \notin Columns(t) /\ op.kind.uses \subseteq Usable(t)
    [] op.do = "drop column" -> op.col \in Columns(t) /\ Users(t, op.col) = {}
    [] op.do = "set not null" -> op.col \in Columns(t)
    [] op.do = "set expression" ->
         /\ op.col \in Columns(t) \ Usable(t)
         /\ op.uses \subseteq Usable(t)
    [] op.do = "drop expression" -> op.col \in Indexable(t)
    [] op.do = "drop constraint" -> op.name \in DOMAIN t.constraints
    [] op.do = "add constraint" ->
         op.name \notin DOMAIN t.constraints /\ op.cols \subseteq Indexable(t)
    [] op.do = "drop index" -> TRUE
    [] op.do = "create index" ->
         op.name \notin DOMAIN t.indexes /\ op.cols \subseteq Indexable(t)

\* What names a column is kept by a rename; an index or a constraint goes with a drop.
Substitute(cols, old, new) == {IF c = old THEN new ELSE c : c \in cols}
RenameIn(f, old, new)   == [x \in DOMAIN f |-> Substitute(f[x], old, new)]
RenameUses(f, old, new) ==
  [x \in DOMAIN f |-> [f[x] EXCEPT !.kind.uses = Substitute(@, old, new)]]
DropIn(f, c) == Restrict(f, {x \in DOMAIN f : c \notin f[x]})

\* DROP INDEX IF EXISTS names the index without its schema: off the search path it
\* finds none, and is no error.
Effect(t, op) ==
  CASE op.do = "rename column" ->
         LET columns == RenameUses(t.columns, op.col, op.to)
         IN  [columns     |-> Put(Without(columns, op.col), op.to, columns[op.col]),
              constraints |-> RenameIn(t.constraints, op.col, op.to),
              indexes     |-> RenameIn(t.indexes, op.col, op.to)]
    [] op.do = "add column" ->
         [t EXCEPT !.columns =
            Put(@, op.col, [kind |-> op.kind, notNull |-> op.notNull, row |-> None])]
    [] op.do = "drop column" ->
         [columns     |-> Without(t.columns, op.col),
          constraints |-> DropIn(t.constraints, op.col),
          indexes     |-> DropIn(t.indexes, op.col)]
    [] op.do = "set not null" -> [t EXCEPT !.columns[op.col].notNull = op.notNull]
    [] op.do = "set expression" -> [t EXCEPT !.columns[op.col].kind.uses = op.uses]
    [] op.do = "drop expression" -> [t EXCEPT !.columns[op.col].kind = Plain]
    [] op.do = "drop constraint" -> [t EXCEPT !.constraints = Without(@, op.name)]
    [] op.do = "add constraint" -> [t EXCEPT !.constraints = Put(@, op.name, op.cols)]
    [] op.do = "drop index" ->
         IF OnSearchPath THEN [t EXCEPT !.indexes = Without(@, op.name)] ELSE t
    [] op.do = "create index" -> [t EXCEPT !.indexes = Put(@, op.name, op.cols)]

\* A transaction: a statement that fails undoes it.
Execute(t, ops) ==
  LET after[n \in 0 .. Len(ops)] ==
        IF n = 0 THEN [ok |-> TRUE, table |-> t]
        ELSE LET r == after[n - 1]
             IN  IF r.ok /\ Sensible(r.table, ops[n])
                 THEN [ok |-> TRUE, table |-> Effect(r.table, ops[n])]
                 ELSE [ok |-> FALSE, table |-> t]
  IN  after[Len(ops)]

\* The plan is one.  The field row of a column says whose rows it holds: those
\* of a column of the table as it was, or None for those of a new column.
Before ==
  [live EXCEPT !.columns = [c \in DOMAIN @ |->
     [kind |-> @[c].kind, notNull |-> @[c].notNull, row |-> c]]]

Run == Execute(Before, Plan)

-------------------------------------------------------------------------------
\* The author of the sources.

Edit(t) ==
  /\ edits < MaxEdits
  /\ declared' = t
  /\ edits' = edits + 1
  /\ UNCHANGED <<recorded, live>>

\* What names column c names the other columns only, or is taken out.
Released(f, c, keep) ==
  LET rest == {x \in DOMAIN f : c \notin f[x] \/ (keep /\ f[x] # {c})}
  IN  [x \in rest |-> f[x] \ {c}]

AddColumn(c, notNull) ==
  /\ c \notin Columns(declared)
  /\ Cardinality(Columns(declared)) < MaxColumns
  /\ Edit([declared EXCEPT !.columns =
       Put(@, c, [kind |-> Plain, notNull |-> notNull, from |-> None])])

RemoveColumn(c, keep) ==
  /\ c \in Columns(declared)
  /\ Edit([columns     |-> [d \in Columns(declared) \ {c} |->
                             [declared.columns[d] EXCEPT !.kind.uses = @ \ {c}]],
           constraints |-> Released(declared.constraints, c, keep),
           indexes     |-> Released(declared.indexes, c, keep)])

\* With the directive the column had, or one that names it as it was a moment
\* ago; what names the column follows, or is forgotten.
RenameColumn(c, d, from, follow) ==
  /\ c \in Columns(declared) /\ d \notin Columns(declared)
  /\ from \in {From(c), c} \ {None}
  /\ LET renamed == Put(Without(declared.columns, c), d,
                        [declared.columns[c] EXCEPT !.from = IF from = d THEN None ELSE from])
     IN  Edit(IF follow
              THEN [columns     |-> RenameUses(renamed, c, d),
                    constraints |-> RenameIn(declared.constraints, c, d),
                    indexes     |-> RenameIn(declared.indexes, c, d)]
              ELSE [declared EXCEPT !.columns = renamed])

AlterColumn(c, kind, notNull) ==
  /\ c \in Columns(declared)
  /\ kind.uses \subseteq Usable(declared) \ {c}
  /\ <<kind, notNull>> # <<declared.columns[c].kind, declared.columns[c].notNull>>
  /\ Edit([declared EXCEPT !.columns[c].kind = kind, !.columns[c].notNull = notNull])

\* The directive is taken out, as it may be once it has been carried out.
Tidy(c) ==
  /\ c \in Columns(declared) \cap Columns(recorded)
  /\ From(c) # None
  /\ Edit([declared EXCEPT !.columns[c].from = None])

PutConstraint(k, cols) ==
  Edit([declared EXCEPT !.constraints = Put(@, k, cols)])
RemoveConstraint(k) ==
  /\ k \in DOMAIN declared.constraints
  /\ Edit([declared EXCEPT !.constraints = Without(@, k)])
PutIndex(i, cols) ==
  Edit([declared EXCEPT !.indexes = Put(@, i, cols)])
RemoveIndex(i) ==
  /\ i \in DOMAIN declared.indexes
  /\ Edit([declared EXCEPT !.indexes = Without(@, i)])

\* Back to what was last applied, without its directives; not counted.
Undo ==
  /\ declared # Sources(recorded)
  /\ declared' = Sources(recorded)
  /\ UNCHANGED <<recorded, live, edits>>

-------------------------------------------------------------------------------
\* What the differ does not carry out.

\* A column renamed onto the name of a recorded one, which is taken for applied,
\* or two columns renamed from one.
Reuses ==
  \/ \E c \in Columns(declared) : From(c) \in Columns(recorded) /\ c \in Columns(recorded)
  \/ \E c, d \in Renamed : c # d /\ From(c) = From(d)

\* By RFC 7.4, a change of kind that makes a new column of it.
NewKind(c) ==
  LET old == recorded.columns[Entry(c)].kind
  IN  /\ Entry(c) \in Columns(recorded)
      /\ declared.columns[c].kind.is # old.is
      /\ ~(declared.columns[c].kind = Plain /\ old.is = "stored")

\* A column dropped and added that was NOT NULL, or had a constraint, or an
\* index that is to stay.
Rebuilds ==
  \E c \in Columns(declared) :
    /\ NewKind(c)
    /\ \/ declared.columns[c].notNull /\ recorded.columns[Entry(c)].notNull
       \/ \E k \in DOMAIN recorded.constraints : Entry(c) \in recorded.constraints[k]
       \/ \E i \in DOMAIN recorded.indexes \cap DOMAIN declared.indexes :
            Translated(recorded.indexes[i]) = declared.indexes[i] /\ c \in declared.indexes[i]

\* A constraint of the same name on other columns.
Redefines ==
  \E k \in DOMAIN declared.constraints \cap DOMAIN recorded.constraints :
    declared.constraints[k] # Translated(recorded.constraints[k])

\* What PostgreSQL takes in no order of statements: a constraint or an index on
\* a column that is not declared, for another reason than a rename, or is VIRTUAL,
\* or an expression over a column that is not declared or is generated.
Dangles ==
  LET known == Indexable(declared) \cup OldNames
  IN  \/ \E k \in DOMAIN declared.constraints : ~ declared.constraints[k] \subseteq known
      \/ \E i \in DOMAIN declared.indexes : ~ declared.indexes[i] \subseteq known
      \/ \E c \in Columns(declared) :
           ~ declared.columns[c].kind.uses \subseteq Usable(declared)

\* The order in which diffColumns comes to the declared columns.
Precedes(b, c) ==
  LET order == SetToSeq(Columns(declared))
  IN  \E n \in DOMAIN order : \E m \in 1 .. n - 1 : order[m] = b /\ order[n] = c

\* A column dropped, or dropped and added, while another is computed from it:
\* removed columns go first, whatever becomes of those computed from them.
Undermines ==
  \/ \E c \in Dropped : Users(recorded, c) # {}
  \/ \E c, g \in Columns(declared) :
       /\ NewKind(c)
       /\ Entry(g) \in Users(recorded, Entry(c))
       /\ ~Precedes(g, c)

\* An expression over a column that is not yet there, or not yet plain.
Hastens ==
  \E c, g \in Columns(declared) :
    /\ c \in declared.columns[g].kind.uses
    /\ Entry(c) \notin Usable(recorded)
    /\ ~Precedes(c, g)

\* An index removed or changed in a schema off the search path, unless a column
\* takes it along.
Misses ==
  /\ ~OnSearchPath
  /\ \E i \in DOMAIN recorded.indexes :
       LET cols == Translated(recorded.indexes[i])
       IN  /\ i \in DOMAIN declared.indexes => declared.indexes[i] # cols
           /\ cols \cap (Dropped \cup {c \in Columns(declared) : NewKind(c)}) = {}

Orderly == /\ Dangles   => "dangle" \in Careless
           /\ Reuses    => "reuse" \in Careless
           /\ Rebuilds  => "rebuild" \in Careless
           /\ Redefines => "redefine" \in Careless
           /\ Undermines \/ Hastens => "compute" \in Careless
           /\ Misses    => "miss" \in Careless

\* dpg apply.  An apply that is rejected, or whose statements fail for the rows
\* they meet, changes nothing and is not a step.
Migrate ==
  LET run == Run
  IN  /\ Orderly
      /\ ~Rejected
      /\ run.ok
      /\ live' = Recorded(run.table)
      /\ recorded' = Recorded(declared)
      /\ UNCHANGED <<declared, edits>>

Init ==
  /\ declared = Sources(Start)
  /\ recorded = Start
  /\ live = Start
  /\ edits = 0

EditColumn ==
  \E c \in ColName :
    \/ \E notNull \in BOOLEAN : AddColumn(c, notNull)
    \/ \E keep \in BOOLEAN : RemoveColumn(c, keep)
    \/ \E d, from \in ColName, follow \in BOOLEAN : RenameColumn(c, d, from, follow)
    \/ \E kind \in Kind, notNull \in BOOLEAN : AlterColumn(c, kind, notNull)
    \/ Tidy(c)

EditDependent ==
  \/ \E k \in ConstraintName, cols \in (SUBSET Columns(declared)) \ {{}} : PutConstraint(k, cols)
  \/ \E k \in ConstraintName : RemoveConstraint(k)
  \/ \E i \in IndexName, cols \in (SUBSET Columns(declared)) \ {{}} : PutIndex(i, cols)
  \/ \E i \in IndexName : RemoveIndex(i)

Next == EditColumn \/ EditDependent \/ Undo \/ Migrate

Spec == Init /\ [][Next]_vars

-------------------------------------------------------------------------------
\* Properties.

\* The sources, the snapshot and the database each hold a table, the last two
\* one in which expressions, constraints and indexes name columns they can name.
TypeOK ==
  /\ HasType(declared, Column)
  /\ WellFormed(recorded) /\ WellFormed(live)
  /\ edits \in 0 .. MaxEdits

\* However a table was edited and migrated, the snapshot says what is in the
\* database: no column, NOT NULL, constraint or index is recorded that a
\* statement of the plan, or a cascade of one, took away.
RecordIsLive == live = recorded

\* A plan that diffTable accepts runs to its end: no statement of it needs
\* what an earlier one, or a cascade of it, dropped or already made.
PlanRuns == Orderly /\ ~Rejected => Run.ok

\* By RFC 7.6, the column as last applied that a declared one goes on with.
Continues(c) == IF From(c) \in Columns(recorded) THEN From(c)
                ELSE IF c \in Columns(recorded) THEN c ELSE None

\* The rows of a column outlive its renames: a migration leaves each declared
\* column with the rows of the one it goes on with, and a new one with none,
\* but for a change of kind that RFC 7.4 says makes a new column.
RowsAreKept ==
  Orderly /\ ~Rejected =>
    LET after == Run.table
    IN  \A c \in Columns(declared) :
          /\ c \in Columns(after)
          /\ NewKind(c) \/ after.columns[c].row = Continues(c)

\* Sources that were just applied, their directives still in them, are
\* accepted when they are applied again, and nothing is planned for them.
Nothing == ~Rejected /\ Plan = <<>>
AppliedOnce == [][recorded' # recorded => Nothing']_vars
===============================================================================

------------------------------- MODULE Apply -------------------------------
(***************************************************************************)
(* `dpg apply` as a state machine: the processes that run it, the files    *)
(* they share (declared sources, snapshot, migration archive) and the live *)
(* database of each target.                                                *)
(*                                                                         *)
(* One invocation walks the targets in order (the cluster's own objects    *)
(* before its databases) and, for each: compiles and lints the sources,    *)
(* loads the snapshot, diffs, passes the gates, asks the operator,         *)
(* connects, runs the transactional statements in one transaction, runs    *)
(* the others one by one, archives the migration and rewrites the          *)
(* snapshot.  Nothing locks the snapshot between the load and the write.   *)
(*                                                                         *)
(* A schema is the set of objects it holds; an edited object is another    *)
(* object.  The order of statements is the business of module DiffPasses.  *)
(***************************************************************************)
EXTENDS Naturals, Sequences, FiniteSets

CONSTANTS
    Runners,          \* processes that may run `dpg apply`
    Targets,          \* sequence of targets in the order an invocation visits them
    ClusterTargets,   \* those that hold cluster-level objects: skipped without sources
    Catalog,          \* target -> what its schema may hold
    NonTxCreate,      \* created outside a transaction (CREATE INDEX CONCURRENTLY, ...)
    NonTxDrop,        \* dropped outside a transaction (DROP SUBSCRIPTION, ...)
    CautionDrop,      \* dropping it is not Destructive (DROP INDEX)
    IfNotExists,      \* created with IF NOT EXISTS (SCHEMA, EXTENSION)
    Instruction,      \* changed by the operator; the plan holds a "-- ..." comment
    LintErrors,       \* declaring it is an error-level diagnostic
    LintWarnings,     \* declaring it is a warning, which --strict promotes
    Foreign,          \* objects the databases may hold before dpg's first run
    Options,          \* flag combinations an invocation may use
    FaultPoints,      \* program points at which an invocation may fail or die
    MaxFaults,        \* bound: faults in a behavior
    MaxEdits          \* bound: edits of the sources in a behavior

TargetSet == {Targets[i] : i \in 1 .. Len(Targets)}

Objects == UNION {Catalog[t] : t \in TargetSet}

Points == {"compile", "load", "prompt", "connect", "tx", "commit", "nontx",
           "archive", "save", "write"}

Flags == [allowDestructive : BOOLEAN, approveRebuild : BOOLEAN, dryRun : BOOLEAN,
          yes : BOOLEAN, noSnapshot : BOOLEAN, strict : BOOLEAN]

ASSUME ConstantsAssumption ==
    /\ Targets \in Seq(TargetSet) /\ Len(Targets) > 0
    /\ ClusterTargets \subseteq TargetSet
    /\ DOMAIN Catalog = TargetSet
    /\ {NonTxCreate, NonTxDrop, CautionDrop, IfNotExists, Instruction, Foreign,
       LintErrors, LintWarnings} \subseteq SUBSET Objects
    /\ Foreign \cap Instruction = {}
    /\ Options \subseteq Flags
    /\ FaultPoints \subseteq Points
    /\ MaxFaults \in Nat /\ MaxEdits \in Nat

\* The snapshot file: missing, truncated by a writer that has not written yet,
\* overwritten by two writers at once, or well formed with the set it lists.
Missing == [state |-> "missing", objs |-> {}]
Truncated == [state |-> "truncated", objs |-> {}]
Garbled == [state |-> "garbled", objs |-> {}]
Written(S) == [state |-> "written", objs |-> S]
Files == [state : {"missing", "truncated", "garbled", "written"}, objs : SUBSET Objects]

Readable(f) == f.state \in {"missing", "written"}

VARIABLES
    sources,   \* target -> objects the .dpg files declare
    snapshot,  \* target -> the snapshot file
    db,        \* target -> objects the live database holds (committed state)
    pc,        \* runner -> program point
    opts,      \* runner -> flags of its invocation
    ti,        \* runner -> index of the target it works on
    desired,   \* runner -> result of compiler.Compile
    plan,      \* runner -> result of differ.Diff
    done,      \* runner -> statements executed for the current target
    versions,  \* history: target -> what its sources declared at any time, {} at first
    disturbed, \* history: targets edited during a run, or while the database and
               \* the snapshot were not in step
    faults, edits

shared == <<sources, snapshot, db>>
local == <<pc, opts, ti, desired, plan, done>>
env == <<versions, disturbed, faults, edits>>
vars == <<shared, local, env>>

----------------------------------------------------------------------------
(* Statements *)

Op == [act : {"create", "drop"}, obj : Objects]

Creates(ops) == {o.obj : o \in {p \in ops : p.act = "create"}}
Drops(ops) == {o.obj : o \in {p \in ops : p.act = "drop"}}

\* differ.Diff: what is declared and not in the snapshot is created, what is in
\* the snapshot and no longer declared is dropped.
Diff(want, have) ==
    {o \in Op : \/ o.act = "create" /\ o.obj \in want \ have
                \/ o.act = "drop" /\ o.obj \in have \ want}

IsInstruction(o) == o.obj \in Instruction
IsDestructive(o) ==
    o.act = "drop" /\ o.obj \notin CautionDrop /\ ~IsInstruction(o)
Transactional(o) ==
    IF o.act = "create" THEN o.obj \notin NonTxCreate ELSE o.obj \notin NonTxDrop

Executable(ops) == {o \in ops : ~IsInstruction(o)}
TxOps(ops) == {o \in Executable(ops) : Transactional(o)}
NonTxOps(ops) == {o \in Executable(ops) : ~Transactional(o)}

\* What the database holds after ops, when none of them fails.  Drops say IF EXISTS.
Effect(held, ops) == (held \ Drops(ops)) \cup Creates(ops)

\* CREATE of an object that is already there is an error.
Fails(o, held) == o.act = "create" /\ o.obj \in held /\ o.obj \notin IfNotExists

----------------------------------------------------------------------------
(* Initially nothing was ever applied; the databases may hold foreign objects. *)

NoFlags == [allowDestructive |-> FALSE, approveRebuild |-> FALSE, dryRun |-> FALSE,
            yes |-> FALSE, noSnapshot |-> FALSE, strict |-> FALSE]

Init ==
    /\ sources \in [TargetSet -> SUBSET Objects]
    /\ \A t \in TargetSet : sources[t] \subseteq Catalog[t]
    /\ snapshot = [t \in TargetSet |-> Missing]
    /\ db \in [TargetSet -> SUBSET Foreign]
    /\ \A t \in TargetSet : db[t] \subseteq Catalog[t]
    /\ pc = [r \in Runners |-> "idle"]
    /\ opts = [r \in Runners |-> NoFlags]
    /\ ti = [r \in Runners |-> 1]
    /\ desired = [r \in Runners |-> {}]
    /\ plan = [r \in Runners |-> {}]
    /\ done = [r \in Runners |-> {}]
    /\ versions = [t \in TargetSet |-> {{}, sources[t]}]
    /\ disturbed = {}
    /\ faults = 0
    /\ edits = 0

Target(r) == Targets[ti[r]]

Goto(r, point) == pc' = [pc EXCEPT ![r] = point]

\* The invocation returns: an error stops it before the targets that are left.
\* An open transaction is rolled back, by the code or by the server.
Exit(r) ==
    /\ Goto(r, "idle")
    /\ opts' = [opts EXCEPT ![r] = NoFlags]
    /\ ti' = [ti EXCEPT ![r] = 1]
    /\ desired' = [desired EXCEPT ![r] = {}]
    /\ plan' = [plan EXCEPT ![r] = {}]
    /\ done' = [done EXCEPT ![r] = {}]

\* Mutant: the last target is missed by one.
AdvanceTooFar(r) ==
    IF ti[r] > Len(Targets)
    THEN Exit(r)
    ELSE /\ Goto(r, "compile")
         /\ ti' = [ti EXCEPT ![r] = @ + 1]
         /\ desired' = [desired EXCEPT ![r] = {}]
         /\ plan' = [plan EXCEPT ![r] = {}]
         /\ done' = [done EXCEPT ![r] = {}]
         /\ UNCHANGED opts

\* runApply returns nil: on to the next target.
Advance(r) ==
    IF ti[r] = Len(Targets)
    THEN Exit(r)
    ELSE /\ Goto(r, "compile")
         /\ ti' = [ti EXCEPT ![r] = @ + 1]
         /\ desired' = [desired EXCEPT ![r] = {}]
         /\ plan' = [plan EXCEPT ![r] = {}]
         /\ done' = [done EXCEPT ![r] = {}]
         /\ UNCHANGED opts

----------------------------------------------------------------------------
(* Planning: no step of it touches shared state. *)

Start(r, o) ==
    /\ pc[r] = "idle"
    /\ Goto(r, "compile")
    /\ opts' = [opts EXCEPT ![r] = o]
    /\ UNCHANGED <<shared, ti, desired, plan, done, env>>

\* A cluster whose object directory has no source file is not applied at all.
SkipCluster(r) ==
    /\ pc[r] = "compile"
    /\ Target(r) \in ClusterTargets
    /\ sources[Target(r)] = {}
    /\ Advance(r)
    /\ UNCHANGED <<shared, env>>

\* Diagnostics that stop the invocation; --strict promotes warnings to errors.
Blocking(flags, S) ==
    S \cap (LintErrors \cup IF flags.strict THEN LintWarnings ELSE {}) # {}

CompileAndLint(r) ==
    /\ pc[r] = "compile"
    /\ IF Blocking(opts[r], sources[Target(r)])
       THEN Exit(r)
       ELSE /\ desired' = [desired EXCEPT ![r] = sources[Target(r)]]
            /\ Goto(r, "load")
            /\ UNCHANGED <<opts, ti, plan, done>>
    /\ UNCHANGED <<shared, env>>

\* Mutant: the live catalog takes part in the comparison.
LoadedFromCatalog(t) == snapshot[t].objs \cup db[t]

\* What store.Load returns to the differ; a missing file is an empty snapshot.
LoadedSnapshot(t) == snapshot[t].objs

LoadFails(r) ==
    /\ pc[r] = "load"
    /\ ~Readable(snapshot[Target(r)])
    /\ Exit(r)
    /\ UNCHANGED <<shared, env>>

\* Mutants: the gate stops plans that are destructive throughout; it has no key.
RefusedIfAll(flags, ops) ==
    \/ ~flags.allowDestructive /\ \A o \in ops : IsDestructive(o)
    \/ ~flags.approveRebuild /\ \E o \in ops : IsInstruction(o)

RefusedAlways(flags, ops) == \E o \in ops : IsDestructive(o) \/ IsInstruction(o)

Refused(flags, ops) ==
    \/ ~flags.allowDestructive /\ \E o \in ops : IsDestructive(o)
    \/ ~flags.approveRebuild /\ \E o \in ops : IsInstruction(o)

LoadAndPlan(r) ==
    LET ops == Diff(desired[r], LoadedSnapshot(Target(r))) IN
    /\ pc[r] = "load"
    /\ Readable(snapshot[Target(r)])
    /\ \/ /\ ops = {}                               \* already up to date
          /\ Advance(r)
       \/ /\ ops # {} /\ Refused(opts[r], ops)
          /\ Exit(r)
       \/ /\ ops # {} /\ ~Refused(opts[r], ops) /\ opts[r].dryRun
          /\ Advance(r)
       \/ /\ ops # {} /\ ~Refused(opts[r], ops) /\ ~opts[r].dryRun
          /\ plan' = [plan EXCEPT ![r] = ops]
          /\ Goto(r, IF opts[r].yes THEN "connect" ELSE "prompt")
          /\ UNCHANGED <<opts, ti, desired, done>>
    /\ UNCHANGED <<shared, env>>

\* Declining ends this target only: the loop goes on to the next one.
Answer(r, yes) ==
    /\ pc[r] = "prompt"
    /\ IF yes
       THEN Goto(r, "connect") /\ UNCHANGED <<opts, ti, desired, plan, done>>
       ELSE Advance(r)
    /\ UNCHANGED <<shared, env>>

\* Connection string, secret, connection and (databases only) owner membership.
Connect(r) ==
    /\ pc[r] = "connect"
    /\ Goto(r, IF TxOps(plan[r]) = {} THEN "nontx" ELSE "tx")
    /\ UNCHANGED <<shared, opts, ti, desired, plan, done, env>>

----------------------------------------------------------------------------
(* Execution *)

\* A statement waits for the transaction of another process that touched the object.
Locked(r, x) ==
    \E s \in Runners \ {r} :
        /\ pc[s] = "tx" /\ Target(s) = Target(r)
        /\ \E o \in done[s] : o.obj = x

\* Mutant: statements are sent without a transaction.
ExecTxDirectly(r, o) ==
    /\ pc[r] = "tx"
    /\ o \in TxOps(plan[r]) \ done[r]
    /\ ~Locked(r, o.obj)
    /\ IF Fails(o, db[Target(r)])
       THEN Exit(r) /\ UNCHANGED db
       ELSE /\ done' = [done EXCEPT ![r] = @ \cup {o}]
            /\ db' = [db EXCEPT ![Target(r)] = Effect(@, {o})]
            /\ UNCHANGED <<pc, opts, ti, desired, plan>>
    /\ UNCHANGED <<sources, snapshot, env>>

\* Exec inside the transaction: seen by others at the commit only.  The statements
\* of one transaction touch different objects, so db is what each of them meets.
ExecTx(r, o) ==
    /\ pc[r] = "tx"
    /\ o \in TxOps(plan[r]) \ done[r]
    /\ ~Locked(r, o.obj)
    /\ IF Fails(o, db[Target(r)])
       THEN Exit(r)
       ELSE /\ done' = [done EXCEPT ![r] = @ \cup {o}]
            /\ UNCHANGED <<pc, opts, ti, desired, plan>>
    /\ UNCHANGED <<shared, env>>

\* The server ends a deadlock of transactions by aborting one of them.
Stuck(r) ==
    /\ pc[r] = "tx"
    /\ TxOps(plan[r]) \ done[r] # {}
    /\ \A o \in TxOps(plan[r]) \ done[r] : Locked(r, o.obj)

DeadlockAbort(r) ==
    /\ Stuck(r)
    /\ \A s \in Runners \ {r} : pc[s] = "tx" /\ Target(s) = Target(r) => Stuck(s)
    /\ Exit(r)
    /\ UNCHANGED <<shared, env>>

Commit(r) ==
    /\ pc[r] = "tx"
    /\ TxOps(plan[r]) \subseteq done[r]
    /\ db' = [db EXCEPT ![Target(r)] = Effect(@, done[r])]
    /\ Goto(r, "nontx")
    /\ UNCHANGED <<sources, snapshot, opts, ti, desired, plan, done, env>>

ExecNonTx(r, o) ==
    /\ pc[r] = "nontx"
    /\ o \in NonTxOps(plan[r]) \ done[r]
    /\ ~Locked(r, o.obj)
    /\ IF Fails(o, db[Target(r)])
       THEN Exit(r) /\ UNCHANGED db
       ELSE /\ db' = [db EXCEPT ![Target(r)] = Effect(@, {o})]
            /\ done' = [done EXCEPT ![r] = @ \cup {o}]
            /\ UNCHANGED <<pc, opts, ti, desired, plan>>
    /\ UNCHANGED <<sources, snapshot, env>>

\* Mutant: the non-transactional statements are left for later.
ExecutedEarly(r) ==
    /\ pc[r] = "nontx"
    /\ Goto(r, "archive")
    /\ UNCHANGED <<shared, opts, ti, desired, plan, done, env>>

Executed(r) ==
    /\ pc[r] = "nontx"
    /\ Executable(plan[r]) \subseteq done[r]
    /\ Goto(r, "archive")
    /\ UNCHANGED <<shared, opts, ti, desired, plan, done, env>>

----------------------------------------------------------------------------
(* Recording *)

\* SaveMigration: a failure is a warning, and nothing reads the archive.
Archive(r) ==
    /\ pc[r] = "archive"
    /\ IF opts[r].noSnapshot
       THEN Advance(r)
       ELSE Goto(r, "save") /\ UNCHANGED <<opts, ti, desired, plan, done>>
    /\ UNCHANGED <<shared, env>>

\* os.WriteFile truncates the file in place ...
OpenSnapshot(r) ==
    /\ pc[r] = "save"
    /\ snapshot' = [snapshot EXCEPT ![Target(r)] = Truncated]
    /\ Goto(r, "write")
    /\ UNCHANGED <<sources, db, opts, ti, desired, plan, done, env>>

\* Mutant: what the database holds is written.
WriteCatalog(r) ==
    /\ pc[r] = "write"
    /\ snapshot' = [snapshot EXCEPT ![Target(r)] = Written(db[Target(r)])]
    /\ Advance(r)
    /\ UNCHANGED <<sources, db, env>>

\* ... and writes the desired state.  If another process wrote something else in
\* between, its end may stick out behind.
WriteSnapshot(r) ==
    /\ pc[r] = "write"
    /\ \E f \in {Written(desired[r])}
                \cup IF snapshot[Target(r)] \in {Truncated, Written(desired[r])}
                     THEN {} ELSE {Garbled} :
         snapshot' = [snapshot EXCEPT ![Target(r)] = f]
    /\ Advance(r)
    /\ UNCHANGED <<sources, db, env>>

----------------------------------------------------------------------------
(* Failures: a call returns an error, or the process dies, at a named point. *)

MayFail(r, point) == point \in FaultPoints /\ faults < MaxFaults

\* Nothing is done: the connection, a statement, a file operation or the process fails.
Interrupt(r) ==
    /\ pc[r] # "idle"
    /\ MayFail(r, pc[r])
    /\ faults' = faults + 1
    /\ Exit(r)
    /\ UNCHANGED <<shared, versions, disturbed, edits>>

\* The server commits and the process never learns of it.
InterruptCommit(r) ==
    /\ pc[r] = "tx"
    /\ TxOps(plan[r]) \subseteq done[r]
    /\ MayFail(r, "commit")
    /\ faults' = faults + 1
    /\ db' = [db EXCEPT ![Target(r)] = Effect(@, done[r])]
    /\ Exit(r)
    /\ UNCHANGED <<sources, snapshot, versions, disturbed, edits>>

----------------------------------------------------------------------------
(* The people around the program *)

\* What the sources of t ever declared.
Declared(t) == UNION versions[t]

\* Live and recorded state of what dpg ever managed agree.
InStep(t) ==
    /\ Readable(snapshot[t])
    /\ snapshot[t].objs = db[t] \cap (Declared(t) \cup Instruction)

EditSources(t, S) ==
    /\ edits < MaxEdits
    /\ S # sources[t]
    /\ sources' = [sources EXCEPT ![t] = S]
    /\ versions' = [versions EXCEPT ![t] = @ \cup {S}]
    /\ disturbed' = IF InStep(t) /\ \A r \in Runners : pc[r] = "idle"
                    THEN disturbed ELSE disturbed \cup {t}
    /\ edits' = edits + 1
    /\ UNCHANGED <<snapshot, db, local, faults>>

\* The operator carries out a manual step of the plan.
ManualStep(t, x) ==
    /\ x \in Instruction
    /\ x \in sources[t] <=> x \notin db[t]
    /\ db' = [db EXCEPT ![t] = IF x \in @ THEN @ \ {x} ELSE @ \cup {x}]
    /\ UNCHANGED <<sources, snapshot, local, env>>

----------------------------------------------------------------------------

\* The steps an invocation takes by itself once started.
Progress(r) ==
    \/ SkipCluster(r)
    \/ CompileAndLint(r)
    \/ LoadFails(r)
    \/ LoadAndPlan(r)
    \/ Connect(r)
    \/ \E o \in Op : ExecTx(r, o)
    \/ DeadlockAbort(r)
    \/ Commit(r)
    \/ \E o \in Op : ExecNonTx(r, o)
    \/ Executed(r)
    \/ Archive(r)
    \/ OpenSnapshot(r)
    \/ WriteSnapshot(r)

Next ==
    \/ \E r \in Runners : \E o \in Options : Start(r, o)
    \/ \E r \in Runners : Progress(r)
    \/ \E r \in Runners : \E yes \in BOOLEAN : Answer(r, yes)
    \/ \E r \in Runners : Interrupt(r)
    \/ \E r \in Runners : InterruptCommit(r)
    \/ \E t \in TargetSet : \E S \in SUBSET Catalog[t] : EditSources(t, S)
    \/ \E t \in TargetSet : \E x \in Catalog[t] : ManualStep(t, x)

Spec == Init /\ [][Next]_vars

\* A started invocation goes on and its prompt is answered; the operator comes back
\* again and again with an unattended run that has every permission.
Unattended == {o \in Options : o.allowDestructive /\ o.approveRebuild /\ o.yes
                               /\ ~o.dryRun /\ ~o.noSnapshot /\ ~o.strict}

Fairness ==
    \A r \in Runners :
        /\ WF_vars(Progress(r))
        /\ WF_vars(\E yes \in BOOLEAN : Answer(r, yes))
        /\ SF_vars(\E o \in Unattended : Start(r, o))

FairSpec == Spec /\ Fairness

----------------------------------------------------------------------------
(* Properties *)

\* Every variable has its type, and a process works on a target of the list.
TypeOK ==
    /\ sources \in [TargetSet -> SUBSET Objects]
    /\ snapshot \in [TargetSet -> Files]
    /\ db \in [TargetSet -> SUBSET Objects]
    /\ pc \in [Runners -> Points \cup {"idle"}]
    /\ opts \in [Runners -> Flags]
    /\ ti \in [Runners -> 1 .. Len(Targets)]
    /\ desired \in [Runners -> SUBSET Objects]
    /\ plan \in [Runners -> SUBSET Op]
    /\ done \in [Runners -> SUBSET Op]
    /\ versions \in [TargetSet -> SUBSET SUBSET Objects]
    /\ disturbed \subseteq TargetSet
    /\ faults \in 0 .. MaxFaults
    /\ edits \in 0 .. MaxEdits

Lost(t) == db[t] \ db'[t]

\* A destructive loss in the database is the work of a process that was started
\* with --allow-destructive and not with --dry-run; what an operator has to do by hand
\* is never done by a process (the gates of runApply, and its split of the plan).
LossesAreAllowed ==
    [][\A t \in TargetSet : \A x \in Lost(t) \ (CautionDrop \cup Instruction) :
         \E r \in Runners : /\ Target(r) = t
                            /\ pc[r] \in {"tx", "nontx"}
                            /\ opts[r].allowDestructive /\ ~opts[r].dryRun]_vars

\* dpg drops nothing it was never told about: an object of the database that no
\* source ever declared stays, whatever the order of runs, edits and crashes
\* (drops come from the snapshot, and the snapshot from the sources).
ForeignSurvives ==
    [][\A t \in TargetSet : Lost(t) \subseteq Declared(t) \cup Instruction]_vars

\* The transactional statements of a plan reach the database all together or
\* not at all: a step that changes a transactional object carries out all of a plan.
TransactionIsAtomic ==
    [][\A t \in TargetSet :
         LET made == db'[t] \ db[t]
             touched == (made \ NonTxCreate) \cup (Lost(t) \ NonTxDrop)
         IN  touched \subseteq Instruction
             \/ \E r \in Runners :
                  /\ Target(r) = t /\ pc[r] = "tx"
                  /\ Creates(TxOps(plan[r])) \subseteq db'[t]
                  /\ Drops(TxOps(plan[r])) \cap db'[t] = {}]_vars

\* A written snapshot records what the database holds of the objects dpg ever
\* managed ("the snapshot accurately reflecting the post-apply state").  Manual
\* steps are the exception: they are recorded when acknowledged.
RecordsTruth(t) ==
    snapshot'[t] # snapshot[t] /\ snapshot'[t].state = "written" =>
      snapshot'[t].objs \ Instruction = (db[t] \cap Declared(t)) \ Instruction

\* Whichever runs race for a target, whichever of them fail, and in whatever order
\* they write: the record is true as long as nobody edited the sources during a run
\* or between a failure and the run that repairs it (load and Save of runApply,
\* between which nothing is locked).
RecordIsTrue == [][\A t \in TargetSet \ disturbed : RecordsTruth(t)]_vars

\* What is declared ends up in the database and in the snapshot, when the operator
\* runs apply again after a failure ("on the next dpg apply, the transactional
\* ops will be re-attempted").  Two exceptions: a cluster that lost its last source
\* file is skipped, and a foreign object that was declared for a while and never
\* recorded stays.
Settled(t) ==
    /\ snapshot[t] \in {Written(sources[t])} \cup IF sources[t] = {} THEN {Missing} ELSE {}
    /\ sources[t] \ Instruction \subseteq db[t]
    /\ db[t] \cap Declared(t) \subseteq sources[t] \cup Instruction \cup Foreign

Skipped(t) == t \in ClusterTargets /\ sources[t] = {}

Converges == \A t \in TargetSet : <>[](Settled(t) \/ Skipped(t))

\* Nothing but the databases, the sources and the record is seen from outside.
Record == [t \in TargetSet |-> IF Readable(snapshot[t]) THEN {snapshot[t].objs} ELSE {}]

D == INSTANCE Deployment WITH recorded <- Record, live <- db

\* However processes interleave, fail and die, a database moves from version to version
\* of its sources: by whole transactions, by single statements that cannot be in one,
\* or by the operator's hand; and what the snapshot lists is a version (runApply, the
\* executor's Apply and FileStore.Save together).
Deployed == D!Spec

============================================================================

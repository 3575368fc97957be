---------------------------- MODULE RecordProofs ----------------------------
(* The snapshot that `dpg apply` writes is true, for any number of processes *)
(* that race for a target and fail, while nobody edits its sources.          *)
EXTENDS ApplyProofs

----------------------------------------------------------------------------
(* The inductive invariant.  Every plan made for an undisturbed target, from      *)
(* whichever record and however long ago, leads from a database that lags behind  *)
(* the sources to them: statements of other processes on the same target only     *)
(* bring the database nearer, so that a plan never becomes wrong, only redundant. *)

\* What the sources of t declare and the database does not hold yet, and what it still
\* holds of former versions; the operator's manual steps are left out of both.
Lacking(t) == sources[t] \ (db[t] \cup Instruction)
Leftover(t) == (db[t] \cap Declared(t)) \ (sources[t] \cup Instruction)

InAgreement(t) == Lacking(t) = {} /\ Leftover(t) = {}

\* Carrying out ops brings the database of t to its sources.
Bridges(t, ops) == Lacking(t) \subseteq Creates(ops) /\ Leftover(t) \subseteq Drops(ops)

RecordBridges(t) ==
    Readable(snapshot[t]) => Bridges(t, Diff(sources[t], snapshot[t].objs))

\* What is left of the plan of process r, whose target is undisturbed.
RunOK(r) ==
    /\ pc[r] \notin {"idle", "compile"} => desired[r] = sources[Target(r)]
    /\ Creates(plan[r]) \subseteq desired[r] /\ Drops(plan[r]) \cap desired[r] = {}
    /\ pc[r] \in {"prompt", "connect", "tx"} => Bridges(Target(r), plan[r])
    /\ pc[r] = "nontx" => Bridges(Target(r), plan[r] \ done[r])
    /\ pc[r] \in {"archive", "save", "write"} => InAgreement(Target(r))

TruthInv ==
    /\ \A t \in TargetSet \ disturbed : RecordBridges(t)
    /\ \A r \in Runners : Target(r) \notin disturbed => RunOK(r)

----------------------------------------------------------------------------
(* Lemmas about plans *)

LEMMA DiffCreatesWant ==
    ASSUME NEW want, NEW have
    PROVE  /\ Creates(Diff(want, have)) \subseteq want
           /\ Drops(Diff(want, have)) \cap want = {}
BY DEF Creates, Drops, Diff, Op

\* A difference holds a statement for every object the two sides do not share.
LEMMA DiffCoversBoth ==
    ASSUME NEW want \in SUBSET Objects, NEW have \in SUBSET Objects
    PROVE  /\ want \ have \subseteq Creates(Diff(want, have))
           /\ have \ want \subseteq Drops(Diff(want, have))
<1>1. ASSUME NEW x \in want \ have PROVE x \in Creates(Diff(want, have))
  <2>1. [act |-> "create", obj |-> x] \in Diff(want, have)
    BY DEF Diff, Op
  <2> QED
    BY <2>1 DEF Creates
<1>2. ASSUME NEW x \in have \ want PROVE x \in Drops(Diff(want, have))
  <2>1. [act |-> "drop", obj |-> x] \in Diff(want, have)
    BY DEF Diff, Op
  <2> QED
    BY <2>1 DEF Drops
<1> QED
  BY <1>1, <1>2

\* The statements that are left carry out what those that are done do not.
LEMMA RestCarriesOut ==
    ASSUME NEW ops, NEW executed
    PROVE  /\ Creates(ops) \ Creates(executed) \subseteq Creates(ops \ executed)
           /\ Drops(ops) \ Drops(executed) \subseteq Drops(ops \ executed)
BY DEF Creates, Drops

LEMMA PartOfPlan ==
    ASSUME NEW ops, NEW part, part \subseteq ops
    PROVE  Creates(part) \subseteq Creates(ops) /\ Drops(part) \subseteq Drops(ops)
BY DEF Creates, Drops

\* Statements that lead to the sources bring the database nearer to them.
LEMMA EffectBringsNearer ==
    ASSUME NEW t, NEW STATE ops, UNCHANGED <<sources, versions>>,
           db'[t] = Effect(db[t], ops),
           Creates(ops) \subseteq sources[t], Drops(ops) \cap sources[t] = {}
    PROVE  /\ Lacking(t)' \subseteq Lacking(t) \ Creates(ops)
           /\ Leftover(t)' \subseteq Leftover(t) \ Drops(ops)
BY DEF Lacking, Leftover, Effect, Declared

----------------------------------------------------------------------------
(* Steps of one process *)

Nearer(t) == Lacking(t)' \subseteq Lacking(t) /\ Leftover(t)' \subseteq Leftover(t)

\* A step of process r that leaves sources, versions and the other processes alone, and
\* no target's database farther from the sources than it was.
LEMMA TruthFrame ==
    ASSUME TypeOK, TruthInv, NEW r \in Runners, OthersKept(r),
           UNCHANGED <<sources, versions, disturbed>>,
           \A t \in TargetSet \ disturbed : Nearer(t) /\ RecordBridges(t)',
           Target(r)' \notin disturbed => RunOK(r)'
    PROVE  TruthInv'
<1>1. ASSUME NEW s \in Runners \ {r}, Target(s)' \notin disturbed' PROVE RunOK(s)'
  <2>1. /\ Target(s)' = Target(s) /\ Target(s) \in TargetSet \ disturbed
        /\ pc'[s] = pc[s] /\ desired'[s] = desired[s] /\ plan'[s] = plan[s]
        /\ done'[s] = done[s] /\ sources' = sources
    BY <1>1, TargetType DEF OthersKept, Target
  <2>2. RunOK(s) /\ Nearer(Target(s))
    BY <2>1 DEF TruthInv
  <2> QED
    BY <2>1, <2>2 DEF RunOK, Nearer, Bridges, InAgreement
<1> QED
  BY <1>1 DEF TruthInv

LEMMA RecordStays ==
    ASSUME NEW t, RecordBridges(t), UNCHANGED sources, snapshot'[t] = snapshot[t], Nearer(t)
    PROVE  RecordBridges(t)'
BY DEF RecordBridges, Nearer, Bridges

\* The step touches nothing that other processes see.
LEMMA LocalFrame ==
    ASSUME TypeOK, TruthInv, NEW r \in Runners, OthersKept(r),
           UNCHANGED <<shared, versions, disturbed>>,
           Target(r)' \notin disturbed => RunOK(r)'
    PROVE  TruthInv'
<1>1. \A t \in TargetSet \ disturbed : Nearer(t)
  BY DEF shared, Nearer, Lacking, Leftover, Declared
<1>2. \A t \in TargetSet \ disturbed : RecordBridges(t)'
  BY <1>1, RecordStays DEF TruthInv, shared
<1> QED
  BY <1>1, <1>2, TruthFrame DEF shared

LEMMA ClearedRunOK ==
    ASSUME NEW r \in Runners, Cleared(r)
    PROVE  RunOK(r)'
BY EmptyPlan DEF Cleared, RunOK

\* The step ends the work of r on its target, in success or not, and nothing else.
LEMMA LeavingKeepsTruth ==
    ASSUME TypeOK, TruthInv, NEW r \in Runners, Exit(r) \/ Advance(r),
           UNCHANGED <<shared, versions, disturbed>>
    PROVE  TruthInv'
BY LeavingClears, ClearedRunOK, LocalFrame

----------------------------------------------------------------------------
(* Statements *)

\* The transaction of r becomes visible, to r or without its knowing.
LEMMA CommitKeepsTruth ==
    ASSUME TypeOK, PlanInv, TruthInv, NEW r \in Runners, Commit(r) \/ InterruptCommit(r)
    PROVE  TruthInv'
<1>1. /\ pc[r] = "tx" /\ Target(r) \in TargetSet
      /\ db' = [db EXCEPT ![Target(r)] = Effect(@, done[r])]
      /\ UNCHANGED <<sources, versions, snapshot, disturbed>>
  BY TargetType DEF Commit, InterruptCommit, env
<1>2. done[r] \subseteq plan[r]
  BY DEF PlanInv, PlanOK, Executable
<1>3. ASSUME NEW t \in TargetSet \ disturbed, t = Target(r)
      PROVE  /\ Lacking(t)' \subseteq Lacking(t) \ Creates(done[r])
             /\ Leftover(t)' \subseteq Leftover(t) \ Drops(done[r])
  <2>1. RunOK(r) /\ desired[r] = sources[t]
    BY <1>1, <1>3 DEF TruthInv, RunOK
  <2>2. Creates(done[r]) \subseteq sources[t] /\ Drops(done[r]) \cap sources[t] = {}
    BY <1>2, <2>1, PartOfPlan DEF RunOK
  <2>3. db'[t] = Effect(db[t], done[r])
    BY <1>1, <1>3 DEF TypeOK
  <2> QED
    BY <1>1, <2>2, <2>3, EffectBringsNearer
<1>4. ASSUME NEW t \in TargetSet \ disturbed PROVE Nearer(t) /\ RecordBridges(t)'
  <2>1. ASSUME t = Target(r) PROVE Nearer(t)
    <3>1. /\ Lacking(t)' \subseteq Lacking(t) \ Creates(done[r])
          /\ Leftover(t)' \subseteq Leftover(t) \ Drops(done[r])
      BY <1>3, <1>4, <2>1
    <3> QED
      BY <3>1 DEF Nearer
  <2>2. ASSUME t # Target(r) PROVE Nearer(t)
    <3>1. db'[t] = db[t]
      BY <1>1, <2>2 DEF TypeOK
    <3> QED
      BY <1>1, <3>1 DEF Nearer, Lacking, Leftover, Declared
  <2>3. RecordBridges(t)
    BY <1>4 DEF TruthInv
  <2> QED
    BY <1>1, <2>1, <2>2, <2>3, RecordStays
<1>5. OthersKept(r) /\ (Target(r)' \notin disturbed => RunOK(r)')
  <2>1. CASE Commit(r)
    <3>1. OthersKept(r) /\ pc'[r] = "nontx" /\ UNCHANGED <<ti, desired, plan, done>>
      BY <2>1 DEF Commit, OthersKept, Goto, TypeOK
    <3>2. ASSUME Target(r)' \notin disturbed PROVE RunOK(r)'
      <4>1. Target(r)' = Target(r) /\ Target(r) \notin disturbed
        BY <3>1, <3>2 DEF Target
      <4>2. RunOK(r)
        BY <4>1 DEF TruthInv
      <4>3. Bridges(Target(r), plan[r])
        BY <1>1, <4>2 DEF RunOK
      <4>4. ASSUME NEW t, t = Target(r)
            PROVE  /\ Lacking(t)' \subseteq Creates(plan[r]) \ Creates(done[r])
                   /\ Leftover(t)' \subseteq Drops(plan[r]) \ Drops(done[r])
        BY <1>1, <1>3, <4>1, <4>3, <4>4 DEF Bridges
      <4>5. Bridges(Target(r), plan[r] \ done[r])'
        BY <1>1, <3>1, <4>1, <4>4, RestCarriesOut DEF Bridges, Lacking, Leftover, Declared
      <4> QED
        BY <1>1, <3>1, <4>1, <4>2, <4>5 DEF RunOK
    <3> QED
      BY <3>1, <3>2
  <2>2. CASE InterruptCommit(r)
    BY <2>2, LeavingClears, ClearedRunOK DEF InterruptCommit
  <2> QED
    BY <2>1, <2>2
<1> QED
  BY <1>1, <1>4, <1>5, TruthFrame

\* A statement outside the transaction is carried out, or fails.
LEMMA NonTxKeepsTruth ==
    ASSUME TypeOK, PlanInv, TruthInv, NEW r \in Runners, NEW o \in Op, ExecNonTx(r, o)
    PROVE  TruthInv'
<1>1. CASE Fails(o, db[Target(r)])
  BY <1>1, LeavingKeepsTruth DEF ExecNonTx, shared, env
<1>2. CASE ~Fails(o, db[Target(r)])
  <2>1. /\ pc[r] = "nontx" /\ Target(r) \in TargetSet /\ o \in plan[r]
        /\ db' = [db EXCEPT ![Target(r)] = Effect(@, {o})]
        /\ done'[r] = done[r] \cup {o} /\ OthersKept(r)
        /\ UNCHANGED <<sources, versions, snapshot, disturbed, pc, ti, desired, plan>>
    BY <1>2, TargetType DEF ExecNonTx, NonTxOps, Executable, OthersKept, TypeOK, env
  <2>2. ASSUME NEW t \in TargetSet \ disturbed, t = Target(r)
        PROVE  /\ Lacking(t)' \subseteq Lacking(t) \ Creates({o})
               /\ Leftover(t)' \subseteq Leftover(t) \ Drops({o})
    <3>1. RunOK(r) /\ desired[r] = sources[t]
      BY <2>1, <2>2 DEF TruthInv, RunOK
    <3>2. /\ Creates({o}) \subseteq Creates(plan[r]) /\ Drops({o}) \subseteq Drops(plan[r])
          /\ Creates(plan[r]) \subseteq sources[t] /\ Drops(plan[r]) \cap sources[t] = {}
      <4>1. {o} \subseteq plan[r]
        BY <2>1
      <4> QED
        BY <3>1, <4>1, PartOfPlan DEF RunOK
    <3>3. db'[t] = Effect(db[t], {o})
      BY <2>1, <2>2 DEF TypeOK
    <3> QED
      <4>1. Creates({o}) \subseteq sources[t] /\ Drops({o}) \cap sources[t] = {}
        BY <3>2
      <4> QED
        BY <2>1, <3>3, <4>1, EffectBringsNearer
  <2>3. ASSUME NEW t \in TargetSet \ disturbed PROVE Nearer(t) /\ RecordBridges(t)'
    <3>1. ASSUME t = Target(r) PROVE Nearer(t)
      <4>1. /\ Lacking(t)' \subseteq Lacking(t) \ Creates({o})
            /\ Leftover(t)' \subseteq Leftover(t) \ Drops({o})
        BY <2>2, <2>3, <3>1
      <4> QED
        BY <4>1 DEF Nearer
    <3>2. ASSUME t # Target(r) PROVE Nearer(t)
      <4>1. db'[t] = db[t]
        BY <2>1, <3>2 DEF TypeOK
      <4> QED
        BY <2>1, <4>1 DEF Nearer, Lacking, Leftover, Declared
    <3>3. RecordBridges(t)
      BY <2>3 DEF TruthInv
    <3> QED
      BY <2>1, <3>1, <3>2, <3>3, RecordStays
  <2>4. ASSUME Target(r)' \notin disturbed PROVE RunOK(r)'
    <3>1. Target(r)' = Target(r) /\ Target(r) \notin disturbed
      BY <2>1, <2>4 DEF Target
    <3>2. RunOK(r) /\ Bridges(Target(r), plan[r] \ done[r])
      BY <2>1, <3>1 DEF TruthInv, RunOK
    <3>3. ASSUME NEW t, t = Target(r)
          PROVE  /\ Lacking(t)' \subseteq Creates(plan[r] \ done[r]) \ Creates({o})
                 /\ Leftover(t)' \subseteq Drops(plan[r] \ done[r]) \ Drops({o})
      BY <2>1, <2>2, <3>1, <3>2, <3>3 DEF Bridges
    <3>4. plan'[r] \ done'[r] = (plan[r] \ done[r]) \ {o}
      BY <2>1
    <3>5. Bridges(Target(r), plan[r] \ done[r])'
      BY <2>1, <3>1, <3>3, <3>4, RestCarriesOut DEF Bridges, Lacking, Leftover, Declared
    <3> QED
      BY <2>1, <3>1, <3>2, <3>5 DEF RunOK
  <2> QED
    BY <2>1, <2>3, <2>4, TruthFrame
<1> QED
  BY <1>1, <1>2

----------------------------------------------------------------------------
(* The other steps of a process *)

LEMMA CompileKeepsTruth ==
    ASSUME TypeOK, PlanInv, TruthInv, NEW r \in Runners, CompileAndLint(r)
    PROVE  TruthInv'
<1>1. CASE Blocking(opts[r], sources[Target(r)])
  BY <1>1, LeavingKeepsTruth DEF CompileAndLint, env
<1>2. CASE ~Blocking(opts[r], sources[Target(r)])
  <2>1. /\ pc[r] = "compile" /\ pc'[r] = "load" /\ OthersKept(r)
        /\ desired'[r] = sources[Target(r)] /\ UNCHANGED <<ti, plan>>
        /\ UNCHANGED <<shared, versions, disturbed>>
    BY <1>2 DEF CompileAndLint, OthersKept, Goto, TypeOK, env
  <2>2. plan[r] = {}
    BY <2>1 DEF PlanInv, PlanOK, Planning
  <2>3. Target(r)' = Target(r) /\ sources' = sources
    BY <2>1 DEF Target, shared
  <2>4. RunOK(r)'
    BY <2>1, <2>2, <2>3, EmptyPlan DEF RunOK
  <2> QED
    BY <2>1, <2>4, LocalFrame
<1> QED
  BY <1>1, <1>2

LEMMA PlanKeepsTruth ==
    ASSUME TypeOK, TruthInv, NEW r \in Runners, LoadAndPlan(r)
    PROVE  TruthInv'
<1>1. CASE Exit(r) \/ Advance(r)
  BY <1>1, LeavingKeepsTruth DEF LoadAndPlan, env
<1>2. CASE ~Exit(r) /\ ~Advance(r)
  <2> DEFINE ops == Diff(desired[r], snapshot[Target(r)].objs)
  <2>1. /\ pc[r] = "load" /\ pc'[r] \in {"connect", "prompt"} /\ OthersKept(r)
        /\ Readable(snapshot[Target(r)]) /\ plan'[r] = ops
        /\ UNCHANGED <<ti, desired>> /\ UNCHANGED <<shared, versions, disturbed>>
    BY <1>2 DEF LoadAndPlan, LoadedSnapshot, OthersKept, Goto, TypeOK, env
  <2>2. Target(r)' = Target(r) /\ Target(r) \in TargetSet /\ UNCHANGED <<sources, db>>
    BY <2>1, TargetType DEF Target, shared
  <2>3. ASSUME Target(r)' \notin disturbed PROVE RunOK(r)'
    <3>1. RecordBridges(Target(r)) /\ desired[r] = sources[Target(r)]
      BY <2>1, <2>2, <2>3 DEF TruthInv, RunOK
    <3>2. Bridges(Target(r), ops)
      BY <2>1, <3>1 DEF RecordBridges
    <3>3. Bridges(Target(r), plan[r])'
      BY <2>1, <2>2, <3>2 DEF Bridges, Lacking, Leftover, Declared
    <3>4. Creates(plan'[r]) \subseteq desired'[r] /\ Drops(plan'[r]) \cap desired'[r] = {}
      BY <2>1, DiffCreatesWant
    <3> QED
      BY <2>1, <2>2, <3>1, <3>3, <3>4 DEF RunOK
  <2> QED
    BY <2>1, <2>3, LocalFrame
<1> QED
  BY <1>1, <1>2

\* Steps that change nothing but the program point of r, and what it has executed in its
\* transaction.
LEMMA PointKeepsTruth ==
    ASSUME TypeOK, TruthInv, NEW r \in Runners, OthersKept(r),
           UNCHANGED <<ti, desired, plan>>, UNCHANGED <<sources, db, versions, disturbed>>,
           \A t \in TargetSet : snapshot'[t] = snapshot[t] \/ ~Readable(snapshot'[t]),
           RunOK(r) => RunOK(r)'
    PROVE  TruthInv'
<1>1. Target(r)' = Target(r)
  BY DEF Target
<1>2. Target(r)' \notin disturbed => RunOK(r)'
  BY <1>1 DEF TruthInv
<1>3. ASSUME NEW t \in TargetSet \ disturbed PROVE Nearer(t) /\ RecordBridges(t)'
  <2>1. Nearer(t)
    BY DEF Nearer, Lacking, Leftover, Declared
  <2>2. CASE snapshot'[t] = snapshot[t]
    BY <1>3, <2>1, <2>2, RecordStays DEF TruthInv
  <2>3. CASE ~Readable(snapshot'[t])
    BY <2>1, <2>3 DEF RecordBridges, Readable
  <2> QED
    BY <2>1, <2>2, <2>3
<1> QED
  BY <1>2, <1>3, TruthFrame

\* With every statement carried out, the database agrees with the sources.
LEMMA NothingLeft ==
    ASSUME NEW r \in Runners, Bridges(Target(r), plan[r] \ done[r]),
           Executable(plan[r]) \subseteq done[r]
    PROVE  InAgreement(Target(r))
<1>1. \A o \in plan[r] \ done[r] : o.obj \in Instruction
  BY DEF Executable, IsInstruction
<1>2. /\ Creates(plan[r] \ done[r]) \subseteq Instruction
      /\ Drops(plan[r] \ done[r]) \subseteq Instruction
  BY <1>1 DEF Creates, Drops
<1> QED
  BY <1>2 DEF Bridges, InAgreement, Lacking, Leftover

LEMMA ProgressTruth ==
    ASSUME TypeOK, PlanInv, TruthInv, NEW r \in Runners, Progress(r)
    PROVE  TruthInv'
<1>1. CASE SkipCluster(r) \/ LoadFails(r) \/ DeadlockAbort(r)
           \/ (Archive(r) /\ Advance(r))
  BY <1>1, LeavingKeepsTruth DEF SkipCluster, LoadFails, DeadlockAbort, Archive, env
<1>2. CASE Connect(r)
  <2>1. /\ pc[r] = "connect" /\ pc'[r] \in {"tx", "nontx"} /\ OthersKept(r)
        /\ UNCHANGED <<ti, desired, plan, done, shared, versions, disturbed>>
    BY <1>2 DEF Connect, OthersKept, Goto, TypeOK, env
  <2>2. plan[r] \ done[r] = plan[r]
    BY <2>1 DEF PlanInv, PlanOK, Planning
  <2>3. RunOK(r) => RunOK(r)'
    BY <2>1, <2>2 DEF RunOK, Bridges, Lacking, Leftover, Declared, Target, shared
  <2> QED
    BY <2>1, <2>3, PointKeepsTruth DEF shared
<1>3. ASSUME NEW o \in Op, ExecTx(r, o) PROVE TruthInv'
  <2>1. CASE Fails(o, db[Target(r)])
    BY <1>3, <2>1, LeavingKeepsTruth DEF ExecTx, env
  <2>2. CASE ~Fails(o, db[Target(r)])
    <3>1. /\ pc[r] = "tx" /\ OthersKept(r)
          /\ UNCHANGED <<pc, ti, desired, plan, shared, versions, disturbed>>
      BY <1>3, <2>2 DEF ExecTx, OthersKept, TypeOK, env
    <3>2. RunOK(r) => RunOK(r)'
      BY <3>1 DEF RunOK, Bridges, Lacking, Leftover, Declared, Target, shared
    <3> QED
      BY <3>1, <3>2, PointKeepsTruth DEF shared
  <2> QED
    BY <2>1, <2>2
<1>4. CASE Executed(r)
  <2>1. /\ pc[r] = "nontx" /\ pc'[r] = "archive" /\ OthersKept(r)
        /\ Executable(plan[r]) \subseteq done[r]
        /\ UNCHANGED <<ti, desired, plan, done, shared, versions, disturbed>>
    BY <1>4 DEF Executed, OthersKept, Goto, TypeOK, env
  <2>2. RunOK(r) => InAgreement(Target(r))
    BY <2>1, NothingLeft DEF RunOK
  <2>3. RunOK(r) => RunOK(r)'
    BY <2>1, <2>2 DEF RunOK, InAgreement, Lacking, Leftover, Declared, Target, shared
  <2> QED
    BY <2>1, <2>3, PointKeepsTruth DEF shared
<1>5. CASE OpenSnapshot(r) \/ (Archive(r) /\ ~Advance(r))
  <2>1. /\ pc[r] \in {"archive", "save"} /\ pc'[r] \in {"save", "write"} /\ OthersKept(r)
        /\ UNCHANGED <<ti, desired, plan, done, sources, db, versions, disturbed>>
    BY <1>5 DEF OpenSnapshot, Archive, OthersKept, Goto, TypeOK, env, shared
  <2>2. \A t \in TargetSet : snapshot'[t] = snapshot[t] \/ ~Readable(snapshot'[t])
    BY <1>5 DEF OpenSnapshot, Archive, shared, TypeOK, Truncated, Readable
  <2>3. RunOK(r) => RunOK(r)'
    BY <2>1 DEF RunOK, InAgreement, Lacking, Leftover, Declared, Target
  <2> QED
    BY <2>1, <2>2, <2>3, PointKeepsTruth
<1>6. CASE WriteSnapshot(r)
  <2>1. /\ pc[r] = "write" /\ Target(r) \in TargetSet
        /\ UNCHANGED <<sources, db, versions, disturbed>>
        /\ Cleared(r) /\ OthersKept(r)
        /\ snapshot' \in [TargetSet -> Files]
        /\ \A t \in TargetSet : snapshot'[t] = snapshot[t] \/ t = Target(r)
    BY <1>6, TargetType, LeavingClears, NextTyped
       DEF WriteSnapshot, env, Next, Progress, TypeOK
  <2>2. ASSUME NEW t \in TargetSet \ disturbed PROVE Nearer(t) /\ RecordBridges(t)'
    <3>1. Nearer(t)
      BY <2>1 DEF Nearer, Lacking, Leftover, Declared
    <3>2. CASE t # Target(r)
      BY <2>1, <2>2, <3>1, <3>2, RecordStays DEF TruthInv
    <3>3. CASE t = Target(r)
      <4>1. InAgreement(t)
        BY <2>1, <2>2, <3>3 DEF TruthInv, RunOK
      <4>2. Lacking(t)' = {} /\ Leftover(t)' = {}
        BY <3>1, <4>1 DEF InAgreement, Nearer
      <4> QED
        BY <3>1, <4>2 DEF RecordBridges, Bridges
    <3> QED
      BY <3>2, <3>3
  <2> QED
    BY <2>1, <2>2, ClearedRunOK, TruthFrame
<1> QED
  BY <1>1, <1>2, <1>3, <1>4, <1>5, <1>6, CompileKeepsTruth, PlanKeepsTruth,
     CommitKeepsTruth, NonTxKeepsTruth DEF Progress

----------------------------------------------------------------------------
(* The steps of the people around the program *)

\* Sources are edited: the target counts as undisturbed only when no process is at work
\* and what is on record is what the database holds, so that the record is a base for
\* the plans of the new sources.
LEMMA EditKeepsTruth ==
    ASSUME TypeOK, PlanInv, OriginInv, TruthInv, NEW t \in TargetSet,
           NEW S \in SUBSET Catalog[t], EditSources(t, S)
    PROVE  TruthInv'
<1>1. /\ sources'[t] = S /\ versions'[t] = versions[t] \cup {S}
      /\ \A u \in TargetSet \ {t} :
           sources'[u] = sources[u] /\ versions'[u] = versions[u]
      /\ UNCHANGED <<snapshot, db, pc, ti, desired, plan, done>>
      /\ disturbed \subseteq disturbed'
      /\ t \notin disturbed' => InStep(t) /\ \A r \in Runners : pc[r] = "idle"
  BY DEF EditSources, local, TypeOK
<1>2. Catalog[t] \subseteq Objects /\ S \in SUBSET Objects
  BY DEF Objects
<1>3. ASSUME t \notin disturbed' PROVE RecordBridges(t)'
  <2> DEFINE have == snapshot[t].objs
  <2>1. have = db[t] \cap (Declared(t) \cup Instruction)
    BY <1>1, <1>3 DEF InStep
  <2>2. have \in SUBSET Objects
    BY DEF TypeOK, Files
  <2>3. S \ have \subseteq Creates(Diff(S, have)) /\ have \ S \subseteq Drops(Diff(S, have))
    BY <1>2, <2>2, DiffCoversBoth
  <2>4. Lacking(t)' \subseteq S \ have
    BY <1>1, <2>1 DEF Lacking
  <2>5. Leftover(t)' \subseteq have \ S
    BY <1>1, <2>1 DEF Leftover, Declared
  <2> HIDE DEF have
  <2>6. Lacking(t)' \subseteq Creates(Diff(S, have)) /\ Leftover(t)' \subseteq Drops(Diff(S, have))
    BY <2>3, <2>4, <2>5
  <2>7. Bridges(t, Diff(sources[t], snapshot[t].objs))'
    BY <1>1, <2>6 DEF have, Bridges
  <2> QED
    BY <2>7 DEF RecordBridges
<1>4. ASSUME NEW u \in TargetSet \ disturbed', u # t PROVE RecordBridges(u)'
  <2>1. Nearer(u) /\ RecordBridges(u) /\ sources'[u] = sources[u]
    BY <1>1, <1>4 DEF Nearer, Lacking, Leftover, Declared, TruthInv
  <2> QED
    BY <1>1, <2>1 DEF RecordBridges, Nearer, Bridges
<1>5. ASSUME NEW r \in Runners, Target(r)' \notin disturbed' PROVE RunOK(r)'
  <2>1. Target(r)' = Target(r) /\ Target(r) \in TargetSet
    BY <1>1, TargetType DEF Target
  <2>2. CASE Target(r) = t
    <3>1. pc'[r] = "idle" /\ plan'[r] = {}
      BY <1>1, <1>5, <2>1, <2>2 DEF PlanInv, PlanOK, Planning
    <3> QED
      BY <3>1, EmptyPlan DEF RunOK
  <2>3. CASE Target(r) # t
    <3>1. RunOK(r)
      BY <1>1, <1>5, <2>1 DEF TruthInv
    <3>2. sources'[Target(r)] = sources[Target(r)] /\ versions'[Target(r)] = versions[Target(r)]
      BY <1>1, <2>1, <2>3
    <3> QED
      BY <1>1, <2>1, <3>1, <3>2
         DEF RunOK, Bridges, InAgreement, Lacking, Leftover, Declared
  <2> QED
    BY <2>2, <2>3
<1> QED
  BY <1>3, <1>4, <1>5 DEF TruthInv

LEMMA ManualKeepsTruth ==
    ASSUME TypeOK, TruthInv, NEW t \in TargetSet, NEW x \in Catalog[t], ManualStep(t, x)
    PROVE  TruthInv'
<1>1. /\ UNCHANGED <<sources, snapshot, versions, disturbed, pc, ti, desired, plan, done>>
      /\ \A u \in TargetSet : db'[u] \ Instruction = db[u] \ Instruction
  BY DEF ManualStep, local, env, TypeOK
<1>2. ASSUME NEW u \in TargetSet
      PROVE  Lacking(u)' = Lacking(u) /\ Leftover(u)' = Leftover(u)
  BY <1>1 DEF Lacking, Leftover, Declared
<1>3. ASSUME NEW u \in TargetSet \ disturbed' PROVE RecordBridges(u)'
  <2>1. RecordBridges(u) /\ Nearer(u)
    BY <1>1, <1>2, <1>3 DEF TruthInv, Nearer
  <2> QED
    BY <1>1, <2>1, RecordStays
<1>4. ASSUME NEW r \in Runners, Target(r)' \notin disturbed' PROVE RunOK(r)'
  <2>1. Target(r)' = Target(r) /\ Target(r) \in TargetSet /\ RunOK(r)
    BY <1>1, <1>4, TargetType DEF Target, TruthInv
  <2>2. Lacking(Target(r))' = Lacking(Target(r)) /\ Leftover(Target(r))' = Leftover(Target(r))
    BY <1>1, <2>1 DEF Lacking, Leftover, Declared
  <2> QED
    BY <1>1, <2>1, <2>2 DEF RunOK, Bridges, InAgreement
<1> QED
  BY <1>3, <1>4 DEF TruthInv

----------------------------------------------------------------------------
(* The theorem *)

LEMMA InitTruth == Init => TruthInv
<1> SUFFICES ASSUME Init PROVE TruthInv
  OBVIOUS
<1>1. ASSUME NEW t \in TargetSet PROVE RecordBridges(t)
  <2>1. snapshot[t].objs = {} /\ Declared(t) = sources[t] /\ sources[t] \in SUBSET Objects
    BY DEF Init, Missing, Declared
  <2>2. sources[t] \ {} \subseteq Creates(Diff(sources[t], {}))
    BY <2>1, DiffCoversBoth
  <2> QED
    BY <2>1, <2>2 DEF RecordBridges, Bridges, Lacking, Leftover
<1>2. ASSUME NEW r \in Runners PROVE RunOK(r)
  BY EmptyPlan DEF Init, RunOK
<1> QED
  BY <1>1, <1>2 DEF TruthInv

LEMMA NextTruth == TypeOK /\ PlanInv /\ OriginInv /\ TruthInv /\ [Next]_vars => TruthInv'
<1> SUFFICES ASSUME TypeOK, PlanInv, OriginInv, TruthInv, [Next]_vars PROVE TruthInv'
  OBVIOUS
<1>1. ASSUME NEW r \in Runners, NEW o \in Options, Start(r, o) PROVE TruthInv'
  <2>1. /\ OthersKept(r) /\ pc[r] = "idle" /\ pc'[r] = "compile"
        /\ UNCHANGED <<ti, desired, plan, shared, versions, disturbed>>
    BY <1>1 DEF Start, OthersKept, Goto, TypeOK, env
  <2>2. RunOK(r) => RunOK(r)'
    BY <2>1 DEF RunOK
  <2> QED
    BY <2>1, <2>2, PointKeepsTruth DEF shared
<1>2. ASSUME NEW r \in Runners, NEW yes \in BOOLEAN, Answer(r, yes) PROVE TruthInv'
  <2>1. CASE yes
    <3>1. /\ OthersKept(r) /\ pc[r] = "prompt" /\ pc'[r] = "connect"
          /\ UNCHANGED <<ti, desired, plan, shared, versions, disturbed>>
      BY <1>2, <2>1 DEF Answer, OthersKept, Goto, TypeOK, env
    <3>2. RunOK(r) => RunOK(r)'
      BY <3>1 DEF RunOK, Bridges, Lacking, Leftover, Declared, Target, shared
    <3> QED
      BY <3>1, <3>2, PointKeepsTruth DEF shared
  <2>2. CASE ~yes
    BY <1>2, <2>2, LeavingKeepsTruth DEF Answer, env
  <2> QED
    BY <2>1, <2>2
<1>3. ASSUME NEW r \in Runners, Interrupt(r) PROVE TruthInv'
  BY <1>3, LeavingKeepsTruth DEF Interrupt
<1>4. CASE UNCHANGED vars
  BY <1>4 DEF vars, shared, local, env, TruthInv, RecordBridges, RunOK, Bridges,
     InAgreement, Lacking, Leftover, Declared, Target
<1> QED
  BY <1>1, <1>2, <1>3, <1>4, ProgressTruth, CommitKeepsTruth, EditKeepsTruth,
     ManualKeepsTruth DEF Next

\* Whichever processes race for a target and whichever of them fail, what is written to
\* its snapshot is what its database then holds of the objects dpg ever managed, as long
\* as its sources were edited only between runs that left the two in step.
THEOREM RecordsAreTrue == Spec => RecordIsTrue
<1> DEFINE True == \A t \in TargetSet \ disturbed : RecordsTruth(t)
<1>1. ASSUME TypeOK, OriginInv, TruthInv, [Next]_vars PROVE True
  <2>1. SUFFICES ASSUME NEW t \in TargetSet \ disturbed,
                        snapshot'[t] # snapshot[t], snapshot'[t].state = "written"
                 PROVE  snapshot'[t].objs \ Instruction = (db[t] \cap Declared(t)) \ Instruction
    BY DEF RecordsTruth
  <2>2. PICK r \in Runners : WriteSnapshot(r) \/ OpenSnapshot(r)
    BY <1>1, <2>1 DEF Next, vars, shared, Progress, Start, SkipCluster, CompileAndLint,
       LoadFails, LoadAndPlan, Answer, Connect, ExecTx, DeadlockAbort, Commit, ExecNonTx,
       Executed, Archive, Interrupt, InterruptCommit, EditSources, ManualStep
  <2>3. t = Target(r)
    BY <1>1, <2>1, <2>2 DEF WriteSnapshot, OpenSnapshot, TypeOK
  <2>4. WriteSnapshot(r) /\ snapshot'[t] = Written(desired[r])
    BY <1>1, <2>1, <2>2, <2>3
       DEF WriteSnapshot, OpenSnapshot, TypeOK, Truncated, Garbled, Written
  <2>5. desired[r] = sources[t] /\ InAgreement(t)
    BY <1>1, <2>1, <2>3, <2>4 DEF WriteSnapshot, TruthInv, RunOK
  <2>6. sources[t] \subseteq Declared(t)
    BY <1>1, <2>1 DEF OriginInv, Declared
  <2> QED
    BY <2>4, <2>5, <2>6 DEF Written, InAgreement, Lacking, Leftover
<1> QED
  BY <1>1, Planned, Origins, InitTruth, NextTruth, PTL DEF Spec, RecordIsTrue

=============================================================================

---------------------------- MODULE ApplyProofs ----------------------------
(* What holds of `dpg apply` for any number of processes, targets and objects. *)
EXTENDS Apply, TLAPS

----------------------------------------------------------------------------
(* Types *)

LEMMA TargetType ==
    ASSUME TypeOK, NEW r \in Runners
    PROVE  Target(r) \in TargetSet
BY DEF TypeOK, Target, TargetSet

LEMMA ExitType ==
    ASSUME TypeOK, NEW r \in Runners, Exit(r)
    PROVE  /\ pc' \in [Runners -> Points \cup {"idle"}]
           /\ opts' \in [Runners -> Flags]
           /\ ti' \in [Runners -> 1 .. Len(Targets)]
           /\ desired' \in [Runners -> SUBSET Objects]
           /\ plan' \in [Runners -> SUBSET Op]
           /\ done' \in [Runners -> SUBSET Op]
<1>1. Len(Targets) \in Nat /\ Len(Targets) > 0
  BY ConstantsAssumption
<1>2. 1 \in 1 .. Len(Targets)
  BY <1>1
<1>3. NoFlags \in Flags
  BY DEF NoFlags, Flags
<1> QED
  BY <1>2, <1>3 DEF TypeOK, Exit, Goto

LEMMA AdvanceType ==
    ASSUME TypeOK, NEW r \in Runners, Advance(r)
    PROVE  /\ pc' \in [Runners -> Points \cup {"idle"}]
           /\ opts' \in [Runners -> Flags]
           /\ ti' \in [Runners -> 1 .. Len(Targets)]
           /\ desired' \in [Runners -> SUBSET Objects]
           /\ plan' \in [Runners -> SUBSET Op]
           /\ done' \in [Runners -> SUBSET Op]
<1>1. CASE ti[r] = Len(Targets)
  BY <1>1, ExitType DEF Advance
<1>2. CASE ti[r] # Len(Targets)
  <2>1. Len(Targets) \in Nat
    BY ConstantsAssumption
  <2>2. ti[r] + 1 \in 1 .. Len(Targets)
    BY <1>2, <2>1 DEF TypeOK
  <2> QED
    BY <1>2, <2>2 DEF Advance, TypeOK, Goto, Points
<1> QED
  BY <1>1, <1>2

LEMMA EffectType ==
    ASSUME NEW held \in SUBSET Objects, NEW ops \in SUBSET Op
    PROVE  Effect(held, ops) \in SUBSET Objects
BY DEF Effect, Creates, Drops, Op

LEMMA InitTyped == Init => TypeOK
<1> SUFFICES ASSUME Init PROVE TypeOK
  OBVIOUS
<1>1. NoFlags \in Flags
  BY DEF NoFlags, Flags
<1>2. 1 \in 1 .. Len(Targets) /\ 0 \in 0 .. MaxFaults /\ 0 \in 0 .. MaxEdits
  BY ConstantsAssumption
<1>3. Missing \in Files
  BY DEF Missing, Files
<1>4. SUBSET Foreign \subseteq SUBSET Objects
  BY ConstantsAssumption
<1> QED
  BY <1>1, <1>2, <1>3, <1>4 DEF Init, TypeOK

LEMMA NextTyped == TypeOK /\ [Next]_vars => TypeOK'
<1> SUFFICES ASSUME TypeOK, [Next]_vars PROVE TypeOK'
  OBVIOUS
<1>1. ASSUME NEW r \in Runners, Progress(r) PROVE TypeOK'
  <2>1. CASE SkipCluster(r)
    BY <2>1, AdvanceType DEF SkipCluster, TypeOK, shared, env
  <2>2. CASE CompileAndLint(r)
    <3>1. CASE Blocking(opts[r], sources[Target(r)])
      BY <2>2, <3>1, ExitType DEF CompileAndLint, TypeOK, shared, env
    <3>2. CASE ~Blocking(opts[r], sources[Target(r)])
      <4>1. desired' \in [Runners -> SUBSET Objects]
        BY <2>2, <3>2, TargetType DEF CompileAndLint, TypeOK
      <4> QED
        BY <2>2, <3>2, <4>1 DEF CompileAndLint, TypeOK, shared, env, Goto, Points
    <3> QED
      BY <3>1, <3>2
  <2>3. CASE LoadFails(r)
    BY <2>3, ExitType DEF LoadFails, TypeOK, shared, env
  <2>4. CASE LoadAndPlan(r)
    <3>1. CASE Exit(r)
      BY <2>4, <3>1, ExitType DEF LoadAndPlan, TypeOK, shared, env
    <3>2. CASE Advance(r)
      BY <2>4, <3>2, AdvanceType DEF LoadAndPlan, TypeOK, shared, env
    <3>3. CASE ~Exit(r) /\ ~Advance(r)
      <4>1. Diff(desired[r], LoadedSnapshot(Target(r))) \in SUBSET Op
        BY DEF Diff
      <4>2. /\ plan' = [plan EXCEPT ![r] = Diff(desired[r], LoadedSnapshot(Target(r)))]
            /\ Goto(r, IF opts[r].yes THEN "connect" ELSE "prompt")
            /\ UNCHANGED <<opts, ti, desired, done, shared, env>>
        BY <2>4, <3>3 DEF LoadAndPlan
      <4> QED
        BY <4>1, <4>2 DEF TypeOK, shared, env, Goto, Points
    <3> QED
      BY <3>1, <3>2, <3>3
  <2>5. CASE Connect(r)
    BY <2>5 DEF Connect, TypeOK, shared, env, Goto, Points
  <2>6. ASSUME NEW o \in Op, ExecTx(r, o) PROVE TypeOK'
    <3>1. CASE Fails(o, db[Target(r)])
      BY <2>6, <3>1, ExitType DEF ExecTx, TypeOK, shared, env
    <3>2. CASE ~Fails(o, db[Target(r)])
      <4>1. done[r] \cup {o} \in SUBSET Op
        BY DEF TypeOK
      <4>2. done' \in [Runners -> SUBSET Op]
        BY <2>6, <3>2, <4>1 DEF ExecTx, TypeOK
      <4> QED
        BY <2>6, <3>2, <4>2 DEF ExecTx, TypeOK, shared, env
    <3> QED
      BY <3>1, <3>2
  <2>7. CASE DeadlockAbort(r)
    BY <2>7, ExitType DEF DeadlockAbort, TypeOK, shared, env
  <2>8. CASE Commit(r)
    <3>1. Effect(db[Target(r)], done[r]) \in SUBSET Objects
      BY TargetType, EffectType DEF TypeOK
    <3> QED
      BY <2>8, <3>1, TargetType DEF Commit, TypeOK, env, Goto, Points
  <2>9. ASSUME NEW o \in Op, ExecNonTx(r, o) PROVE TypeOK'
    <3>1. Effect(db[Target(r)], {o}) \in SUBSET Objects
      BY TargetType, EffectType DEF TypeOK
    <3>2. CASE Fails(o, db[Target(r)])
      BY <2>9, <3>2, ExitType DEF ExecNonTx, TypeOK, env
    <3>3. CASE ~Fails(o, db[Target(r)])
      <4>1. done[r] \cup {o} \in SUBSET Op
        BY DEF TypeOK
      <4>2. done' \in [Runners -> SUBSET Op]
        BY <2>9, <3>3, <4>1 DEF ExecNonTx, TypeOK
      <4>3. db' \in [TargetSet -> SUBSET Objects]
        BY <2>9, <3>1, <3>3, TargetType DEF ExecNonTx, TypeOK
      <4> QED
        BY <2>9, <3>3, <4>2, <4>3 DEF ExecNonTx, TypeOK, env
    <3> QED
      BY <3>2, <3>3
  <2>10. CASE Executed(r)
    BY <2>10 DEF Executed, TypeOK, shared, env, Goto, Points
  <2>11. CASE Archive(r)
    <3>1. CASE Advance(r)
      BY <2>11, <3>1, AdvanceType DEF Archive, TypeOK, shared, env
    <3>2. CASE ~Advance(r)
      BY <2>11, <3>2 DEF Archive, TypeOK, shared, env, Goto, Points
    <3> QED
      BY <3>1, <3>2
  <2>12. CASE OpenSnapshot(r)
    <3>1. Truncated \in Files
      BY DEF Truncated, Files
    <3> QED
      BY <2>12, <3>1 DEF OpenSnapshot, TypeOK, env, Goto, Points
  <2>13. CASE WriteSnapshot(r)
    <3>1. Garbled \in Files /\ Written(desired[r]) \in Files
      BY DEF Garbled, Written, Files, TypeOK
    <3>2. snapshot' \in [TargetSet -> Files]
      BY <2>13, <3>1 DEF WriteSnapshot, TypeOK
    <3> QED
      BY <2>13, <3>2, AdvanceType DEF WriteSnapshot, TypeOK, env
  <2> QED
    BY <1>1, <2>1, <2>2, <2>3, <2>4, <2>5, <2>6, <2>7, <2>8, <2>9, <2>10, <2>11,
       <2>12, <2>13 DEF Progress
<1>2. ASSUME NEW r \in Runners, NEW o \in Options, Start(r, o) PROVE TypeOK'
  BY <1>2, ConstantsAssumption DEF Start, TypeOK, shared, env, Goto, Points
<1>3. ASSUME NEW r \in Runners, NEW yes \in BOOLEAN, Answer(r, yes) PROVE TypeOK'
  <2>1. CASE yes
    BY <1>3, <2>1 DEF Answer, TypeOK, shared, env, Goto, Points
  <2>2. CASE ~yes
    BY <1>3, <2>2, AdvanceType DEF Answer, TypeOK, shared, env
  <2> QED
    BY <2>1, <2>2
<1>4. ASSUME NEW r \in Runners, Interrupt(r) PROVE TypeOK'
  <2>1. faults' \in 0 .. MaxFaults
    BY <1>4, ConstantsAssumption DEF Interrupt, MayFail, TypeOK
  <2> QED
    BY <1>4, <2>1, ExitType DEF Interrupt, TypeOK, shared
<1>5. ASSUME NEW r \in Runners, InterruptCommit(r) PROVE TypeOK'
  <2>1. faults' \in 0 .. MaxFaults
    BY <1>5, ConstantsAssumption DEF InterruptCommit, MayFail, TypeOK
  <2>2. Effect(db[Target(r)], done[r]) \in SUBSET Objects
    BY TargetType, EffectType DEF TypeOK
  <2> QED
    BY <1>5, <2>1, <2>2, ExitType, TargetType DEF InterruptCommit, TypeOK
<1>6. ASSUME NEW t \in TargetSet, NEW S \in SUBSET Catalog[t], EditSources(t, S)
      PROVE  TypeOK'
  <2>1. edits' \in 0 .. MaxEdits
    BY <1>6, ConstantsAssumption DEF EditSources, TypeOK
  <2>2. S \in SUBSET Objects
    BY DEF Objects
  <2> QED
    BY <1>6, <2>1, <2>2 DEF EditSources, TypeOK, local
<1>7. ASSUME NEW t \in TargetSet, NEW x \in Catalog[t], ManualStep(t, x)
      PROVE  TypeOK'
  <2>1. x \in Objects
    BY DEF Objects
  <2> QED
    BY <1>7, <2>1 DEF ManualStep, TypeOK, local, env
<1>8. CASE UNCHANGED vars
  BY <1>8 DEF vars, shared, local, env, TypeOK
<1> QED
  BY <1>1, <1>2, <1>3, <1>4, <1>5, <1>6, <1>7, <1>8 DEF Next

\* Every variable of a behavior of `dpg apply` has its type.
THEOREM TypeCorrect == Spec => []TypeOK
BY InitTyped, NextTyped, PTL DEF Spec

----------------------------------------------------------------------------
(* The inductive invariants *)

Planning == {"idle", "compile", "load"}

\* A process carries a plan only past the gates, and executes statements of it only:
\* in the transaction, transactional ones.
PlanOK(r) ==
    /\ pc[r] \in Planning => plan[r] = {}
    /\ pc[r] \in Planning \cup {"prompt", "connect"} => done[r] = {}
    /\ plan[r] # {} => ~Refused(opts[r], plan[r]) /\ ~opts[r].dryRun
    /\ done[r] \subseteq Executable(plan[r])
    /\ pc[r] = "tx" => done[r] \subseteq TxOps(plan[r])
    /\ Creates(plan[r]) \cap Drops(plan[r]) = {}

PlanInv == \A r \in Runners : PlanOK(r)

\* What a process wants and what is on record are versions of the sources, and a plan
\* is the difference of two of them.
OriginOK(r) ==
    /\ desired[r] \in versions[Target(r)]
    /\ \E want, have \in versions[Target(r)] : plan[r] = Diff(want, have)

OriginInv ==
    /\ \A t \in TargetSet : {{}, sources[t], snapshot[t].objs} \subseteq versions[t]
    /\ \A r \in Runners : OriginOK(r)

\* A step of process r that ends its work on a target, and one that leaves the rest alone.
Cleared(r) ==
    /\ pc'[r] \in {"idle", "compile"}
    /\ desired'[r] = {} /\ plan'[r] = {} /\ done'[r] = {}

OthersKept(r) ==
    \A s \in Runners \ {r} :
        /\ pc'[s] = pc[s] /\ opts'[s] = opts[s] /\ ti'[s] = ti[s]
        /\ desired'[s] = desired[s] /\ plan'[s] = plan[s] /\ done'[s] = done[s]

LEMMA LeavingClears ==
    ASSUME TypeOK, NEW r \in Runners, Exit(r) \/ Advance(r)
    PROVE  Cleared(r) /\ OthersKept(r)
<1>1. ASSUME Exit(r) PROVE Cleared(r) /\ OthersKept(r)
  BY <1>1 DEF Exit, Goto, Cleared, OthersKept, TypeOK
<1>2. ASSUME Advance(r) PROVE Cleared(r) /\ OthersKept(r)
  <2>1. CASE ti[r] = Len(Targets)
    BY <1>1, <1>2, <2>1 DEF Advance
  <2>2. CASE ti[r] # Len(Targets)
    BY <1>2, <2>2 DEF Advance, Goto, Cleared, OthersKept, TypeOK
  <2> QED
    BY <2>1, <2>2
<1> QED
  BY <1>1, <1>2

LEMMA EmptyPlan ==
    /\ Creates({}) = {} /\ Drops({}) = {}
    /\ Executable({}) = {} /\ TxOps({}) = {}
    /\ Diff({}, {}) = {}
BY DEF Creates, Drops, Executable, TxOps, Diff

LEMMA ClearedPlanOK ==
    ASSUME NEW r \in Runners, Cleared(r)
    PROVE  PlanOK(r)'
BY EmptyPlan DEF Cleared, PlanOK, Planning

LEMMA OthersPlanOK ==
    ASSUME PlanInv, NEW r \in Runners, OthersKept(r), PlanOK(r)'
    PROVE  PlanInv'
BY DEF PlanInv, PlanOK, OthersKept

\* A plan never creates and drops the same object.
LEMMA DiffIsConsistent ==
    ASSUME NEW want, NEW have
    PROVE  Creates(Diff(want, have)) \cap Drops(Diff(want, have)) = {}
BY DEF Creates, Drops, Diff, Op

\* What a plan drops is in the snapshot it was computed from.
LEMMA DiffDropsHave ==
    ASSUME NEW want, NEW have
    PROVE  Drops(Diff(want, have)) \subseteq have
BY DEF Drops, Diff, Op

LEMMA InitPlanned == Init => PlanInv
BY EmptyPlan DEF Init, PlanInv, PlanOK, Planning

LEMMA ProgressPlanned ==
    ASSUME TypeOK, PlanInv, NEW r \in Runners, Progress(r)
    PROVE  PlanInv'
<1>0. PlanOK(r)
  BY DEF PlanInv
<1>1. ASSUME Exit(r) \/ Advance(r) PROVE PlanInv'
  BY <1>1, LeavingClears, ClearedPlanOK, OthersPlanOK
<1>2. CASE CompileAndLint(r)
  <2>1. CASE Blocking(opts[r], sources[Target(r)])
    BY <1>1, <1>2, <2>1 DEF CompileAndLint
  <2>2. CASE ~Blocking(opts[r], sources[Target(r)])
    <3>1. OthersKept(r) /\ pc[r] = "compile" /\ pc'[r] = "load"
          /\ UNCHANGED <<plan, done, opts>>
      BY <1>2, <2>2 DEF CompileAndLint, OthersKept, Goto, TypeOK
    <3>2. PlanOK(r)'
      BY <1>0, <3>1 DEF PlanOK, Planning
    <3> QED
      BY <3>1, <3>2, OthersPlanOK
  <2> QED
    BY <2>1, <2>2
<1>3. CASE LoadAndPlan(r)
  <2> DEFINE ops == Diff(desired[r], LoadedSnapshot(Target(r)))
  <2>1. CASE Exit(r) \/ Advance(r)
    BY <1>1, <2>1
  <2>2. CASE ~Exit(r) /\ ~Advance(r)
    <3>1. /\ OthersKept(r) /\ pc[r] = "load" /\ pc'[r] \in {"connect", "prompt"}
          /\ plan'[r] = ops /\ UNCHANGED <<opts, done>>
          /\ ~Refused(opts[r], ops) /\ ~opts[r].dryRun
      BY <1>3, <2>2 DEF LoadAndPlan, OthersKept, Goto, TypeOK
    <3>2. Creates(ops) \cap Drops(ops) = {}
      BY DiffIsConsistent
    <3>3. done'[r] = {}
      BY <1>0, <3>1 DEF PlanOK, Planning
    <3>4. PlanOK(r)'
      BY <3>1, <3>2, <3>3 DEF PlanOK, Planning
    <3> QED
      BY <3>1, <3>4, OthersPlanOK
  <2> QED
    BY <2>1, <2>2
<1>4. CASE Connect(r)
  <2>1. /\ OthersKept(r) /\ pc[r] = "connect" /\ pc'[r] \in {"nontx", "tx"}
        /\ UNCHANGED <<plan, done, opts>>
    BY <1>4 DEF Connect, OthersKept, Goto, TypeOK
  <2>2. PlanOK(r)'
    BY <1>0, <2>1 DEF PlanOK, Planning
  <2> QED
    BY <2>1, <2>2, OthersPlanOK
<1>5. ASSUME NEW o \in Op, ExecTx(r, o) PROVE PlanInv'
  <2>1. CASE Fails(o, db[Target(r)])
    BY <1>1, <1>5, <2>1 DEF ExecTx
  <2>2. CASE ~Fails(o, db[Target(r)])
    <3>1. /\ OthersKept(r) /\ pc[r] = "tx" /\ o \in TxOps(plan[r])
          /\ done'[r] = done[r] \cup {o} /\ UNCHANGED <<pc, plan, opts>>
      BY <1>5, <2>2 DEF ExecTx, OthersKept, TypeOK
    <3>2. o \in Executable(plan[r])
      BY <3>1 DEF TxOps
    <3>3. PlanOK(r)'
      BY <1>0, <3>1, <3>2 DEF PlanOK, Planning
    <3> QED
      BY <3>1, <3>3, OthersPlanOK
  <2> QED
    BY <2>1, <2>2
<1>6. CASE Commit(r)
  <2>1. /\ OthersKept(r) /\ pc[r] = "tx" /\ pc'[r] = "nontx"
        /\ UNCHANGED <<plan, done, opts>>
    BY <1>6 DEF Commit, OthersKept, Goto, TypeOK
  <2>2. PlanOK(r)'
    BY <1>0, <2>1 DEF PlanOK, Planning
  <2> QED
    BY <2>1, <2>2, OthersPlanOK
<1>7. ASSUME NEW o \in Op, ExecNonTx(r, o) PROVE PlanInv'
  <2>1. CASE Fails(o, db[Target(r)])
    BY <1>1, <1>7, <2>1 DEF ExecNonTx
  <2>2. CASE ~Fails(o, db[Target(r)])
    <3>1. /\ OthersKept(r) /\ pc[r] = "nontx" /\ o \in NonTxOps(plan[r])
          /\ done'[r] = done[r] \cup {o} /\ UNCHANGED <<pc, plan, opts>>
      BY <1>7, <2>2 DEF ExecNonTx, OthersKept, TypeOK
    <3>2. o \in Executable(plan[r])
      BY <3>1 DEF NonTxOps
    <3>3. PlanOK(r)'
      BY <1>0, <3>1, <3>2 DEF PlanOK, Planning
    <3> QED
      BY <3>1, <3>3, OthersPlanOK
  <2> QED
    BY <2>1, <2>2
<1>8. CASE Executed(r) \/ OpenSnapshot(r) \/ (Archive(r) /\ ~Advance(r))
  <2>1. /\ OthersKept(r) /\ pc[r] \in {"nontx", "save", "archive"}
        /\ pc'[r] \in {"archive", "write", "save"} /\ UNCHANGED <<plan, done, opts>>
    BY <1>8 DEF Executed, OpenSnapshot, Archive, OthersKept, Goto, TypeOK
  <2>2. PlanOK(r)'
    BY <1>0, <2>1 DEF PlanOK, Planning
  <2> QED
    BY <2>1, <2>2, OthersPlanOK
<1>9. CASE SkipCluster(r) \/ LoadFails(r) \/ DeadlockAbort(r) \/ WriteSnapshot(r)
           \/ (Archive(r) /\ Advance(r))
  BY <1>1, <1>9 DEF SkipCluster, LoadFails, DeadlockAbort, WriteSnapshot
<1> QED
  BY <1>2, <1>3, <1>4, <1>5, <1>6, <1>7, <1>8, <1>9 DEF Progress

LEMMA NextPlanned == TypeOK /\ PlanInv /\ [Next]_vars => PlanInv'
<1> SUFFICES ASSUME TypeOK, PlanInv, [Next]_vars PROVE PlanInv'
  OBVIOUS
<1>1. ASSUME NEW r \in Runners, NEW o \in Options, Start(r, o) PROVE PlanInv'
  <2>1. /\ OthersKept(r) /\ pc[r] = "idle" /\ pc'[r] = "compile"
        /\ UNCHANGED <<plan, done>>
    BY <1>1 DEF Start, OthersKept, Goto, TypeOK
  <2>2. plan'[r] = {} /\ done'[r] = {}
    BY <2>1 DEF PlanInv, PlanOK, Planning
  <2>3. PlanOK(r)'
    BY <2>1, <2>2, EmptyPlan DEF PlanOK, Planning
  <2> QED
    BY <2>1, <2>3, OthersPlanOK
<1>2. ASSUME NEW r \in Runners, NEW yes \in BOOLEAN, Answer(r, yes) PROVE PlanInv'
  <2>1. CASE yes
    <3>1. /\ OthersKept(r) /\ pc[r] = "prompt" /\ pc'[r] = "connect"
          /\ UNCHANGED <<plan, done, opts>>
      BY <1>2, <2>1 DEF Answer, OthersKept, Goto, TypeOK
    <3>2. PlanOK(r)'
      BY <3>1 DEF PlanInv, PlanOK, Planning
    <3> QED
      BY <3>1, <3>2, OthersPlanOK
  <2>2. CASE ~yes
    BY <1>2, <2>2, LeavingClears, ClearedPlanOK, OthersPlanOK DEF Answer
  <2> QED
    BY <2>1, <2>2
<1>3. ASSUME NEW r \in Runners, Interrupt(r) \/ InterruptCommit(r) PROVE PlanInv'
  BY <1>3, LeavingClears, ClearedPlanOK, OthersPlanOK DEF Interrupt, InterruptCommit
<1>4. ASSUME NEW t \in TargetSet, NEW S \in SUBSET Catalog[t], EditSources(t, S)
      PROVE  PlanInv'
  BY <1>4 DEF EditSources, local, PlanInv, PlanOK
<1>5. ASSUME NEW t \in TargetSet, NEW x \in Catalog[t], ManualStep(t, x)
      PROVE  PlanInv'
  BY <1>5 DEF ManualStep, local, PlanInv, PlanOK
<1>6. CASE UNCHANGED vars
  BY <1>6 DEF vars, local, PlanInv, PlanOK
<1> QED
  BY <1>1, <1>2, <1>3, <1>4, <1>5, <1>6, ProgressPlanned DEF Next

LEMMA Planned == Spec => [](TypeOK /\ PlanInv)
BY InitTyped, NextTyped, InitPlanned, NextPlanned, PTL DEF Spec

----------------------------------------------------------------------------
(* Where drops come from *)

LEMMA InitOrigin == Init => OriginInv
<1> SUFFICES ASSUME Init PROVE OriginInv
  OBVIOUS
<1>1. \A t \in TargetSet : {{}, sources[t], snapshot[t].objs} \subseteq versions[t]
  BY DEF Init, Missing
<1>2. ASSUME NEW r \in Runners PROVE OriginOK(r)
  <2>1. /\ Target(r) \in TargetSet
        /\ desired[r] = {} /\ plan[r] = {}
    BY InitTyped, TargetType DEF Init
  <2> QED
    BY <1>1, <2>1, EmptyPlan DEF OriginOK
<1> QED
  BY <1>1, <1>2 DEF OriginInv

\* The parts of OriginInv that a step of process r keeps by leaving them alone.
LEMMA OriginFrame ==
    ASSUME TypeOK, OriginInv, NEW r \in Runners, OthersKept(r), UNCHANGED versions,
           OriginOK(r)',
           \A t \in TargetSet : {sources'[t], snapshot'[t].objs} \subseteq versions[t]
    PROVE  OriginInv'
<1>1. ASSUME NEW s \in Runners \ {r} PROVE OriginOK(s)'
  BY DEF OriginInv, OriginOK, OthersKept, Target
<1> QED
  BY <1>1 DEF OriginInv

LEMMA ClearedOriginOK ==
    ASSUME NEW r \in Runners, Cleared(r), TypeOK', OriginInv, UNCHANGED versions
    PROVE  OriginOK(r)'
<1>1. (Target(r) \in TargetSet)'
  BY DEF TypeOK, Target, TargetSet
<1>2. {} \in versions'[Target(r)']
  BY <1>1 DEF OriginInv
<1> QED
  BY <1>2, EmptyPlan DEF Cleared, OriginOK

LEMMA ProgressOrigin ==
    ASSUME TypeOK, OriginInv, NEW r \in Runners, Progress(r)
    PROVE  OriginInv'
<1>0. Target(r) \in TargetSet /\ UNCHANGED <<sources, versions>>
  BY TargetType DEF Progress, SkipCluster, CompileAndLint, LoadFails, LoadAndPlan,
     Connect, ExecTx, DeadlockAbort, Commit, ExecNonTx, Executed, Archive,
     OpenSnapshot, WriteSnapshot, shared, env
<1>t. TypeOK'
  BY NextTyped DEF Next
<1>1. ASSUME Exit(r) \/ Advance(r), UNCHANGED snapshot PROVE OriginInv'
  BY <1>0, <1>t, <1>1, LeavingClears, ClearedOriginOK, OriginFrame DEF OriginInv
<1>2. ASSUME OthersKept(r), UNCHANGED <<ti, desired, plan, snapshot>> PROVE OriginInv'
  <2>1. OriginOK(r)'
    BY <1>0, <1>2 DEF OriginInv, OriginOK, Target
  <2> QED
    BY <1>0, <1>2, <2>1, OriginFrame DEF OriginInv
<1>3. CASE CompileAndLint(r)
  <2>1. CASE Exit(r)
    BY <1>1, <1>3, <2>1 DEF CompileAndLint, shared
  <2>2. CASE ~Exit(r)
    <3>1. /\ OthersKept(r) /\ desired'[r] = sources[Target(r)]
          /\ UNCHANGED <<ti, plan, snapshot>>
      BY <1>3, <2>2 DEF CompileAndLint, OthersKept, Goto, TypeOK, shared
    <3>2. OriginOK(r)'
      BY <1>0, <3>1 DEF OriginInv, OriginOK, Target
    <3> QED
      BY <1>0, <3>1, <3>2, OriginFrame DEF OriginInv
  <2> QED
    BY <2>1, <2>2
<1>4. CASE LoadAndPlan(r)
  <2> DEFINE ops == Diff(desired[r], LoadedSnapshot(Target(r)))
  <2>1. CASE Exit(r) \/ Advance(r)
    BY <1>1, <1>4, <2>1 DEF LoadAndPlan, shared
  <2>2. CASE ~Exit(r) /\ ~Advance(r)
    <3>1. /\ OthersKept(r) /\ plan'[r] = ops /\ UNCHANGED <<ti, desired, snapshot>>
      BY <1>4, <2>2 DEF LoadAndPlan, OthersKept, Goto, TypeOK, shared
    <3>2. {desired[r], LoadedSnapshot(Target(r))} \subseteq versions[Target(r)]
      BY <1>0 DEF OriginInv, OriginOK, LoadedSnapshot
    <3>3. OriginOK(r)'
      BY <1>0, <3>1, <3>2 DEF OriginInv, OriginOK, Target
    <3> QED
      BY <1>0, <3>1, <3>3, OriginFrame DEF OriginInv
  <2> QED
    BY <2>1, <2>2
<1>5. CASE Connect(r) \/ Commit(r) \/ Executed(r) \/ (Archive(r) /\ ~Advance(r))
  <2>1. OthersKept(r) /\ UNCHANGED <<ti, desired, plan, snapshot>>
    BY <1>5 DEF Connect, Commit, Executed, Archive, OthersKept, Goto, TypeOK, shared
  <2> QED
    BY <1>2, <2>1
<1>6. ASSUME NEW o \in Op, ExecTx(r, o) \/ ExecNonTx(r, o) PROVE OriginInv'
  <2>1. UNCHANGED snapshot
    BY <1>6 DEF ExecTx, ExecNonTx, shared
  <2>2. CASE Exit(r)
    BY <1>1, <2>1, <2>2
  <2>3. CASE ~Exit(r)
    <3>1. OthersKept(r) /\ UNCHANGED <<ti, desired, plan>>
      BY <1>6, <2>3 DEF ExecTx, ExecNonTx, OthersKept, TypeOK
    <3> QED
      BY <1>2, <2>1, <3>1
  <2> QED
    BY <2>2, <2>3
<1>7. CASE OpenSnapshot(r)
  <2>1. OthersKept(r) /\ UNCHANGED <<ti, desired, plan>>
    BY <1>7 DEF OpenSnapshot, OthersKept, Goto, TypeOK
  <2>2. OriginOK(r)'
    BY <1>0, <2>1 DEF OriginInv, OriginOK, Target
  <2>3. \A t \in TargetSet : snapshot'[t].objs \in versions[t]
    BY <1>7 DEF OpenSnapshot, Truncated, OriginInv, TypeOK
  <2> QED
    BY <1>0, <2>1, <2>2, <2>3, OriginFrame DEF OriginInv
<1>8. CASE WriteSnapshot(r)
  <2>1. Cleared(r) /\ OthersKept(r)
    BY <1>8, LeavingClears DEF WriteSnapshot
  <2>2. \A t \in TargetSet : snapshot'[t].objs \in versions[t]
    <3>1. PICK f : /\ f \in {Written(desired[r]), Garbled}
                   /\ snapshot' = [snapshot EXCEPT ![Target(r)] = f]
      BY <1>8 DEF WriteSnapshot
    <3>2. f.objs \in versions[Target(r)]
      <4>1. {desired[r], {}} \subseteq versions[Target(r)]
        BY <1>0 DEF OriginInv, OriginOK
      <4>2. f.objs \in {desired[r], {}}
        BY <3>1 DEF Written, Garbled
      <4> QED
        BY <4>1, <4>2
    <3> QED
      BY <3>1, <3>2 DEF OriginInv, TypeOK
  <2> QED
    BY <1>0, <1>t, <2>1, <2>2, ClearedOriginOK, OriginFrame DEF OriginInv
<1>9. CASE SkipCluster(r) \/ LoadFails(r) \/ DeadlockAbort(r)
           \/ (Archive(r) /\ Advance(r))
  BY <1>1, <1>9 DEF SkipCluster, LoadFails, DeadlockAbort, Archive, shared
<1> QED
  BY <1>3, <1>4, <1>5, <1>6, <1>7, <1>8, <1>9 DEF Progress

LEMMA NextOrigin == TypeOK /\ OriginInv /\ [Next]_vars => OriginInv'
<1> SUFFICES ASSUME TypeOK, OriginInv, [Next]_vars PROVE OriginInv'
  OBVIOUS
<1>0. TypeOK'
  BY NextTyped
<1>1. ASSUME NEW r \in Runners, NEW o \in Options, Start(r, o) PROVE OriginInv'
  BY <1>1 DEF Start, shared, env, OriginInv, OriginOK, Target
<1>2. ASSUME NEW r \in Runners, NEW yes \in BOOLEAN, Answer(r, yes) PROVE OriginInv'
  <2>1. CASE yes
    BY <1>2, <2>1 DEF Answer, shared, env, OriginInv, OriginOK, Target
  <2>2. CASE ~yes
    BY <1>0, <1>2, <2>2, LeavingClears, ClearedOriginOK, OriginFrame
       DEF Answer, shared, env, OriginInv
  <2> QED
    BY <2>1, <2>2
<1>3. ASSUME NEW r \in Runners, Interrupt(r) \/ InterruptCommit(r) PROVE OriginInv'
  BY <1>0, <1>3, LeavingClears, ClearedOriginOK, OriginFrame
     DEF Interrupt, InterruptCommit, shared, OriginInv
<1>4. ASSUME NEW t \in TargetSet, NEW S \in SUBSET Catalog[t], EditSources(t, S)
      PROVE  OriginInv'
  <2>1. /\ sources'[t] = S /\ versions'[t] = versions[t] \cup {S}
        /\ \A u \in TargetSet \ {t} :
             sources'[u] = sources[u] /\ versions'[u] = versions[u]
    BY <1>4 DEF EditSources, TypeOK
  <2>2. \A u \in TargetSet : versions[u] \subseteq versions'[u]
    BY <2>1
  <2>3. \A r \in Runners : Target(r) \in TargetSet
    BY TargetType
  <2> QED
    BY <1>4, <2>1, <2>2, <2>3 DEF EditSources, local, OriginInv, OriginOK, Target
<1>5. ASSUME NEW t \in TargetSet, NEW x \in Catalog[t], ManualStep(t, x)
      PROVE  OriginInv'
  BY <1>5 DEF ManualStep, local, env, OriginInv, OriginOK, Target
<1>6. CASE UNCHANGED vars
  BY <1>6 DEF vars, shared, local, env, OriginInv, OriginOK, Target
<1> QED
  BY <1>1, <1>2, <1>3, <1>4, <1>5, <1>6, ProgressOrigin DEF Next

----------------------------------------------------------------------------
(* The theorems *)

\* A statement of process r is about to take x out of the database of target t.
DroppedBy(r, t, x) ==
    /\ Target(r) = t /\ pc[r] \in {"tx", "nontx"}
    /\ \E o \in Executable(plan[r]) : o.act = "drop" /\ o.obj = x

LEMMA EffectLoses ==
    ASSUME NEW held, NEW ops, NEW x \in held, x \notin Effect(held, ops)
    PROVE  \E o \in ops : o.act = "drop" /\ o.obj = x
BY DEF Effect, Drops

\* Whatever leaves the database is dropped by a plan, or is a manual step.
LEMMA LossHasAuthor ==
    ASSUME TypeOK, PlanInv, [Next]_vars, NEW t \in TargetSet, NEW x \in Lost(t)
    PROVE  x \in Instruction \/ \E r \in Runners : DroppedBy(r, t, x)
<1>0. x \in db[t] /\ x \notin db'[t]
  BY DEF Lost
<1>1. ASSUME NEW r \in Runners, Commit(r) \/ InterruptCommit(r) PROVE DroppedBy(r, t, x)
  <2>1. /\ pc[r] = "tx" /\ Target(r) \in TargetSet
        /\ db' = [db EXCEPT ![Target(r)] = Effect(@, done[r])]
    BY <1>1, TargetType DEF Commit, InterruptCommit
  <2>2. Target(r) = t /\ x \notin Effect(db[t], done[r])
    BY <1>0, <2>1 DEF TypeOK
  <2>3. PICK o \in done[r] : o.act = "drop" /\ o.obj = x
    BY <1>0, <2>2, EffectLoses
  <2>4. o \in Executable(plan[r])
    BY <2>3 DEF PlanInv, PlanOK
  <2> QED
    BY <2>1, <2>2, <2>3, <2>4 DEF DroppedBy
<1>2. ASSUME NEW r \in Runners, NEW o \in Op, ExecNonTx(r, o) PROVE DroppedBy(r, t, x)
  <2>1. ~UNCHANGED db
    BY <1>0
  <2>2. /\ pc[r] = "nontx" /\ Target(r) \in TargetSet /\ o \in NonTxOps(plan[r])
        /\ db' = [db EXCEPT ![Target(r)] = Effect(@, {o})]
    BY <1>2, <2>1, TargetType DEF ExecNonTx
  <2>3. Target(r) = t /\ x \notin Effect(db[t], {o})
    BY <1>0, <2>2 DEF TypeOK
  <2>4. o.act = "drop" /\ o.obj = x
    BY <1>0, <2>3, EffectLoses
  <2>5. o \in Executable(plan[r])
    BY <2>2 DEF NonTxOps
  <2> QED
    BY <2>2, <2>3, <2>4, <2>5 DEF DroppedBy
<1>3. ASSUME NEW u \in TargetSet, NEW y \in Catalog[u], ManualStep(u, y)
      PROVE  x \in Instruction
  BY <1>0, <1>3 DEF ManualStep, TypeOK
<1>4. CASE UNCHANGED db
  BY <1>0, <1>4
<1>5. ASSUME NEW r \in Runners, Progress(r)
      PROVE  \/ UNCHANGED db
             \/ Commit(r)
             \/ \E o \in Op : ExecNonTx(r, o)
  BY <1>5 DEF Progress, SkipCluster, CompileAndLint, LoadFails, LoadAndPlan, Connect,
     ExecTx, DeadlockAbort, Executed, Archive, OpenSnapshot, WriteSnapshot, shared
<1>6. ASSUME NEW r \in Runners, \/ \E o \in Options : Start(r, o)
                                \/ \E yes \in BOOLEAN : Answer(r, yes)
                                \/ Interrupt(r)
      PROVE  UNCHANGED db
  BY <1>6 DEF Start, Answer, Interrupt, shared
<1>7. ASSUME NEW u \in TargetSet, NEW S \in SUBSET Catalog[u], EditSources(u, S)
      PROVE  UNCHANGED db
  BY <1>7 DEF EditSources
<1>8. CASE UNCHANGED vars
  BY <1>4, <1>8 DEF vars, shared
<1> QED
  BY <1>1, <1>2, <1>3, <1>4, <1>5, <1>6, <1>7, <1>8 DEF Next

\* A destructive loss is the work of a process with --allow-destructive.
THEOREM DestructionIsAllowed == Spec => LossesAreAllowed
<1> DEFINE Allowed ==
      \A t \in TargetSet : \A x \in Lost(t) \ (CautionDrop \cup Instruction) :
        \E r \in Runners : /\ Target(r) = t
                           /\ pc[r] \in {"tx", "nontx"}
                           /\ opts[r].allowDestructive /\ ~opts[r].dryRun
<1>1. ASSUME TypeOK, PlanInv, [Next]_vars PROVE Allowed
  <2>1. ASSUME NEW t \in TargetSet, NEW x \in Lost(t) \ (CautionDrop \cup Instruction)
        PROVE  \E r \in Runners : /\ Target(r) = t
                                  /\ pc[r] \in {"tx", "nontx"}
                                  /\ opts[r].allowDestructive /\ ~opts[r].dryRun
    <3>1. PICK r \in Runners : DroppedBy(r, t, x)
      BY <1>1, <2>1, LossHasAuthor
    <3>2. PICK o \in Executable(plan[r]) : o.act = "drop" /\ o.obj = x
      BY <3>1 DEF DroppedBy
    <3>3. o \in plan[r] /\ IsDestructive(o)
      BY <2>1, <3>2 DEF Executable, IsDestructive, IsInstruction
    <3>4. ~Refused(opts[r], plan[r]) /\ ~opts[r].dryRun
      BY <1>1, <3>3 DEF PlanInv, PlanOK
    <3> QED
      BY <3>1, <3>3, <3>4 DEF Refused, DroppedBy
  <2> QED
    BY <2>1
<1> QED
  BY <1>1, Planned, PTL DEF Spec, LossesAreAllowed

LEMMA Origins == Spec => []OriginInv
BY Planned, InitOrigin, NextOrigin, PTL DEF Spec

\* dpg never drops what no source ever declared.
THEOREM UndeclaredSurvives == Spec => ForeignSurvives
<1> DEFINE Kept == \A t \in TargetSet : Lost(t) \subseteq Declared(t) \cup Instruction
<1>1. ASSUME TypeOK, PlanInv, OriginInv, [Next]_vars PROVE Kept
  <2>1. ASSUME NEW t \in TargetSet, NEW x \in Lost(t), x \notin Instruction
        PROVE  x \in Declared(t)
    <3>1. PICK r \in Runners : DroppedBy(r, t, x)
      BY <1>1, <2>1, LossHasAuthor
    <3>2. x \in Drops(plan[r])
      BY <3>1 DEF DroppedBy, Executable, Drops
    <3>3. PICK want, have \in versions[t] : plan[r] = Diff(want, have)
      BY <1>1, <3>1 DEF OriginInv, OriginOK, DroppedBy
    <3>4. x \in have
      BY <3>2, <3>3, DiffDropsHave
    <3> QED
      BY <3>3, <3>4 DEF Declared
  <2> QED
    BY <2>1
<1> QED
  BY <1>1, Planned, Origins, PTL DEF Spec, ForeignSurvives

\* What a step does to the database, apart from the manual steps.
LEMMA StepChangesBy ==
    ASSUME [Next]_vars
    PROVE  \/ UNCHANGED db
           \/ \E r \in Runners : Commit(r) \/ InterruptCommit(r)
           \/ \E r \in Runners : \E o \in Op : ExecNonTx(r, o)
           \/ \E t \in TargetSet : \E x \in Catalog[t] : ManualStep(t, x)
<1>1. ASSUME NEW r \in Runners, Progress(r)
      PROVE  UNCHANGED db \/ Commit(r) \/ \E o \in Op : ExecNonTx(r, o)
  BY <1>1 DEF Progress, SkipCluster, CompileAndLint, LoadFails, LoadAndPlan, Connect,
     ExecTx, DeadlockAbort, Executed, Archive, OpenSnapshot, WriteSnapshot, shared
<1>2. ASSUME NEW r \in Runners, \/ \E o \in Options : Start(r, o)
                                \/ \E yes \in BOOLEAN : Answer(r, yes)
                                \/ Interrupt(r)
      PROVE  UNCHANGED db
  BY <1>2 DEF Start, Answer, Interrupt, shared
<1>3. ASSUME NEW t \in TargetSet, NEW S \in SUBSET Catalog[t], EditSources(t, S)
      PROVE  UNCHANGED db
  BY <1>3 DEF EditSources
<1>4. CASE UNCHANGED vars
  BY <1>4 DEF vars, shared
<1> QED
  BY <1>1, <1>2, <1>3, <1>4 DEF Next

\* The transactional objects of a target that a step creates or drops.
Touched(t) == ((db'[t] \ db[t]) \ NonTxCreate) \cup (Lost(t) \ NonTxDrop)

CarriedOut(t) ==
    \E r \in Runners : /\ Target(r) = t /\ pc[r] = "tx"
                       /\ Creates(TxOps(plan[r])) \subseteq db'[t]
                       /\ Drops(TxOps(plan[r])) \cap db'[t] = {}

LEMMA CommitCarriesOut ==
    ASSUME TypeOK, PlanInv, NEW r \in Runners, Commit(r) \/ InterruptCommit(r),
           NEW t \in TargetSet
    PROVE  Touched(t) = {} \/ CarriedOut(t)
<1>1. /\ pc[r] = "tx" /\ Target(r) \in TargetSet /\ TxOps(plan[r]) \subseteq done[r]
      /\ db' = [db EXCEPT ![Target(r)] = Effect(@, done[r])]
  BY TargetType DEF Commit, InterruptCommit
<1>2. CASE Target(r) = t
  <2>1. done[r] = TxOps(plan[r])
    BY <1>1 DEF PlanInv, PlanOK
  <2>2. db'[t] = Effect(db[t], TxOps(plan[r]))
    BY <1>1, <1>2, <2>1 DEF TypeOK
  <2>3. TxOps(plan[r]) \subseteq plan[r]
    BY DEF TxOps, Executable
  <2>4. Creates(plan[r]) \cap Drops(plan[r]) = {}
    BY DEF PlanInv, PlanOK
  <2>5. Creates(TxOps(plan[r])) \cap Drops(TxOps(plan[r])) = {}
    BY <2>3, <2>4 DEF Creates, Drops
  <2> QED
    BY <1>1, <1>2, <2>2, <2>5 DEF Effect, CarriedOut
<1>3. CASE Target(r) # t
  BY <1>1, <1>3 DEF TypeOK, Touched, Lost
<1> QED
  BY <1>2, <1>3

LEMMA NonTxTouchesNothing ==
    ASSUME TypeOK, NEW r \in Runners, NEW o \in Op, ExecNonTx(r, o), NEW t \in TargetSet
    PROVE  Touched(t) = {}
<1>1. CASE UNCHANGED db
  BY <1>1 DEF Touched, Lost
<1>2. CASE ~UNCHANGED db
  <2>1. /\ o \in NonTxOps(plan[r]) /\ Target(r) \in TargetSet
        /\ db' = [db EXCEPT ![Target(r)] = Effect(@, {o})]
    BY <1>2, TargetType DEF ExecNonTx
  <2>2. /\ o.act = "create" => o.obj \in NonTxCreate
        /\ o.act # "create" => o.obj \in NonTxDrop
    BY <2>1 DEF NonTxOps, Transactional
  <2>3. o.act = "create" \/ o.act = "drop"
    BY DEF Op
  <2>4. CASE Target(r) = t
    <3>1. db'[t] = (db[t] \ Drops({o})) \cup Creates({o})
      BY <2>1, <2>4 DEF Effect, TypeOK
    <3>2. Creates({o}) \subseteq NonTxCreate /\ Drops({o}) \subseteq NonTxDrop
      BY <2>2, <2>3 DEF Creates, Drops
    <3> QED
      BY <3>1, <3>2 DEF Touched, Lost
  <2>5. CASE Target(r) # t
    BY <2>1, <2>5 DEF TypeOK, Touched, Lost
  <2> QED
    BY <2>4, <2>5
<1> QED
  BY <1>1, <1>2

\* A plan's transactional statements reach the database all together or not at all.
THEOREM TransactionsAreAtomic == Spec => TransactionIsAtomic
<1> DEFINE Atomic == \A t \in TargetSet : Touched(t) \subseteq Instruction \/ CarriedOut(t)
<1>1. ASSUME TypeOK, PlanInv, [Next]_vars PROVE Atomic
  <2>1. SUFFICES ASSUME NEW t \in TargetSet
                 PROVE  Touched(t) \subseteq Instruction \/ CarriedOut(t)
    OBVIOUS
  <2>2. CASE UNCHANGED db
    BY <2>2 DEF Touched, Lost
  <2>3. ASSUME NEW u \in TargetSet, NEW x \in Catalog[u], ManualStep(u, x)
        PROVE  Touched(t) \subseteq Instruction
    BY <1>1, <2>3 DEF ManualStep, TypeOK, Touched, Lost
  <2> QED
    BY <1>1, <2>2, <2>3, StepChangesBy, CommitCarriesOut, NonTxTouchesNothing
<1>2. Atomic <=> \A t \in TargetSet :
         LET made == db'[t] \ db[t]
             touched == (made \ NonTxCreate) \cup (Lost(t) \ NonTxDrop)
         IN  touched \subseteq Instruction
             \/ \E r \in Runners :
                  /\ Target(r) = t /\ pc[r] = "tx"
                  /\ Creates(TxOps(plan[r])) \subseteq db'[t]
                  /\ Drops(TxOps(plan[r])) \cap db'[t] = {}
  BY DEF Touched, CarriedOut
<1> QED
  BY <1>1, <1>2, Planned, PTL DEF Spec, TransactionIsAtomic

----------------------------------------------------------------------------
(* The refinement of Deployment *)

\* In terms of a plan made of versions, the two parts of a difference.
LEMMA DiffParts ==
    ASSUME NEW want, NEW have, want \subseteq Objects, have \subseteq Objects
    PROVE  /\ Creates(TxOps(Diff(want, have)))
                = (want \ have) \ (NonTxCreate \cup Instruction)
           /\ Drops(TxOps(Diff(want, have)))
                = (have \ want) \ (NonTxDrop \cup Instruction)
           /\ \A o \in NonTxOps(Diff(want, have)) :
                \/ o.act = "create" /\ o.obj \in ((want \ have) \cap NonTxCreate) \ Instruction
                \/ o.act = "drop" /\ o.obj \in ((have \ want) \cap NonTxDrop) \ Instruction
<1> DEFINE ops == Diff(want, have)
<1>1. ASSUME NEW x, x \in (want \ have) \ (NonTxCreate \cup Instruction)
      PROVE  x \in Creates(TxOps(ops))
  <2>1. [act |-> "create", obj |-> x] \in TxOps(ops)
    BY <1>1 DEF Diff, Op, TxOps, Executable, Transactional, IsInstruction
  <2> QED
    BY <2>1 DEF Creates
<1>2. ASSUME NEW x, x \in (have \ want) \ (NonTxDrop \cup Instruction)
      PROVE  x \in Drops(TxOps(ops))
  <2>1. [act |-> "drop", obj |-> x] \in TxOps(ops)
    BY <1>2 DEF Diff, Op, TxOps, Executable, Transactional, IsInstruction
  <2> QED
    BY <2>1 DEF Drops
<1>3. Creates(TxOps(ops)) \subseteq (want \ have) \ (NonTxCreate \cup Instruction)
  BY DEF Diff, Op, TxOps, Executable, Transactional, IsInstruction, Creates
<1>4. Drops(TxOps(ops)) \subseteq (have \ want) \ (NonTxDrop \cup Instruction)
  BY DEF Diff, Op, TxOps, Executable, Transactional, IsInstruction, Drops
<1>5. \A o \in NonTxOps(ops) :
        \/ o.act = "create" /\ o.obj \in ((want \ have) \cap NonTxCreate) \ Instruction
        \/ o.act = "drop" /\ o.obj \in ((have \ want) \cap NonTxDrop) \ Instruction
  BY DEF Diff, Op, NonTxOps, Executable, Transactional, IsInstruction
<1> QED
  BY <1>1, <1>2, <1>3, <1>4, <1>5

LEMMA InitDeployed == Init => D!Init
<1> SUFFICES ASSUME Init PROVE D!Init
  OBVIOUS
<1>1. Record = [t \in TargetSet |-> {{}}]
  BY DEF Init, Record, Readable, Missing
<1> QED
  BY <1>1 DEF Init, D!Init, Objects

\* A commit is one migration of the abstract specification.
LEMMA CommitMigrates ==
    ASSUME TypeOK, PlanInv, OriginInv, NEW r \in Runners, Commit(r) \/ InterruptCommit(r)
    PROVE  D!Migrate(Target(r))
<1>1. /\ pc[r] = "tx" /\ Target(r) \in TargetSet /\ TxOps(plan[r]) \subseteq done[r]
      /\ db' = [db EXCEPT ![Target(r)] = Effect(@, done[r])]
      /\ UNCHANGED <<sources, versions, snapshot>>
  BY TargetType DEF Commit, InterruptCommit, env
<1>2. done[r] = TxOps(plan[r])
  BY <1>1 DEF PlanInv, PlanOK
<1>3. PICK want, have \in versions[Target(r)] : plan[r] = Diff(want, have)
  BY DEF OriginInv, OriginOK
<1>4. want \subseteq Objects /\ have \subseteq Objects
  BY <1>1 DEF TypeOK
<1>5. db' = [db EXCEPT ![Target(r)] =
               (@ \ ((have \ want) \ (NonTxDrop \cup Instruction)))
                 \cup ((want \ have) \ (NonTxCreate \cup Instruction))]
  <2>1. /\ Creates(done[r]) = (want \ have) \ (NonTxCreate \cup Instruction)
        /\ Drops(done[r]) = (have \ want) \ (NonTxDrop \cup Instruction)
    <3>1. /\ Creates(TxOps(Diff(want, have)))
                = (want \ have) \ (NonTxCreate \cup Instruction)
          /\ Drops(TxOps(Diff(want, have)))
                = (have \ want) \ (NonTxDrop \cup Instruction)
      BY <1>4, DiffParts, Zenon
    <3> QED
      BY <1>2, <1>3, <3>1, Zenon
  <2> QED
    BY <1>1, <2>1 DEF Effect
<1>6. UNCHANGED Record
  BY <1>1 DEF Record
<1> QED
  BY <1>1, <1>5, <1>6 DEF D!Migrate

\* A statement outside a transaction is one step towards a version.
LEMMA NonTxFinishes ==
    ASSUME TypeOK, OriginInv, NEW r \in Runners, NEW o \in Op, ExecNonTx(r, o), ~UNCHANGED db
    PROVE  D!Finish(Target(r))
<1>1. /\ Target(r) \in TargetSet /\ o \in NonTxOps(plan[r])
      /\ db' = [db EXCEPT ![Target(r)] = Effect(@, {o})]
      /\ UNCHANGED <<sources, versions, snapshot>>
  BY TargetType DEF ExecNonTx, env
<1>2. PICK want, have \in versions[Target(r)] : plan[r] = Diff(want, have)
  BY DEF OriginInv, OriginOK
<1>3. want \subseteq Objects /\ have \subseteq Objects
  BY <1>1 DEF TypeOK
<1>4. UNCHANGED Record
  BY <1>1 DEF Record
<1>5. ASSUME NEW w \in versions[Target(r)], NEW h \in versions[Target(r)],
             \/ \E x \in ((w \ h) \cap NonTxCreate) \ Instruction :
                  db' = [db EXCEPT ![Target(r)] = @ \cup {x}]
             \/ \E x \in ((h \ w) \cap NonTxDrop) \ Instruction :
                  db' = [db EXCEPT ![Target(r)] = @ \ {x}]
      PROVE  D!Finish(Target(r))
  <2>1. UNCHANGED <<sources, versions, Record>>
    BY <1>1, <1>4
  <2> QED
    BY <1>5, <2>1, Zenon DEF D!Finish
<1>6. CASE o.act = "create" /\ o.obj \in ((want \ have) \cap NonTxCreate) \ Instruction
  <2>1. \A held : Effect(held, {o}) = held \cup {o.obj}
    BY <1>6 DEF Effect, Creates, Drops
  <2>2. db' = [db EXCEPT ![Target(r)] = @ \cup {o.obj}]
    BY <1>1, <2>1
  <2>3. \E x \in ((want \ have) \cap NonTxCreate) \ Instruction :
          db' = [db EXCEPT ![Target(r)] = @ \cup {x}]
    BY <1>6, <2>2, Zenon
  <2> QED
    BY <1>2, <2>3, <1>5
<1>7. CASE o.act = "drop" /\ o.obj \in ((have \ want) \cap NonTxDrop) \ Instruction
  <2>1. \A held : Effect(held, {o}) = held \ {o.obj}
    BY <1>7 DEF Effect, Creates, Drops
  <2>2. db' = [db EXCEPT ![Target(r)] = @ \ {o.obj}]
    BY <1>1, <2>1
  <2>3. \E x \in ((have \ want) \cap NonTxDrop) \ Instruction :
          db' = [db EXCEPT ![Target(r)] = @ \ {x}]
    BY <1>7, <2>2, Zenon
  <2> QED
    BY <1>2, <2>3, <1>5
<1>8. o \in NonTxOps(Diff(want, have))
  BY <1>1, <1>2
<1>9. \/ o.act = "create" /\ o.obj \in ((want \ have) \cap NonTxCreate) \ Instruction
      \/ o.act = "drop" /\ o.obj \in ((have \ want) \cap NonTxDrop) \ Instruction
  BY <1>3, <1>8, DiffParts, Zenon
<1> QED
  BY <1>6, <1>7, <1>9

\* Any other step of a process leaves the database alone and records a version, if
\* anything.
LEMMA ProgressRecords ==
    ASSUME TypeOK, OriginInv, NEW r \in Runners, Progress(r), UNCHANGED db
    PROVE  D!Record(Target(r)) \/ UNCHANGED D!vars
<1>0. Target(r) \in TargetSet /\ UNCHANGED <<sources, versions>>
  BY TargetType DEF Progress, SkipCluster, CompileAndLint, LoadFails, LoadAndPlan,
     Connect, ExecTx, DeadlockAbort, Commit, ExecNonTx, Executed, Archive,
     OpenSnapshot, WriteSnapshot, shared, env
<1>1. ASSUME NEW f, snapshot' = [snapshot EXCEPT ![Target(r)] = f],
             ~Readable(f) \/ f.objs \in versions[Target(r)]
      PROVE  D!Record(Target(r))
  <2> DEFINE R == IF Readable(f) THEN {f.objs} ELSE {}
  <2>1. R \in {{}} \cup {{S} : S \in versions[Target(r)]}
    BY <1>1
  <2>2. Record' = [Record EXCEPT ![Target(r)] = R]
    BY <1>0, <1>1 DEF Record, Readable, TypeOK
  <2> QED
    BY <1>0, <2>1, <2>2 DEF D!Record
<1>2. CASE OpenSnapshot(r)
  BY <1>1, <1>2 DEF OpenSnapshot, Truncated, Readable
<1>3. CASE WriteSnapshot(r)
  <2>1. PICK f : /\ f \in {Written(desired[r]), Garbled}
                 /\ snapshot' = [snapshot EXCEPT ![Target(r)] = f]
    BY <1>3 DEF WriteSnapshot
  <2>2. desired[r] \in versions[Target(r)]
    BY DEF OriginInv, OriginOK
  <2>3. ~Readable(f) \/ f.objs \in versions[Target(r)]
    BY <2>1, <2>2 DEF Written, Garbled, Readable
  <2> QED
    BY <1>1, <2>1, <2>3
<1>4. CASE ~OpenSnapshot(r) /\ ~WriteSnapshot(r)
  <2>1. UNCHANGED snapshot
    BY <1>4 DEF Progress, SkipCluster, CompileAndLint, LoadFails, LoadAndPlan, Connect,
       ExecTx, DeadlockAbort, Commit, ExecNonTx, Executed, Archive, shared
  <2> QED
    BY <1>0, <2>1 DEF D!vars, Record
<1> QED
  BY <1>2, <1>3, <1>4

LEMMA StepDeployed ==
    ASSUME TypeOK, PlanInv, OriginInv, [Next]_vars
    PROVE  [D!Next]_D!vars
<1>1. ASSUME NEW r \in Runners, Commit(r) \/ InterruptCommit(r) PROVE D!Next
  BY <1>1, CommitMigrates, TargetType DEF D!Next
<1>2. ASSUME NEW r \in Runners, Progress(r) PROVE [D!Next]_D!vars
  <2>1. CASE UNCHANGED db
    BY <1>2, <2>1, ProgressRecords, TargetType DEF D!Next
  <2>2. CASE ~UNCHANGED db
    <3>1. Commit(r) \/ \E o \in Op : ExecNonTx(r, o)
      BY <1>2, <2>2 DEF Progress, SkipCluster, CompileAndLint, LoadFails, LoadAndPlan,
         Connect, ExecTx, DeadlockAbort, Executed, Archive, OpenSnapshot, WriteSnapshot,
         shared
    <3> QED
      BY <1>1, <2>2, <3>1, NonTxFinishes, TargetType DEF D!Next
  <2> QED
    BY <2>1, <2>2
<1>3. ASSUME NEW r \in Runners, \/ \E o \in Options : Start(r, o)
                                \/ \E yes \in BOOLEAN : Answer(r, yes)
                                \/ Interrupt(r)
      PROVE  UNCHANGED D!vars
  BY <1>3 DEF Start, Answer, Interrupt, shared, env, D!vars, Record
<1>4. ASSUME NEW t \in TargetSet, NEW S \in SUBSET Catalog[t], EditSources(t, S)
      PROVE  D!Next
  <2>1. UNCHANGED Record
    BY <1>4 DEF EditSources, Record
  <2>2. D!Author(t)
    BY <1>4, <2>1 DEF EditSources, D!Author
  <2> QED
    BY <2>2 DEF D!Next
<1>5. ASSUME NEW t \in TargetSet, NEW x \in Catalog[t], ManualStep(t, x)
      PROVE  D!Next
  <2>1. UNCHANGED Record
    BY <1>5 DEF ManualStep, Record
  <2>2. \/ x \in sources[t] /\ db' = [db EXCEPT ![t] = @ \cup {x}]
        \/ x \notin sources[t] /\ db' = [db EXCEPT ![t] = @ \ {x}]
    BY <1>5 DEF ManualStep, TypeOK
  <2>3. D!Operate(t)
    BY <1>5, <2>1, <2>2 DEF ManualStep, env, D!Operate
  <2> QED
    BY <2>3 DEF D!Next
<1>6. CASE UNCHANGED vars
  BY <1>6 DEF vars, shared, env, D!vars, Record
<1> QED
  BY <1>1, <1>2, <1>3, <1>4, <1>5, <1>6 DEF Next

\* `dpg apply` implements the deployment of versions: no interleaving, failure or crash
\* leads a database, or the record of it, off the versions of its sources.
THEOREM ApplyDeploys == Spec => Deployed
<1>1. D!Init /\ [][D!Next]_D!vars <=> D!Spec
  BY DEF D!Spec
<1> QED
  BY <1>1, InitDeployed, StepDeployed, Planned, Origins, PTL DEF Spec, Deployed

============================================================================

----------------------------- MODULE Deployment -----------------------------
(***************************************************************************)
(* What `dpg apply` promises, whoever runs it, how often and how far: the  *)
(* live database of a target moves by differences between two versions of  *)
(* its sources.  The transactional part of a difference is one step, what  *)
(* cannot be in a transaction comes object by object, and what is recorded *)
(* is a version or unreadable.                                             *)
(*                                                                         *)
(* There are no processes, plans, transactions or failures here: module    *)
(* Apply has them, and implements this one.                                *)
(***************************************************************************)
CONSTANTS
    TargetSet,     \* the cluster and its databases
    Catalog,       \* target -> what its schema may hold
    Foreign,       \* objects the databases may hold at first
    NonTxCreate,   \* created outside a transaction
    NonTxDrop,     \* dropped outside a transaction
    Instruction    \* changed by the operator

VARIABLES
    sources,   \* target -> what is declared
    versions,  \* target -> what was declared at any time, nothing included
    recorded,  \* target -> the version on record, a set of one, or of none if unreadable
    live       \* target -> what the database holds

vars == <<sources, versions, recorded, live>>

Init ==
    /\ sources \in [TargetSet -> SUBSET UNION {Catalog[t] : t \in TargetSet}]
    /\ \A t \in TargetSet : sources[t] \subseteq Catalog[t]
    /\ versions = [t \in TargetSet |-> {{}, sources[t]}]
    /\ recorded = [t \in TargetSet |-> {{}}]
    /\ live \in [TargetSet -> SUBSET Foreign]

\* The authors declare something else.
Author(t) ==
    /\ \E S \in SUBSET Catalog[t] :
         /\ sources' = [sources EXCEPT ![t] = S]
         /\ versions' = [versions EXCEPT ![t] = @ \cup {S}]
    /\ UNCHANGED <<recorded, live>>

\* All transactional statements that lead from one version to another.
Migrate(t) ==
    /\ \E want, have \in versions[t] :
         live' = [live EXCEPT ![t] =
                    (@ \ ((have \ want) \ (NonTxDrop \cup Instruction)))
                      \cup ((want \ have) \ (NonTxCreate \cup Instruction))]
    /\ UNCHANGED <<sources, versions, recorded>>

\* One statement of those that no transaction can hold.
Finish(t) ==
    /\ \E want, have \in versions[t] :
         \/ \E x \in ((want \ have) \cap NonTxCreate) \ Instruction :
              live' = [live EXCEPT ![t] = @ \cup {x}]
         \/ \E x \in ((have \ want) \cap NonTxDrop) \ Instruction :
              live' = [live EXCEPT ![t] = @ \ {x}]
    /\ UNCHANGED <<sources, versions, recorded>>

\* A version is recorded, or what is on record becomes unreadable.
Record(t) ==
    /\ \E R \in {{}} \cup {{S} : S \in versions[t]} :
         recorded' = [recorded EXCEPT ![t] = R]
    /\ UNCHANGED <<sources, versions, live>>

\* The operator carries out an instruction, towards what is declared.
Operate(t) ==
    /\ \E x \in Catalog[t] \cap Instruction :
         \/ x \in sources[t] /\ live' = [live EXCEPT ![t] = @ \cup {x}]
         \/ x \notin sources[t] /\ live' = [live EXCEPT ![t] = @ \ {x}]
    /\ UNCHANGED <<sources, versions, recorded>>

Next ==
    \E t \in TargetSet : Author(t) \/ Migrate(t) \/ Finish(t) \/ Record(t) \/ Operate(t)

Spec == Init /\ [][Next]_vars
=============================================================================

------------------------------ MODULE MCApply ------------------------------
(* Instances of Apply for TLC. *)
EXTENDS Apply, TLC

CONSTANTS app, cluster, role, table, index, ext, strategy, sub

OneTarget == <<app>>
TwoTargets == <<cluster, app>>

SmallCatalog == app :> {table, index}
WideCatalog == cluster :> {role} @@ app :> {ext, strategy, sub}

Flag(allow, approve, dry, y, noSnap, str) ==
    [allowDestructive |-> allow, approveRebuild |-> approve, dryRun |-> dry,
     yes |-> y, noSnapshot |-> noSnap, strict |-> str]

\* Unattended with every permission; without any, and strict; a dry run; attended;
\* unattended and leaving the snapshot alone.
Permissive == Flag(TRUE, TRUE, FALSE, TRUE, FALSE, FALSE)
Cautious == Flag(FALSE, FALSE, FALSE, TRUE, FALSE, TRUE)
DryRun == Flag(TRUE, TRUE, TRUE, TRUE, FALSE, FALSE)
Attended == Flag(TRUE, TRUE, FALSE, FALSE, FALSE, FALSE)
Unrecorded == Flag(TRUE, TRUE, FALSE, TRUE, TRUE, FALSE)

AllOptions == {Permissive, Cautious, DryRun, Attended, Unrecorded}
PermissiveOnly == {Permissive}
SoloOptions == AllOptions \ {Unrecorded}

RunnerSymmetry == Permutations(Runners)
============================================================================

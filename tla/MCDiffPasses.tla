---------------------------- MODULE MCDiffPasses ----------------------------
(***************************************************************************)
(* Instances of DiffPasses for TLC: tables in "public" and in another      *)
(* schema, which may be a third one renamed.                               *)
(***************************************************************************)
EXTENDS DiffPasses, TLC

R == SchemaKey("r")
S == SchemaKey("s")
A == <<"public", "a">>
B == <<"public", "b">>
C == <<"s", "a">>

Plain == CHOOSE b \in Bodies : TRUE

Decls(froms, uses, bodies, flags) ==
    [from : froms, uses : uses, body : bodies, protected : flags]

OfSchema(froms) == Decls(froms, {{}}, {Plain}, {FALSE})

\* Every choice of a declaration, or none, for each key.
Projects(choices) ==
    {P \in UNION {{f \in [K -> UNION {choices[k] : k \in K}] :
                     \A k \in K : f[k] \in choices[k]} : K \in SUBSET DOMAIN choices} :
       WellFormed(P) /\ \E ord \in SetToSeqs(DOMAIN P) : \A m, n \in DOMAIN ord :
          ord[n] \in P[ord[m]].uses => n < m}

RenamedAway(P) == {P[k].from : k \in DOMAIN P} \ {NoKey}

\* A name that was renamed away is not declared again, nor renamed twice.
Disciplined(P) ==
    /\ RenamedAway(P) \cap DOMAIN P = {}
    /\ \A k, l \in DOMAIN P : P[k].from = P[l].from /\ k # l => P[k].from = NoKey

TableChoices ==
    S :> OfSchema({NoKey})
    @@ A :> Decls({NoKey, B}, {{}}, {Plain}, BOOLEAN)
    @@ B :> Decls({NoKey, A}, {{}, {A}}, Bodies, {FALSE})
    @@ C :> Decls({NoKey, A, B}, {{}, {B}}, {Plain}, {FALSE})

\* A schema is renamed that has no table; one of "public" may move there.
SchemaChoices ==
    R :> OfSchema({NoKey})
    @@ S :> OfSchema({NoKey, R})
    @@ A :> Decls({NoKey}, {{}}, {Plain}, {FALSE})
    @@ C :> Decls({A}, {{}}, {Plain}, {FALSE})

DisciplinedTables == {P \in Projects(TableChoices) \cup Projects(SchemaChoices) : Disciplined(P)}

\* The schema that is renamed has one.
FullChoices ==
    R :> OfSchema({NoKey})
    @@ S :> OfSchema({R})
    @@ <<"r", "a">> :> Decls({NoKey}, {{}}, {Plain}, {FALSE})

FullSchemas == {P \in Projects(FullChoices) : Disciplined(P)}

\* An old name may be declared again.
ReuseChoices ==
    A :> Decls({NoKey}, {{}}, {Plain}, {FALSE})
    @@ B :> Decls({NoKey, A}, {{}}, {Plain}, {FALSE})
ReusedNames == Projects(ReuseChoices)

============================================================================

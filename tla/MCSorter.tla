------------------------------ MODULE MCSorter ------------------------------
(* Instances of Sorter for TLC. *)
EXTENDS Sorter

Pairs == {p \in Node \X Node : p[1] # p[2]}

\* A dependency of two objects: none, fixed, or a foreign key that is deferrable or not.
FK(p, d, q) == [from |-> p[2], to |-> p[1], deferrable |-> d, qualified |-> q]

\* For each pair of tables no foreign key, or one of any kind <<deferrable, qualified>>.
OnePerPair ==
    {{FK(p, c[p][1], c[p][2]) : p \in {q \in Pairs : c[q] # <<>>}} :
       c \in [Pairs -> (BOOLEAN \X BOOLEAN) \cup {<<>>}]}

\* Three objects: every combination of dependencies whose references are written with
\* the schema, and every combination of foreign keys alone, written either way.
ThreeObjects ==
    {g \in [fixed : SUBSET Pairs, fks : OnePerPair] :
        g.fixed = {} \/ \A f \in g.fks : f.qualified}

\* Two cycles of two tables each, one of them not deferrable.
TwoCycles ==
    {[fixed |-> {}, fks |-> {FK(<<1, 2>>, TRUE, TRUE), FK(<<2, 1>>, TRUE, TRUE),
                             FK(<<3, 4>>, FALSE, TRUE), FK(<<4, 3>>, FALSE, TRUE)}]}
============================================================================

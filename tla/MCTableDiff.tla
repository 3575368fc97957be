------------------------------ MODULE MCTableDiff ------------------------------
(***************************************************************************)
(* A table of two columns with a constraint and an index to check          *)
(* TableDiff on.                                                           *)
(***************************************************************************)
EXTENDS TableDiff

PlainColumn(isNotNull) == [kind |-> Plain, notNull |-> isNotNull]

TwoColumns ==
  [columns     |-> ("a" :> PlainColumn(FALSE)) @@ ("b" :> PlainColumn(TRUE)),
   constraints |-> "k" :> {"b"},
   indexes     |-> "i" :> {"a", "b"}]
===============================================================================

------------------------------- MODULE Sorter -------------------------------
(***************************************************************************)
(* Resolver.Sort: Kahn's algorithm over the merged objects, and what is    *)
(* done about foreign keys that form a cycle.                              *)
(*                                                                         *)
(* The objects are numbered in source order.  An edge leads from an object *)
(* to one that must come after it.  Every dependency but a foreign key is  *)
(* a fixed edge; how the edges are found in the objects is left out.       *)
(***************************************************************************)
EXTENDS Integers, Sequences, FiniteSets

CONSTANTS
    N,        \* number of objects
    Inputs    \* what Sort is called with

Node == 1 .. N

\* A foreign key of table `from` to table `to`; the reference may be written with
\* its schema or without.
ForeignKey == [from : Node, to : Node, deferrable : BOOLEAN, qualified : BOOLEAN]

ASSUME ConstantsAssumption ==
    /\ N \in Nat \ {0}
    /\ Inputs \subseteq [fixed : SUBSET (Node \X Node), fks : SUBSET ForeignKey]
    /\ \A input \in Inputs : \A a \in Node : <<a, a>> \notin input.fixed

VARIABLES
    fixed,     \* the edges that no foreign key makes
    fks,       \* the foreign keys the tables of this round still have
    removed,   \* those taken out by earlier rounds
    inDegree,  \* node -> number of objects still to come before it
    queue,     \* nodes nothing is left to come before
    sorted,    \* the order so far
    outcome    \* "running", "sorted", "error" (DPG-E017) or "unsorted"

vars == <<fixed, fks, removed, inDegree, queue, sorted, outcome>>

Edges(hard, keys) == hard \cup {<<f.to, f.from>> : f \in {g \in keys : g.to # g.from}}

edges == Edges(fixed, fks)

Before(E, b) == {a \in Node : <<a, b>> \in E}

\* The sequences that list S in source order: there is one.
Ascending(S) ==
    {s \in [1 .. Cardinality(S) -> S] :
        /\ \A x \in S : \E n \in DOMAIN s : s[n] = x
        /\ \A m, n \in DOMAIN s : m < n => s[m] < s[n]}

Elements(s) == {s[n] : n \in 1 .. Len(s)}

----------------------------------------------------------------------------

\* A round begins: degrees are counted and the sources are queued.
Restart(E) ==
    /\ inDegree' = [b \in Node |-> Cardinality(Before(E, b))]
    /\ queue' \in Ascending({b \in Node : Before(E, b) = {}})
    /\ sorted' = <<>>

Init ==
    /\ \E input \in Inputs : fixed = input.fixed /\ fks = input.fks
    /\ removed = {}
    /\ inDegree = [b \in Node |-> Cardinality(Before(edges, b))]
    /\ queue \in Ascending({b \in Node : Before(edges, b) = {}})
    /\ sorted = <<>>
    /\ outcome = "running"

\* Mutant: a successor is queued when its first predecessor is done.
ReadyAtOnce(cur) ==
    {b \in Node : <<cur, b>> \in edges} \ (Elements(sorted) \cup Elements(queue))

\* The successors of cur that wait for nothing else.
Ready(cur) == {b \in Node : <<cur, b>> \in edges /\ inDegree[b] = 1}

\* Mutant: all degrees go down.
DequeueAll ==
    LET cur == Head(queue) IN
    /\ outcome = "running"
    /\ queue # <<>>
    /\ sorted' = Append(sorted, cur)
    /\ inDegree' = [b \in Node |-> inDegree[b] - 1]
    /\ \E ready \in Ascending(Ready(cur)) : queue' = Tail(queue) \o ready
    /\ UNCHANGED <<fixed, fks, removed, outcome>>

Dequeue ==
    LET cur == Head(queue) IN
    /\ outcome = "running"
    /\ queue # <<>>
    /\ sorted' = Append(sorted, cur)
    /\ inDegree' = [b \in Node |-> IF <<cur, b>> \in edges THEN inDegree[b] - 1
                                   ELSE inDegree[b]]
    /\ \E ready \in Ascending(Ready(cur)) : queue' = Tail(queue) \o ready
    /\ UNCHANGED <<fixed, fks, removed, outcome>>

Finish ==
    /\ outcome = "running"
    /\ queue = <<>>
    /\ Len(sorted) = N
    /\ outcome' = "sorted"
    /\ UNCHANGED <<fixed, fks, removed, inDegree, queue, sorted>>

\* The sets of nodes that lie on one simple cycle: findCycle returns one of them,
\* which one depends on the order of Go maps.
Cycles(E) ==
    {C \in SUBSET Node :
        /\ Cardinality(C) > 1
        /\ \E s \in [1 .. Cardinality(C) -> C] :
             /\ \A m, n \in DOMAIN s : m # n => s[m] # s[n]
             /\ \A n \in DOMAIN s : <<s[n], s[(n % Cardinality(C)) + 1]>> \in E}

\* The foreign keys canDefer and the loop that takes them out see within a cycle:
\* a reference written without its schema is not looked up in the table's own, and
\* a reference of a table to itself counts.
Closing(C) == {f \in fks : f.from \in C /\ f.to \in C /\ f.qualified}

CanDefer(C) == Closing(C) # {} /\ \A f \in Closing(C) : f.deferrable

\* Those that the loop takes out of the tables of the cycle.
Deferred(C) == {f \in Closing(C) : f.deferrable}

\* The guard removedAny comes on top of canDefer: a round that takes nothing out is
\* not run again.
Defers(C) == CanDefer(C) /\ Deferred(C) # {}

\* Mutant: the foreign keys go, deferrable or not.
DeferUnchecked(C) ==
    /\ Closing(C) # {}
    /\ fks' = fks \ Closing(C)
    /\ removed' = removed \cup Closing(C)
    /\ Restart(Edges(fixed, fks'))
    /\ UNCHANGED <<fixed, outcome>>

\* Mutant: the next round gets the tables as they were, not their copies.
DeferOfOriginals(C) ==
    /\ Defers(C)
    /\ removed' = removed \cup Deferred(C)
    /\ Restart(edges)
    /\ UNCHANGED <<fixed, fks, outcome>>

\* The round is run again without the cycle's foreign keys.
Defer(C) ==
    /\ Defers(C)
    /\ fks' = fks \ Deferred(C)
    /\ removed' = removed \cup Deferred(C)
    /\ Restart(Edges(fixed, fks'))
    /\ UNCHANGED <<fixed, outcome>>

\* DPG-E017, unless an earlier round was interrupted: its caller drops the error and
\* returns the objects as they were.
GiveUp ==
    /\ outcome' = IF removed = {} THEN "error" ELSE "unsorted"
    /\ UNCHANGED <<fixed, fks, removed, inDegree, queue, sorted>>

Break ==
    /\ outcome = "running"
    /\ queue = <<>>
    /\ Len(sorted) # N
    /\ \/ \E C \in Cycles(edges) : Defer(C)
       \/ \E C \in Cycles(edges) : ~Defers(C) /\ GiveUp
       \/ Cycles(edges) = {} /\ GiveUp

Next == Dequeue \/ Finish \/ Break

Spec == Init /\ [][Next]_vars

\* A function that is called runs.
FairSpec == Spec /\ WF_vars(Next)

----------------------------------------------------------------------------
(* Properties *)

Precedes(s, a, b) ==
    \A n \in 1 .. Len(s) : s[n] = b => \E m \in 1 .. n - 1 : s[m] = a

TypeOK ==
    /\ fixed \subseteq Node \X Node
    /\ fks \subseteq ForeignKey
    /\ removed \subseteq ForeignKey
    /\ inDegree \in [Node -> 0 .. N]
    /\ queue \in Seq(Node)
    /\ sorted \in Seq(Node)
    /\ outcome \in {"running", "sorted", "error", "unsorted"}

\* The order Sort reports as sorted has every object once, after all it depends on,
\* foreign keys that were taken out excepted.
SortIsTopological ==
    outcome = "sorted" =>
        /\ Len(sorted) = N
        /\ \A m, n \in 1 .. N : sorted[m] = sorted[n] => m = n
        /\ \A e \in edges : Precedes(sorted, e[1], e[2])

\* DPG-E017 is reported only if some cycle is closed by no foreign key at all, by one
\* that is not deferrable, or by one written without its schema, which canDefer does
\* not find; and only deferrable keys are ever taken out.
ErrorsAreCycles ==
    /\ outcome = "error" =>
         \E C \in Cycles(edges) :
           LET closing == {f \in fks : f.from \in C /\ f.to \in C}
           IN  closing = {} \/ \E f \in closing : ~f.deferrable \/ ~f.qualified
    /\ \A f \in removed : f.deferrable

\* Sort returns, whatever it is given ("recursed with an unchanged object set, hit the
\* identical cycle again, and repeated until the goroutine stack overflowed").
Returns == <>(outcome # "running")

\* A cycle that is not resolved is reported ("if any non-deferrable FK is found,
\* emit error DPG-E017").
CyclesAreReported == outcome = "unsorted" => Cycles(edges) = {}

============================================================================

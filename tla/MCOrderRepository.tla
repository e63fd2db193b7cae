-------------------------- MODULE MCOrderRepository --------------------------
(***************************************************************************)
(* Small instances of OrderRepository for TLC.                             *)
(***************************************************************************)
EXTENDS OrderRepository, TLC

CONSTANTS o1, o2, s1, s2, s3, old, new, status, vendor

Header(a, b) == status :> a @@ vendor :> b

Items(L, c) == {[line |-> l, content |-> c] : l \in L}

\* Two snapshots of an order that differ in every column and every line, so
\* that any mixture of them is visible.
TwoPayloads ==
    {[header |-> Header(old, old), items |-> Items({1}, old)],
     [header |-> Header(new, new), items |-> Items({2}, new)]}

\* Three snapshots that differ from one another in one header column, the
\* last with a line that occurs twice.
BadPayload ==
    [header |-> Header(new, old), items |-> Items({1}, old) \cup Items({1}, new)]

AllPayloads == TwoPayloads \cup {BadPayload}

BlendPayloads ==
    {[header |-> Header(a, b), items |-> Items({1}, old)] : a, b \in {old, new}}

Symmetry == Permutations(Sessions)
=============================================================================

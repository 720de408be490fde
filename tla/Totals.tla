------------------------------- MODULE Totals -------------------------------
(***************************************************************************)
(* The sum of natural numbers over a finite set, written without recursion *)
(* as the size of a disjoint union, so that the theorems on cardinality    *)
(* apply to it.                                                            *)
(***************************************************************************)
EXTENDS Integers, FiniteSets

\* f[x] distinct things for every x in S.
Units(S, f) == UNION {{x} \X (1 .. f[x]) : x \in S}

\* The sum of f[x] over the x in S.
Total(S, f) == Cardinality(Units(S, f))

=============================================================================

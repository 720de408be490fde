-------------------------- MODULE MCReconcileBatch --------------------------
(* Two requests, of one key or of two keys of which either may be fenced.  *)
(* A batch takes one row or two.  One of the amounts costs nothing.        *)
EXTENDS ReconcileBatch

CONSTANTS k1, k2, r1, r2, r3

Vec(c, t) == [cost |-> c, tokens |-> t, requests |-> 1]

MCKeyOf == [r \in Request |-> IF r = r3 THEN k2 ELSE k1]

MCGroups == {{r1, r2}, {r1, r3}}

MCAmount == {Vec(1, 1), Vec(0, 1)}

MCLimits == {[cost |-> 2, tokens |-> 2, requests |-> 2]}

=============================================================================

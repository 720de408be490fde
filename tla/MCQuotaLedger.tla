--------------------------- MODULE MCQuotaLedger ---------------------------
(* One key shared by two requests.  Two requests may fit the first limits  *)
(* and never fit the second, and an actual amount may exceed the reserved. *)
EXTENDS LedgerBudget

CONSTANTS k1, r1, r2

Vec(c, t) == [cost |-> c, tokens |-> t, requests |-> 1]

MCKeyOf == [r \in Request |-> k1]

MCAmount == {Vec(2, 1), Vec(1, 2)}

MCLimits == {[cost |-> 3, tokens |-> 4, requests |-> 2],
             [cost |-> 2, tokens |-> NoLimit, requests |-> 3]}

=============================================================================

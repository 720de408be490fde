--------------------------- MODULE MCChatGateway ---------------------------
(* One streamed and one plain request on one key whose limits both may     *)
(* fit.  Amounts may be those of a model whose configured price is zero.   *)
EXTENDS ChatGateway

CONSTANTS k1, r1, r2

Vec(c, t) == [cost |-> c, tokens |-> t, requests |-> 1]

MCKeyOf == [r \in Request |-> k1]

MCAmount == {Vec(2, 1), Vec(1, 2)}

MCFreeAmount == {Vec(2, 1), Vec(0, 1)}

MCLimits == {[cost |-> 3, tokens |-> 4, requests |-> 2]}

=============================================================================

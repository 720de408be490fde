------------------------- MODULE MCResponsesGateway -------------------------
(* Two requests of one key: a hosted stream with an ordinary one, and a    *)
(* hosted call with a compaction.  A response costs less than, or as much  *)
(* as, what was reserved for it.                                           *)
EXTENDS ResponsesGateway

CONSTANTS k1, r1, r2

MCKeyOf == [r \in Request |-> k1]

Cost(c) == [cost |-> c, tokens |-> 1, requests |-> 1]

MCAmount == {Cost(1), Cost(2)}

MCLimits == {[cost |-> 3, tokens |-> 3, requests |-> 2]}

Workloads ==
    [streams |-> [streaming |-> {r1, r2}, hosted |-> {r1},
                  compacting |-> {}, keeping |-> {r2}],
     plain |-> [streaming |-> {}, hosted |-> {r1},
                compacting |-> {r2}, keeping |-> {r2}]]

MCLoad == [n \in DOMAIN Workloads |-> Workloads[n]]

=============================================================================

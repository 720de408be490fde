----------------------------- MODULE MCAdmission -----------------------------
(* Three requests of one key at the limiter, one of them a stream, while   *)
(* time runs past a TTL; three waiters of two keys, one of whose processes *)
(* has a clock that is ahead; two waiters while Redis fails open; and two  *)
(* waiters whose key an operator changes.                                  *)
EXTENDS Admission

CONSTANTS k1, k2, r1, r2, r3

MCTokens == [r \in Request |-> IF r = r3 THEN 2 ELSE 1]

MCKeyOf == [r \in {r1, r2, r3} |-> IF r = r3 THEN k2 ELSE k1]

Waiters(w) == [waiters |-> w, maxTotal |-> 1, maxWait |-> 2, ttl |-> 3,
               skew |-> [r \in w |-> IF r = r3 THEN 1 ELSE 0],
               changing |-> {}, failOpen |-> FALSE, maxClock |-> 3]

Workloads ==
    [limiter |-> Waiters({}),
     skewed |-> Waiters({r1, r2, r3}),
     open |-> [Waiters({r1, r2}) EXCEPT !.maxTotal = 2, !.failOpen = TRUE],
     changing |-> [Waiters({r1, r2}) EXCEPT !.changing = {k1}, !.maxWait = 1,
                                            !.maxClock = 1]]

MCLoad == [n \in DOMAIN Workloads |-> Workloads[n]]

=============================================================================

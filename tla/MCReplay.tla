------------------------------ MODULE MCReplay ------------------------------
(***************************************************************************)
(* Workloads of CodexReplay and ReplayMaintenance.                         *)
(***************************************************************************)
EXTENDS ReplayMaintenance, TLC
CONSTANTS k1, k2, a1, a2, a3, b1, t1, t2, m1, m2, i1, i2, c1, f1, f2, x, y, z

Call == [kind |-> "function_call", item |-> i1, call |-> c1, tool |-> f1]
Renamed == [Call EXCEPT !.tool = f2]
Unnamed == [Call EXCEPT !.item = None]
Compaction == [kind |-> "compaction", item |-> i2, call |-> None, tool |-> None]
Reasoning == [kind |-> "reasoning", item |-> i1, call |-> None, tool |-> None]

MCKeyOf == [r \in Request |-> IF r = b1 THEN k2 ELSE k1]
MCCompatible == [t \in Route |-> IF t = t2 THEN {t1} ELSE {}]
MCValidUntil == [k \in {k1, k2} |-> IF k = k1 THEN 9 ELSE 2]

\* One kind of request on one route, which an operator may extend.
Extension(requests, versions, time, maintainers, lifetimes, scopes) ==
    [requests |-> requests, output |-> {Reasoning}, bodies |-> {{}}, routes |-> {t1},
     models |-> {m1}, versions |-> versions, time |-> time, maintainers |-> maintainers,
     lifetimes |-> lifetimes, scopes |-> scopes, brief |-> TRUE]

Workloads ==
    \* two routes that change, all kinds of items
    [routes |-> [requests |-> {a1, a2}, output |-> {Call, Compaction},
                 bodies |-> {{}, {Call}, {Renamed}, {Unnamed}, {Compaction}, {Call, Compaction}},
                 routes |-> {t1, t2}, models |-> {m1, m2}, versions |-> {1, 2}, time |-> 1,
                 maintainers |-> {}, lifetimes |-> {}, scopes |-> {}, brief |-> FALSE],
    \* two keys whose requests meet the same item
     keys |-> [requests |-> {a1, a2, b1}, output |-> {Call}, bodies |-> {{}, {Call}},
               routes |-> {t1}, models |-> {m1}, versions |-> {1, 2}, time |-> 1,
               maintainers |-> {}, lifetimes |-> {}, scopes |-> {}, brief |-> FALSE],
    \* an item is replayed while its reference is extended
     revived |-> [Extension({a1, a2}, {1}, 2, {z}, {3}, {k1}) EXCEPT
                     !.brief = FALSE, !.output = {Call}, !.bodies = {{}, {Call}}],
    \* plans that are edited and grow old; keys that come and go; two operators
     extend |-> Extension({a3}, {1, 2}, 2, {z}, {1, 3}, {"cohort", "all active", k1}),
     scope |-> Extension({a3, b1}, {1}, 0, {z}, {2}, {"cohort"}),
     locks |-> Extension({a1, a2}, {1}, 0, {x, y}, {2}, {"cohort"})]
MCLoad == [n \in DOMAIN Workloads |-> Workloads[n]]

Interchangeable == Permutations({a1, a2}) \cup Permutations({x, y})
=============================================================================

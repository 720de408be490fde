------------------------------- MODULE MCKeys -------------------------------
(***************************************************************************)
(* Workloads of KeyManagement.  Each one keeps two or three groups of      *)
(* operations busy, so that their interleavings are complete.              *)
(***************************************************************************)
EXTENDS KeyManagement

CONSTANTS
    p1, p2, p3,   \* client modules
    b1, b2        \* operators who work on batches

MCPins == {p1, p2, p3}
MCMoves == {<<p1, p2>>, <<p2, p1>>, <<p2, p3>>}

Members(edited) ==
    [g \in {"limits", "rate", "burn", "allow"} |->
        IF g = "limits"
        THEN IF g \in edited THEN {"requests", "cost"} ELSE {"requests"}
        ELSE IF g \in edited THEN {"m", "n"} ELSE {"m"}]

Rows(member, purposes, ends, values, tools) ==
    {[status |-> "active", purpose |-> p, window |-> [from |-> 0, until |-> u],
      limits |-> l, rate |-> [m \in member["rate"] |-> None],
      burn |-> [m \in member["burn"] |-> None], allow |-> [m \in member["allow"] |-> None],
      lazy |-> FALSE, ext |-> e, pin |-> None, fence |-> FALSE, used |-> 0] :
        p \in purposes, u \in ends, l \in [member["limits"] -> values], e \in tools}

\* No clone plans and no batches.
Alone == [clones |-> {}, batches |-> {}, kinds |-> {}, filters |-> {}, stores |-> {},
          modes |-> {"none"}, maxValue |-> 1, maxTime |-> 2, maxUsed |-> 1]

Absent == [limits |-> <<>>, rate |-> <<>>, burn |-> <<>>, allow |-> <<>>,
           lazy |-> None, ext |-> None, pin |-> None]

\* Budgets, tool policies and bound hosted requests.
FenceLoad ==
    LET member == Members({"limits"}) IN
    [initial |-> {}, managed |-> {1}, member |-> member,
     operations |-> {"create", "status", "policy", "ext", "config", "limits", "validity",
                     "reset", "fence", "clock"},
     rows |-> Rows(member, {"standard", "calibration"}, {1, 2}, {1, None}, {"strict", "fenced"}),
     configurations |->
        {[Absent EXCEPT !.limits = l, !.ext = e, !.allow = a] :
            l \in {<<>>, [cost |-> 1], [cost |-> None]},
            e \in {None, "strict", "fenced"}, a \in {<<>>, [m |-> 1]}}] @@ Alone

\* Traffic settings and client modules.
TrafficLoad ==
    LET member == Members({"rate"}) IN
    [initial |-> {}, managed |-> {1}, member |-> member,
     operations |-> {"create", "status", "lazy", "config", "rate", "burn", "pin"},
     rows |-> Rows(member, {"standard"}, {1}, {1}, {"strict"}),
     configurations |->
        {[Absent EXCEPT !.rate = r, !.burn = b, !.lazy = z, !.pin = p] :
            r \in {<<>>} \cup UNION {[m -> {1}] : m \in (SUBSET member["rate"]) \ {{}}},
            b \in {<<>>} \cup [member["burn"] -> {1}],
            z \in {None, TRUE}, p \in {None} \cup {p1, p2}}] @@ Alone

\* Two keys that are rotated into each other's place.
RotationLoad ==
    LET member == Members({}) IN
    [initial |-> {1}, managed |-> {1, 2}, member |-> member, modes |-> {"enqueue"},
     operations |-> {"status", "validity", "rotate"},
     rows |-> Rows(member, {"standard"}, {1}, {1}, {"strict"}),
     configurations |-> {}] @@ Alone

\* One source and room for two clones.
CloneLoad ==
    LET member == Members({}) IN
    [initial |-> {1}, managed |-> {1}, member |-> member, clones |-> Clones,
     operations |-> {"status", "ext", "fence", "clock"},
     rows |-> Rows(member, {"standard"}, {1}, {1}, {"fenced"}),
     configurations |-> {}] @@ Alone

\* Two or three keys, plans that set a limit, and operators who create, suspend,
\* configure or bind keys meanwhile.
BatchLoad(managed, operations, tools, values, kinds, stores, batches) ==
    LET member == Members({}) IN
    [initial |-> {1, 2}, managed |-> managed, operations |-> operations, member |-> member,
     rows |-> Rows(member, {"standard"}, {1}, {1}, tools),
     configurations |-> {[Absent EXCEPT !.limits = [requests |-> v]] : v \in values},
     kinds |-> kinds, filters |-> {{"active"}}, stores |-> stores, batches |-> batches,
     maxValue |-> 2, maxTime |-> 1, maxUsed |-> 0] @@ Alone

Workloads ==
    [fences |-> FenceLoad, traffic |-> TrafficLoad, rotation |-> RotationLoad, clones |-> CloneLoad,
     review |-> BatchLoad({1, 2}, {"config"}, {"strict"}, {1, 2, None}, {"cohort"}, {"file"}, {b1}),
     cohort |-> BatchLoad({1, 2, 3}, {"create", "status"}, {"strict"}, {2}, {"cohort"},
                          {"token"}, {b1}),
     bound |-> BatchLoad({1, 2}, {"fence", "config", "ext"}, {"strict", "fenced"}, {2, None},
                         {"cohort"}, {"file"}, {b1}),
     edits |-> BatchLoad({1}, {"limits"}, {"strict"}, {2}, {"keys"}, {"token"}, {b1}),
     locks |-> BatchLoad({}, {}, {"strict"}, {2}, {"keys"}, {"token"}, {b1, b2})]
MCLoad == [n \in DOMAIN Workloads |-> Workloads[n]]
MCOwners == Permutations(Owners)
=============================================================================

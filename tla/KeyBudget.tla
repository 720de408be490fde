----------------------------- MODULE KeyBudget -----------------------------
(***************************************************************************)
(* What the quota ledger promises its callers, without counters, locks,    *)
(* fences or ledger rows: a key has limits, every request takes one hold   *)
(* against them, and the hold ends once, as a charge or returned.  The     *)
(* exposure of a key is computed from the requests themselves.             *)
(***************************************************************************)
EXTENDS Integers

CONSTANTS
    Key,        \* gateway keys
    Request,    \* request ids
    KeyOf,      \* the key of a request
    Dim,        \* what is limited
    NoLimit,    \* a limit that is not set
    Sum(_, _)   \* the sum, over a set, of a function

VARIABLES
    phase,      \* per request: "new", "open", "charged" or "returned"
    hold,       \* per request: what it holds while it is open
    cost,       \* per request: what it was charged
    alone,      \* per request: whether it shares its key with no other
    limit,      \* per key: its limits
    forgotten,  \* charges that no longer count
    waived      \* keys whose limits no longer bind

budgetVars == <<phase, hold, cost, alone, limit, forgotten, waived>>

Sums == [Dim -> Nat]
Nothing == [d \in Dim |-> 0]

Open(k) == {r \in Request : KeyOf[r] = k /\ phase[r] = "open"}

Charged(k) == {r \in Request : /\ KeyOf[r] = k
                               /\ phase[r] = "charged"
                               /\ r \notin forgotten}

Exposure(k, d) == Sum(Open(k), [r \in Request |-> hold[r][d]])
                    + Sum(Charged(k), [r \in Request |-> cost[r][d]])

\* The key is at the disposal of its operator.
Free(k) == \A r \in Open(k) : ~alone[r]

BudgetInit ==
    /\ phase = [r \in Request |-> "new"]
    /\ hold = [r \in Request |-> Nothing]
    /\ cost = [r \in Request |-> Nothing]
    /\ alone = [r \in Request |-> FALSE]
    /\ limit \in [Key -> [Dim -> Nat \cup {NoLimit}]]
    /\ forgotten = {}
    /\ waived = {}

\* Only r changes, and to something of S.
Set(f, g, r, S) == g[r] \in S /\ g = [f EXCEPT ![r] = g[r]]

\* The request is admitted: what it takes fits beside all that is open and all
\* that was charged, and one that is to be alone finds nothing open.
Take(r) ==
    LET k == KeyOf[r] IN
    /\ phase[r] = "new"
    /\ Free(k)
    /\ phase' = [phase EXCEPT ![r] = "open"]
    /\ Set(hold, hold', r, Sums)
    /\ Set(alone, alone', r, BOOLEAN)
    /\ alone'[r] => Open(k) = {}
    /\ k \notin waived => \A d \in Dim : limit[k][d] # NoLimit =>
          Exposure(k, d) + hold'[r][d] <= limit[k][d]
    /\ UNCHANGED <<cost, limit, forgotten, waived>>

\* The request ends with a cost, which may differ from its hold.
Charge(r) ==
    /\ phase[r] = "open"
    /\ phase' = [phase EXCEPT ![r] = "charged"]
    /\ Set(cost, cost', r, Sums)
    /\ UNCHANGED <<hold, alone, limit, forgotten, waived>>

\* The request ends without a cost.
Return(r) ==
    /\ phase[r] = "open"
    /\ phase' = [phase EXCEPT ![r] = "returned"]
    /\ UNCHANGED <<hold, cost, alone, limit, forgotten, waived>>

\* The operator gives the key other limits ...
Relimit(k) ==
    /\ Free(k)
    /\ Set(limit, limit', k, [Dim -> Nat \cup {NoLimit}])
    /\ UNCHANGED <<phase, hold, cost, alone, forgotten, waived>>

\* ... or forgets its charges, or what is open, which then may be exceeded.
Reset(k) ==
    /\ Free(k)
    /\ forgotten' \in {forgotten, forgotten \cup Charged(k)}
    /\ waived' \in {waived, waived \cup {k}}
    /\ UNCHANGED <<phase, hold, cost, alone, limit>>

BudgetNext ==
    \/ \E r \in Request : Take(r) \/ Charge(r) \/ Return(r)
    \/ \E k \in Key : Relimit(k) \/ Reset(k)

BudgetSpec == BudgetInit /\ [][BudgetNext]_budgetVars
=============================================================================

--------------------------- MODULE ReconcileBatch ---------------------------
(***************************************************************************)
(* The scheduled reconciliation: the two Celery tasks that settle what the *)
(* handlers left behind, with RECONCILIATION_AUTO_EXECUTE_* on and no      *)
(* minimum age (the defaults of *_OLDER_THAN_SECONDS).                     *)
(*                                                                         *)
(* A task is one transaction around a batch of the oldest candidates.  No  *)
(* exception of a row is caught, so a row that is refused rolls the whole  *)
(* batch back, in this round and in every later one: such a round is no    *)
(* step here.  Fenced reservations, and marked rows without tokens or      *)
(* cost, are left out of the batch after they were counted against it.     *)
(***************************************************************************)
EXTENDS QuotaLedger, SequencesExt

CONSTANTS
    BatchLimits,    \* the limits a deployment may choose from
    Groups          \* the sets of requests that may arrive

ASSUME BatchLimitsType == BatchLimits \subseteq Nat \ {0}
ASSUME GroupsType == Groups \subseteq SUBSET Request

VARIABLES
    group,      \* the requests that arrive
    batchLimit, \* RECONCILIATION_*_LIMIT
    booked,     \* the requests by the expires_at of their reservations
    filed       \* the requests by the created_at of their ledger rows

batchVars == <<vars, group, batchLimit, booked, filed>>

BatchInit ==
    /\ Init
    /\ group \in Groups
    /\ batchLimit \in BatchLimits
    /\ booked = <<>>
    /\ filed = <<>>

-----------------------------------------------------------------------------
(* Candidates *)

\* Mutant: off by one.
OldestOffByOne(s) == SubSeq(s, 1, Min({Len(s), batchLimit - 1}))

\* LIMIT
Oldest(s) == SubSeq(s, 1, Min({Len(s), batchLimit}))

\* list_expired_pending_reservations
Expired ==
    Oldest(SelectSeq(booked, LAMBDA r : resv[r].status = "pending" /\ r \in stale))

\* Those the batch does not skip; skipped ones count against the limit.
ToExpire == {r \in ToSet(Expired) : ~resv[r].fenced}

\* list_provider_completed_recovery_records
Marked ==
    ToSet(Oldest(SelectSeq(filed, LAMBDA r : /\ ledger[r].status = "failed"
                                             /\ ledger[r].needsRec)))

\* list_provider_completed_recovery_rows: those whose shape can be repaired.
ToRepair == {r \in Marked : Repairable(r)}

-----------------------------------------------------------------------------
(* The batches *)

\* What the requests of k in S hold, and what they cost.
HeldOf(S, k) == [d \in Dim |-> Total({r \in S : KeyOf[r] = k}, Held(d))]

CostOf(S, k) == [d \in Dim |-> Total({r \in S : KeyOf[r] = k}, Actual(d))]

\* Every key of S can give back what S holds.
AllCanSettle(S) ==
    /\ \A r \in S : resv[r].status = "pending"
    /\ \A k \in Key : CanDecrement(reserved[k], HeldOf(S, k))

\* Mutant: the counters of a key are loaded once and written for one row.
SettleAllLast(S, s) ==
    /\ AllCanSettle(S)
    /\ resv' = [r \in Request |->
                  IF r \in S THEN [resv[r] EXCEPT !.status = s] ELSE resv[r]]
    /\ \E T \in SUBSET S :
         /\ \A r \in S : \E t \in T : KeyOf[t] = KeyOf[r]
         /\ \A t, u \in T : KeyOf[t] = KeyOf[u] => t = u
         /\ reserved' = [k \in Key |-> Minus(reserved[k], HeldOf(T, k))]

\* The reservations of S end with status s and give back what they hold.
SettleAll(S, s) ==
    /\ AllCanSettle(S)
    /\ resv' = [r \in Request |->
                  IF r \in S THEN [resv[r] EXCEPT !.status = s] ELSE resv[r]]
    /\ reserved' = [k \in Key |-> Minus(reserved[k], HeldOf(S, k))]

\* reconcile_expired_pending_reservations
ExpireBatch ==
    LET new == {r \in ToExpire : ledger[r].status = "none"} IN
    /\ ToExpire # {}
    /\ \A r \in ToExpire : ~ledger[r].needsRec
    /\ SettleAll(ToExpire, "expired")
    /\ ledger' = [r \in Request |->
                    IF r \in new THEN LedgerRow("failed", Zero) ELSE ledger[r]]
    /\ filed' = filed \o SelectSeq(Expired, LAMBDA r : r \in new)
    /\ UNCHANGED <<keyrow, limit, used, fence, stale, drift, cleared, ceiling,
                   group, batchLimit, booked>>

\* reconcile_provider_completed_recovery_rows
CompletedBatch ==
    /\ ToRepair # {}
    /\ SettleAll(ToRepair, "finalized")
    /\ used' = [k \in Key |-> Plus(used[k], CostOf(ToRepair, k))]
    /\ ledger' = [r \in Request |->
                    IF r \in ToRepair
                    THEN [ledger[r] EXCEPT !.status = "finalized", !.needsRec = FALSE]
                    ELSE ledger[r]]
    /\ UNCHANGED <<keyrow, limit, fence, stale, drift, cleared, ceiling,
                   group, batchLimit, booked, filed>>

-----------------------------------------------------------------------------
(* Everyone else *)

\* The new reservation of r expires in the future.  Ordinary ones are given
\* the same time to live; that of a fence is an argument of acquire.
Book(r) ==
    \E i \in 1 .. Len(booked) + 1 :
        /\ \A j \in i .. Len(booked) :
              /\ booked[j] \notin stale
              /\ resv'[r].fenced \/ resv[booked[j]].fenced
        /\ booked' = InsertAt(booked, i, r)

\* A ledger row r gets is the latest.
Dated(r) ==
    /\ IF resv[r].status = "none" /\ resv'[r].status # "none"
       THEN Book(r) ELSE UNCHANGED booked
    /\ filed' = IF ledger[r].status = "none" /\ ledger'[r].status # "none"
                THEN Append(filed, r) ELSE filed
    /\ UNCHANGED <<group, batchLimit>>

\* What the gateways do, and the operator's review of holds.
GatewayStep(r) ==
    /\ \/ RequestStep(r)
       \/ \E a \in Amount : ReconcileHoldActual(r, a)
       \/ ReconcileHoldNoCharge(r)
    /\ Dated(r)

\* Reservations expire in the order of expires_at.
ExpireInOrder(r) ==
    /\ PassExpiry(r)
    /\ \A i, j \in DOMAIN booked : i < j /\ booked[j] = r => booked[i] \in stale
    /\ UNCHANGED <<group, batchLimit, booked, filed>>

OperatorZeroesReserved(k) ==
    /\ ResetUsage(k, FALSE, TRUE)
    /\ UNCHANGED <<group, batchLimit, booked, filed>>

BatchNext ==
    \/ \E r \in group : GatewayStep(r) \/ ExpireInOrder(r)
    \/ \E k \in Key : OperatorZeroesReserved(k)
    \/ ExpireBatch
    \/ CompletedBatch

\* Time passes, and Celery beat keeps running both tasks.
BatchFairness ==
    /\ \A r \in Request : WF_batchVars(r \in group /\ ExpireInOrder(r))
    /\ WF_batchVars(ExpireBatch)
    /\ WF_batchVars(CompletedBatch)

BatchSpec == BatchInit /\ [][BatchNext]_batchVars /\ BatchFairness

-----------------------------------------------------------------------------
(* Properties *)

\* A batch keeps what each transaction of QuotaLedger keeps, though it reads
\* its candidates first and settles several rows of a key in one transaction:
\* counters agree with reservations and charges, and a fenced reservation is
\* left to its review.
LedgerKept == ReservedIsPending /\ UsedIsLedger /\ FenceExclusive

\* Marked rows the repair never takes.
Unrepairable == {r \in Request : ledger[r].needsRec /\ ~Repairable(r)}

Blocked ==
    \* the repair is rolled back by a marked row whose reservation has ended,
    \/ \E r \in Request : Repairable(r) /\ resv[r].status # "pending"
    \* or sees no later row for the rows without cost before it;
    \/ Cardinality(Unrepairable) >= batchLimit
    \* the expiry is rolled back by such a row while it is pending,
    \/ \E r \in Unrepairable : resv[r].status = "pending"
    \* or sees no later row for the fenced ones before it;
    \/ Cardinality({r \in stale : resv[r].status = "pending" /\ resv[r].fenced})
           >= batchLimit
    \* both are rolled back by counters zeroed under pending reservations.
    \/ drift # {}

\* Whatever its handler did last, every ordinary reservation is settled by the
\* scheduled tasks in the end, unless from some moment on one of the five
\* conditions always holds: no other row, order of rows or batch size
\* stops them, and no round fails for a reason that passes.
SettledUnlessBlocked ==
    \A r \in Request : resv[r].status = "pending" /\ ~resv[r].fenced ~>
                          resv[r].status # "pending" \/ []Blocked

=============================================================================

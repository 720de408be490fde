---------------------------- MODULE QuotaLedger ----------------------------
(***************************************************************************)
(* The PostgreSQL rows that account for gateway requests, and the          *)
(* transactions of the services that change them: QuotaService,            *)
(* AccountingService, ReservationReconciliationService,                    *)
(* ExternalToolFenceService, ExternalToolAccountingHoldService and the     *)
(* counter-changing operations of KeyService.                              *)
(*                                                                         *)
(* Each transaction locks the rows it changes (SELECT ... FOR UPDATE) and  *)
(* commits or rolls back as a whole, so each one is a single action here.  *)
(* A transaction that raises changes nothing and is no step of this        *)
(* module.  Next lets every caller run any transaction at any time: what   *)
(* is proved of it holds whatever the gateways and the workers do.         *)
(*                                                                         *)
(* request_id is UNIQUE in quota_reservations and in usage_ledger, so a    *)
(* request names at most one row of each table.  Money is counted in units *)
(* of the smallest stored decimal.                                         *)
(***************************************************************************)
EXTENDS Integers, FiniteSets, Totals

CONSTANTS
    Key,        \* gateway keys
    Request,    \* request ids
    KeyOf,      \* the key that authenticated each request
    Amount,     \* what a request may reserve or cost
    Limits,     \* the limits an operator may give a key
    NoLimit,    \* a limit column that is NULL
    NoRequest   \* no request holds the fence of a key

Dim == {"cost", "tokens", "requests"}

ASSUME RequestsFinite == IsFiniteSet(Request)
ASSUME KeyOfType == KeyOf \in [Request -> Key]
ASSUME AmountType == /\ Amount \subseteq [Dim -> Nat]
                     /\ \A a \in Amount : a["requests"] = 1
ASSUME LimitsType == /\ NoLimit \notin Nat
                     /\ Limits \subseteq [Dim -> Nat \cup {NoLimit}]
ASSUME NoRequestType == NoRequest \notin Request

VARIABLES
    keyrow,     \* per key: status, and whether now is in its validity window
    limit,      \* per key: cost, token and request limit
    used,       \* per key: the *_used_* counters
    reserved,   \* per key: the *_reserved_* counters
    fence,      \* per key: external_tool_fence_state and the request it names
    resv,       \* per request: its quota_reservations row
    stale,      \* the requests whose reservation is past expires_at
    ledger,     \* per request: its usage_ledger row
    drift,      \* history: keys whose reserved counters an operator zeroed
    cleared,    \* history: requests charged before the last reset of used
    ceiling     \* history: per key, the limits at its latest admission

vars == <<keyrow, limit, used, reserved, fence, resv, stale, ledger,
          drift, cleared, ceiling>>

-----------------------------------------------------------------------------
(* Amounts *)

Zero == [d \in Dim |-> 0]

Plus(a, b) == [d \in Dim |-> a[d] + b[d]]

Minus(a, b) == [d \in Dim |-> a[d] - b[d]]

\* _ensure_reserved_counters_can_decrement
CanDecrement(counters, a) == \A d \in Dim : a[d] <= counters[d]

-----------------------------------------------------------------------------
(* Rows *)

NoReservation == [status |-> "none", amount |-> Zero, fenced |-> FALSE]

NoLedger == [status |-> "none", actual |-> Zero, needsRec |-> FALSE,
             hold |-> FALSE]

LedgerRow(s, a) == [NoLedger EXCEPT !.status = s, !.actual = a]

NoFence == [state |-> "none", request |-> NoRequest]

PendingOf(k) == {r \in Request : KeyOf[r] = k /\ resv[r].status = "pending"}

\* Charged to the used counters of k, and not reset since.
ChargedOf(k) == {r \in Request : /\ KeyOf[r] = k
                                 /\ resv[r].status = "finalized"
                                 /\ r \notin cleared}

Reservable(k) == keyrow[k].status = "active" /\ keyrow[k].inWindow

\* Mutant: only what is used counts, not what is reserved.
WithinLimitsOfUsed(k, a) ==
    \A d \in Dim : limit[k][d] # NoLimit => used[k][d] + a[d] <= limit[k][d]

\* QuotaService._validate_limits
WithinLimits(k, a) ==
    \A d \in Dim : limit[k][d] # NoLimit =>
                      used[k][d] + reserved[k][d] + a[d] <= limit[k][d]

Init ==
    /\ keyrow = [k \in Key |-> [status |-> "active", inWindow |-> TRUE]]
    /\ limit \in [Key -> Limits]
    /\ used = [k \in Key |-> Zero]
    /\ reserved = [k \in Key |-> Zero]
    /\ fence = [k \in Key |-> NoFence]
    /\ resv = [r \in Request |-> NoReservation]
    /\ stale = {}
    /\ ledger = [r \in Request |-> NoLedger]
    /\ drift = {}
    /\ cleared = {}
    /\ ceiling = limit

-----------------------------------------------------------------------------
(* Pieces the transactions share *)

\* add_reserved_counters with the insert of the pending row.
Admit(r, a, isFenced) ==
    LET k == KeyOf[r] IN
    /\ resv' = [resv EXCEPT ![r] = [status |-> "pending", amount |-> a,
                                    fenced |-> isFenced]]
    /\ reserved' = [reserved EXCEPT ![k] = Plus(@, a)]
    /\ ceiling' = [ceiling EXCEPT ![k] = limit[k]]

\* The pending row is locked, and the counters can give back what it holds.
CanSettle(r) ==
    /\ resv[r].status = "pending"
    /\ CanDecrement(reserved[KeyOf[r]], resv[r].amount)

\* Mutant: the counters give back the actual amount, not the reserved one.
ChargeReleasingActual(r, a) ==
    LET k == KeyOf[r] IN
    /\ CanSettle(r)
    /\ CanDecrement(reserved[k], a)
    /\ reserved' = [reserved EXCEPT ![k] = Minus(@, a)]
    /\ used' = [used EXCEPT ![k] = Plus(@, a)]
    /\ resv' = [resv EXCEPT ![r].status = "finalized"]

\* finalize_reserved_counters and mark_pending_reservation_finalized.
Charge(r, a) ==
    LET k == KeyOf[r] IN
    /\ CanSettle(r)
    /\ reserved' = [reserved EXCEPT ![k] = Minus(@, resv[r].amount)]
    /\ used' = [used EXCEPT ![k] = Plus(@, a)]
    /\ resv' = [resv EXCEPT ![r].status = "finalized"]

\* subtract_reserved_counters and mark_pending_reservation_released/_expired.
GiveBack(r, s) ==
    LET k == KeyOf[r] IN
    /\ CanSettle(r)
    /\ reserved' = [reserved EXCEPT ![k] = Minus(@, resv[r].amount)]
    /\ resv' = [resv EXCEPT ![r].status = s]
    /\ UNCHANGED used

\* The insert of a usage_ledger row; it violates UNIQUE(request_id), and the
\* whole transaction rolls back, when the request has a row already.
InsertLedger(r, row) ==
    /\ ledger[r].status = "none"
    /\ ledger' = [ledger EXCEPT ![r] = row]

\* ExternalToolFenceService.resolve in a transaction that has just settled r.
ResolveFence(r, state) ==
    LET k == KeyOf[r] IN
    /\ fence[k] = [state |-> state, request |-> r]
    /\ resv[r].fenced
    /\ reserved'[k] = Zero
    /\ fence' = [fence EXCEPT ![k] = NoFence]

-----------------------------------------------------------------------------
(* QuotaService *)

\* reserve_for_chat_completion
Reserve(r, a) ==
    LET k == KeyOf[r] IN
    /\ resv[r].status = "none"
    /\ Reservable(k)
    /\ fence[k].state = "none"
    /\ WithinLimits(k, a)
    /\ Admit(r, a, FALSE)
    /\ UNCHANGED <<keyrow, limit, used, fence, stale, ledger, drift, cleared>>

\* Time passes the expires_at of a reservation.
PassExpiry(r) ==
    /\ resv[r].status # "none"
    /\ r \notin stale
    /\ stale' = stale \cup {r}
    /\ UNCHANGED <<keyrow, limit, used, reserved, fence, resv, ledger, drift,
                   cleared, ceiling>>

-----------------------------------------------------------------------------
(* AccountingService.  Fenced reservations are settled by the transactions  *)
(* of their own section: the gateways never pass one to these.              *)

\* finalize_successful_response and finalize_successful_custom_response,
\* with no provider-completed row.
FinalizeSuccess(r, a) ==
    /\ ~resv[r].fenced
    /\ Charge(r, a)
    /\ InsertLedger(r, LedgerRow("finalized", a))
    /\ UNCHANGED <<keyrow, limit, fence, stale, drift, cleared, ceiling>>

\* record_provider_completed_before_finalization, the insert.  The status of
\* the reservation was read earlier and without a lock.
RecordCompleted(r, a) ==
    /\ resv[r].status # "none"
    /\ ~resv[r].fenced
    /\ InsertLedger(r, LedgerRow("pending", a))
    /\ UNCHANGED <<keyrow, limit, used, reserved, fence, resv, stale, drift,
                   cleared, ceiling>>

\* finalize_successful_response given the provider-completed row.  The cost
\* is computed again, from the same response and estimate as the row's.
FinalizeCompleted(r) ==
    /\ ledger[r].status # "none"
    /\ ~resv[r].fenced
    /\ Charge(r, ledger[r].actual)
    /\ ledger' = [ledger EXCEPT ![r].status = "finalized",
                                ![r].needsRec = FALSE]
    /\ UNCHANGED <<keyrow, limit, fence, stale, drift, cleared, ceiling>>

\* mark_provider_completed_finalization_failed: reads neither the status of
\* the row nor that of the reservation.
MarkFinalizationFailed(r) ==
    /\ ledger[r].status # "none"
    /\ ~resv[r].fenced
    /\ ledger' = [ledger EXCEPT ![r].status = "failed", ![r].needsRec = TRUE]
    /\ UNCHANGED <<keyrow, limit, used, reserved, fence, resv, stale, drift,
                   cleared, ceiling>>

\* record_provider_failure_and_release: the failure row is written whether or
\* not the reservation was still pending.
FailAndRelease(r) ==
    /\ resv[r].status # "none"
    /\ ~resv[r].fenced
    /\ \/ GiveBack(r, "released")
       \/ /\ resv[r].status # "pending"
          /\ UNCHANGED <<used, reserved, resv>>
    /\ InsertLedger(r, LedgerRow("failed", Zero))
    /\ UNCHANGED <<keyrow, limit, fence, stale, drift, cleared, ceiling>>

\* record_streaming_interrupted_estimate
InterruptWithEstimate(r, a) ==
    /\ ~resv[r].fenced
    /\ Charge(r, a)
    /\ InsertLedger(r, LedgerRow("estimated", a))
    /\ UNCHANGED <<keyrow, limit, fence, stale, drift, cleared, ceiling>>

-----------------------------------------------------------------------------
(* ReservationReconciliationService *)

\* Mutant: fenced reservations are not refused.
ExpireReservationFenced(r) ==
    /\ r \in stale
    /\ ~ledger[r].needsRec
    /\ GiveBack(r, "expired")
    /\ ledger' = IF ledger[r].status = "none"
                 THEN [ledger EXCEPT ![r] = LedgerRow("failed", Zero)]
                 ELSE ledger
    /\ UNCHANGED <<keyrow, limit, fence, stale, drift, cleared, ceiling>>

\* reconcile_expired_pending_reservation
ExpireReservation(r) ==
    /\ r \in stale
    /\ ~resv[r].fenced
    /\ ~ledger[r].needsRec
    /\ GiveBack(r, "expired")
    /\ ledger' = IF ledger[r].status = "none"
                 THEN [ledger EXCEPT ![r] = LedgerRow("failed", Zero)]
                 ELSE ledger
    /\ UNCHANGED <<keyrow, limit, fence, stale, drift, cleared, ceiling>>

\* _validate_provider_completed_ledger
Repairable(r) ==
    /\ ledger[r].status = "failed"
    /\ ledger[r].needsRec
    /\ ledger[r].actual["tokens"] > 0
    /\ ledger[r].actual["cost"] > 0

\* reconcile_provider_completed_recovery
ReconcileCompleted(r) ==
    /\ Repairable(r)
    /\ Charge(r, ledger[r].actual)
    /\ ledger' = [ledger EXCEPT ![r].status = "finalized",
                                ![r].needsRec = FALSE]
    /\ UNCHANGED <<keyrow, limit, fence, stale, drift, cleared, ceiling>>

-----------------------------------------------------------------------------
(* ExternalToolFenceService and ExternalToolAccountingHoldService *)

\* acquire: the request takes all the key has left.
Remaining(k) ==
    [d \in Dim |-> IF d = "requests" THEN 1
                   ELSE limit[k][d] - used[k][d] - reserved[k][d]]

\* acquire, under the lock of the key
AcquireFence(r) ==
    LET k == KeyOf[r] IN
    /\ resv[r].status = "none"
    /\ Reservable(k)
    /\ \A d \in Dim : limit[k][d] # NoLimit /\ limit[k][d] > 0
    /\ fence[k].state = "none"
    /\ PendingOf(k) = {}
    /\ reserved[k] = Zero
    /\ \A d \in Dim : limit[k][d] - used[k][d] - reserved[k][d] >= 1
    /\ Admit(r, Remaining(k), TRUE)
    /\ fence' = [fence EXCEPT ![k] = [state |-> "active", request |-> r]]
    /\ UNCHANGED <<keyrow, limit, used, stale, ledger, drift, cleared>>

\* _finalize_external_web_search_response
FinalizeFenced(r, a) ==
    /\ Charge(r, a)
    /\ InsertLedger(r, LedgerRow("finalized", a))
    /\ ResolveFence(r, "active")
    /\ UNCHANGED <<keyrow, limit, stale, drift, cleared, ceiling>>

\* _record_provider_failure_and_release with external_tool
FailFenced(r) ==
    /\ GiveBack(r, "released")
    /\ InsertLedger(r, LedgerRow("failed", Zero))
    /\ ResolveFence(r, "active")
    /\ UNCHANGED <<keyrow, limit, stale, drift, cleared, ceiling>>

\* place
PlaceHold(r, s) ==
    LET k == KeyOf[r] IN
    /\ fence[k] = [state |-> "active", request |-> r]
    /\ resv[r].status = "pending"
    /\ resv[r].fenced
    /\ reserved[k] = resv[r].amount
    /\ InsertLedger(r, [LedgerRow(s, Zero) EXCEPT !.hold = TRUE])
    /\ fence' = [fence EXCEPT ![k].state = "held"]
    /\ UNCHANGED <<keyrow, limit, used, reserved, resv, stale, drift, cleared,
                   ceiling>>

\* _validate_locked_candidate
HoldCandidate(r) ==
    /\ fence[KeyOf[r]] = [state |-> "held", request |-> r]
    /\ resv[r].status = "pending"
    /\ resv[r].fenced
    /\ reserved[KeyOf[r]] = resv[r].amount
    /\ ledger[r].hold
    /\ ledger[r].status \in {"estimated", "interrupted"}

\* reconcile, action FINALIZE_ACTUAL
ReconcileHoldActual(r, a) ==
    /\ HoldCandidate(r)
    /\ Charge(r, a)
    /\ ledger' = [ledger EXCEPT ![r] = LedgerRow("finalized", a)]
    /\ ResolveFence(r, "held")
    /\ UNCHANGED <<keyrow, limit, stale, drift, cleared, ceiling>>

\* reconcile, the confirmed release without charge
ReconcileHoldNoCharge(r) ==
    /\ HoldCandidate(r)
    /\ GiveBack(r, "released")
    /\ ledger' = [ledger EXCEPT ![r] = LedgerRow("failed", Zero)]
    /\ ResolveFence(r, "held")
    /\ UNCHANGED <<keyrow, limit, stale, drift, cleared, ceiling>>

-----------------------------------------------------------------------------
(* KeyService *)

SetStatus(k, from, to) ==
    /\ keyrow[k].status \in from
    /\ keyrow' = [keyrow EXCEPT ![k].status = to]
    /\ UNCHANGED <<limit, used, reserved, fence, resv, stale, ledger, drift,
                   cleared, ceiling>>

SuspendKey(k) == SetStatus(k, {"active"}, "suspended")

ActivateKey(k) == SetStatus(k, {"suspended"}, "active")

RevokeKey(k) == SetStatus(k, {"active", "suspended"}, "revoked")

\* update_gateway_key_validity, or time entering or leaving the window.  The
\* operator may not move the window off now while the key is fenced; time may.
ChangeWindow(k) ==
    /\ keyrow' = [keyrow EXCEPT ![k].inWindow = ~@]
    /\ UNCHANGED <<limit, used, reserved, fence, resv, stale, ledger, drift,
                   cleared, ceiling>>

\* Mutant: limits may be changed under a bound fence.
UpdateLimitsAnytime(k, l) ==
    /\ limit' = [limit EXCEPT ![k] = l]
    /\ UNCHANGED <<keyrow, used, reserved, fence, resv, stale, ledger, drift,
                   cleared, ceiling>>

\* update_gateway_key_limits: a limit may be set below what is in use.
UpdateLimits(k, l) ==
    /\ fence[k].state = "none"
    /\ limit' = [limit EXCEPT ![k] = l]
    /\ UNCHANGED <<keyrow, used, reserved, fence, resv, stale, ledger, drift,
                   cleared, ceiling>>

\* reset_gateway_key_usage
ResetUsage(k, ofUsed, ofReserved) ==
    /\ ofUsed \/ ofReserved
    /\ fence[k].state = "none"
    /\ used' = IF ofUsed THEN [used EXCEPT ![k] = Zero] ELSE used
    /\ cleared' = IF ofUsed THEN cleared \cup ChargedOf(k) ELSE cleared
    /\ reserved' = IF ofReserved THEN [reserved EXCEPT ![k] = Zero]
                                 ELSE reserved
    /\ drift' = IF ofReserved /\ PendingOf(k) # {} THEN drift \cup {k}
                                                   ELSE drift
    /\ UNCHANGED <<keyrow, limit, fence, resv, stale, ledger, ceiling>>

-----------------------------------------------------------------------------

RequestStep(r) ==
    \/ \E a \in Amount : \/ Reserve(r, a)
                         \/ FinalizeSuccess(r, a)
                         \/ RecordCompleted(r, a)
                         \/ InterruptWithEstimate(r, a)
                         \/ FinalizeFenced(r, a)
    \/ FinalizeCompleted(r)
    \/ MarkFinalizationFailed(r)
    \/ FailAndRelease(r)
    \/ AcquireFence(r)
    \/ FailFenced(r)
    \/ \E s \in {"estimated", "interrupted"} : PlaceHold(r, s)

RepairStep(r) ==
    \/ PassExpiry(r)
    \/ ExpireReservation(r)
    \/ ReconcileCompleted(r)
    \/ \E a \in Amount : ReconcileHoldActual(r, a)
    \/ ReconcileHoldNoCharge(r)

OperatorStep(k) ==
    \/ SuspendKey(k)
    \/ ActivateKey(k)
    \/ RevokeKey(k)
    \/ ChangeWindow(k)
    \/ \E l \in Limits : UpdateLimits(k, l)
    \/ \E u, v \in BOOLEAN : ResetUsage(k, u, v)

Next ==
    \/ \E r \in Request : RequestStep(r) \/ RepairStep(r)
    \/ \E k \in Key : OperatorStep(k)

Spec == Init /\ [][Next]_vars

-----------------------------------------------------------------------------
(* Properties *)

Counters == [Dim -> Nat]

LimitColumns == [Dim -> Nat \cup {NoLimit}]

KeyRows == [status : {"active", "suspended", "revoked"}, inWindow : BOOLEAN]

Fences == [state : {"none", "active", "held"},
           request : Request \cup {NoRequest}]

Reservations ==
    [status : {"none", "pending", "finalized", "released", "expired"},
     amount : Counters, fenced : BOOLEAN]

LedgerRows ==
    [status : {"none", "pending", "finalized", "failed", "estimated",
               "interrupted"},
     actual : Counters, needsRec : BOOLEAN, hold : BOOLEAN]

\* Every row and counter stays in the domain of its column; in particular
\* the counters never go below zero (the ck_gateway_keys_*_non_negative checks).
TypeOK ==
    /\ keyrow \in [Key -> KeyRows]
    /\ limit \in [Key -> LimitColumns]
    /\ used \in [Key -> Counters]
    /\ reserved \in [Key -> Counters]
    /\ fence \in [Key -> Fences]
    /\ resv \in [Request -> Reservations]
    /\ stale \subseteq Request
    /\ ledger \in [Request -> LedgerRows]
    /\ drift \subseteq Key
    /\ cleared \subseteq Request
    /\ ceiling \in [Key -> LimitColumns]

Held(d) == [r \in Request |-> resv[r].amount[d]]

Actual(d) == [r \in Request |-> ledger[r].actual[d]]

\* The reserved counters of a key are never more than its pending
\* reservations hold, and exactly that unless an operator zeroed them while
\* reservations were pending: no settlement is lost, doubled or misdirected.
ReservedIsPending ==
    \A k \in Key, d \in Dim :
        /\ reserved[k][d] <= Total(PendingOf(k), Held(d))
        /\ k \notin drift => reserved[k][d] = Total(PendingOf(k), Held(d))

\* The used counters of a key are the costs in the ledger rows of the
\* requests charged since the last reset, whichever transaction charged them.
UsedIsLedger ==
    \A k \in Key, d \in Dim :
        used[k][d] = Total(ChargedOf(k), Actual(d))

\* The counters of gateway_keys say what the rows of its requests say, however
\* gateways, jobs and operators interleave.
CountersAgree == ReservedIsPending /\ UsedIsLedger

\* A charged request counts against its key for what it reserved or what it
\* cost, whichever is less: the rest is an overrun the provider caused.
Counted(d) == [r \in Request |-> IF ledger[r].actual[d] < resv[r].amount[d]
                                 THEN ledger[r].actual[d]
                                 ELSE resv[r].amount[d]]

\* Concurrent requests never overspend a key: what is pending and what was
\* charged, overruns aside, is within the limits of the latest admission.
NoOverspend ==
    \A k \in Key \ drift, d \in Dim :
        ceiling[k][d] # NoLimit =>
            Total(PendingOf(k), Held(d)) + Total(ChargedOf(k), Counted(d))
                <= ceiling[k][d]

\* A fence excludes all other exposure of its key: its request holds the only
\* pending reservation and all that is reserved, a held fence has its hold
\* row, and a fenced reservation is pending only under its fence.
FenceExclusive ==
    /\ \A k \in Key :
         LET f == fence[k].request IN
         IF fence[k].state = "none"
         THEN f = NoRequest
         ELSE /\ f \in Request
              /\ KeyOf[f] = k
              /\ PendingOf(k) = {f}
              /\ resv[f].fenced
              /\ reserved[k] = resv[f].amount
              /\ fence[k].state = "held" <=> ledger[f].hold
    /\ \A r \in Request :
         resv[r].fenced /\ resv[r].status = "pending" =>
             fence[KeyOf[r]].request = r

\* A settled reservation stays as it was settled, and a pending one keeps
\* the amount it will give back.
SettledOnce ==
    [][\A r \in Request :
          /\ resv[r].status \in {"finalized", "released", "expired"} =>
                 resv'[r] = resv[r]
          /\ resv[r].status = "pending" =>
                 resv'[r].amount = resv[r].amount]_vars

=============================================================================

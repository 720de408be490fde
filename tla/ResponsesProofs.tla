--------------------------- MODULE ResponsesProofs ---------------------------
(***************************************************************************)
(* The handlers of the Responses endpoints, with the reconciliation jobs,  *)
(* implement QuotaLedger, and what they promise: a hosted request does not *)
(* end with a fence nobody looks after, and what a client gets or may come *)
(* back to has been charged.                                               *)
(***************************************************************************)
EXTENDS ResponsesGateway, QuotaLedgerProofs

\* Few steps need arithmetic or the values of strings; those name SMT.
USE Zenon

Places == {"idle", "limited", "admitted", "calling", "charging", "charged", "delivering",
           "holding", "opened", "streaming", "recording", "writing", "finalizing", "marking",
           "ending", "closed"}

ResponsesTypeOK ==
    /\ load \in DOMAIN Load
    /\ pc \in [Request -> Places]
    /\ out \subseteq Request
    /\ usage \in [Request -> Amount \cup {NoUsage}]
    /\ told \in [Request -> {"nothing", "done", "error", "gone"}]
    /\ slot \subseteq Request
    /\ refs \subseteq Request
    /\ fate \in [Request -> {"fine", "unsettled", "cut off"}]

\* The response is accounted for in full.
Accounted(r) ==
    /\ resv[r].status = "finalized"
    /\ ledger[r].status = "finalized"
    /\ ledger[r].actual = usage[r]

\* Which places a request of its kind passes.
OnItsWay(r) ==
    /\ pc[r] \in {"recording", "writing", "marking"} => r \in Streaming \ Hosted
    /\ pc[r] \in {"opened", "streaming", "finalizing"} => r \in Streaming
    /\ pc[r] \in {"calling", "charging"} => r \notin Streaming
    /\ pc[r] \in {"recording", "writing", "charging", "finalizing"} => usage[r] \in Amount

\* How far the rows of a request are at each place of its handler.
Progress(r) ==
    /\ pc[r] \in {"idle", "limited"} => resv[r].status = "none" /\ ledger[r].status = "none"
    /\ pc[r] \notin {"idle", "limited", "closed"} => resv[r].status # "none"
    /\ resv[r].status # "none" => (resv[r].fenced <=> r \in Hosted)
    /\ pc[r] \in {"admitted", "calling", "charging", "opened", "streaming", "recording",
                  "writing"} =>
          (r \notin Hosted /\ resv[r].status = "pending" => ledger[r].status = "none")
    /\ pc[r] = "finalizing" /\ r \notin Hosted /\ resv[r].status = "pending" =>
          ledger[r].actual = usage[r]
    /\ pc[r] \in {"charged", "delivering"} => Accounted(r)
    /\ told[r] = "done" => Accounted(r)
    /\ told[r] # "nothing" => pc[r] = "closed"
    /\ r \in refs => resv[r].status = "finalized"

\* The fence of a request that was finished with does not stay active.
FenceSeenTo(r) ==
    r \in Hosted /\ pc[r] \in {"charged", "delivering", "ending", "closed"} /\ fate[r] = "fine" =>
        fence[KeyOf[r]] # [state |-> "active", request |-> r]

ResponsesInv ==
    /\ IInv
    /\ ResponsesTypeOK
    /\ \A r \in Request : OnItsWay(r) /\ Progress(r) /\ FenceSeenTo(r)

-----------------------------------------------------------------------------
(* Refinement *)

\* The settlements of a handler are transactions of the ledger, or raise.
LEMMA SettlementStep ==
    ASSUME NEW r \in Request, NEW s \in {"estimated", "interrupted"},
           Release(r) \/ ChargeEstimate(r) \/ Hold(r, s) \/ Interruption(r, s) \/ Raised(r)
    PROVE  RequestStep(r) \/ UNCHANGED vars
<1>1. CASE Raised(r)
  BY <1>1 DEF Raised
<1>2. CASE Release(r)
  BY <1>2 DEF Release, Raised, RequestStep
<1>3. CASE ChargeEstimate(r)
  BY <1>3 DEF ChargeEstimate, Raised, RequestStep
<1>4. CASE Hold(r, s)
  BY <1>4 DEF Hold, Raised, RequestStep
<1>5. CASE Interruption(r, s)
  BY <1>2, <1>3, <1>4, <1>5 DEF Interruption
<1> QED BY <1>1, <1>2, <1>3, <1>4, <1>5

\* Every step of a handler is a transaction for its request or none.
LEMMA HandlerTransaction ==
    ASSUME ResponsesInv, NEW r \in Request, HandlerStep(r)
    PROVE  RequestStep(r) \/ UNCHANGED vars
<1> DEFINE Goal == RequestStep(r) \/ UNCHANGED vars
<1> SUFFICES Goal
  OBVIOUS
<1>1. CASE ReserveQuota(r)
  BY <1>1 DEF ReserveQuota, RequestStep
<1>2. CASE PreProviderLiveBurn(r) \/ AdapterFails(r) \/ CallFails(r)
  BY <1>2, SettlementStep DEF PreProviderLiveBurn, AdapterFails, CallFails
<1>3. CASE HoldUncertain(r)
  BY <1>3, SettlementStep DEF HoldUncertain
<1>4. CASE LiveBurnStop(r) \/ StreamStops(r) \/ StreamBreaks(r) \/ Disconnect(r)
  BY <1>4, SettlementStep DEF LiveBurnStop, StreamStops, StreamBreaks, Disconnect
<1>5. ASSUME ChargeResponse(r), usage[r] \in Amount PROVE Goal
  BY <1>5 DEF ChargeResponse, RequestStep
<1>6. CASE ChargeAnswer(r)
  <2>1. usage[r] \in Amount
    BY <1>6 DEF ChargeAnswer, ResponsesInv, OnItsWay
  <2> QED BY <1>5, <1>6, <2>1 DEF ChargeAnswer, Raised
<1>7. CASE FinalizeStream(r)
  <2>1. usage[r] \in Amount
    BY <1>7 DEF FinalizeStream, ResponsesInv, OnItsWay
  <2> QED BY <1>5, <1>7, <2>1 DEF FinalizeStream
<1>8. CASE RecordWrite(r)
  <2>1. usage[r] \in Amount
    BY <1>8 DEF RecordWrite, ResponsesInv, OnItsWay
  <2> QED BY <1>8, <2>1 DEF RecordWrite, Raised, RequestStep
<1>9. CASE Mark(r)
  BY <1>9 DEF Mark, Raised, RequestStep
<1>10. CASE \/ Limit(r) \/ CallProvider(r) \/ KeepReference(r) \/ Deliver(r) \/ OpenStream(r)
            \/ BeginStream(r) \/ Event(r) \/ SendFailure(r) \/ RecordRead(r) \/ CutOff(r)
            \/ \E u \in Amount : Answer(r, u) \/ StreamCompletes(r, u)
  BY <1>10 DEF Limit, CallProvider, KeepReference, Deliver, OpenStream, BeginStream, Event,
               SendFailure, RecordRead, CutOff, Answer, StreamCompletes
<1> QED
  <2> HIDE DEF Goal
  <2> QED BY <1>1, <1>2, <1>3, <1>4, <1>6, <1>7, <1>8, <1>9, <1>10, SMTT(30) DEF HandlerStep

\* Every step of the system is a step of QuotaLedger or none.
LEMMA StepUsesLedger ==
    ASSUME ResponsesInv, [ResponsesNext]_responsesVars
    PROVE  [Next]_vars
<1>1. ASSUME NEW r \in Request, HandlerStep(r) PROVE [Next]_vars
  BY <1>1, HandlerTransaction DEF Next
<1>2. ASSUME NEW r \in Request, RepairOrTime(r) PROVE Next
  BY <1>2 DEF RepairOrTime, Next
<1>3. CASE UNCHANGED responsesVars
  BY <1>3 DEF responsesVars, vars
<1> QED BY <1>1, <1>2, <1>3 DEF ResponsesNext

-----------------------------------------------------------------------------
(* Frames *)

\* A settled reservation, and a row that says finalized with it, stay.
LEMMA SettledStays ==
    ASSUME TypeOK, NEW r \in Request, RequestStep(r) \/ RepairStep(r) \/ UNCHANGED vars,
           resv[r].status = "finalized"
    PROVE  /\ resv'[r] = resv[r]
           /\ ledger[r].status # "none" =>
                 ledger'[r] = ledger[r] \/ MarkFinalizationFailed(r)
<1> DEFINE Goal == /\ resv'[r] = resv[r]
                   /\ ledger[r].status # "none" =>
                         ledger'[r] = ledger[r] \/ MarkFinalizationFailed(r)
<1> SUFFICES Goal
  OBVIOUS
<1>1. ASSUME NEW a \in Amount,
             \/ Reserve(r, a) \/ FinalizeSuccess(r, a) \/ InterruptWithEstimate(r, a)
             \/ FinalizeFenced(r, a) \/ ReconcileHoldActual(r, a)
      PROVE  FALSE
  BY <1>1 DEF Reserve, FinalizeSuccess, InterruptWithEstimate, FinalizeFenced,
              ReconcileHoldActual, HoldCandidate, Charge, CanSettle
<1>2. CASE \/ FinalizeCompleted(r) \/ AcquireFence(r) \/ FailFenced(r) \/ ExpireReservation(r)
           \/ ReconcileCompleted(r) \/ ReconcileHoldNoCharge(r)
           \/ \E s \in {"estimated", "interrupted"} : PlaceHold(r, s)
  BY <1>2 DEF FinalizeCompleted, AcquireFence, FailFenced, ExpireReservation,
              ReconcileCompleted, ReconcileHoldNoCharge, HoldCandidate, PlaceHold, Charge,
              GiveBack, CanSettle
<1>3. ASSUME NEW a \in Amount, RecordCompleted(r, a) PROVE Goal
  BY <1>3 DEF RecordCompleted, InsertLedger
<1>4. CASE FailAndRelease(r)
  BY <1>4 DEF FailAndRelease, GiveBack, CanSettle, InsertLedger
<1>5. CASE MarkFinalizationFailed(r)
  BY <1>5 DEF MarkFinalizationFailed
<1>6. CASE PassExpiry(r)
  BY <1>6 DEF PassExpiry
<1>7. CASE UNCHANGED vars
  BY <1>7 DEF vars
<1> HIDE DEF Goal
<1> QED BY <1>1, <1>2, <1>3, <1>4, <1>5, <1>6, <1>7 DEF RequestStep, RepairStep

\* Only the request itself takes a fence, and only when it has no reservation.
LEMMA FenceFrom ==
    ASSUME TypeOK, NEW r \in Request, NEW x \in Request,
           RequestStep(r) \/ RepairStep(r) \/ UNCHANGED vars,
           fence'[KeyOf[x]] = [state |-> "active", request |-> x]
    PROVE  fence[KeyOf[x]] = [state |-> "active", request |-> x] \/ (x = r /\ AcquireFence(r))
<1> DEFINE Goal == \/ fence[KeyOf[x]] = [state |-> "active", request |-> x]
                   \/ (x = r /\ AcquireFence(r))
<1> SUFFICES Goal
  OBVIOUS
<1>0. KeyOf[x] \in Key /\ KeyOf[r] \in Key /\ fence \in [Key -> Fences]
  BY KeyOfType DEF TypeOK
<1>1. ASSUME fence' = fence PROVE Goal
  BY <1>1
<1>2. ASSUME fence' = [fence EXCEPT ![KeyOf[r]] = NoFence] PROVE Goal
  BY <1>0, <1>2 DEF NoFence
<1>3. CASE AcquireFence(r)
  BY <1>0, <1>3 DEF AcquireFence
<1>4. ASSUME NEW s \in {"estimated", "interrupted"}, PlaceHold(r, s) PROVE Goal
  BY <1>0, <1>4 DEF PlaceHold, Fences
<1>5. ASSUME NEW a \in Amount,
             \/ Reserve(r, a) \/ FinalizeSuccess(r, a) \/ InterruptWithEstimate(r, a)
             \/ RecordCompleted(r, a)
      PROVE  Goal
  BY <1>1, <1>5 DEF Reserve, FinalizeSuccess, InterruptWithEstimate, RecordCompleted
<1>6. ASSUME NEW a \in Amount, FinalizeFenced(r, a) \/ ReconcileHoldActual(r, a) PROVE Goal
  BY <1>2, <1>6 DEF FinalizeFenced, ReconcileHoldActual, ResolveFence
<1>7. CASE \/ FinalizeCompleted(r) \/ MarkFinalizationFailed(r) \/ FailAndRelease(r)
           \/ PassExpiry(r) \/ ExpireReservation(r) \/ ReconcileCompleted(r)
  BY <1>1, <1>7 DEF FinalizeCompleted, MarkFinalizationFailed, FailAndRelease, PassExpiry,
                    ExpireReservation, ReconcileCompleted
<1>8. CASE FailFenced(r) \/ ReconcileHoldNoCharge(r)
  BY <1>2, <1>8 DEF FailFenced, ReconcileHoldNoCharge, ResolveFence
<1>9. CASE UNCHANGED vars
  BY <1>1, <1>9 DEF vars
<1> HIDE DEF Goal
<1> QED BY <1>3, <1>4, <1>5, <1>6, <1>7, <1>8, <1>9 DEF RequestStep, RepairStep

\* A reservation is never unmade, nor does it change its kind.
LEMMA FencedKept ==
    ASSUME TypeOK, NEW r \in Request, RequestStep(r) \/ RepairStep(r) \/ UNCHANGED vars,
           resv[r].status # "none"
    PROVE  resv'[r].fenced = resv[r].fenced /\ resv'[r].status # "none"
<1> DEFINE Goal == resv'[r].fenced = resv[r].fenced /\ resv'[r].status # "none"
<1> SUFFICES Goal
  OBVIOUS
<1>0. resv \in [Request -> Reservations] /\ resv[r] \in Reservations
  BY DEF TypeOK
<1>1. ASSUME resv' = resv PROVE Goal
  BY <1>1
<1>2. ASSUME NEW s \in {"finalized", "released", "expired"},
             resv' = [resv EXCEPT ![r].status = s]
      PROVE  Goal
  BY <1>0, <1>2 DEF Reservations
<1>3. ASSUME NEW a \in Amount, Reserve(r, a) PROVE Goal
  BY <1>3 DEF Reserve
<1>4. ASSUME NEW a \in Amount,
             \/ FinalizeSuccess(r, a) \/ InterruptWithEstimate(r, a)
             \/ FinalizeFenced(r, a) \/ ReconcileHoldActual(r, a)
      PROVE  Goal
  BY <1>2, <1>4 DEF FinalizeSuccess, InterruptWithEstimate, FinalizeFenced,
                    ReconcileHoldActual, Charge
<1>5. CASE FinalizeCompleted(r) \/ ReconcileCompleted(r)
  BY <1>2, <1>5 DEF FinalizeCompleted, ReconcileCompleted, Charge
<1>6. CASE FailFenced(r) \/ ExpireReservation(r) \/ ReconcileHoldNoCharge(r)
  BY <1>2, <1>6 DEF FailFenced, ExpireReservation, ReconcileHoldNoCharge, GiveBack
<1>7. CASE FailAndRelease(r)
  BY <1>1, <1>2, <1>7 DEF FailAndRelease, GiveBack
<1>8. CASE \/ MarkFinalizationFailed(r) \/ PassExpiry(r)
           \/ \E a \in Amount : RecordCompleted(r, a)
           \/ \E s \in {"estimated", "interrupted"} : PlaceHold(r, s)
  BY <1>1, <1>8 DEF MarkFinalizationFailed, PassExpiry, RecordCompleted, PlaceHold
<1>9. CASE UNCHANGED vars
  BY <1>1, <1>9 DEF vars
<1>10. CASE AcquireFence(r)
  BY <1>10 DEF AcquireFence
<1> HIDE DEF Goal
<1> QED BY <1>3, <1>4, <1>5, <1>6, <1>7, <1>8, <1>9, <1>10 DEF RequestStep, RepairStep

\* The request of an active fence has a pending reservation.
LEMMA NotActive ==
    ASSUME IInv, NEW r \in Request, resv[r].status # "pending"
    PROVE  fence[KeyOf[r]] # [state |-> "active", request |-> r]
<1>1. KeyOf[r] \in Key
  BY KeyOfType
<1> QED BY <1>1, SMT DEF IInv, FenceExclusive, PendingOf

\* A handler moves only itself.
LEMMA HandlerFrame ==
    ASSUME ResponsesInv, NEW r \in Request, HandlerStep(r), load' = load
    PROVE  /\ \A x \in Request \ {r} :
                 /\ pc'[x] = pc[x] /\ told'[x] = told[x] /\ usage'[x] = usage[x]
                 /\ fate'[x] = fate[x] /\ (x \in refs' <=> x \in refs)
           /\ ResponsesTypeOK'
<1> DEFINE Moved ==
      /\ \E p \in Places : pc' = [pc EXCEPT ![r] = p]
      /\ \E w \in {"nothing", "done", "error", "gone"} : told' = [told EXCEPT ![r] = w]
      /\ \E u \in Amount \cup {NoUsage} : usage' = [usage EXCEPT ![r] = u]
      /\ \E f \in {"fine", "unsettled", "cut off"} : fate' = [fate EXCEPT ![r] = f]
      /\ refs' \in {refs, refs \cup {r}}
      /\ out' \in {out, out \cup {r}}
      /\ slot' \in {slot, slot \cup {r}, slot \ {r}}
<1>0. SUFFICES Moved
  <2>1. ASSUME NEW p \in Places, NEW w \in {"nothing", "done", "error", "gone"},
               NEW u \in Amount \cup {NoUsage}, NEW f \in {"fine", "unsettled", "cut off"},
               pc' = [pc EXCEPT ![r] = p], told' = [told EXCEPT ![r] = w],
               usage' = [usage EXCEPT ![r] = u], fate' = [fate EXCEPT ![r] = f],
               refs' \in {refs, refs \cup {r}}, out' \in {out, out \cup {r}},
               slot' \in {slot, slot \cup {r}, slot \ {r}}
        PROVE  /\ \A x \in Request \ {r} :
                     /\ pc'[x] = pc[x] /\ told'[x] = told[x] /\ usage'[x] = usage[x]
                     /\ fate'[x] = fate[x] /\ (x \in refs' <=> x \in refs)
               /\ ResponsesTypeOK'
    BY <2>1 DEF ResponsesInv, ResponsesTypeOK
  <2> QED BY <2>1, ZenonT(30)
<1>1. /\ told = [told EXCEPT ![r] = told[r]]
      /\ told[r] \in {"nothing", "done", "error", "gone"}
      /\ usage = [usage EXCEPT ![r] = usage[r]]
      /\ usage[r] \in Amount \cup {NoUsage}
      /\ pc = [pc EXCEPT ![r] = pc[r]]
      /\ pc[r] \in Places
      /\ fate = [fate EXCEPT ![r] = fate[r]]
      /\ fate[r] \in {"fine", "unsettled", "cut off"}
  BY DEF ResponsesInv, ResponsesTypeOK
<1>2. ASSUME NEW s, Release(r) \/ ChargeEstimate(r) \/ Hold(r, s) \/ Interruption(r, s) \/ Raised(r)
      PROVE  \E f \in {"fine", "unsettled", "cut off"} : fate' = [fate EXCEPT ![r] = f]
  BY <1>1, <1>2 DEF Release, ChargeEstimate, Hold, Interruption, Raised
<1>3. CASE Limit(r) \/ ReserveQuota(r) \/ CallProvider(r) \/ Deliver(r) \/ OpenStream(r)
           \/ BeginStream(r) \/ SendFailure(r) \/ FinalizeStream(r) \/ KeepReference(r)
  BY <1>1, <1>3 DEF Limit, ReserveQuota, CallProvider, Deliver, OpenStream, BeginStream,
                    SendFailure, FinalizeStream, KeepReference, Goto, Close, Places
<1>4. ASSUME \/ PreProviderLiveBurn(r) \/ AdapterFails(r) \/ CallFails(r) \/ HoldUncertain(r)
             \/ StreamBreaks(r) \/ Disconnect(r)
      PROVE  Moved
  <2>1. \E f \in {"fine", "unsettled", "cut off"} : fate' = [fate EXCEPT ![r] = f]
    BY <1>2, <1>4 DEF PreProviderLiveBurn, AdapterFails, CallFails, HoldUncertain, StreamBreaks,
                      Disconnect
  <2>2. /\ \E w \in {"error", "gone"} : Close(r, w)
        /\ UNCHANGED <<out, usage, refs>>
    BY <1>4 DEF PreProviderLiveBurn, AdapterFails, CallFails, HoldUncertain, StreamBreaks,
                Disconnect
  <2> QED BY <1>1, <2>1, <2>2 DEF Close, Places
<1>5. ASSUME LiveBurnStop(r) \/ StreamStops(r) PROVE Moved
  <2>1. \E f \in {"fine", "unsettled", "cut off"} : fate' = [fate EXCEPT ![r] = f]
    BY <1>2, <1>5 DEF LiveBurnStop, StreamStops
  <2>2. (Goto(r, "ending") \/ Close(r, "error")) /\ UNCHANGED <<out, usage, refs>>
    BY <1>5 DEF LiveBurnStop, StreamStops
  <2> QED BY <1>1, <2>1, <2>2 DEF Close, Goto, Places
<1>6. ASSUME NEW u \in Amount, Answer(r, u) \/ StreamCompletes(r, u) PROVE Moved
  BY <1>1, <1>6 DEF Answer, StreamCompletes, Goto, Places
<1>7. CASE Event(r) \/ CutOff(r)
  BY <1>1, <1>7 DEF Event, CutOff, Places
<1>8. CASE ChargeAnswer(r) \/ RecordRead(r) \/ RecordWrite(r) \/ Mark(r)
  BY <1>1, <1>8 DEF ChargeAnswer, RecordRead, RecordWrite, Mark, Raised, Goto, Close, Places
<1> HIDE DEF Moved
<1> QED BY <1>3, <1>4, <1>5, <1>6, <1>7, <1>8, SMTT(30) DEF HandlerStep

-----------------------------------------------------------------------------
(* The handler's own steps *)

OwnInv(r) == OnItsWay(r) /\ Progress(r) /\ FenceSeenTo(r)

\* What kind of request it is never changes.
LEMMA KindsFrame ==
    ASSUME load' = load
    PROVE  Hosted' = Hosted /\ Streaming' = Streaming /\ Keeping' = Keeping
BY DEF Hosted, Streaming, Keeping

\* A handler that ends needs little.
LEMMA ClosedInv ==
    ASSUME ResponsesInv, NEW r \in Request, load' = load,
           RequestStep(r) \/ UNCHANGED vars, pc[r] # "closed",
           resv[r].status = "none" => UNCHANGED vars,
           pc'[r] = "closed", told'[r] # "done", refs' = refs,
           r \in Hosted /\ fate'[r] = "fine" =>
               fence'[KeyOf[r]] # [state |-> "active", request |-> r]
    PROVE  OwnInv(r)'
<1>1. Hosted' = Hosted /\ TypeOK /\ Progress(r)
  BY KindsFrame DEF ResponsesInv, IInv
<1>2. resv'[r].status # "none" => (resv'[r].fenced <=> r \in Hosted)
  <2>1. CASE resv[r].status = "none"
    BY <1>1, <2>1 DEF vars
  <2>2. CASE resv[r].status # "none"
    BY <1>1, <2>2, FencedKept DEF Progress
  <2> QED BY <2>1, <2>2
<1>3. r \in refs' => resv'[r].status = "finalized"
  BY <1>1, SettledStays DEF Progress
<1>4. OnItsWay(r)'
  BY DEF OnItsWay
<1>5. Progress(r)'
  BY <1>1, <1>2, <1>3 DEF Progress
<1>6. FenceSeenTo(r)'
  BY <1>1 DEF FenceSeenTo
<1> QED BY <1>4, <1>5, <1>6 DEF OwnInv

\* A settlement of a hosted request that does not raise takes its fence away
\* or turns it into a hold.
LEMMA SettlementFence ==
    ASSUME IInv, ResponsesTypeOK, NEW r \in Request, NEW s, r \in Hosted,
           Release(r) \/ Hold(r, s) \/ Interruption(r, s) \/ Raised(r), fate'[r] = "fine"
    PROVE  fence'[KeyOf[r]] # [state |-> "active", request |-> r]
<1>0. KeyOf[r] \in Key /\ fence \in [Key -> Fences]
  BY KeyOfType DEF IInv, TypeOK
<1>1. ~Raised(r)
  BY DEF Raised, ResponsesTypeOK
<1>2. CASE FailFenced(r)
  BY <1>0, <1>2 DEF FailFenced, ResolveFence, NoFence
<1>3. CASE PlaceHold(r, s)
  BY <1>0, <1>3 DEF PlaceHold, Fences
<1> QED BY <1>1, <1>2, <1>3 DEF Release, Hold, Interruption

\* A handler that settles what it reserved and ends keeps its invariant.
LEMMA SettleAndClose ==
    ASSUME ResponsesInv, NEW r \in Request, load' = load,
           \/ PreProviderLiveBurn(r) \/ AdapterFails(r) \/ CallFails(r) \/ HoldUncertain(r)
           \/ StreamBreaks(r) \/ Disconnect(r)
    PROVE  OwnInv(r)'
<1>1. /\ pc[r] \notin {"idle", "limited", "closed"}
      /\ \E w \in {"error", "gone"} : Close(r, w)
      /\ UNCHANGED <<out, usage, refs>>
  BY DEF PreProviderLiveBurn, AdapterFails, CallFails, HoldUncertain, StreamBreaks, Disconnect
<1>2. RequestStep(r) \/ UNCHANGED vars
  BY HandlerTransaction DEF HandlerStep
<1>3. resv[r].status # "none"
  BY <1>1 DEF ResponsesInv, Progress
<1>4. pc'[r] = "closed" /\ told'[r] # "done"
  BY <1>1 DEF Close, ResponsesInv, ResponsesTypeOK
<1>5. r \in Hosted /\ fate'[r] = "fine" =>
          fence'[KeyOf[r]] # [state |-> "active", request |-> r]
  BY SettlementFence DEF PreProviderLiveBurn, AdapterFails, CallFails, HoldUncertain,
                         StreamBreaks, Disconnect, ResponsesInv
<1> QED BY <1>1, <1>2, <1>3, <1>4, <1>5, ClosedInv

\* A stream that is stopped keeps its invariant.
LEMMA StopInv ==
    ASSUME ResponsesInv, NEW r \in Request, load' = load, LiveBurnStop(r) \/ StreamStops(r)
    PROVE  OwnInv(r)'
<1>0. TypeOK /\ Progress(r) /\ ResponsesTypeOK /\ IInv
  BY DEF ResponsesInv, IInv
<1>1. /\ pc[r] = "streaming" /\ (Goto(r, "ending") \/ Close(r, "error"))
      /\ UNCHANGED <<out, usage, refs>>
  BY DEF LiveBurnStop, StreamStops
<1>2. RequestStep(r) \/ UNCHANGED vars
  BY HandlerTransaction DEF HandlerStep
<1>3. resv[r].status # "none" /\ told[r] = "nothing"
  BY <1>0, <1>1 DEF Progress
<1>4. r \in Hosted /\ fate'[r] = "fine" =>
          fence'[KeyOf[r]] # [state |-> "active", request |-> r]
  BY <1>0, SettlementFence DEF LiveBurnStop, StreamStops
<1>5. CASE Close(r, "error")
  <2>1. pc'[r] = "closed" /\ told'[r] # "done"
    BY <1>0, <1>5 DEF Close, ResponsesTypeOK
  <2> QED BY <1>1, <1>2, <1>3, <1>4, <2>1, ClosedInv
<1>6. CASE Goto(r, "ending")
  <2>1. pc'[r] = "ending" /\ told'[r] = "nothing"
    BY <1>0, <1>3, <1>6 DEF Goto, ResponsesTypeOK
  <2>2. resv'[r].status # "none" /\ (resv'[r].fenced <=> r \in Hosted)
    BY <1>0, <1>2, <1>3, FencedKept DEF Progress
  <2>3. r \in refs' => resv'[r].status = "finalized"
    BY <1>0, <1>1, <1>2, SettledStays DEF Progress
  <2>4. Hosted' = Hosted
    BY KindsFrame
  <2> QED BY <1>4, <2>1, <2>2, <2>3, <2>4 DEF OwnInv, OnItsWay, Progress, FenceSeenTo
<1> QED BY <1>1, <1>5, <1>6

\* Passing the rate limit and reserving quota, or a fence, keep the invariant.
LEMMA AdmissionInv ==
    ASSUME ResponsesInv, NEW r \in Request, load' = load, Limit(r) \/ ReserveQuota(r)
    PROVE  OwnInv(r)'
<1>0. /\ TypeOK /\ IInv /\ ResponsesTypeOK /\ Progress(r) /\ Hosted' = Hosted
      /\ pc[r] \in {"idle", "limited"} /\ refs' = refs /\ usage' = usage
      /\ resv[r].status = "none" /\ ledger[r].status = "none"
      /\ told[r] = "nothing" /\ r \notin refs
  BY KindsFrame DEF ResponsesInv, IInv, Limit, ReserveQuota, Progress
<1>1. CASE Close(r, "error") /\ UNCHANGED vars
  <2>1. pc'[r] = "closed" /\ told'[r] # "done"
    BY <1>0, <1>1 DEF Close, ResponsesTypeOK
  <2>2. fence'[KeyOf[r]] # [state |-> "active", request |-> r]
    BY <1>0, <1>1, NotActive DEF vars
  <2> QED BY <1>0, <1>1, <2>1, <2>2, ClosedInv
<1>2. CASE Limit(r) /\ ~Close(r, "error")
  <2>1. pc'[r] = "limited" /\ told' = told /\ resv' = resv /\ ledger' = ledger
    BY <1>0, <1>2 DEF Limit, ResponsesTypeOK, vars
  <2> QED BY <1>0, <2>1 DEF OwnInv, OnItsWay, Progress, FenceSeenTo
<1>3. CASE Goto(r, "admitted") /\ ReserveQuota(r)
           /\ (IF r \in Hosted THEN AcquireFence(r) ELSE \E a \in Amount : Reserve(r, a))
  <2>1. pc'[r] = "admitted" /\ told' = told
    BY <1>0, <1>3 DEF Goto, ResponsesTypeOK
  <2>2. ledger' = ledger
    BY <1>3 DEF AcquireFence, Reserve
  <2>3. resv'[r].status # "none" /\ (resv'[r].fenced <=> r \in Hosted)
    <3>1. \E a, b : resv' = [resv EXCEPT ![r] = [status |-> "pending", amount |-> a, fenced |-> b]]
                    /\ (b <=> r \in Hosted) /\ b \in BOOLEAN
      BY <1>3 DEF AcquireFence, Reserve, Admit
    <3> QED BY <1>0, <3>1, SMT DEF TypeOK
  <2> QED BY <1>0, <2>1, <2>2, <2>3 DEF OwnInv, OnItsWay, Progress, FenceSeenTo
<1> QED BY <1>1, <1>2, <1>3 DEF Limit, ReserveQuota

\* Steps that run no transaction and end no handler.
LEMMA MoveInv ==
    ASSUME ResponsesInv, NEW r \in Request, load' = load,
           \/ CallProvider(r) \/ OpenStream(r) \/ BeginStream(r) \/ Event(r)
           \/ \E u \in Amount : Answer(r, u) \/ StreamCompletes(r, u)
    PROVE  OwnInv(r)'
<1>0. /\ ResponsesTypeOK /\ Progress(r) /\ OnItsWay(r)
      /\ Hosted' = Hosted /\ Streaming' = Streaming
      /\ UNCHANGED <<resv, ledger, fence, refs>>
  BY KindsFrame DEF ResponsesInv, CallProvider, OpenStream, BeginStream, Event, Answer,
                    StreamCompletes, vars
<1>1. CASE CallProvider(r) \/ OpenStream(r) \/ BeginStream(r) \/ Event(r)
  <2>1. /\ told' = told /\ usage' = usage
        /\ \/ pc[r] = "admitted" /\ pc'[r] = "calling" /\ r \notin Streaming
           \/ pc[r] = "admitted" /\ pc'[r] = "opened" /\ r \in Streaming
           \/ pc[r] = "opened" /\ pc'[r] = "streaming"
           \/ pc[r] = "streaming" /\ pc'[r] = "streaming"
    BY <1>0, <1>1 DEF CallProvider, OpenStream, BeginStream, Event, Goto, ResponsesTypeOK
  <2> QED BY <1>0, <2>1, SMTT(30) DEF OwnInv, OnItsWay, Progress, FenceSeenTo, Accounted
<1>2. ASSUME NEW u \in Amount, Answer(r, u) \/ StreamCompletes(r, u) PROVE OwnInv(r)'
  <2>1. /\ told' = told /\ usage'[r] = u
        /\ \/ pc[r] = "calling" /\ pc'[r] = "charging"
           \/ pc[r] = "streaming" /\ pc'[r] \in {"finalizing", "holding"} /\ r \in Hosted
           \/ pc[r] = "streaming" /\ pc'[r] = "recording" /\ r \notin Hosted
    BY <1>0, <1>2 DEF Answer, StreamCompletes, Goto, ResponsesTypeOK
  <2>2. told[r] = "nothing"
    BY <1>0, <2>1 DEF Progress
  <2> QED BY <1>0, <1>2, <2>1, <2>2, SMTT(30) DEF OwnInv, OnItsWay, Progress, FenceSeenTo
<1> QED BY <1>1, <1>2

\* A charge accounts for the response in full.
LEMMA ChargeAccounts ==
    ASSUME ResponsesInv, NEW r \in Request, pc[r] \in {"charging", "finalizing"},
           ChargeResponse(r), UNCHANGED <<load, usage>>
    PROVE  /\ Accounted(r)'
           /\ fence'[KeyOf[r]] # [state |-> "active", request |-> r]
<1>0. /\ TypeOK /\ IInv /\ ResponsesTypeOK /\ Progress(r) /\ OnItsWay(r)
      /\ KeyOf[r] \in Key /\ usage[r] \in Amount /\ resv[r].status # "none"
  BY KeyOfType DEF ResponsesInv, IInv, OnItsWay, Progress
<1>1. CASE r \in Hosted
  <2>1. FinalizeFenced(r, usage[r])
    BY <1>1 DEF ChargeResponse
  <2>2. Accounted(r)'
    BY <1>0, <2>1 DEF FinalizeFenced, Charge, InsertLedger, LedgerRow, NoLedger, Accounted,
                      TypeOK, Reservations
  <2>3. fence'[KeyOf[r]] = NoFence
    BY <1>0, <2>1 DEF FinalizeFenced, ResolveFence, TypeOK
  <2> QED BY <2>2, <2>3, SMT DEF NoFence
<1>2. CASE r \in Streaming \ Hosted
  <2>1. FinalizeCompleted(r)
    BY <1>2 DEF ChargeResponse
  <2>2. pc[r] = "finalizing" /\ resv[r].status = "pending"
    BY <1>0, <1>2, <2>1 DEF OnItsWay, FinalizeCompleted, Charge, CanSettle
  <2>3. ledger[r].actual = usage[r]
    BY <1>0, <1>2, <2>2 DEF Progress
  <2>4. Accounted(r)'
    BY <1>0, <2>1, <2>3, ZenonT(60) DEF FinalizeCompleted, Charge, Accounted, TypeOK, Reservations,
                            LedgerRows
  <2>5. fence' = fence /\ ~resv[r].fenced
    BY <2>1 DEF FinalizeCompleted
  <2>6. fence[KeyOf[r]] # [state |-> "active", request |-> r]
    BY <1>0, <2>5, SMT DEF IInv, FenceExclusive
  <2> QED BY <2>4, <2>5, <2>6
<1>3. CASE r \notin Hosted /\ r \notin Streaming
  <2>1. FinalizeSuccess(r, usage[r])
    BY <1>3 DEF ChargeResponse
  <2>2. Accounted(r)'
    BY <1>0, <2>1 DEF FinalizeSuccess, Charge, InsertLedger, LedgerRow, NoLedger, Accounted,
                      TypeOK, Reservations
  <2>3. fence' = fence /\ ~resv[r].fenced
    BY <2>1 DEF FinalizeSuccess
  <2>4. fence[KeyOf[r]] # [state |-> "active", request |-> r]
    BY <1>0, <2>3, SMT DEF IInv, FenceExclusive
  <2> QED BY <2>2, <2>3, <2>4
<1> QED BY <1>1, <1>2, <1>3

\* Charging a plain answer or a finished stream keeps the invariant.
LEMMA ChargeInv ==
    ASSUME ResponsesInv, NEW r \in Request, load' = load, ChargeAnswer(r) \/ FinalizeStream(r)
    PROVE  OwnInv(r)'
<1>0. /\ TypeOK /\ IInv /\ ResponsesTypeOK /\ Progress(r) /\ OnItsWay(r)
      /\ Hosted' = Hosted /\ Streaming' = Streaming
      /\ pc[r] \in {"charging", "finalizing"} /\ UNCHANGED <<usage, refs>>
      /\ told[r] = "nothing" /\ resv[r].status # "none" /\ usage[r] \in Amount
  BY KindsFrame DEF ResponsesInv, IInv, ChargeAnswer, FinalizeStream, Progress, OnItsWay
<1>1. CASE ChargeResponse(r) /\ Goto(r, "charged")
  <2>1. Accounted(r)' /\ fence'[KeyOf[r]] # [state |-> "active", request |-> r]
    BY <1>0, <1>1, ChargeAccounts
  <2>2. pc'[r] = "charged" /\ told'[r] = "nothing"
    BY <1>0, <1>1 DEF Goto, ResponsesTypeOK
  <2>3. RequestStep(r) \/ UNCHANGED vars
    BY HandlerTransaction DEF HandlerStep
  <2>4. resv'[r].fenced <=> r \in Hosted
    BY <1>0, <2>3, FencedKept DEF Progress
  <2> QED BY <1>0, <2>1, <2>2, <2>4 DEF OwnInv, OnItsWay, Progress, FenceSeenTo, Accounted
<1>2. CASE UNCHANGED vars /\ (Goto(r, "holding") \/ (r \notin Hosted /\ pc[r] = "finalizing"
                                                     /\ Goto(r, "marking")))
  <2>1. /\ told' = told /\ resv' = resv /\ ledger' = ledger
        /\ pc'[r] = "holding" \/ (pc'[r] = "marking" /\ r \in Streaming \ Hosted)
    BY <1>0, <1>2 DEF Goto, ResponsesTypeOK, OnItsWay, vars
  <2> QED BY <1>0, <2>1 DEF OwnInv, OnItsWay, Progress, FenceSeenTo
<1>3. CASE r \notin Hosted /\ Raised(r) /\ Close(r, "error")
  <2>1. pc'[r] = "closed" /\ told'[r] # "done"
    BY <1>0, <1>3 DEF Close, ResponsesTypeOK
  <2> QED BY <1>0, <1>3, <2>1, ClosedInv DEF Raised
<1> QED BY <1>1, <1>2, <1>3 DEF ChargeAnswer, FinalizeStream

\* The record before finalization, read and then written, keeps the invariant.
LEMMA RecordInv ==
    ASSUME ResponsesInv, NEW r \in Request, load' = load, RecordRead(r) \/ RecordWrite(r)
    PROVE  OwnInv(r)'
<1>0. /\ TypeOK /\ IInv /\ ResponsesTypeOK /\ Progress(r) /\ OnItsWay(r)
      /\ Hosted' = Hosted /\ Streaming' = Streaming
      /\ pc[r] \in {"recording", "writing"} /\ UNCHANGED <<usage, refs>>
      /\ told[r] = "nothing" /\ resv[r].status # "none" /\ usage[r] \in Amount
      /\ r \in Streaming \ Hosted
  BY KindsFrame DEF ResponsesInv, IInv, RecordRead, RecordWrite, Progress, OnItsWay
<1>1. CASE Close(r, "error") /\ UNCHANGED vars
  <2>1. pc'[r] = "closed" /\ told'[r] # "done"
    BY <1>0, <1>1 DEF Close, ResponsesTypeOK
  <2> QED BY <1>0, <1>1, <2>1, ClosedInv
<1>2. CASE RecordRead(r) /\ Goto(r, "writing") /\ UNCHANGED vars
  <2>1. told' = told /\ resv' = resv /\ ledger' = ledger /\ pc'[r] = "writing"
    BY <1>0, <1>2 DEF Goto, ResponsesTypeOK, vars
  <2> QED BY <1>0, <2>1 DEF OwnInv, OnItsWay, Progress, FenceSeenTo
<1>3. CASE RecordWrite(r) /\ Goto(r, "finalizing")
           /\ (RecordCompleted(r, usage[r]) \/ (ledger[r].status # "none" /\ UNCHANGED vars))
  <2>1. told' = told /\ resv' = resv /\ pc'[r] = "finalizing"
    BY <1>0, <1>3 DEF Goto, ResponsesTypeOK, RecordCompleted, vars
  <2>2. resv[r].status = "pending" => ledger'[r].actual = usage[r]
    <3>1. resv[r].status = "pending" => ledger[r].status = "none"
      BY <1>0 DEF Progress
    <3> QED BY <1>0, <1>3, <3>1 DEF RecordCompleted, InsertLedger, LedgerRow, NoLedger, TypeOK
  <2> QED BY <1>0, <2>1, <2>2 DEF OwnInv, OnItsWay, Progress, FenceSeenTo
<1> QED BY <1>1, <1>2, <1>3 DEF RecordRead, RecordWrite, Raised

\* Keeping references, delivering, and every way to end keep the invariant.
LEMMA EndInv ==
    ASSUME ResponsesInv, NEW r \in Request, load' = load,
           KeepReference(r) \/ Deliver(r) \/ SendFailure(r) \/ Mark(r) \/ CutOff(r)
    PROVE  OwnInv(r)'
<1>0. /\ TypeOK /\ IInv /\ ResponsesTypeOK /\ Progress(r) /\ OnItsWay(r) /\ FenceSeenTo(r)
      /\ Hosted' = Hosted /\ usage' = usage /\ pc[r] \notin {"idle", "closed"}
      /\ told[r] = "nothing"
  BY KindsFrame DEF ResponsesInv, IInv, KeepReference, Deliver, SendFailure, Mark, CutOff,
                    Progress
<1>1. CASE KeepReference(r) /\ refs' = refs \cup {r} /\ Goto(r, "delivering")
  <2>1. /\ pc[r] = "charged" /\ pc'[r] = "delivering" /\ told' = told
        /\ UNCHANGED <<resv, ledger, fence, fate>>
    BY <1>0, <1>1 DEF KeepReference, Goto, ResponsesTypeOK, vars
  <2> QED BY <1>0, <1>1, <2>1 DEF OwnInv, OnItsWay, Progress, FenceSeenTo, Accounted
<1>2. CASE (KeepReference(r) /\ Close(r, "error") /\ UNCHANGED refs) \/ SendFailure(r)
  <2>1. /\ pc[r] \in {"charged", "ending"} /\ UNCHANGED vars /\ UNCHANGED <<fate, refs>>
        /\ pc'[r] = "closed" /\ told'[r] # "done"
    BY <1>0, <1>2 DEF KeepReference, SendFailure, Close, ResponsesTypeOK
  <2>2. r \in Hosted /\ fate'[r] = "fine" =>
            fence'[KeyOf[r]] # [state |-> "active", request |-> r]
    BY <1>0, <2>1 DEF FenceSeenTo, vars
  <2> QED BY <1>0, <2>1, <2>2, ClosedInv
<1>3. CASE Deliver(r)
  <2>1. /\ pc[r] \in {"charged", "delivering"} /\ pc'[r] = "closed" /\ refs' = refs
        /\ UNCHANGED <<resv, ledger, fence, fate>>
    BY <1>0, <1>3 DEF Deliver, Close, ResponsesTypeOK, vars
  <2> QED BY <1>0, <2>1 DEF OwnInv, OnItsWay, Progress, FenceSeenTo, Accounted
<1>4. CASE Mark(r)
  <2>1. /\ pc'[r] = "closed" /\ told'[r] # "done" /\ refs' = refs /\ r \notin Hosted
    BY <1>0, <1>4 DEF Mark, Close, ResponsesTypeOK, OnItsWay
  <2>2. RequestStep(r) \/ UNCHANGED vars
    BY HandlerTransaction, <1>4 DEF HandlerStep
  <2>3. resv[r].status # "none"
    BY <1>0, <1>4 DEF Mark, Progress
  <2> QED BY <1>0, <2>1, <2>2, <2>3, ClosedInv
<1>5. CASE CutOff(r)
  <2>1. /\ pc'[r] = "closed" /\ told'[r] # "done" /\ refs' = refs /\ fate'[r] # "fine"
        /\ UNCHANGED vars
    BY <1>0, <1>5 DEF CutOff, ResponsesTypeOK
  <2> QED BY <1>0, <2>1, ClosedInv
<1> QED BY <1>1, <1>2, <1>3, <1>4, <1>5 DEF KeepReference

-----------------------------------------------------------------------------
(* The jobs and the operator *)

\* A repair settles a pending reservation or leaves the rows alone.
LEMMA RepairOwn ==
    ASSUME TypeOK, NEW r \in Request, RepairStep(r)
    PROVE  /\ resv[r].status # "none"
           /\ \/ resv'[r] = resv[r] /\ ledger'[r] = ledger[r]
              \/ /\ resv[r].status = "pending"
                 /\ resv'[r].status \in {"finalized", "released", "expired"}
<1>0. resv \in [Request -> Reservations] /\ resv[r] \in Reservations
  BY DEF TypeOK
<1>1. CASE PassExpiry(r)
  BY <1>1 DEF PassExpiry
<1>2. CASE ExpireReservation(r)
  BY <1>0, <1>2 DEF ExpireReservation, GiveBack, CanSettle, Reservations
<1>3. CASE ReconcileCompleted(r)
  BY <1>0, <1>3 DEF ReconcileCompleted, Charge, CanSettle, Reservations
<1>4. ASSUME NEW a \in Amount, ReconcileHoldActual(r, a)
      PROVE  resv[r].status = "pending" /\ resv'[r].status = "finalized"
  BY <1>0, <1>4 DEF ReconcileHoldActual, Charge, CanSettle, Reservations
<1>5. CASE ReconcileHoldNoCharge(r)
  BY <1>0, <1>5 DEF ReconcileHoldNoCharge, GiveBack, CanSettle, Reservations
<1> QED BY <1>1, <1>2, <1>3, <1>4, <1>5 DEF RepairStep

\* Time and the repairs settle a reservation under its handler at any place.
LEMMA RepairInv ==
    ASSUME ResponsesInv, NEW r \in Request, RepairOrTime(r), load' = load
    PROVE  OwnInv(r)'
<1>0. /\ TypeOK /\ OnItsWay(r) /\ Progress(r) /\ FenceSeenTo(r)
      /\ UNCHANGED <<pc, usage, told, refs, fate>> /\ RepairStep(r)
      /\ Hosted' = Hosted /\ Streaming' = Streaming
  BY KindsFrame DEF ResponsesInv, IInv, RepairOrTime, handlerVars
<1>1. /\ resv[r].status # "none"
      /\ \/ resv'[r] = resv[r] /\ ledger'[r] = ledger[r]
         \/ /\ resv[r].status = "pending"
            /\ resv'[r].status \in {"finalized", "released", "expired"}
  BY <1>0, RepairOwn
<1>2. resv'[r].fenced = resv[r].fenced /\ resv'[r].status # "none"
  BY <1>0, <1>1, FencedKept
<1>3. OnItsWay(r)'
  BY <1>0 DEF OnItsWay
<1>4. Progress(r)'
  <2>1. CASE resv'[r] = resv[r] /\ ledger'[r] = ledger[r]
    BY <1>0, <2>1 DEF Progress, Accounted
  <2>2. CASE /\ resv[r].status = "pending"
             /\ resv'[r].status \in {"finalized", "released", "expired"}
    BY <1>0, <1>2, <2>2 DEF Progress, Accounted
  <2> QED BY <1>1, <2>1, <2>2
<1>5. FenceSeenTo(r)'
  BY <1>0, <1>1, FenceFrom DEF FenceSeenTo, AcquireFence
<1> QED BY <1>3, <1>4, <1>5 DEF OwnInv

\* Only a step for the request itself touches what its invariant speaks of.
LEMMA OthersInv ==
    ASSUME ResponsesInv, NEW r \in Request, NEW x \in Request \ {r}, load' = load,
           RequestStep(r) \/ RepairStep(r) \/ UNCHANGED vars,
           pc'[x] = pc[x], told'[x] = told[x], usage'[x] = usage[x], fate'[x] = fate[x],
           x \in refs' <=> x \in refs
    PROVE  OwnInv(x)'
<1>0. /\ TypeOK /\ OnItsWay(x) /\ Progress(x) /\ FenceSeenTo(x)
      /\ Hosted' = Hosted /\ Streaming' = Streaming
  BY KindsFrame DEF ResponsesInv, IInv
<1>1. resv'[x] = resv[x] /\ ledger'[x] = ledger[x]
  BY <1>0, LedgerFrame
<1>2. fence'[KeyOf[x]] = [state |-> "active", request |-> x] =>
          fence[KeyOf[x]] = [state |-> "active", request |-> x]
  BY <1>0, FenceFrom
<1>3. OnItsWay(x)'
  BY <1>0 DEF OnItsWay
<1>4. Progress(x)'
  BY <1>0, <1>1 DEF Progress, Accounted
<1>5. FenceSeenTo(x)'
  BY <1>0, <1>2 DEF FenceSeenTo
<1> QED BY <1>3, <1>4, <1>5 DEF OwnInv

\* Nothing has happened before the first request.
LEMMA ResponsesInitInv ==
    ResponsesInit => ResponsesInv
<1> SUFFICES ASSUME ResponsesInit PROVE ResponsesInv
  OBVIOUS
<1>1. IInv
  BY InitIInv DEF ResponsesInit
<1>2. ResponsesTypeOK
  BY DEF ResponsesInit, ResponsesTypeOK, Places
<1>3. ASSUME NEW r \in Request PROVE OnItsWay(r) /\ Progress(r) /\ FenceSeenTo(r)
  BY DEF ResponsesInit, Init, NoReservation, NoLedger, OnItsWay, Progress, FenceSeenTo
<1> QED BY <1>1, <1>2, <1>3 DEF ResponsesInv

\* No step of a handler, a repair or the operator breaks the invariant.
LEMMA ResponsesStepInv ==
    ResponsesInv /\ [ResponsesNext]_responsesVars => ResponsesInv'
<1> SUFFICES ASSUME ResponsesInv, [ResponsesNext]_responsesVars PROVE ResponsesInv'
  OBVIOUS
<1>1. IInv'
  BY StepUsesLedger, NextIInv DEF ResponsesInv
<1>2. ASSUME NEW r \in Request, HandlerStep(r), load' = load PROVE ResponsesInv'
  <2>1. /\ \A x \in Request \ {r} :
              /\ pc'[x] = pc[x] /\ told'[x] = told[x] /\ usage'[x] = usage[x]
              /\ fate'[x] = fate[x] /\ (x \in refs' <=> x \in refs)
        /\ ResponsesTypeOK'
    BY <1>2, HandlerFrame
  <2>2. RequestStep(r) \/ UNCHANGED vars
    BY <1>2, HandlerTransaction
  <2>3. \A x \in Request \ {r} : OwnInv(x)'
    BY <1>2, <2>1, <2>2, OthersInv
  <2>4. OwnInv(r)'
    BY <1>2, SettleAndClose, StopInv, AdmissionInv, MoveInv, ChargeInv, RecordInv, EndInv,
       SMTT(30) DEF HandlerStep
  <2> QED BY <1>1, <2>1, <2>3, <2>4 DEF ResponsesInv, OwnInv
<1>3. ASSUME NEW r \in Request, RepairOrTime(r), load' = load PROVE ResponsesInv'
  <2>1. UNCHANGED handlerVars /\ RepairStep(r)
    BY <1>3 DEF RepairOrTime
  <2>2. \A x \in Request \ {r} : OwnInv(x)'
    BY <1>3, <2>1, OthersInv DEF handlerVars
  <2>3. OwnInv(r)'
    BY <1>3, RepairInv
  <2>4. ResponsesTypeOK'
    BY <1>3, <2>1 DEF ResponsesInv, ResponsesTypeOK, handlerVars
  <2> QED BY <1>1, <2>2, <2>3, <2>4 DEF ResponsesInv, OwnInv
<1>4. CASE UNCHANGED responsesVars
  <2>1. ResponsesTypeOK'
    BY <1>4 DEF ResponsesInv, ResponsesTypeOK, responsesVars, handlerVars
  <2>2. ASSUME NEW r \in Request PROVE OnItsWay(r)' /\ Progress(r)' /\ FenceSeenTo(r)'
    BY <1>4 DEF ResponsesInv, OnItsWay, Progress, FenceSeenTo, Accounted, Hosted, Streaming,
                responsesVars, handlerVars, vars
  <2> QED BY <1>1, <2>1, <2>2 DEF ResponsesInv
<1> QED BY <1>2, <1>3, <1>4 DEF ResponsesNext

-----------------------------------------------------------------------------
(* The theorems *)

\* ResponsesInv is an invariant of the handlers and the repairs.
THEOREM ResponsesInvariance ==
    ResponsesSpec => []ResponsesInv
BY ResponsesInitInv, ResponsesStepInv, PTL DEF ResponsesSpec

\* A hosted request never ends with its fence merely active: whatever its
\* handler does with the reservation (_record_provider_failure_and_release,
\* _place_external_web_search_hold, _finalize_external_web_search_response)
\* settles it or puts it under a hold.
THEOREM HostedAccounted ==
    ResponsesSpec => []HostedEndsAccounted
<1>1. ResponsesInv => HostedEndsAccounted
  <2> SUFFICES ASSUME ResponsesInv, NEW r \in Hosted PROVE r \in Request /\ FenceSeenTo(r)
    BY DEF HostedEndsAccounted, FenceSeenTo
  <2> QED BY KindsType DEF ResponsesInv, ResponsesTypeOK, Hosted
<1> QED BY <1>1, ResponsesInvariance, PTL

\* A whole response that went out was charged for the usage the provider
\* reported, and a stored reference has its charge
\* (_persist_stored_response_reference runs after the finalization).
THEOREM KeptCharged ==
    ResponsesSpec => []KeptIsCharged
<1>1. ResponsesInv => KeptIsCharged
  BY DEF ResponsesInv, ResponsesTypeOK, Progress, Accounted, KeptIsCharged
<1> QED BY <1>1, ResponsesInvariance, PTL

\* The handlers and the repairs implement QuotaLedger.
THEOREM ResponsesImplementLedger ==
    ResponsesSpec => Spec
<1>1. ResponsesInit => Init
  BY DEF ResponsesInit
<1>2. ResponsesInv /\ [ResponsesNext]_responsesVars => [Next]_vars
  BY StepUsesLedger
<1> QED BY <1>1, <1>2, ResponsesInvariance, PTL DEF ResponsesSpec, Spec

\* Therefore the requests to the Responses endpoints, hosted ones included,
\* never overspend a key.
THEOREM ResponsesNeverOverspend ==
    ResponsesSpec => []NoOverspend
BY ResponsesImplementLedger, NeverOverspent, PTL

=============================================================================

------------------------- MODULE ChatGatewayProofs -------------------------
(***************************************************************************)
(* The chat handler, with the jobs and the operator, implements            *)
(* QuotaLedger; it therefore inherits the invariants of QuotaLedger.  What *)
(* it promises its client needs an invariant of its own, which says how    *)
(* far the rows of a request are when its handler is at each place.        *)
(*                                                                         *)
(* QuotaLedger in turn implements KeyBudget, and so does the chat handler. *)
(***************************************************************************)
EXTENDS ChatGateway, LedgerBudget, QuotaLedgerProofs

\* Few steps need arithmetic or the values of strings; those name SMT.
USE Zenon

\* The response is accounted for in full.
Accounted(r) ==
    /\ resv[r].status = "finalized"
    /\ ledger[r].status = "finalized"
    /\ ledger[r].actual = usage[r]

\* What the place of the handler says about the rows of its request.
Progress(r) ==
    /\ pc[r] \in {"recording", "writing", "finalizing", "marking"} =>
          usage[r] \in Amount
    /\ pc[r] \in {"admitted", "streaming", "recording", "writing"} =>
          (resv[r].status = "pending" => ledger[r].status = "none")
    /\ pc[r] \in {"finalizing", "marking"} =>
          /\ resv[r].status = "pending" => ledger[r].actual = usage[r]
          /\ ledger[r].status # "none"
    /\ pc[r] = "finalized" => Accounted(r)
    /\ told[r] = "done" => Accounted(r)
    /\ told[r] # "nothing" => pc[r] = "closed"
    /\ resv[r].status = "released" => pc[r] = "closed" /\ r \notin out
    /\ r \in out => pc[r] # "idle" /\ pc[r] # "admitted"
    /\ pc[r] # "idle" /\ pc[r] # "closed" => resv[r].status # "none"
    /\ pc[r] = "idle" => resv[r].status = "none" /\ ledger[r].status = "none"
    /\ ~resv[r].fenced
    /\ pc[r] = "streaming" => r \in Streaming

ChatInv ==
    /\ TypeOK
    /\ ChatTypeOK
    /\ \A r \in Request : Progress(r)

-----------------------------------------------------------------------------
(* Refinement *)

\* Every step of a handler is a transaction for its request or none.
LEMMA HandlerTransaction ==
    ASSUME ChatInv, NEW r \in Request, HandlerStep(r)
    PROVE  RequestStep(r) \/ UNCHANGED vars
<1> DEFINE Goal == RequestStep(r) \/ UNCHANGED vars
<1> SUFFICES Goal
  OBVIOUS
<1>1. CASE Start(r)
  BY <1>1 DEF Start, RequestStep
<1>2. ASSUME ChargeEstimate(r) PROVE Goal
  BY <1>2 DEF ChargeEstimate, RequestStep
<1>3. ASSUME Interruption(r) PROVE Goal
  BY <1>2, <1>3 DEF Interruption, Release, RequestStep
<1>4. CASE PreProviderLiveBurn(r) \/ LiveBurnStop(r)
  BY <1>2, <1>4 DEF PreProviderLiveBurn, LiveBurnStop
<1>5. CASE StreamFails(r) \/ Cancel(r)
  BY <1>3, <1>5 DEF StreamFails, Cancel
<1>6. ASSUME NEW u \in Amount, Respond(r, u) PROVE Goal
  BY <1>6 DEF Respond, RequestStep
<1>7. CASE ProviderFails(r)
  BY <1>7 DEF ProviderFails, Release, RequestStep
<1>8. CASE RecordWrite(r)
  <2>1. usage[r] \in Amount
    BY <1>8 DEF ChatInv, Progress, RecordWrite
  <2> QED BY <1>8, <2>1 DEF RecordWrite, RequestStep
<1>9. CASE Finalize(r)
  BY <1>9 DEF Finalize, RequestStep
<1>10. CASE Mark(r)
  BY <1>10 DEF Mark, RequestStep
<1>11. ASSUME \/ OpenStream(r)
              \/ Chunk(r)
              \/ \E u \in Amount : StreamCompletes(r, u)
              \/ RecordRead(r)
              \/ SendDone(r)
              \/ DropAtYield(r)
              \/ Crash(r)
       PROVE  Goal
  BY <1>11 DEF OpenStream, Chunk, StreamCompletes, RecordRead, SendDone,
               DropAtYield, Crash
<1> QED
  <2> HIDE DEF Goal
  <2> QED BY <1>1, <1>4, <1>5, <1>6, <1>7, <1>8, <1>9, <1>10, <1>11, SMTT(30)
             DEF HandlerStep

\* Every step of the system is a step of QuotaLedger or none.
LEMMA StepUsesLedger ==
    ASSUME ChatInv, [ChatNext]_chatVars
    PROVE  [Next]_vars
<1>1. ASSUME NEW r \in Request, HandlerStep(r) PROVE [Next]_vars
  BY <1>1, HandlerTransaction DEF Next
<1>2. ASSUME NEW r \in Request, WorkerStep(r) PROVE Next
  BY <1>2 DEF WorkerStep, Next, RepairStep
<1>3. ASSUME NEW k \in Key, OperatorZeroesReserved(k) PROVE Next
  BY <1>3, ZenonT(30) DEF OperatorZeroesReserved, Next, OperatorStep
<1>4. CASE UNCHANGED chatVars
  BY <1>4 DEF chatVars, vars
<1> QED
  BY <1>1, <1>2, <1>3, <1>4 DEF ChatNext, RequestOrWorkerStep

-----------------------------------------------------------------------------
(* The invariant *)

\* A handler moves only itself.
LEMMA HandlerFrame ==
    ASSUME ChatInv, NEW r \in Request, HandlerStep(r)
    PROVE  /\ \A x \in Request \ {r} : /\ pc'[x] = pc[x]
                                       /\ told'[x] = told[x]
                                       /\ usage'[x] = usage[x]
                                       /\ x \in out' <=> x \in out
           /\ ChatTypeOK'
<1> DEFINE Moved ==
      /\ \E p \in Places : pc' = [pc EXCEPT ![r] = p]
      /\ \E w \in {"nothing", "done", "error", "gone"} :
            told' = [told EXCEPT ![r] = w]
      /\ \E u \in Amount \cup {NoUsage} : usage' = [usage EXCEPT ![r] = u]
      /\ out' = out \/ (out' = out \cup {r} /\ r \in Streaming)
<1>0. SUFFICES Moved
  <2>1. ASSUME NEW p \in Places, NEW w \in {"nothing", "done", "error", "gone"},
               NEW u \in Amount \cup {NoUsage},
               pc' = [pc EXCEPT ![r] = p],
               told' = [told EXCEPT ![r] = w],
               usage' = [usage EXCEPT ![r] = u],
               out' = out \/ (out' = out \cup {r} /\ r \in Streaming)
        PROVE  /\ \A x \in Request \ {r} : /\ pc'[x] = pc[x]
                                           /\ told'[x] = told[x]
                                           /\ usage'[x] = usage[x]
                                           /\ x \in out' <=> x \in out
               /\ ChatTypeOK'
    BY <2>1 DEF ChatInv, ChatTypeOK
  <2> QED BY <2>1, ZenonT(30)
<1>1. /\ told = [told EXCEPT ![r] = told[r]]
      /\ told[r] \in {"nothing", "done", "error", "gone"}
      /\ usage = [usage EXCEPT ![r] = usage[r]]
      /\ usage[r] \in Amount \cup {NoUsage}
      /\ pc = [pc EXCEPT ![r] = pc[r]]
      /\ pc[r] \in Places
  BY DEF ChatInv, ChatTypeOK
<1>2. CASE Start(r) \/ PreProviderLiveBurn(r) \/ ProviderFails(r) \/ OpenStream(r)
           \/ LiveBurnStop(r) \/ StreamFails(r)
  BY <1>1, <1>2 DEF Start, PreProviderLiveBurn, ProviderFails, OpenStream,
                    LiveBurnStop, StreamFails, Goto, Close, Places
<1>3. ASSUME NEW u \in Amount, Respond(r, u) \/ StreamCompletes(r, u)
      PROVE  Moved
  BY <1>1, <1>3 DEF Respond, StreamCompletes, Goto, Close, Places
<1>4. CASE Chunk(r)
  BY <1>1, <1>4 DEF Chunk, ChatInv, Progress
<1>5. CASE RecordRead(r) \/ RecordWrite(r) \/ Finalize(r) \/ Mark(r)
           \/ SendDone(r) \/ Cancel(r) \/ DropAtYield(r) \/ Crash(r)
  BY <1>1, <1>5 DEF RecordRead, RecordWrite, Finalize, Mark, SendDone, Cancel,
                    DropAtYield, Crash, Goto, Close, Places
<1> HIDE DEF Moved
<1> QED
  BY <1>2, <1>3, <1>4, <1>5 DEF HandlerStep

\* What the ledger transactions of a handler do to its own rows.
LEMMA OwnEstimate ==
    ASSUME TypeOK, NEW r \in Request, ChargeEstimate(r)
    PROVE  /\ \/ resv'[r] = resv[r]
              \/ resv'[r].status = "finalized"
           /\ resv'[r].fenced = resv[r].fenced
BY SMT DEF ChargeEstimate, InterruptWithEstimate, Charge, TypeOK, Reservations, vars

\* Releasing on behalf of a failed call leaves the reservation or releases it.
LEMMA OwnRelease ==
    ASSUME TypeOK, NEW r \in Request, Release(r)
    PROVE  /\ \/ resv'[r] = resv[r]
              \/ resv'[r].status = "released"
           /\ resv'[r].fenced = resv[r].fenced
BY SMT DEF Release, FailAndRelease, GiveBack, TypeOK, Reservations, vars

\* Closing a handler that has not sent everything needs little.
LEMMA ClosedProgress ==
    ASSUME NEW r \in Request, ~resv'[r].fenced, pc'[r] = "closed",
           told'[r] = "done" => Accounted(r)',
           resv'[r].status = "released" => r \notin out'
    PROVE  Progress(r)'
BY DEF Progress

\* A step of a handler keeps what its place in the code says of its own rows.
LEMMA OwnProgress ==
    ASSUME ChatInv, NEW r \in Request, HandlerStep(r)
    PROVE  Progress(r)'
<1>0. TypeOK /\ ChatTypeOK /\ Progress(r)
  BY DEF ChatInv
<1>1. CASE Start(r)
  <2>1. ASSUME NEW a \in Amount, Reserve(r, a), Goto(r, "admitted"),
               UNCHANGED <<told, out, usage>>
        PROVE  Progress(r)'
    <3>1. /\ resv'[r].status = "pending" /\ ~resv'[r].fenced
          /\ ledger' = ledger
      BY <1>0, <2>1, SMTT(30) DEF Reserve, Admit, TypeOK
    <3>2. ledger[r].status = "none" /\ told[r] = "nothing" /\ r \notin out
      BY <1>0, <1>1, <2>1, SMTT(30) DEF Start, Reserve, Progress, Accounted
    <3> QED BY <1>0, <2>1, <3>1, <3>2, SMTT(30) DEF Goto, Progress, ChatTypeOK
  <2>2. CASE Close(r, "error") /\ UNCHANGED vars /\ UNCHANGED <<out, usage>>
    <3>1. resv[r].status # "released"
      BY <1>0, <1>1, SMTT(30) DEF Start, Progress
    <3> QED BY <1>0, <2>2, <3>1, ClosedProgress, SMTT(30)
               DEF Close, Goto, Progress, ChatTypeOK, vars
  <2> QED BY <1>1, <2>1, <2>2 DEF Start
<1>2. CASE PreProviderLiveBurn(r) \/ LiveBurnStop(r)
  <2>1. /\ pc'[r] = "closed" /\ told'[r] = "error" /\ out' = out
        /\ ChargeEstimate(r) /\ resv[r].status # "released"
    BY <1>0, <1>2, SMTT(30) DEF PreProviderLiveBurn, LiveBurnStop, Close, Goto, ChatTypeOK,
                      Progress
  <2> QED BY <1>0, <2>1, OwnEstimate, ClosedProgress, SMTT(30) DEF Progress
<1>3. ASSUME NEW u \in Amount, Respond(r, u) PROVE Progress(r)'
  <2>1. pc'[r] = "closed" /\ out' = out /\ resv[r].status # "released"
    BY <1>0, <1>3, SMTT(30) DEF Respond, Close, Goto, ChatTypeOK, Progress
  <2>2. CASE FinalizeSuccess(r, u) /\ Close(r, "done")
    <3>1. Accounted(r)' /\ ~resv'[r].fenced /\ resv'[r].status = "finalized"
      BY <1>0, <1>3, <2>2, SMTT(30)
         DEF Respond, FinalizeSuccess, Charge, InsertLedger, LedgerRow, NoLedger,
             Accounted, TypeOK, ChatTypeOK, Reservations
    <3> QED BY <2>1, <3>1, ClosedProgress, SMTT(30)
  <2>3. CASE Close(r, "error") /\ UNCHANGED vars
    <3>1. told'[r] = "error" /\ resv' = resv
      BY <1>0, <2>3 DEF Close, ChatTypeOK, vars
    <3> QED BY <1>0, <2>1, <3>1, ClosedProgress, SMTT(30) DEF Progress
  <2> QED BY <1>3, <2>2, <2>3 DEF Respond
<1>4. ASSUME Interruption(r), pc'[r] = "closed", out' = out,
             resv[r].status # "released", told'[r] # "done"
      PROVE  Progress(r)'
  <2>1. CASE r \in out
    BY <1>0, <1>4, <2>1, OwnEstimate, ClosedProgress, SMTT(30) DEF Interruption, Progress
  <2>2. CASE r \notin out
    BY <1>0, <1>4, <2>2, OwnRelease, ClosedProgress, SMTT(30) DEF Interruption, Progress
  <2> QED BY <2>1, <2>2
<1>5. CASE StreamFails(r) \/ Cancel(r)
  <2>1. /\ Interruption(r) /\ pc'[r] = "closed" /\ out' = out
        /\ resv[r].status # "released" /\ told'[r] # "done"
    BY <1>0, <1>5, SMTT(30) DEF StreamFails, Cancel, Close, Goto, ChatTypeOK, Progress
  <2> QED BY <1>4, <2>1
<1>6. CASE ProviderFails(r)
  <2>1. /\ Release(r)
        /\ pc'[r] = "closed" /\ told'[r] = "error" /\ r \notin out'
    BY <1>0, <1>6, SMTT(30) DEF ProviderFails, Close, Goto, ChatTypeOK, Progress
  <2> QED BY <1>0, <2>1, OwnRelease, ClosedProgress, SMTT(30) DEF Progress
<1>7. CASE OpenStream(r) \/ Chunk(r) \/ RecordRead(r)
           \/ (\E u \in Amount : StreamCompletes(r, u))
  <2>0. resv' = resv /\ ledger' = ledger
    BY <1>7 DEF OpenStream, Chunk, StreamCompletes, RecordRead, vars
  <2>1. CASE OpenStream(r)
    BY <1>0, <2>0, <2>1, SMTT(30) DEF OpenStream, Goto, Progress, Accounted, ChatTypeOK
  <2>2. CASE Chunk(r)
    BY <1>0, <2>0, <2>2, SMTT(30) DEF Chunk, Progress, Accounted, ChatTypeOK
  <2>3. CASE RecordRead(r)
    BY <1>0, <2>0, <2>3, SMTT(30) DEF RecordRead, Goto, Close, Progress, Accounted, ChatTypeOK
  <2>4. ASSUME NEW u \in Amount, StreamCompletes(r, u) PROVE Progress(r)'
    BY <1>0, <2>0, <2>4, SMTT(30) DEF StreamCompletes, Goto, Progress, Accounted, ChatTypeOK
  <2> QED BY <1>7, <2>1, <2>2, <2>3, <2>4
<1>8. CASE RecordWrite(r)
  <2>1. CASE RecordCompleted(r, usage[r]) /\ Goto(r, "finalizing")
             /\ UNCHANGED <<told, out, usage>>
    BY <1>0, <1>8, <2>1, SMTT(30)
       DEF RecordWrite, RecordCompleted, InsertLedger, LedgerRow, NoLedger, Goto,
           Progress, Accounted, TypeOK, ChatTypeOK, LedgerRows
  <2>2. CASE ledger[r].status # "none" /\ UNCHANGED vars /\ Goto(r, "finalizing")
             /\ UNCHANGED <<told, out, usage>>
    BY <1>0, <1>8, <2>2, SMTT(30) DEF RecordWrite, Goto, Progress, Accounted, ChatTypeOK,
                            vars
  <2>3. CASE Close(r, "error") /\ UNCHANGED vars /\ UNCHANGED <<out, usage>>
    <3>1. /\ pc'[r] = "closed" /\ told'[r] # "done" /\ ~resv'[r].fenced
          /\ resv'[r].status # "released"
      BY <1>0, <1>8, <2>3, SMTT(30) DEF RecordWrite, Close, Goto, Progress, ChatTypeOK, vars
    <3> QED BY <3>1, ClosedProgress
  <2> QED BY <1>8, <2>1, <2>2, <2>3, SMTT(30) DEF RecordWrite
<1>9. CASE Finalize(r)
  <2>1. CASE FinalizeCompleted(r) /\ Goto(r, "finalized")
    BY <1>0, <1>9, <2>1, SMTT(30)
       DEF Finalize, FinalizeCompleted, Charge, CanSettle, Goto, Progress,
           Accounted, TypeOK, ChatTypeOK, Reservations, LedgerRows
  <2>2. CASE Goto(r, "marking") /\ UNCHANGED vars
    BY <1>0, <1>9, <2>2, SMTT(30) DEF Finalize, Goto, Progress, Accounted, ChatTypeOK, vars
  <2> QED BY <1>9, <2>1, <2>2 DEF Finalize
<1>10. CASE Mark(r)
  BY <1>0, <1>10, SMTT(30) DEF Mark, MarkFinalizationFailed, Goto, Close, Progress,
                     Accounted, ChatTypeOK
<1>11. CASE SendDone(r) \/ DropAtYield(r) \/ Crash(r)
  <2>1. resv' = resv /\ ledger' = ledger /\ out' = out /\ usage' = usage
    BY <1>11 DEF SendDone, DropAtYield, Crash, vars
  <2>2. /\ pc[r] \notin {"idle", "closed"} /\ pc'[r] = "closed"
        /\ \/ told'[r] = told[r]
           \/ told'[r] = "gone"
           \/ told'[r] = "done" /\ pc[r] = "finalized"
    BY <1>0, <1>11, SMTT(30) DEF SendDone, DropAtYield, Crash, Goto, Close, ChatTypeOK
  <2> QED BY <1>0, <2>1, <2>2, SMTT(30) DEF Progress, Accounted
<1> QED
  BY <1>1, <1>2, <1>3, <1>5, <1>6, <1>7, <1>8, <1>9, <1>10, <1>11
     DEF HandlerStep

\* Time and the jobs settle a reservation under its handler at any place.
LEMMA WorkerProgress ==
    ASSUME ChatInv, NEW r \in Request, WorkerStep(r)
    PROVE  Progress(r)'
<1>0. TypeOK /\ Progress(r) /\ UNCHANGED <<pc, out, usage, told>>
  BY DEF ChatInv, WorkerStep, gatewayVars
<1>1. CASE PassExpiry(r)
  BY <1>0, <1>1, SMTT(30) DEF PassExpiry, Progress, Accounted
<1>2. CASE ExpireReservation(r)
  <2>1. /\ resv[r].status = "pending" /\ resv'[r].status = "expired"
        /\ resv'[r].fenced = resv[r].fenced
        /\ ledger'[r].status # "none"
    BY <1>0, <1>2 DEF ExpireReservation, GiveBack, CanSettle, LedgerRow,
                      NoLedger, TypeOK, Reservations, LedgerRows
  <2> QED BY <1>0, <2>1, SMTT(30) DEF Progress, Accounted
<1>3. CASE ReconcileCompleted(r)
  <2>1. /\ resv[r].status = "pending" /\ resv'[r].status = "finalized"
        /\ resv'[r].fenced = resv[r].fenced
        /\ ledger'[r].status # "none"
    BY <1>0, <1>3 DEF ReconcileCompleted, Charge, CanSettle, TypeOK,
                      Reservations, LedgerRows
  <2> QED BY <1>0, <2>1, SMTT(30) DEF Progress, Accounted
<1> QED BY <1>1, <1>2, <1>3 DEF WorkerStep

\* Only a step for the request itself touches what Progress speaks of.
LEMMA OthersProgress ==
    ASSUME NEW x \in Request, Progress(x),
           resv'[x] = resv[x], ledger'[x] = ledger[x],
           pc'[x] = pc[x], told'[x] = told[x], usage'[x] = usage[x],
           x \in out' <=> x \in out
    PROVE  Progress(x)'
BY SMTT(30) DEF Progress, Accounted

\* Nothing has happened before the first request: the invariant holds.
LEMMA InitChatInv == ChatInit => ChatInv
<1> SUFFICES ASSUME ChatInit PROVE ChatInv
  OBVIOUS
<1>1. TypeOK
  BY InitIInv DEF ChatInit, IInv
<1>2. ChatTypeOK
  BY DEF ChatInit, ChatTypeOK, Places
<1>3. ASSUME NEW r \in Request PROVE Progress(r)
  BY SMTT(30) DEF ChatInit, Init, NoReservation, NoLedger, Progress
<1> QED BY <1>1, <1>2, <1>3 DEF ChatInv

\* No step of a handler, a repair or the operator breaks the invariant.
LEMMA NextChatInv == ChatInv /\ [ChatNext]_chatVars => ChatInv'
<1> SUFFICES ASSUME ChatInv, [ChatNext]_chatVars PROVE ChatInv'
  OBVIOUS
<1>1. TypeOK'
  <2>1. TypeOK /\ (Next \/ UNCHANGED vars)
    BY StepUsesLedger DEF ChatInv
  <2>2. CASE UNCHANGED vars
    BY <2>1, <2>2 DEF vars, TypeOK
  <2> QED BY <2>1, <2>2, TypeOKStep
<1>2. ASSUME NEW r \in Request, HandlerStep(r) PROVE ChatInv'
  <2>1. ASSUME NEW x \in Request \ {r} PROVE Progress(x)'
    BY <1>2, <2>1, HandlerTransaction, LedgerFrame, HandlerFrame, OthersProgress, SMTT(30)
       DEF ChatInv
  <2> QED BY <1>1, <1>2, <2>1, OwnProgress, HandlerFrame, SMTT(30) DEF ChatInv
<1>3. ASSUME NEW r \in Request, WorkerStep(r) PROVE ChatInv'
  <2>0. UNCHANGED <<pc, out, usage, told>> /\ RepairStep(r)
    BY <1>3 DEF WorkerStep, gatewayVars, RepairStep
  <2>1. ASSUME NEW x \in Request \ {r} PROVE Progress(x)'
    BY <2>0, <2>1, LedgerFrame, OthersProgress, SMTT(30) DEF ChatInv
  <2>2. ChatTypeOK'
    BY <2>0 DEF ChatInv, ChatTypeOK
  <2> QED BY <1>1, <1>3, <2>1, <2>2, WorkerProgress DEF ChatInv
<1>4. ASSUME UNCHANGED <<resv, ledger, pc, out, usage, told>> PROVE ChatInv'
  <2>1. ChatTypeOK'
    BY <1>4 DEF ChatInv, ChatTypeOK
  <2>2. ASSUME NEW x \in Request PROVE Progress(x)'
    BY <1>4, OthersProgress DEF ChatInv
  <2> QED BY <1>1, <2>1, <2>2 DEF ChatInv
<1>5. ASSUME NEW k \in Key, OperatorZeroesReserved(k) PROVE ChatInv'
  BY <1>4, <1>5 DEF OperatorZeroesReserved, ResetUsage, gatewayVars
<1>6. CASE UNCHANGED chatVars
  BY <1>4, <1>6 DEF chatVars, vars, gatewayVars
<1> QED BY <1>2, <1>3, <1>5, <1>6 DEF ChatNext, RequestOrWorkerStep

-----------------------------------------------------------------------------
(* Theorems *)

\* ChatInv is an invariant of the handlers, the jobs and the operator.
THEOREM ChatInvariance == ChatSpec => []ChatInv
BY InitChatInv, NextChatInv, PTL DEF ChatSpec

\* The variables of chat_completion_gateway's handlers stay in their domains.
THEOREM ChatTypeCorrect == ChatSpec => []ChatTypeOK
<1>1. ChatInv => ChatTypeOK
  BY DEF ChatInv
<1> QED BY <1>1, ChatInvariance, PTL

\* A client of the chat endpoint that has got [DONE], or the whole JSON
\* response, has been charged for what the provider reported.
THEOREM DoneCorrect == ChatSpec => []DoneIsCharged
<1>1. ChatInv => DoneIsCharged
  BY SMTT(30) DEF ChatInv, Progress, Accounted, DoneIsCharged
<1> QED BY <1>1, ChatInvariance, PTL

\* No handler releases a reservation whose output has reached the client:
\* _finalize_streaming_interruption_after_output charges it instead.
THEOREM OutputCorrect == ChatSpec => []OutputNotReleased
<1>1. ChatInv => OutputNotReleased
  BY SMTT(30) DEF ChatInv, Progress, OutputNotReleased
<1> QED BY <1>1, ChatInvariance, PTL

\* The chat handlers with the jobs and the operator implement QuotaLedger.
THEOREM ChatImplementsLedger == ChatSpec => UsesLedger
<1>1. ChatInit => Init
  BY DEF ChatInit
<1>2. ChatInv /\ [ChatNext]_chatVars => [Next]_vars
  BY StepUsesLedger
<1> QED BY <1>1, <1>2, ChatInvariance, PTL DEF ChatSpec, UsesLedger

\* Therefore concurrent chat requests, the jobs and the operator together
\* never overspend a key.
THEOREM ChatNeverOverspent == ChatSpec => []NoOverspend
<1>1. UsesLedger => Spec
  BY DEF UsesLedger, Spec
<1> QED BY <1>1, ChatImplementsLedger, NeverOverspent, PTL

-----------------------------------------------------------------------------
(* The ledger implements KeyBudget *)

\* What the budget sees of the rows: the same open and charged requests, and
\* the sums of the counters.
LEMMA BudgetView ==
    ASSUME TypeOK, NEW k \in Key
    PROVE  /\ Budget!Open(k) = PendingOf(k)
           /\ Budget!Charged(k) = ChargedOf(k)
           /\ \A d \in Dim : Budget!Exposure(k, d) = PendingSum(k, d) + ChargedSum(k, d)
<1>1. Budget!Open(k) = PendingOf(k)
  BY DEF Budget!Open, PendingOf, Phase
<1>2. Budget!Charged(k) = ChargedOf(k)
  BY DEF Budget!Charged, ChargedOf, Phase
<1>3. ASSUME NEW d \in Dim
      PROVE  Budget!Exposure(k, d) = PendingSum(k, d) + ChargedSum(k, d)
  <2> DEFINE held == [r \in Request |-> [q \in Request |-> resv[q].amount][r][d]]
             paid == [r \in Request |->
                        [q \in Request |-> IF resv[q].status = "finalized"
                                           THEN ledger[q].actual ELSE Zero][r][d]]
  <2>1. Total(PendingOf(k), held) = PendingSum(k, d)
    <3>1. \A r \in PendingOf(k) : held[r] = Held(d)[r]
      BY DEF PendingOf, Held
    <3> HIDE DEF held
    <3> QED BY <3>1, TotalSame, Zenon DEF PendingSum
  <2>2. Total(ChargedOf(k), paid) = ChargedSum(k, d)
    <3>1. \A r \in ChargedOf(k) : paid[r] = Actual(d)[r]
      BY DEF ChargedOf, Actual
    <3> HIDE DEF paid
    <3> QED BY <3>1, TotalSame, Zenon DEF ChargedSum
  <2>3. Budget!Exposure(k, d) = Total(PendingOf(k), held) + Total(ChargedOf(k), paid)
    BY <1>1, <1>2, Zenon DEF Budget!Exposure
  <2> QED BY <2>1, <2>2, <2>3, Zenon
<1> QED
  BY <1>1, <1>2, <1>3

\* A key without a fence is at its operator's disposal.
LEMMA UnfencedIsFree ==
    ASSUME IInv, NEW k \in Key, fence[k].state = "none"
    PROVE  Budget!Free(k)
<1>1. \A r \in PendingOf(k) : ~resv[r].fenced
  BY NoRequestType, SMT DEF IInv, FenceExclusive, PendingOf
<1>2. Budget!Open(k) = PendingOf(k)
  BY BudgetView DEF IInv
<1>3. PendingOf(k) \subseteq Request
  BY DEF PendingOf
<1> QED
  BY <1>1, <1>2, <1>3 DEF Budget!Free

\* A fresh ledger is a fresh budget.
LEMMA BudgetInitial == Init => Budget!BudgetInit
<1> SUFFICES ASSUME Init PROVE Budget!BudgetInit
  OBVIOUS
<1>1. limit \in [Key -> [Dim -> Nat \cup {NoLimit}]]
  BY LimitsType DEF Init
<1> QED
  BY <1>1 DEF Init, NoReservation, Phase, Zero, Budget!BudgetInit, Budget!Nothing

\* An admission takes a hold that fits.
LEMMA AdmittedTakes ==
    ASSUME IInv, NEW r \in Request, NEW a \in Counters, Admitted(r, a)
    PROVE  Budget!Take(r)
<1> DEFINE k == KeyOf[r]
<1>0. k \in Key /\ TypeOK
  BY KeyOfType DEF IInv
<1> PICK b \in BOOLEAN : /\ b => PendingOf(k) = {}
                         /\ Admit(r, a, b)
  BY DEF Admitted
<1>1. /\ resv[r].status = "none"
      /\ resv' = [resv EXCEPT ![r] = [status |-> "pending", amount |-> a, fenced |-> b]]
      /\ UNCHANGED <<limit, ledger, drift, cleared>>
  BY DEF Admitted, Admit
<1>2. /\ resv'[r] = [status |-> "pending", amount |-> a, fenced |-> b]
      /\ \A q \in Request \ {r} : resv'[q] = resv[q]
  BY <1>0, <1>1, SMTT(30) DEF TypeOK
<1>3. \A d \in Dim : limit[k][d] # NoLimit /\ k \notin drift =>
         Budget!Exposure(k, d) + a[d] <= limit[k][d]
  <2> SUFFICES ASSUME NEW d \in Dim, limit[k][d] # NoLimit, k \notin drift
               PROVE  Budget!Exposure(k, d) + a[d] <= limit[k][d]
    OBVIOUS
  <2>1. Budget!Exposure(k, d) = PendingSum(k, d) + ChargedSum(k, d)
    BY <1>0, BudgetView
  <2>2. reserved[k][d] = PendingSum(k, d) /\ used[k][d] = ChargedSum(k, d)
    BY <1>0 DEF IInv, ReservedIsPending, UsedIsLedger, PendingSum, ChargedSum
  <2>3. used[k][d] + reserved[k][d] + a[d] <= limit[k][d]
    BY DEF Admitted, WithinLimits
  <2>4. used[k][d] \in Nat /\ reserved[k][d] \in Nat /\ a[d] \in Nat
    BY <1>0, ZenonT(60) DEF TypeOK, Counters
  <2> HIDE DEF k
  <2>5. Budget!Exposure(k, d) + a[d] = used[k][d] + reserved[k][d] + a[d]
    BY <2>1, <2>2, <2>4, SMT
  <2> QED BY <2>3, <2>5
<1>4. Budget!Free(k)
  BY <1>0, UnfencedIsFree DEF Admitted
<1>5. b => Budget!Open(k) = {}
  BY <1>0, BudgetView
<1> DEFINE phase == [q \in Request |-> Phase(q)]
           hold == [q \in Request |-> resv[q].amount]
           cost == [q \in Request |-> IF resv[q].status = "finalized"
                                      THEN ledger[q].actual ELSE Zero]
           alone == [q \in Request |-> resv[q].fenced]
<1>6. phase[r] = "new" /\ phase' = [phase EXCEPT ![r] = "open"]
  <2>1. Phase(r) = "new" /\ Phase(r)' = "open"
    BY <1>1, <1>2, SMT DEF Phase
  <2>2. \A q \in Request \ {r} : Phase(q)' = Phase(q)
    BY <1>2 DEF Phase
  <2> QED BY <2>1, <2>2
<1>7. hold'[r] = a /\ hold' = [hold EXCEPT ![r] = a]
  <2>1. resv'[r].amount = a /\ \A q \in Request \ {r} : resv'[q].amount = resv[q].amount
    BY <1>2, SMT
  <2> QED BY ONLY r \in Request, <2>1
<1>8. alone'[r] = b /\ alone' = [alone EXCEPT ![r] = b]
  <2>1. resv'[r].fenced = b /\ \A q \in Request \ {r} : resv'[q].fenced = resv[q].fenced
    BY <1>2, SMT
  <2> QED BY ONLY r \in Request, <2>1
<1>9. cost' = cost
  BY <1>1, <1>2, SMT
<1> HIDE DEF phase, hold, cost, alone
<1> QED
  BY <1>0, <1>1, <1>3, <1>4, <1>5, <1>6, <1>7, <1>8, <1>9
     DEF Budget!Take, Budget!Set, Budget!Sums, Counters, phase, hold, cost, alone

\* Whatever ends a reservation ends its hold.
LEMMA SettledEnds ==
    ASSUME IInv, NEW r \in Request, resv[r].status = "pending",
           NEW s \in {"finalized", "released", "expired"},
           resv' = [resv EXCEPT ![r].status = s],
           \A q \in Request \ {r} : ledger'[q] = ledger[q],
           s = "finalized" => ledger'[r].actual \in Counters,
           UNCHANGED <<limit, drift, cleared>>
    PROVE  Budget!Charge(r) \/ Budget!Return(r)
<1>0. TypeOK
  BY DEF IInv
<1>1. /\ resv'[r].status = s
      /\ \A q \in Request \ {r} : resv'[q] = resv[q]
      /\ \A q \in Request : /\ resv'[q].amount = resv[q].amount
                            /\ resv'[q].fenced = resv[q].fenced
  BY <1>0 DEF TypeOK, Reservations
<1> DEFINE phase == [q \in Request |-> Phase(q)]
           hold == [q \in Request |-> resv[q].amount]
           cost == [q \in Request |-> IF resv[q].status = "finalized"
                                      THEN ledger[q].actual ELSE Zero]
           alone == [q \in Request |-> resv[q].fenced]
           end == IF s = "finalized" THEN "charged" ELSE "returned"
<1>2. phase[r] = "open" /\ phase' = [phase EXCEPT ![r] = end]
  <2>1. Phase(r) = "open" /\ Phase(r)' = end
    BY <1>1 DEF Phase
  <2>2. \A q \in Request \ {r} : Phase(q)' = Phase(q)
    BY <1>1 DEF Phase
  <2> HIDE DEF end
  <2> QED BY <2>1, <2>2
<1>3. hold' = hold /\ alone' = alone
  BY <1>1
<1>4. CASE s = "finalized"
  <2>1. \A q \in Request \ {r} :
           (IF resv[q].status = "finalized" THEN ledger[q].actual ELSE Zero)'
             = (IF resv[q].status = "finalized" THEN ledger[q].actual ELSE Zero)
    BY <1>1
  <2>2. cost'[r] = ledger'[r].actual
    BY <1>1, <1>4
  <2>3. cost' = [cost EXCEPT ![r] = cost'[r]]
    BY <2>1
  <2> HIDE DEF phase, hold, cost, alone
  <2>4. Budget!Charge(r)
    BY <1>2, <1>3, <1>4, <2>2, <2>3
       DEF Budget!Charge, Budget!Set, Budget!Sums, Counters, phase, hold, cost, alone
  <2> QED BY <2>4
<1>5. CASE s # "finalized"
  <2>1. cost' = cost
    BY <1>1, <1>5
  <2> HIDE DEF phase, hold, cost, alone
  <2>2. Budget!Return(r)
    BY <1>2, <1>3, <1>5, <2>1 DEF Budget!Return, phase, hold, cost, alone
  <2> QED BY <2>2
<1> QED
  BY <1>4, <1>5

\* A reset of counters forgets charges, or waives the limits.
LEMMA ResetIsReset ==
    ASSUME IInv, NEW k \in Key, NEW u \in BOOLEAN, NEW v \in BOOLEAN,
           ResetUsage(k, u, v)
    PROVE  Budget!Reset(k)
<1>1. Budget!Free(k) /\ Budget!Charged(k) = ChargedOf(k)
  BY UnfencedIsFree, BudgetView DEF ResetUsage, IInv
<1>2. UNCHANGED <<resv, ledger, limit>>
  BY DEF ResetUsage
<1>3. /\ cleared' \in {cleared, cleared \cup ChargedOf(k)}
      /\ drift' \in {drift, drift \cup {k}}
  BY DEF ResetUsage
<1> QED
  BY <1>1, <1>2, <1>3 DEF Budget!Reset, Phase

\* Everything else is seen as new limits or not at all.
LEMMA UnmovedStutters ==
    ASSUME IInv, Unmoved
    PROVE  (\E k \in Key : Budget!Relimit(k)) \/ UNCHANGED Budget!budgetVars
<1> DEFINE cost(q) == IF resv[q].status = "finalized" THEN ledger[q].actual ELSE Zero
<1>1. resv' = resv /\ drift' = drift /\ cleared' = cleared
  BY DEF Unmoved
<1>2. \A q \in Request : cost(q)' = cost(q)
  BY <1>1 DEF Unmoved
<1>3. [q \in Request |-> cost(q)]' = [q \in Request |-> cost(q)]
  BY <1>2
<1>4. CASE limit' = limit
  BY <1>1, <1>3, <1>4 DEF Budget!budgetVars, Phase
<1>5. CASE Relimited
  <2> PICK k \in Key, l \in Limits : UpdateLimits(k, l)
    BY <1>5 DEF Relimited
  <2>1. Budget!Free(k) /\ limit' = [limit EXCEPT ![k] = l]
    BY UnfencedIsFree DEF UpdateLimits
  <2>2. limit'[k] = l /\ l \in [Dim -> Nat \cup {NoLimit}]
    BY <2>1, LimitsType DEF IInv, TypeOK
  <2>3. Budget!Relimit(k)
    BY <1>1, <1>3, <2>1, <2>2 DEF Budget!Relimit, Budget!Set, Phase
  <2> QED BY <2>3
<1> QED
  BY <1>4, <1>5 DEF Unmoved

\* Every transaction is a step of the budget, or none.
LEMMA BudgetStep ==
    ASSUME IInv, [Next]_vars
    PROVE  [Budget!BudgetNext]_(Budget!budgetVars)
<1> DEFINE Goal == Budget!BudgetNext \/ UNCHANGED Budget!budgetVars
<1>1. ASSUME NEW r \in Request, NEW a \in Counters, Admitted(r, a) PROVE Goal
  BY <1>1, AdmittedTakes DEF Budget!BudgetNext
<1>2. ASSUME NEW r \in Request, NEW a \in Counters, Charged(r, a) PROVE Goal
  <2>1. Budget!Charge(r) \/ Budget!Return(r)
    BY <1>2, SettledEnds DEF Charged, Charge, CanSettle
  <2> QED BY <2>1 DEF Budget!BudgetNext
<1>3. ASSUME NEW r \in Request, GivenBack(r) PROVE Goal
  <2>1. Budget!Charge(r) \/ Budget!Return(r)
    BY <1>3, SettledEnds DEF GivenBack, GiveBack, CanSettle
  <2> QED BY <2>1 DEF Budget!BudgetNext
<1>4. ASSUME NEW k \in Key, NEW u \in BOOLEAN, NEW v \in BOOLEAN,
             ResetUsage(k, u, v)
      PROVE  Goal
  BY <1>4, ResetIsReset DEF Budget!BudgetNext
<1>5. ASSUME Unmoved PROVE Goal
  BY <1>5, UnmovedStutters DEF Budget!BudgetNext
<1>6. Next => Moves
  BY StepMoves DEF IInv
<1>7. UNCHANGED vars => Unmoved
  BY DEF vars, Unmoved
<1> HIDE DEF Goal
<1>8. Goal
  BY <1>1, <1>2, <1>3, <1>4, <1>5, <1>6, <1>7 DEF Moves
<1> QED
  BY <1>8 DEF Goal

\* The ledger implements the budget, for any keys, requests, amounts and
\* limits: what the counters, the locks and the fence of gateway_keys achieve
\* is what looking at all requests of the key at every admission would.
THEOREM LedgerKeepsBudget == Spec => KeepsBudget
<1>1. Init => Budget!BudgetInit
  BY BudgetInitial
<1>2. IInv /\ [Next]_vars => [Budget!BudgetNext]_(Budget!budgetVars)
  BY BudgetStep
<1> QED
  BY <1>1, <1>2, Invariance, PTL DEF Spec, KeepsBudget, Budget!BudgetSpec

\* Therefore chat requests, the jobs and the operator keep the budget of a key.
THEOREM ChatKeepsBudget == ChatSpec => KeepsBudget
<1>1. UsesLedger => Spec
  BY DEF UsesLedger, Spec
<1> QED BY <1>1, ChatImplementsLedger, LedgerKeepsBudget, PTL

=============================================================================

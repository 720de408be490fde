---------------------------- MODULE ChatGateway ----------------------------
(***************************************************************************)
(* The handler of POST /v1/chat/completions, from its quota reservation to *)
(* the end of its response, running against QuotaLedger together with the  *)
(* reconciliation jobs and an operator who zeroes reserved counters.       *)
(*                                                                         *)
(* The handler opens a fresh database session for each transaction, so     *)
(* anything may happen between two of its steps.  A transaction that       *)
(* raises leaves the rows alone; the handler reports it and stops.         *)
(***************************************************************************)
EXTENDS QuotaLedger

CONSTANTS
    Streaming,      \* the requests with stream=true
    NoUsage         \* the provider has not reported usage

ASSUME StreamingType == Streaming \subseteq Request
ASSUME NoUsageType == NoUsage \notin Amount

VARIABLES
    pc,         \* per request: where its handler is
    out,        \* the requests whose token-bearing output was forwarded
    usage,      \* per request: the usage the provider reported
    told        \* per request: what the client has got

gatewayVars == <<pc, out, usage, told>>

chatVars == <<vars, gatewayVars>>

Places == {"idle", "admitted", "streaming", "recording", "writing",
           "finalizing", "marking", "finalized", "closed"}

ChatInit ==
    /\ Init
    /\ pc = [r \in Request |-> "idle"]
    /\ out = {}
    /\ usage = [r \in Request |-> NoUsage]
    /\ told = [r \in Request |-> "nothing"]

Goto(r, place) == pc' = [pc EXCEPT ![r] = place]

\* The handler ends, and the client is left with what.
Close(r, what) ==
    /\ Goto(r, "closed")
    /\ told' = [told EXCEPT ![r] = what]

-----------------------------------------------------------------------------
(* Admission *)

\* _reserve_chat_completion_quota; it may refuse for price, policy or quota.
Start(r) ==
    /\ pc[r] = "idle"
    /\ \/ /\ \E a \in Amount : Reserve(r, a)
          /\ Goto(r, "admitted")
          /\ UNCHANGED told
       \/ /\ Close(r, "error")
          /\ UNCHANGED vars
    /\ UNCHANGED <<out, usage>>

\* The estimate is debited, or the transaction that debits it raises.
ChargeEstimate(r) ==
    \/ \E a \in Amount : InterruptWithEstimate(r, a)
    \/ UNCHANGED vars

\* The reservation is released, or the transaction that releases it raises.
Release(r) == FailAndRelease(r) \/ UNCHANGED vars

\* The live-burn budget is spent before the provider is called: the estimate
\* is debited and the request refused.
PreProviderLiveBurn(r) ==
    /\ pc[r] = "admitted"
    /\ r \in Streaming
    /\ ChargeEstimate(r)
    /\ Close(r, "error")
    /\ UNCHANGED <<out, usage>>

-----------------------------------------------------------------------------
(* A response that is not streamed *)

\* The provider answers with usage u and the response is accounted for; or
\* that raises, also because the response carries no valid usage.
Respond(r, u) ==
    /\ pc[r] = "admitted"
    /\ r \notin Streaming
    /\ usage' = [usage EXCEPT ![r] = u]
    /\ \/ FinalizeSuccess(r, u) /\ Close(r, "done")
       \/ Close(r, "error") /\ UNCHANGED vars
    /\ UNCHANGED out

\* The provider fails.
ProviderFails(r) ==
    /\ pc[r] = "admitted"
    /\ r \notin Streaming
    /\ Release(r)
    /\ Close(r, "error")
    /\ UNCHANGED <<out, usage>>

-----------------------------------------------------------------------------
(* A streamed response *)

OpenStream(r) ==
    /\ pc[r] = "admitted"
    /\ r \in Streaming
    /\ Goto(r, "streaming")
    /\ UNCHANGED <<vars, out, usage, told>>

\* A chunk with tokens passes the live-burn monitor and is forwarded.
Chunk(r) ==
    /\ pc[r] = "streaming"
    /\ out' = out \cup {r}
    /\ UNCHANGED <<vars, pc, usage, told>>

\* A chunk crosses the live-burn budget: it is withheld, the estimate is
\* debited and the stream ends.
LiveBurnStop(r) ==
    /\ pc[r] = "streaming"
    /\ ChargeEstimate(r)
    /\ Close(r, "error")
    /\ UNCHANGED <<out, usage>>

\* Mutant: the reservation is released whether or not there was output.
InterruptionReleasing(r) == Release(r)

\* _finalize_streaming_interruption_after_output
Interruption(r) == IF r \in out THEN ChargeEstimate(r) ELSE Release(r)

\* The provider fails, or ends the stream without usage.
StreamFails(r) ==
    /\ pc[r] = "streaming"
    /\ Interruption(r)
    /\ Close(r, "error")
    /\ UNCHANGED <<out, usage>>

\* The provider ends the stream and has reported usage u.
StreamCompletes(r, u) ==
    /\ pc[r] = "streaming"
    /\ usage' = [usage EXCEPT ![r] = u]
    /\ Goto(r, "recording")
    /\ UNCHANGED <<vars, out, told>>

\* record_provider_completed_before_finalization reads the reservation,
\* without a lock; it raises when that is settled or the usage is not valid.
RecordRead(r) ==
    /\ pc[r] = "recording"
    /\ \/ /\ resv[r].status = "pending"
          /\ Goto(r, "writing")
          /\ UNCHANGED told
       \/ Close(r, "error")
    /\ UNCHANGED <<vars, out, usage>>

\* Mutant: the row is written over whatever row the request has.
RecordWriteOver(r) ==
    /\ pc[r] = "writing"
    /\ ledger' = [ledger EXCEPT ![r] = LedgerRow("pending", usage[r])]
    /\ Goto(r, "finalizing")
    /\ UNCHANGED <<keyrow, limit, used, reserved, fence, resv, stale, drift,
                   cleared, ceiling, out, usage, told>>

\* It then inserts the row; or finds the row another transaction has written
\* meanwhile and takes that; or raises, for instance when the row appears
\* only after it looked (UNIQUE(request_id)).
RecordWrite(r) ==
    /\ pc[r] = "writing"
    /\ \/ /\ \/ RecordCompleted(r, usage[r])
             \/ ledger[r].status # "none" /\ UNCHANGED vars
          /\ Goto(r, "finalizing")
          /\ UNCHANGED told
       \/ Close(r, "error") /\ UNCHANGED vars
    /\ UNCHANGED <<out, usage>>

\* Mutant: [DONE] goes out though the finalization was rolled back.
FinalizeOrNot(r) ==
    /\ pc[r] = "finalizing"
    /\ FinalizeCompleted(r) \/ UNCHANGED vars
    /\ Goto(r, "finalized")
    /\ UNCHANGED <<out, usage, told>>

\* _finalize_successful_chat_completion for the recorded row.  It is rolled
\* back when the reservation or the counters do not allow it, and when the
\* write of the row fails (LedgerWriteError).
Finalize(r) ==
    /\ pc[r] = "finalizing"
    /\ \/ FinalizeCompleted(r) /\ Goto(r, "finalized")
       \/ Goto(r, "marking") /\ UNCHANGED vars
    /\ UNCHANGED <<out, usage, told>>

\* _mark_provider_completed_finalization_failed
Mark(r) ==
    /\ pc[r] = "marking"
    /\ MarkFinalizationFailed(r)
    /\ Close(r, "error")
    /\ UNCHANGED <<out, usage>>

\* The held [DONE] event goes out.
SendDone(r) ==
    /\ pc[r] = "finalized"
    /\ Close(r, "done")
    /\ UNCHANGED <<vars, out, usage>>

\* The client goes away while the handler waits: CancelledError is raised in
\* it, and the interruption is accounted for under a shield.
Cancel(r) ==
    /\ pc[r] \in {"streaming", "recording", "writing", "finalizing",
                  "marking", "finalized"}
    /\ Interruption(r)
    /\ Close(r, "gone")
    /\ UNCHANGED <<out, usage>>

\* The client goes away while a chunk is being sent: the generator is closed
\* at its yield (GeneratorExit), which no except clause of it catches.
DropAtYield(r) ==
    /\ pc[r] \in {"streaming", "finalized"}
    /\ Close(r, "gone")
    /\ UNCHANGED <<vars, out, usage>>

\* The process dies, or the database cannot be reached.
Crash(r) ==
    /\ pc[r] \notin {"idle", "closed"}
    /\ Goto(r, "closed")
    /\ UNCHANGED <<vars, out, usage, told>>

-----------------------------------------------------------------------------

HandlerStep(r) ==
    \/ Start(r)
    \/ PreProviderLiveBurn(r)
    \/ \E u \in Amount : Respond(r, u) \/ StreamCompletes(r, u)
    \/ ProviderFails(r)
    \/ OpenStream(r)
    \/ Chunk(r)
    \/ LiveBurnStop(r)
    \/ StreamFails(r)
    \/ RecordRead(r)
    \/ RecordWrite(r)
    \/ Finalize(r)
    \/ Mark(r)
    \/ SendDone(r)
    \/ Cancel(r)
    \/ DropAtYield(r)
    \/ Crash(r)

\* Time, and the scheduled reconciliation of both kinds.
WorkerStep(r) ==
    /\ \/ PassExpiry(r)
       \/ ExpireReservation(r)
       \/ ReconcileCompleted(r)
    /\ UNCHANGED gatewayVars

\* slaif-gateway keys reset-usage --reset-reserved
OperatorZeroesReserved(k) ==
    /\ ResetUsage(k, FALSE, TRUE)
    /\ UNCHANGED gatewayVars

RequestOrWorkerStep == \E r \in Request : HandlerStep(r) \/ WorkerStep(r)

ChatNext ==
    \/ RequestOrWorkerStep
    \/ \E k \in Key : OperatorZeroesReserved(k)

ChatSpec == ChatInit /\ [][ChatNext]_chatVars

-----------------------------------------------------------------------------
(* Properties *)

\* The handler's own variables stay in their domains.
ChatTypeOK ==
    /\ pc \in [Request -> Places]
    /\ out \subseteq Streaming
    /\ usage \in [Request -> Amount \cup {NoUsage}]
    /\ told \in [Request -> {"nothing", "done", "error", "gone"}]

\* A client that got the whole response, [DONE] included, has been charged
\* for exactly the usage the provider reported: the held terminal event goes
\* out only after _finalize_successful_chat_completion has committed.
DoneIsCharged ==
    \A r \in Request : told[r] = "done" =>
        /\ resv[r].status = "finalized"
        /\ ledger[r].status = "finalized"
        /\ ledger[r].actual = usage[r]

\* A handler never gives a reservation back once output has been forwarded
\* ("instead of fully releasing the reservation"); only expiry may.
OutputNotReleased ==
    \A r \in Request : r \in out => resv[r].status # "released"

\* The handler, the jobs and the operator only ever do what QuotaLedger
\* allows, so all that is proved of it holds of them.
UsesLedger == Init /\ [][Next]_vars

\* Documented (docs/provider-forwarding-contract.md): "Operator
\* reconciliation can later finalize these provider-completed rows using
\* stored usage/cost metadata".  A row marked for reconciliation therefore
\* still has its pending reservation.
MarkedIsRepairable ==
    \A r \in Request : ledger[r].needsRec => resv[r].status = "pending"

=============================================================================

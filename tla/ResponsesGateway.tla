-------------------------- MODULE ResponsesGateway --------------------------
(***************************************************************************)
(* The handlers of POST /v1/responses and /v1/responses/compact, from the  *)
(* rate limiter to the end of the response, running against QuotaLedger    *)
(* together with the reconciliation commands.  Unlike chat completions, a  *)
(* request may use a tool the provider hosts: it takes the fence of its    *)
(* key, and when its cost is not certain an accounting hold keeps the key  *)
(* blocked until an operator reconciles it.                                *)
(*                                                                         *)
(* Every transaction has its own session, so anything may happen between   *)
(* two steps.  A transaction that raises leaves the rows alone.            *)
(***************************************************************************)
EXTENDS QuotaLedger

CONSTANTS
    Load,       \* workloads, by name: which requests are of which kind
    NoUsage     \* the provider has not reported usage

ASSUME KindsType ==
    \A n \in DOMAIN Load :
        /\ \A kind \in {"streaming", "hosted", "compacting", "keeping"} :
              Load[n][kind] \subseteq Request
        /\ Load[n].compacting \cap (Load[n].streaming \cup Load[n].hosted) = {}
        /\ Load[n].hosted \cap Load[n].keeping = {}
ASSUME NoUsageType == NoUsage \notin Amount

VARIABLES
    load,   \* the workload of this behaviour
    pc,     \* per request: where its handler is
    out,    \* the requests with token-bearing events seen by the monitor
    usage,  \* per request: the usage the provider reported
    told,   \* per request: what the client has got
    slot,   \* the requests that hold a concurrency slot in Redis
    refs,   \* the requests whose references are stored
    fate    \* history, per request: whether a settlement of it raised, or
            \* its handler was cut off

handlerVars == <<pc, out, usage, told, slot, refs, fate>>

responsesVars == <<vars, handlerVars, load>>

Streaming == Load[load].streaming    \* the requests with stream=true
Hosted == Load[load].hosted          \* those admitted with the hosted web_search tool
Compacting == Load[load].compacting  \* those to /v1/responses/compact
Keeping == Load[load].keeping        \* those that leave a reference (store, replay items)

ResponsesInit ==
    /\ Init
    /\ load \in DOMAIN Load
    /\ pc = [r \in Request |-> "idle"]
    /\ out = {}
    /\ usage = [r \in Request |-> NoUsage]
    /\ told = [r \in Request |-> "nothing"]
    /\ slot = {}
    /\ refs = {}
    /\ fate = [r \in Request |-> "fine"]

Goto(r, place) ==
    /\ pc' = [pc EXCEPT ![r] = place]
    /\ UNCHANGED <<told, slot>>

\* The handler ends, the client is left with what, the slot is released.
Close(r, what) ==
    /\ pc' = [pc EXCEPT ![r] = "closed"]
    /\ told' = [told EXCEPT ![r] = what]
    /\ slot' = slot \ {r}

-----------------------------------------------------------------------------
(* What the handler does with the reservation.  Each settlement may raise.  *)

Raised(r) ==
    /\ fate' = [fate EXCEPT ![r] = "unsettled"]
    /\ UNCHANGED vars

\* _record_provider_failure_and_release, with the fence when there is one
Release(r) ==
    \/ /\ IF r \in Hosted THEN FailFenced(r) ELSE FailAndRelease(r)
       /\ UNCHANGED fate
    \/ Raised(r)

\* _record_streaming_live_burn_abort_estimate and
\* _record_responses_streaming_interrupted_estimate
ChargeEstimate(r) ==
    \/ (\E a \in Amount : InterruptWithEstimate(r, a)) /\ UNCHANGED fate
    \/ Raised(r)

\* _place_external_web_search_hold
Hold(r, status) ==
    \/ PlaceHold(r, status) /\ UNCHANGED fate
    \/ Raised(r)

\* A stream is cut short: the hold of a hosted request, and otherwise
\* _finalize_responses_stream_interruption_after_output.
Interruption(r, status) ==
    IF r \in Hosted THEN Hold(r, status)
    ELSE IF r \in out THEN ChargeEstimate(r) ELSE Release(r)

-----------------------------------------------------------------------------
(* Admission *)

\* _reserve_redis_rate_limit
Limit(r) ==
    /\ pc[r] = "idle"
    /\ \/ /\ pc' = [pc EXCEPT ![r] = "limited"]
          /\ slot' = slot \cup {r}
          /\ UNCHANGED told
       \/ Close(r, "error")
    /\ UNCHANGED <<vars, out, usage, refs, fate>>

\* _reserve_responses_quota
ReserveQuota(r) ==
    /\ pc[r] = "limited"
    /\ \/ /\ IF r \in Hosted THEN AcquireFence(r)
                             ELSE \E a \in Amount : Reserve(r, a)
          /\ Goto(r, "admitted")
       \/ Close(r, "error") /\ UNCHANGED vars
    /\ UNCHANGED <<out, usage, refs, fate>>

\* The live-burn budget is spent before the provider is called.  A hosted
\* request has no such budget.
PreProviderLiveBurn(r) ==
    /\ pc[r] = "admitted"
    /\ r \in Streaming \ Hosted
    /\ ChargeEstimate(r)
    /\ Close(r, "error")
    /\ UNCHANGED <<out, usage, refs>>

\* The provider adapter cannot be built: nothing was sent.  Neither compact
\* nor the stream accounts for an exception that is not a ProviderError.
AdapterFails(r) ==
    /\ pc[r] = "admitted"
    /\ \/ Release(r)
       \/ /\ r \in Compacting \cup (Streaming \ Hosted)
          /\ Raised(r)
    /\ Close(r, "error")
    /\ UNCHANGED <<out, usage, refs>>

-----------------------------------------------------------------------------
(* A response that is not streamed *)

CallProvider(r) ==
    /\ pc[r] = "admitted"
    /\ r \notin Streaming
    /\ Goto(r, "calling")
    /\ UNCHANGED <<vars, out, usage, refs, fate>>

\* The call fails after the provider may have acted.
CallFails(r) ==
    /\ pc[r] = "calling"
    /\ IF r \in Hosted THEN Hold(r, "estimated") ELSE Release(r)
    /\ Close(r, "error")
    /\ UNCHANGED <<out, usage, refs>>

Answer(r, u) ==
    /\ pc[r] = "calling"
    /\ usage' = [usage EXCEPT ![r] = u]
    /\ Goto(r, "charging")
    /\ UNCHANGED <<vars, out, refs, fate>>

\* _finalize_successful_response and _finalize_external_web_search_response:
\* a stream that is not hosted has a pending ledger row by now.
ChargeResponse(r) ==
    CASE r \in Hosted -> FinalizeFenced(r, usage[r])
      [] r \in Streaming \ Hosted -> FinalizeCompleted(r)
      [] OTHER -> FinalizeSuccess(r, usage[r])

\* The finalization of an answer that was not streamed.
\* It raises for bad usage, for evidence that is not authoritative, and when
\* the rows do not allow it.
ChargeAnswer(r) ==
    /\ pc[r] = "charging"
    /\ \/ /\ ChargeResponse(r)
          /\ Goto(r, "charged")
          /\ UNCHANGED fate
       \/ /\ r \in Hosted
          /\ Goto(r, "holding")
          /\ UNCHANGED <<vars, fate>>
       \/ /\ r \notin Hosted
          /\ Raised(r)
          /\ Close(r, "error")
    /\ UNCHANGED <<out, usage, refs>>

\* Mutant: an exception other than AccountingError places no hold.
HoldUncertainNot(r) ==
    /\ pc[r] = "holding"
    /\ UNCHANGED <<vars, fate>>
    /\ Close(r, "error")
    /\ UNCHANGED <<out, usage, refs>>

\* The except clauses that keep an uncertain charge under a hold.
HoldUncertain(r) ==
    /\ pc[r] = "holding"
    /\ \E s \in {"estimated", "interrupted"} : Hold(r, s)
    /\ Close(r, "error")
    /\ UNCHANGED <<out, usage, refs>>

\* Mutant: the reference is stored as soon as the answer is there.
KeepReferenceEarly(r) ==
    /\ pc[r] \in {"charging", "finalizing", "charged"}
    /\ r \in Keeping
    /\ refs' = refs \cup {r}
    /\ Goto(r, pc[r])
    /\ UNCHANGED <<vars, out, usage, fate>>

\* _persist_stored_response_reference and _persist_codex_replay_references,
\* in a session of their own after the charge.
KeepReference(r) ==
    /\ pc[r] = "charged"
    /\ r \in Keeping
    /\ \/ /\ refs' = refs \cup {r}
          /\ Goto(r, "delivering")
       \/ /\ Close(r, "error")
          /\ UNCHANGED refs
    /\ UNCHANGED <<vars, out, usage, fate>>

\* The response goes out; of a stream, the held completed event.
Deliver(r) ==
    /\ \/ pc[r] = "delivering"
       \/ pc[r] = "charged" /\ r \notin Keeping
    /\ Close(r, "done")
    /\ UNCHANGED <<vars, out, usage, refs, fate>>

-----------------------------------------------------------------------------
(* A streamed response *)

\* _streaming_responses_response returns; the server has not begun to pull.
OpenStream(r) ==
    /\ pc[r] = "admitted"
    /\ r \in Streaming
    /\ Goto(r, "opened")
    /\ UNCHANGED <<vars, out, usage, refs, fate>>

BeginStream(r) ==
    /\ pc[r] = "opened"
    /\ Goto(r, "streaming")
    /\ UNCHANGED <<vars, out, usage, refs, fate>>

Event(r) ==
    /\ pc[r] = "streaming"
    /\ out' = out \cup {r}
    /\ UNCHANGED <<vars, pc, usage, told, slot, refs, fate>>

\* A chunk crosses the live-burn cutoff.
LiveBurnStop(r) ==
    /\ pc[r] = "streaming"
    /\ r \notin Hosted
    /\ ChargeEstimate(r)
    /\ \/ fate'[r] = "fine" /\ Goto(r, "ending")
       \/ fate'[r] # "fine" /\ Close(r, "error")
    /\ UNCHANGED <<out, usage, refs>>

\* An unsupported or failure event, or the end without usage: accounted for
\* inside the try block, and reported by one more event.
StreamStops(r) ==
    /\ pc[r] = "streaming"
    /\ Interruption(r, "interrupted")
    /\ \/ fate'[r] = "fine" /\ Goto(r, "ending")
       \/ fate'[r] # "fine" /\ Close(r, "error")
    /\ UNCHANGED <<out, usage, refs>>

SendFailure(r) ==
    /\ pc[r] = "ending"
    /\ Close(r, "error")
    /\ UNCHANGED <<vars, out, usage, refs, fate>>

\* ProviderError while reading the stream.
StreamBreaks(r) ==
    /\ pc[r] = "streaming"
    /\ Interruption(r, "estimated")
    /\ Close(r, "error")
    /\ UNCHANGED <<out, usage, refs>>

\* The stream ends with usage u.  A hosted one needs authoritative evidence.
StreamCompletes(r, u) ==
    /\ pc[r] = "streaming"
    /\ usage' = [usage EXCEPT ![r] = u]
    /\ IF r \in Hosted THEN \E p \in {"finalizing", "holding"} : Goto(r, p)
                       ELSE Goto(r, "recording")
    /\ UNCHANGED <<vars, out, refs, fate>>

\* record_provider_completed_before_finalization: the read without a lock.
RecordRead(r) ==
    /\ pc[r] = "recording"
    /\ \/ /\ resv[r].status = "pending"
          /\ Goto(r, "writing")
          /\ UNCHANGED fate
       \/ /\ fate' = [fate EXCEPT ![r] = "unsettled"]
          /\ Close(r, "error")
    /\ UNCHANGED <<vars, out, usage, refs>>

\* Its insert, or the row another transaction has written meanwhile.
RecordWrite(r) ==
    /\ pc[r] = "writing"
    /\ \/ /\ \/ RecordCompleted(r, usage[r])
             \/ ledger[r].status # "none" /\ UNCHANGED vars
          /\ Goto(r, "finalizing")
          /\ UNCHANGED fate
       \/ Raised(r) /\ Close(r, "error")
    /\ UNCHANGED <<out, usage, refs>>

FinalizeStream(r) ==
    /\ pc[r] = "finalizing"
    /\ \/ /\ ChargeResponse(r)
          /\ Goto(r, "charged")
       \/ /\ Goto(r, IF r \in Hosted THEN "holding" ELSE "marking")
          /\ UNCHANGED vars
    /\ UNCHANGED <<out, usage, refs, fate>>

\* _mark_provider_completed_finalization_failed
Mark(r) ==
    /\ pc[r] = "marking"
    /\ \/ MarkFinalizationFailed(r) /\ UNCHANGED fate
       \/ Raised(r)
    /\ Close(r, "error")
    /\ UNCHANGED <<out, usage, refs>>

\* The client goes away: CancelledError where the generator waits, or
\* GeneratorExit where it yields, inside the try block.
Disconnect(r) ==
    /\ r \in Streaming
    /\ pc[r] \in {"streaming", "recording", "writing", "finalizing",
                  "marking", "charged", "delivering", "ending"}
    /\ Interruption(r, "interrupted")
    /\ Close(r, "gone")
    /\ UNCHANGED <<out, usage, refs>>

\* The process dies; or the task of a call or of a stream that has not begun
\* is cancelled, which no except clause sees.
CutOff(r) ==
    /\ pc[r] \notin {"idle", "closed"}
    /\ pc' = [pc EXCEPT ![r] = "closed"]
    /\ fate' = [fate EXCEPT ![r] = "cut off"]
    /\ UNCHANGED <<vars, out, usage, told, slot, refs>>

-----------------------------------------------------------------------------

HandlerStep(r) ==
    \/ Limit(r)
    \/ ReserveQuota(r)
    \/ PreProviderLiveBurn(r)
    \/ AdapterFails(r)
    \/ CallProvider(r)
    \/ CallFails(r)
    \/ \E u \in Amount : Answer(r, u) \/ StreamCompletes(r, u)
    \/ ChargeAnswer(r)
    \/ HoldUncertain(r)
    \/ KeepReference(r)
    \/ Deliver(r)
    \/ OpenStream(r)
    \/ BeginStream(r)
    \/ Event(r)
    \/ LiveBurnStop(r)
    \/ StreamStops(r)
    \/ SendFailure(r)
    \/ StreamBreaks(r)
    \/ RecordRead(r)
    \/ RecordWrite(r)
    \/ FinalizeStream(r)
    \/ Mark(r)
    \/ Disconnect(r)
    \/ CutOff(r)

\* Time, the reconciliation of expired and of completed requests, and the
\* reconciliation of holds by an operator.
RepairOrTime(r) ==
    /\ RepairStep(r)
    /\ UNCHANGED handlerVars

ResponsesNext ==
    /\ \E r \in Request : HandlerStep(r) \/ RepairOrTime(r)
    /\ UNCHANGED load

ResponsesSpec == ResponsesInit /\ [][ResponsesNext]_responsesVars

-----------------------------------------------------------------------------
(* Properties *)

\* A hosted request never ends with its fence merely active: it is settled,
\* or under a hold an operator can see, unless a transaction for just that
\* raised or the handler was cut off.
HostedEndsAccounted ==
    \A r \in Hosted : pc[r] = "closed" /\ fate[r] = "fine" =>
        fence[KeyOf[r]] # [state |-> "active", request |-> r]

\* A client that got a whole response, hosted or not, has been charged for
\* exactly the usage the provider reported; and references are stored only
\* for requests that have been charged, so that a stored response or a
\* replayable item always has its usage row.
KeptIsCharged ==
    /\ \A r \in refs : resv[r].status = "finalized"
    /\ \A r \in Request : told[r] = "done" =>
          /\ resv[r].status = "finalized"
          /\ ledger[r].status = "finalized"
          /\ ledger[r].actual = usage[r]

=============================================================================

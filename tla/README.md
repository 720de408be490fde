# Verification of the SLAIF API gateway

TLA+ models of the parts of the gateway whose correctness depends on the order
in which things happen: the accounting of requests, the handlers that drive it,
admission by Redis, stored and replayed provider objects, the request policy,
the management of keys, prices and routes, and the admin console. TLC checks
them on small instances. TLAPS proves the safety of most of them for any number
of keys, requests, operators, amounts and limits.

Paths below are relative to `src/app/slaif_gateway/`. `PROJECT.json` maps each
definition to the lines it models and lists the hazards of the code, the runs,
the mutants that show each property can fail, and the theorems.

## The system

A request authenticates by a key, passes the request policy of its endpoint and
client module, finds a route, and is let in by the Redis limiter, perhaps after
a bounded wait. Its handler reserves quota in one PostgreSQL transaction, calls
the provider, and settles the reservation in further transactions. Each
transaction opens a session of its own, locks the rows it changes and commits;
nothing is locked between two of them. What a handler leaves behind is settled
later by reconciliation. A request that lets the provider run a hosted tool takes
the fence of its key, and a hold when its cost is uncertain. Responses and
conversations a provider stores, and items a coding client may send back, are
known to the gateway by references it writes after the charge.

Operators change keys, prices, routes and references meanwhile: directly, in two
steps through a form that was filled from an earlier read, or by a plan that is
reviewed, saved and applied later. A commit, a Redis call or an SMTP call may
take effect while its answer is lost, and a process may die between two steps.

What must hold: counters agree with rows and no key is overspent; a delivered
response is charged, once, for what the provider reported; no limit is exceeded
and no slot leaks for longer than its TTL; an object or an item is reached only
by its key and where it was produced; what was reviewed is what is written, once
and completely; two readers of the same tables agree; nothing stays reserved or
waits for ever.

## The modules

| Module | Models | Extends |
| --- | --- | --- |
| `Totals` | sums of a function over a finite set | |
| `QuotaLedger` | every transaction on reservations, ledger rows, counters, fences and holds | `Totals` |
| `KeyBudget`, `LedgerBudget` | the abstract budget of a key, and the mapping of the ledger to it | `QuotaLedger` |
| `ReconcileBatch` | the scheduled batches against every other transaction | `QuotaLedger` |
| `ChatGateway` | the chat handler, repairs of single rows, an operator | `QuotaLedger` |
| `ResponsesGateway` | the handlers of responses and compactions, with fences and holds | `QuotaLedger` |
| `RateLimiter`, `LazyAdmission`, `Admission` | the Lua scripts and their callers; the bounded wait; both | `Totals` |
| `ResponsesInput`, `ResponsesPolicy`, `Values` | which Responses bodies pass policy, client dialect, route and wait, and what is forwarded | |
| `StoredObjects` | the handlers over provider-stored responses and conversations | |
| `CodexReplay`, `ReplayMaintenance` | references to replayable items; their reviewed extension | |
| `KeyLifecycle`, `KeyClone`, `KeyBatch`, `KeyManagement` | every writer of key rows; clones; batches; all on the same rows | |
| `PriceCatalog`, `CatalogApply` | rules, rates and the capture of a price; the application of a refresh | |
| `RouteCatalog` | providers, routes, reviewed plans, imports, setups, and the readers | |
| `AdminLogin`, `AdminConsole`, `AdminPages`, `EmailDelivery`, `Console` | login limit; sessions and the SMTP test; page handlers; mailing of keys; the four scenes | |
| `...Proofs` | theorems and proofs | |
| `MC...` | instances and workloads for TLC | |

**Accounting.** In `QuotaLedger` the variables `keyrow`, `limit`, `used`, `reserved`
and `fence` are the columns of a key, `resv` and `ledger` the two rows a request
may have (`request_id` is UNIQUE in both tables), `stale` says whose `expires_at`
is past. Amounts are vectors of cost, tokens and requests. There is one action
per transaction; its guards are the conditions under which the code does not
raise, and a transaction that raises is rolled back and is no step. `Next` allows
every transaction at any time, so what holds of it holds for every caller, the
gateways that are not modelled included. Three history variables serve the
properties: `drift` (keys whose reserved counters an operator zeroed under
pending reservations), `cleared` (requests charged before the last reset) and
`ceiling` (limits at the latest admission; they may be lowered later).
`KeyBudget` states the promise without counters, locks or fences: a request takes
one hold against the limits of its key, computed from the requests themselves,
and the hold ends once. `ReconcileBatch` adds the order of rows and the batch
limit; a task is one transaction over the oldest candidates that settles all or,
when one is refused, none; fenced reservations and rows that cannot be repaired
are skipped but fill the batch.

**Gateways.** `pc` is the await at which a handler stands. Any of its
transactions may raise, the client may leave at an await (`CancelledError`,
handled under a shield) or at a yield (`GeneratorExit`), and the process may die
anywhere; for the Responses handler the last two are one action, `CutOff`. The
decision of the live-burn monitor and the answers of the provider are free
choices. Hosted requests have no live-burn budget in the code. A `QuotaError` in
a hosted settlement cannot arise, because of `FenceExclusive`.

**Admission.** Each Lua script is one step; a call may fail before or after it
ran; `failClosed` is the outage policy. A heartbeat round is due every
`Heartbeat` ticks and time does not pass a due round, though its call may fail.
Workers and Redis share a clock in `RateLimiter`. In `LazyAdmission` lease expiry
is reckoned by the clock of the process that runs the script (`Skew`), with the
skew below the margin of the lease TTL, the same TTL for all, and the deadline by
a monotonic clock. A slot is left until its TTL by a Redis failure in
`check_and_reserve` after the script ran, by a cleanup that does not reach Redis,
by a process that dies, and by a look for the client that runs out of budget
after the grant (`LookExpires`); `SlotIsDue` excepts exactly these.

**Requests and objects.** In `ResponsesInput` a body, an item and a tool are
records whose DOMAIN holds the fields the client sent; texts are byte sizes, and
each validator is the predicate that holds when the code does not raise.
`ResponsesPolicy` runs a body through normalisation, policy, ownership, route,
estimate, limiter, wait and revalidation. `StoredObjects` keeps what exists at
two providers, the reference rows, and the calls a request has in flight.
`CodexReplay` follows a request from its candidates through
`verify_owned_replay`, route resolution, the check of the route, the wait and the
second check, to `upsert_many`. A digest stands for what it binds. An identifier
of a provider names one item (`ReplayConstants`).

**Reviewed operations.** `ReplayMaintenance`, `KeyClone`, `KeyBatch`,
`CatalogApply` and `RouteCatalog` have the same shape: a preview, a plan kept in
a signed token or in a file that may be edited, and an application that locks
and compares. A fingerprint stands for what it is computed from. Locks are
taken in the order of the code, step by step where others can come between; a
share lock is a lock that only writers of new references wait for.

**Keys.** A service operation of `KeyLifecycle` locks its row, validates and
writes: one action. A front end that reads without the lock first and sends back
what it read takes two steps. Revoked keys stay editable, as in the code.
Audit rows are left out, except where they are the state (`AdminLogin`,
`AdminConsole`) or a property counts them (`ReplayMaintenance`).

**Catalogue.** The mapper writes only the columns an edit changed, from a read
without a lock: an edit takes two steps. A reviewed disable locks its rows and
looks at them and at the scope, and writes in a second step; others cannot write
the locked rows in between, but a rule may join the scope, as the docstring of
`apply_disable_model_reviewed` allows. The table locks of a refresh block
writers, not readers. The sealed evidence of a run is left out. `RouteCatalog`
keeps the bound on candidate routes (1000 in the code) as a guard.

**Console.** `AdminPages` has each handler as the sequence of its steps; a machine
runs them in two tabs of a session. `AdminConsole` has the SMTP test with claim,
budget, deadline and result; `EmailDelivery` the calls of
`send_pending_key_email`, prepared and finalized in two transactions with SMTP
between; `AdminLogin` the limit on failures, whose rows concurrent logins do not
see before they commit.

## The runs

| Run | Instance | What it shows |
| --- | --- | --- |
| `ledger` | 1 key, 2 requests, 2 amounts, 2 limits | `CountersAgree`, `NoOverspend`, `FenceExclusive` whatever is called in whatever order; `KeepsBudget`: the ledger implements `KeyBudget` |
| `batch` | 2 requests, of one key or of two, batches of 1 or 2, one amount free of cost | `LedgerKept`: a batch moves counters by its rows and leaves fenced ones; `SettledUnlessBlocked`: it settles everything in the end, unless blocked |
| `chat` | a streamed and a plain request of one key | `DoneIsCharged`, `OutputNotReleased`; `UsesLedger`: every step is one of `QuotaLedger` |
| `responses` | a hosted and an ordinary stream; a hosted call and a compaction | `HostedEndsAccounted`, `KeptIsCharged` |
| `admission` | 3 requests at the limiter; 2 or 3 waiters with a skewed clock, an outage, a changing key | `LimitsHold`, `StreamKeepsSlot`, `WaitersWithinCaps`, `SlotIsDue`, `WaitEnds` |
| `requests` | bodies under four client dialects with edits during the wait; 3 requests of 2 keys on stored objects | `RoundtripsAreClosed`, `ForwardedIsCovered`, `ReplayedIsVerified`, `BudgetCoversRequest`; `DeletedIsGone`, `ReachesOwnLiveObject`, `StoredIsReferenced` |
| `replay` | requests of 2 keys, 2 routes, 2 secret versions, up to 2 operators | `SentWhereProduced`, `EveryItemBacked`, `ExtendedAsReviewed` |
| `keys` | 3 keys, an edit, a clone, 2 batches | `FencedIsFinite`, `BoundKeepsBudget`, `KeysAsReviewed`, `NoCircularWait` |
| `catalog` | 2 editors, an operator with a reviewed plan, a refresh, a priced request; 2 operators on providers and routes | `PairIsCoherent`, `OnlyFutureRepriced`, `CatalogAsReviewed`, `SwitchedOffStaysOff`, `AccessViewsAgree` |
| `console` | 2 logins; 2 requests with 2 reviews; 2 tabs; 3 calls for one secret | `GuessRate`, `TestSentOnce`, `HonestAnswer`, `ShownFormIsLive`, `MailedOnce` |
| `chat_marked`, `price_windows` | as `chat` and `catalog` | two promises the code does not keep (below) |

Workloads. A run that asks several questions takes its bodies, operations or
actors from a record `Load[load]`, with `load` chosen in the initial state and
never changed: each workload is explored completely, and the combinations nobody
asks about are not. The workloads are in the `MC` module of the run.

Bounds, and why they are enough. Two requests suffice for a race between two
settlements, since a transaction touches one reservation and one key; two
amounts, in neither order comparable, let the actual cost be more in one
dimension and less in another than what was reserved; one limit fits both
requests, one only one of them and leaves a column NULL. Windows and TTLs of two
ticks with a heartbeat of one reach an expired slot, a renewed one, two windows
and their boundary. A login lockout of three ticks outlasts its window of two, so
that a lockout that has ended still lies among the rows that are read. Two batches over the same two keys are the smallest that
could wait for each other. `MaxTime`, `MaxClock`, `MaxMoment`, `MaxPages`,
`MaxVisits`, `MaxGuesses`, `MaxValue` and `MaxUsed` bound clocks and counters in
guards. Where a theorem exists,
the result does not depend on the bounds. Symmetry is used only in runs without
liveness properties.

Deadlock is checked in `ledger` and `chat`. In the others the system may really
stop: clocks end, all requests are answered, every plan is applied.

Fairness. Handlers get none: a provider may never answer. `BatchFairness` says
that time passes and that Celery beat keeps running both tasks
(`workers/celery_app.py`), with execution turned on in the settings; by default
the tasks are off or dry. A round can also fail because a handler settles a
candidate between listing and lock; this happens at most once per request, so
weak fairness of the successful round is justified. `LazyFairness` says that time
passes and that a task of the wait that can move does: every await in its loop
is bounded by the remaining budget.

`SettledUnlessBlocked` names five conditions that block a task for rows of all
keys until an operator acts: a marked row whose reservation has ended rolls the
repair back; marked rows without tokens or cost, which the repair drops after the
`LIMIT`, fill its batch; such a row whose reservation is pending rolls the expiry
back; expired fenced reservations fill the batch of the expiry; and reserved
counters zeroed under pending reservations make either fail. The property asks
that the condition holds from some moment on for ever, so a reason that passes is
no excuse; without any one of the five it is violated.
That a batch fails on an invariant error is intended
(`tests/unit/test_reservation_reconciliation_service.py`).

### Where code and documents disagree

Two have a run:

- `chat_marked`: an expiry that commits after a completed response was recorded,
  and before its row is marked because the finalization failed, leaves a row
  marked for a reconciliation that refuses it, since the reservation is no longer
  pending (`docs/provider-forwarding-contract.md:937`).
- `price_windows`: two concurrent edits, each with an ordered window, leave a
  window that ends before it starts (`services/pricing_rule_service.py:910`).

Met while modelling, and reflected in the models and the wording of the
properties:

- a marked row of cost zero is left out by the repair, and its reservation is
  refused by the expiry because the row is marked
  (`services/reservation_reconciliation.py:571`);
- an admission whose look for the client runs out of budget keeps its slot until
  the TTL, though the deadline error propagates (`services/lazy_throttling.py:320`:
  "cleaned up (slot released) before the deadline error propagates");
- a chat client that leaves while a chunk is being sent is not charged an
  estimate: only `CancelledError` is handled (`docs/accounting.md:312`);
- a fence whose process died after `acquire` stays active; only a held fence can
  be reconciled (`docs/database-schema.md:1020`);
- an SMTP error after acceptance is recorded as `failed`, which is retryable
  (`docs/runbooks/ambiguous-email-delivery.md:13`), and a preparation that breaks
  marks a delivery `failed` that another call is sending
  (`docs/configuration.md:1299`); an ordinary send may reach a delivery that
  failed after its status was read (`api/admin.py:8325`);
- a form or command that edits one limit writes the others back as they were read
  (`docs/cli-field-administration.md:26`); later edits may lift the bounds a
  calibration key was created with (`docs/database-schema.md:737`);
- rows of one import file are compared with each other for the exact window only
  (`docs/configuration.md:1413`);
- a previous response is looked up before the wait and not again
  (`docs/responses-compatibility.md:579`); a delete whose answer is lost leaves
  the reference active (`docs/database-schema.md:1428`);
- in client module 0.162 a tool call without an id is forwarded without a check
  of ownership (`docs/responses-compatibility.md:537`): the exception in
  `ReplayedIsVerified`; after a real wait the pair-local check of 0.149 for tool
  events is not repeated against the new route: the exception in
  `ForwardedIsCovered`; counting input tokens runs no pair or boundary check;
- the list of models shows the text of a glob, also of one that does not match
  its own text, like `gpt-[45]` (`services/model_catalog.py`): the exception in
  `AccessViewsAgree`.

## What is proved

Eight modules hold theorems: 25 of the 40 properties of the passing runs are
proved for every value of the constants. The assumptions are the named `ASSUME`s
of the modules: constants have their types and the sets that sums range over are
finite; an identifier of a provider names one item (`ReplayConstants`); the TTL
of a waiting lease exceeds the longest wait by more than clocks differ
(`LeaseOutlivesWait`); the ids of keys are numbers, of which one is the greatest
(`LifecycleConstants`, `BatchConstants`). No size is assumed. Every proof has the
same form: an inductive invariant, one lemma per action or group of actions, and
a last step that combines them.

**`QuotaLedgerProofs`** (`Spec`). `IInv` joins to the properties `RowShape`, which
ties the two rows of a request and its fence together. `CountersAgree` alone is
not inductive: that a release cannot make a counter negative needs that the row
it releases is pending and counted, and that a settlement charges once needs that
a charged row is no longer pending. The lemmas on `Totals` say how a sum changes
when one summand does. `TypeCorrect`, `CountersCorrect`, `NeverOverspent`,
`FenceCorrect`, and the action property `SettlementIsFinal`.

**`ChatGatewayProofs`** (`ChatSpec`). `ChatInv` says for each `pc` what the rows of
the request look like (`Progress`), against repairs and operators who change them
under the handler. `ChatImplementsLedger` shows that each step is a step of
`QuotaLedger` or leaves it alone, so `ChatNeverOverspent` follows.
`LedgerKeepsBudget` is the refinement of `KeyBudget` by the ledger, under the
mapping of `LedgerBudget`; with it `ChatKeepsBudget`. `DoneCorrect`,
`OutputCorrect`.

**`ResponsesProofs`** (`ResponsesSpec`). `ResponsesInv` adds to `IInv` the places a
request of each kind passes and how far its rows are there, and that a handler
that came to its end has not left its fence active (`FenceSeenTo`). `HostedAccounted`, `KeptCharged`,
`ResponsesImplementLedger`, `ResponsesNeverOverspend`.

**`AdmissionProofs`** (`AdmissionSpec` and its two parts). `LimiterInv`: a slot is
timed by its last confirmed heartbeat and the window counts at least the requests
granted in it. `LazyInv`: a waiter inside its budget has a live lease however the
clocks differ, and a slot has an owner who will give it back or was left to its
TTL in one of the named ways. `LimitsHoldAlways`, `StreamKeepsSlotAlways`, `WaitersWithinCapsAlways`,
`SlotIsDueAlways`; `AdmissionHolds` carries them to the composition.

**`ConsoleProofs`** (`ConsoleSpec`, `MailSpec`). For the SMTP test: a claim is
carried out by one request (`OneHolder`) and claims stay within the budget. For
mail: as long as no failure was recorded wrongly, the delivery of the call that
holds a secret keeps all others out, for good once the message is taken
(`Guarded`), and what is recorded of a message is true (`Recorded`). `TestSentOnceHolds`,
`MailedOnceHolds`.

**`StoredObjectsProofs`** (`StoredSpec`). A row follows the object it names
(`RowInOrder`), and a request acts on a row of its own key read earlier
(`RequestInOrder`). `DeletedIsGoneAlways`, `ReachesOwnLiveObjectAlways`,
`StoredIsReferencedAlways`.

**`KeyProofs`** (`KeysSpec`). `KeysInv` has a part for rows, for edits in two
steps, for clones and for batches: the rows a batch has locked lie below those it
still needs, and a resolved batch holds all rows it selected, unchanged.
`FencedKeysFinite`, `BoundRowsKeepBudget`, `KeysDoAsReviewed`; and
`BatchesNeverStuck`: in any set of blocked batches, the one that waits for the
greatest key waits for a batch outside the set, since a batch waits for a key
above all it holds.

**`ReplayProofs`** (`MaintSpec`). A reference stands for an output item of a charged
request of its key that ended (`RefOK`), and what `verify_owned_replay`
authorised stays backed (`QueryOK`), although others store the item again and
operators extend its reference while the request is under way.
Of an operator: what was read of locked keys is still true, and a plan that was
written no longer describes the references (`Spent`), which is why it cannot be
written twice. `ItemsSentWhereProduced`, `ItemsAreBacked`,
`ReferencesExtendedAsReviewed`.

## What is only model-checked

- `WaitEnds`, `SettledUnlessBlocked`: liveness under fairness, which needs
  ENABLED.
- `LedgerKept`: a batch changes a sum in any number of summands at once, an
  induction over the set of its rows. For single transactions the same facts are
  proved.
- `GuessRate`: counts members of a bag of guesses.
- `HonestAnswer`, `ShownFormIsLive`: facts about a fixed table of handlers, each
  a sequence of steps.
- `RoundtripsAreClosed`, `ForwardedIsCovered`, `ReplayedIsVerified`,
  `BudgetCoversRequest`: validators that recurse over the items of a body.
- `PairIsCoherent`, `OnlyFutureRepriced`, `CatalogAsReviewed`,
  `SwitchedOffStaysOff`, `AccessViewsAgree`: no inductive invariant has been written for the catalogue.

## What is not modelled

- The gateways of embeddings, audio and realtime. They use the ledger through the
  transactions of `QuotaLedger`, whose theorems cover them; the order of their
  steps is not looked at. `BudgetService` has no caller.
- How a catalogue refresh collects, proposes and seals; key imports and
  templates; the policies of chat requests.
- The estimate of the live-burn monitor, decimal arithmetic and rounding of
  prices, and database types.
- PostgreSQL: locks are modelled where the code takes several in turn
  (`KeyBatch`, `ReplayMaintenance`, `PriceCatalog`, `CatalogApply`). A deadlock between two
  reconciliation transactions (`services/reservation_reconciliation.py:176`) is
  listed as a hazard without a property.
- In `KeyClone` the refusals about live burn and the shape of a secret; in
  `RateLimiter` a skew between worker clocks.
- Command-line parsing, reports, exports, diagnostics, schemas, metrics, logging
  and the layout of pages.

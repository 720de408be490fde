------------------------------ MODULE KeyBatch ------------------------------
(***************************************************************************)
(* Reviewed configuration batches: services/key_batch_service.py, the      *)
(* commands of cli/key_batch.py and the console pages of                   *)
(* api/admin_key_batch.py.  A plan is previewed under the locks of the     *)
(* selected keys, saved (in a file or in a signed token), and applied      *)
(* later, perhaps again, by a transaction that locks the keys one by one,  *)
(* compares everything with the review and writes all rows or none.  The   *)
(* other operations on keys are those of KeyLifecycle; they wait for a     *)
(* locked row.                                                             *)
(*                                                                         *)
(* A fingerprint is the pair of document and context it digests.           *)
(***************************************************************************)
EXTENDS KeyLifecycle

CONSTANTS Batches   \* operators that work on batches

ASSUME BatchConstants ==
    /\ None \notin Batches
    /\ Keys # {} => \E n \in Keys : \A k \in Keys : k <= n

VARIABLES
    batch,    \* per operator: the plan and how far its apply has come
    lock      \* per key: the operator whose transaction holds its row

batchVars == <<vars, batch, lock>>

Kinds == Load[load].kinds       \* "cohort" and "keys": how the operators select
Filters == Load[load].filters   \* the status filters they use
Stores == Load[load].stores     \* where they keep plans: in a "file" or a signed "token"

NoPlan == [at |-> "idle"]

BatchInit ==
    /\ batch = [b \in Batches |-> NoPlan]
    /\ lock = [k \in Keys |-> None]

\* render_key_configuration_document
Document(row) == [f \in Configured |-> row[f]]
\* _state_context
Context(row) == [status |-> row.status, purpose |-> row.purpose, window |-> row.window]
\* key_batch_state_fingerprint
Fingerprint(document, row) == <<document, Context(row)>>
\* project_key_configuration_update: None when the update would be refused
Projected(row, config) ==
    IF row.fence \/ Prepared(row, config) = None THEN None
    ELSE Document(Prepared(row, config))

Least(S) == CHOOSE k \in S : \A j \in S : k <= j
Held(b) == {k \in Keys : lock[k] = b}
Unlocked(b) == [k \in Keys |-> IF lock[k] = b THEN None ELSE lock[k]]
\* list_key_batch_selection, get_gateway_keys_by_ids: read without a lock
InFilter(S, statuses) == {k \in S : Exists(k) /\ keys[k].status \in statuses}

-----------------------------------------------------------------------------
(* Planning *)

\* _parse_batch_selection, _parse_selection: a cohort (here all keys) or ids
Askable(kind) ==
    LET existing == {k \in Keys : Exists(k)}
    IN IF kind = "cohort" THEN {existing} ELSE (SUBSET existing) \ {{}}

\* The start of KeyBatchService.plan
Select(b, store) ==
    /\ batch[b].at = "idle"
    /\ \E kind \in Kinds, statuses \in Filters, config \in Configurations :
       \E asked \in Askable(kind) :
          LET selected == InFilter(asked, statuses)
          IN batch' = [batch EXCEPT ![b] =
                [at |-> "preview", store |-> store, kind |-> kind, statuses |-> statuses,
                 config |-> config, selected |-> selected, todo |-> selected,
                 excluded |-> [k \in IF kind = "keys" THEN asked \ selected ELSE {}
                                 |-> keys[k].status]]]
    /\ UNCHANGED <<keys, mail, task, now, lock>>

batch_key_plan(b) == "token" \in Stores /\ Select(b, "token")
cli_plan(b) == "file" \in Stores /\ Select(b, "file")

\* Mutant: rows are locked in the order in which they come.
LockAny(b) ==
    /\ batch[b].at \in {"preview", "apply"}
    /\ \E k \in batch[b].todo :
          /\ lock[k] = None
          /\ lock' = [lock EXCEPT ![k] = b]
          /\ batch' = [batch EXCEPT ![b].todo = @ \ {k}]
    /\ UNCHANGED <<keys, mail, task, now>>

\* get_gateway_key_for_update, in the order of the ids
Lock(b) ==
    /\ batch[b].at \in {"preview", "apply"} /\ batch[b].todo # {}
    /\ LET k == Least(batch[b].todo)
       IN /\ lock[k] = None
          /\ lock' = [lock EXCEPT ![k] = b]
          /\ batch' = [batch EXCEPT ![b].todo = @ \ {k}]
    /\ UNCHANGED <<keys, mail, task, now>>

\* The rest of KeyBatchService.plan; the read-only transaction ends.
Preview(b) ==
    /\ batch[b].at = "preview" /\ batch[b].todo = {}
    /\ LET p == batch[b]
           after == [k \in p.selected |-> Projected(keys[k], p.config)]
       IN batch' = [batch EXCEPT ![b] =
             IF \E k \in p.selected : after[k] = None THEN NoPlan
             ELSE [at |-> "reviewed", store |-> p.store, kind |-> p.kind, statuses |-> p.statuses,
                   config |-> p.config, selected |-> p.selected, todo |-> {},
                   excluded |-> p.excluded, after |-> after,
                   before |-> [k \in p.selected |-> Document(keys[k])],
                   source |-> [k \in p.selected |-> Fingerprint(Document(keys[k]), keys[k])],
                   post |-> [k \in p.selected |-> Fingerprint(after[k], keys[k])]]]
    /\ lock' = Unlocked(b)
    /\ UNCHANGED <<keys, mail, task, now>>

\* A saved plan is an editable file: its policy, or its policy and the targets
\* it shows, may be changed by hand.
EditPlan(b) ==
    /\ batch[b].at = "reviewed" /\ batch[b].store = "file"
    /\ \E config \in Configurations, targets \in BOOLEAN :
          /\ config # batch[b].config
          /\ batch' = [batch EXCEPT ![b] = [@ EXCEPT !.config = config,
                !.after = IF targets
                          THEN [k \in batch[b].selected |-> Patched(batch[b].before[k], config)]
                          ELSE @]]
    /\ UNCHANGED <<keys, mail, task, now, lock>>

-----------------------------------------------------------------------------
(* Applying *)

\* A token ends with its time or its session.
LoseToken(b) ==
    /\ batch[b].at = "reviewed" /\ batch[b].store = "token"
    /\ batch' = [batch EXCEPT ![b] = NoPlan]
    /\ UNCHANGED <<keys, mail, task, now, lock>>

\* KeyBatchService.apply begins
BeginApply(b) ==
    /\ batch[b].at = "reviewed"
    /\ batch' = [batch EXCEPT ![b] = [@ EXCEPT !.at = "apply", !.todo = batch[b].selected]]
    /\ UNCHANGED <<keys, mail, task, now, lock>>

batch_key_apply(b) == batch[b].at = "reviewed" /\ batch[b].store = "token" /\ BeginApply(b)
cli_apply(b) == batch[b].at = "reviewed" /\ batch[b].store = "file" /\ BeginApply(b)

\* The reviewed selection and exclusions against what is there now
SameMembers(p) ==
    IF p.kind = "cohort" THEN InFilter(Keys, p.statuses) = p.selected
    ELSE /\ p.selected \subseteq InFilter(Keys, p.statuses)
         /\ \A k \in DOMAIN p.excluded : keys[k].status = p.excluded[k]

\* The membership is resolved once all rows are locked; a change is refused.
Resolve(b) ==
    /\ batch[b].at = "apply" /\ batch[b].todo = {}
    /\ IF SameMembers(batch[b])
       THEN batch' = [batch EXCEPT ![b].at = "resolved"] /\ UNCHANGED lock
       ELSE batch' = [batch EXCEPT ![b].at = "reviewed"] /\ lock' = Unlocked(b)
    /\ UNCHANGED <<keys, mail, task, now>>

\* Mutant: a row that is not at its target is written whatever it held before.
VerdictOfTarget(p, k) ==
    IF \/ Projected(keys[k], p.config) = None \/ Projected(keys[k], p.config) # p.after[k]
       \/ Fingerprint(p.after[k], keys[k]) # p.post[k]
    THEN "stale"
    ELSE IF Document(keys[k]) = p.after[k]
    THEN IF p.before[k] = p.after[k] THEN "same" ELSE "done"
    ELSE "pending"

\* What the apply makes of one locked row
Verdict(p, k) ==
    LET document == Document(keys[k]) IN
    IF \/ Projected(keys[k], p.config) = None \/ Projected(keys[k], p.config) # p.after[k]
       \/ Fingerprint(p.before[k], keys[k]) # p.source[k]
       \/ Fingerprint(p.after[k], keys[k]) # p.post[k]
    THEN "stale"
    ELSE IF document = p.after[k]
    THEN IF p.before[k] = p.after[k] THEN "same" ELSE "done"
    ELSE IF Fingerprint(document, keys[k]) # p.source[k] THEN "stale"
    ELSE "pending"

\* The rows an apply writes: none when one is stale or the set is half done
Writable(p) ==
    IF \E k \in p.selected : Verdict(p, k) \in {"stale", "done"} THEN {}
    ELSE {k \in p.selected : Verdict(p, k) = "pending"}

\* Steps 3 to 5 of KeyBatchService.apply and the commit: every write goes
\* through update_gateway_key_configuration and is audited by it.  The plan
\* stays with the operator, who may apply it again.
Apply(b) ==
    /\ batch[b].at = "resolved"
    /\ LET p == batch[b]
           W == Writable(p)
       IN keys' = [k \in Keys |-> IF k \in W THEN Prepared(keys[k], p.config) ELSE keys[k]]
    /\ batch' = [batch EXCEPT ![b].at = "reviewed"]
    /\ lock' = Unlocked(b)
    /\ UNCHANGED <<mail, task, now>>

\* The process dies, or a late failure rolls the transaction back.
RollBack(b) ==
    /\ batch[b].at \in {"apply", "resolved"}
    /\ batch' = [batch EXCEPT ![b] = [@ EXCEPT !.at = "reviewed", !.todo = {}]]
    /\ lock' = Unlocked(b)
    /\ UNCHANGED <<keys, mail, task, now>>

BatchStep(b) ==
    \/ batch_key_plan(b) \/ cli_plan(b) \/ Lock(b) \/ Preview(b) \/ EditPlan(b) \/ LoseToken(b)
    \/ batch_key_apply(b) \/ cli_apply(b) \/ Resolve(b) \/ Apply(b) \/ RollBack(b)

-----------------------------------------------------------------------------
(* Properties *)

Applied(b) ==
    /\ batch[b].at = "resolved" /\ batch'[b].at = "reviewed"
    /\ \E k \in Keys : keys'[k] # keys[k]

\* An apply that writes moves every selected key from the state that was
\* reviewed to the target that was reviewed, all of them together, whatever
\* happened to the keys and was edited in the saved plan since the review;
\* the selected keys still have the statuses that were asked for.
AppliedAsReviewed ==
    \A b \in Batches : Applied(b) =>
          /\ \A k \in batch[b].selected :
                /\ keys[k].status \in batch[b].statuses
                /\ Document(keys'[k]) = batch[b].after[k]
                /\ Fingerprint(batch[b].after[k], keys'[k]) = batch[b].post[k]
                /\ keys'[k] = keys[k] => batch[b].before[k] = batch[b].after[k]
          /\ \A k \in Keys : keys'[k] # keys[k] =>
                /\ k \in batch[b].selected
                /\ Fingerprint(Document(keys[k]), keys[k]) = batch[b].source[k]

\* Batches that lock overlapping keys never wait for each other in a circle.
NoCircularWait ==
    LET waits == {b \in Batches : batch[b].at \in {"preview", "apply"} /\ batch[b].todo # {}}
        blocked == {b \in waits : lock[Least(batch[b].todo)] # None}
    IN \A S \in (SUBSET blocked) \ {{}} :
          \E b \in S : lock[Least(batch[b].todo)] \notin S

=============================================================================

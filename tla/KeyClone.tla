------------------------------ MODULE KeyClone ------------------------------
(***************************************************************************)
(* Cloning a key: services/key_clone_service.py, the console pages of      *)
(* api/admin_key_clone.py and the command `keys clone`.  A plan is built   *)
(* from an unlocked read, kept by the operator (a file they may edit, or a *)
(* signed token), and executed, perhaps several times, by a transaction    *)
(* that locks the source first; the receipt stored in the new row makes a  *)
(* repeat recognisable.  The other operations on keys are KeyLifecycle's.  *)
(*                                                                         *)
(* Left out: the refusals of a malformed Responses live-burn policy and of *)
(* secret-shaped text, which stop both build and execution.                *)
(***************************************************************************)
EXTENDS KeyLifecycle

CONSTANTS
    Clones,         \* operation ids
    Owners,         \* owners a clone may be made for
    Durations       \* the durations plans name

VARIABLES
    plan,     \* per operation: the plan document, NoClone before it is built
    receipt,  \* per key: the clone receipt in its metadata
    answer    \* per operation: what its latest execution reported

cloneVars == <<vars, plan, receipt, answer>>

NoClone == [mode |-> "none"]
Reviewed(o) == plan[o].mode # "none"

CloneInit ==
    /\ plan = [o \in Clones |-> NoClone]
    /\ receipt = [k \in Keys |-> None]
    /\ answer = [o \in Clones |-> None]

\* The identity of a new row is fresh; the model takes the least one.
FreshKey(k) == ~Exists(k) /\ \A j \in Keys : ~Exists(j) => k <= j

\* _canonical_policy_document
Policy(row) == [f \in Configured |-> row[f]]
\* _source_fingerprint
SourceState(row) == <<row.status, row.window, row.purpose, Policy(row)>>

\* _assert_source_eligible
Eligible(k) ==
    /\ keys[k].purpose = "standard" /\ keys[k].status = "active"
    /\ ~Fenced(k) /\ Covers(keys[k].window)

\* _target_validity; the end of a copied window is the source's
TargetWindow(p) ==
    CASE p.mode = "copy" -> [from |-> now, until |-> keys[p.source].window.until]
      [] p.mode = "duration" -> [from |-> now, until |-> now + p.duration]
      [] p.mode = "absolute" -> p.window
ValidTarget(w) == w.from < w.until /\ now < w.until

\* build_plan, and clone_key_review around it: nothing is written
BuildPlan(o, s) ==
    /\ ~Reviewed(o) /\ Exists(s) /\ Eligible(s)
    /\ \E owner \in Owners, mode \in {"copy", "duration", "absolute"},
          duration \in Durations, window \in Windows :
          LET p == [source |-> s, state |-> SourceState(keys[s]), policy |-> Policy(keys[s]),
                    expiry |-> keys[s].window.until, fenced |-> keys[s].ext = "fenced",
                    owner |-> owner, mode |-> mode,
                    duration |-> IF mode = "duration" THEN duration ELSE None,
                    window |-> IF mode = "absolute" THEN window ELSE None]
          IN /\ ValidTarget(TargetWindow(p))
             /\ plan' = [plan EXCEPT ![o] = p]
    /\ UNCHANGED <<keys, mail, task, now, receipt, answer>>

\* The operator edits the plan file.
EditClonePlan(o) ==
    /\ Reviewed(o)
    /\ \E p \in {[plan[o] EXCEPT !.owner = x] : x \in Owners}
             \cup {[plan[o] EXCEPT !.fenced = ~@],
                   [plan[o] EXCEPT !.mode = "copy", !.duration = None, !.window = None],
                   [plan[o] EXCEPT !.expiry = MaxTime],
                   [plan[o] EXCEPT !.policy.ext = "strict"]} :
          p # plan[o] /\ plan' = [plan EXCEPT ![o] = p]
    /\ UNCHANGED <<keys, mail, task, now, receipt, answer>>

\* find_clone_receipts: by source and operation
Receipts(o) ==
    {k \in Keys : receipt[k] # None /\ receipt[k].operation = o
                  /\ receipt[k].plan.source = plan[o].source}

\* _receipt_matches_plan: every reviewed field
ReceiptMatches(k, o) == receipt[k].plan = plan[o]

\* The plan against the locked source, on the first execution
StillReviewed(p) ==
    /\ p.state = SourceState(keys[p.source])
    /\ p.policy = Policy(keys[p.source])
    /\ p.mode = "copy" => p.expiry = keys[p.source].window.until
    /\ p.fenced = (keys[p.source].ext = "fenced")

\* execute_plan for an operation that has a receipt: nothing is written, and a
\* plan that was changed since is refused.
ExecuteAgain(o) ==
    /\ Reviewed(o) /\ Receipts(o) # {}
    /\ \E k \in Receipts(o) :
          answer' = [answer EXCEPT ![o] =
             IF ReceiptMatches(k, o) THEN [status |-> "already", key |-> k]
             ELSE [status |-> "refused", key |-> None]]
    /\ UNCHANGED <<keys, mail, task, now, plan, receipt>>

\* execute_plan for the first time: the new key, its secret, the delivery row,
\* the receipt and the audit rows are one transaction.
ExecuteFirst(o, n, mode) ==
    /\ Reviewed(o) /\ Receipts(o) = {}
    /\ LET p == plan[o]
           w == TargetWindow(p)
       IN /\ Eligible(p.source) /\ StillReviewed(p) /\ ValidTarget(w)
          /\ CreateKey(n, [keys[p.source] EXCEPT !.window = w, !.used = 0,
                                                  !.fence = FALSE], mode)
          /\ receipt' = [receipt EXCEPT ![n] = [operation |-> o, plan |-> p]]
          /\ answer' = [answer EXCEPT ![o] = [status |-> "created", key |-> n]]
    /\ UNCHANGED plan

\* The commit is acknowledged to nobody: the operator only knows that the
\* execution may have happened.
LoseAnswer(o) ==
    /\ answer[o] # None
    /\ answer' = [answer EXCEPT ![o] = None]
    /\ UNCHANGED <<keys, mail, task, now, plan, receipt>>

clone_key_review(o) == \E s \in Keys : BuildPlan(o, s)
clone_key_apply(o) == ExecuteAgain(o) \/ \E n \in Keys, mode \in Modes : FreshKey(n) /\ ExecuteFirst(o, n, mode)
\* `keys clone`: --dry-run writes the plan file, --execute reads it back
cli_clone(o) == clone_key_review(o) \/ clone_key_apply(o)

CloneStep(o) ==
    \/ clone_key_review(o) \/ clone_key_apply(o) \/ cli_clone(o)
    \/ EditClonePlan(o) \/ LoseAnswer(o)

-----------------------------------------------------------------------------
(* Properties *)

\* An operation makes one key, however often its plan is executed and edited.
\* A clone has the settings its operator reviewed, and those of the source at
\* the moment it was made; the tool confirmation it was reviewed with is the
\* one it needs; a copied window ends when the reviewed source ends.
CloneAsReviewed ==
    \A n \in Keys : (receipt[n] = None /\ receipt'[n] # None) =>
          LET p == receipt'[n].plan IN
          /\ \A k \in Keys \ {n} :
                receipt[k] # None => receipt[k].operation # receipt'[n].operation
          /\ Policy(keys'[n]) = p.policy /\ p.policy = Policy(keys[p.source])
          /\ p.fenced = (keys'[n].ext = "fenced")
          /\ p.mode = "copy" => keys'[n].window.until = p.expiry
=============================================================================

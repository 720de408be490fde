-------------------------- MODULE ReplayMaintenance --------------------------
(***************************************************************************)
(* Reviewed extension of the lifetime of replay references                 *)
(* (services/codex_replay_maintenance.py, with its two front ends          *)
(* api/admin_replay_maintenance.py and cli/codex_replay.py).               *)
(*                                                                         *)
(* An operator previews a scope and keeps the plan; an apply locks the     *)
(* keys of the scope and then their rows, and goes through only if what it *)
(* finds is what the plan was made from.  Requests store references, keys  *)
(* change and time passes all the while.  A fingerprint stands for the     *)
(* entries it is computed from.                                            *)
(***************************************************************************)
EXTENDS CodexReplay

CONSTANTS
    Maintainer,   \* operators with a plan each
    ValidUntil    \* when a key ceases to be valid

ASSUME MaintenanceConstants ==
    /\ ValidUntil \in [Key -> Nat]
    /\ \A n \in DOMAIN Load :
          /\ Load[n].maintainers \subseteq Maintainer
          /\ Load[n].lifetimes \subseteq Nat /\ Load[n].brief \in BOOLEAN

VARIABLES
    keyrow,       \* per key: whether it is active, and in the cohort
    plan,         \* per operator: the plan under review
    job,          \* per operator: the stage of a preview or an apply
    audit         \* audit rows written, by operator

Lifetimes == Load[load].lifetimes   \* lifetimes an operator may select
Scopes == Load[load].scopes         \* scopes an operator may select

mvars == <<vars, keyrow, plan, job, audit>>
runtime == <<refs, ledger, operator, req, now>>

NoPlan == [form |-> "none"]
NoJob == [stage |-> "idle", keys |-> << >>, rows |-> {}, time |-> 0]

MaintInit ==
    /\ ReplayInit
    /\ keyrow = [k \in Key |-> [active |-> TRUE, cohort |-> TRUE]]
    /\ plan = [m \in Maintainer |-> NoPlan]
    /\ job = [m \in Maintainer |-> NoJob]
    /\ audit = [m \in Maintainer |-> 0]

KeyLocks == UNION {DOMAIN job[m].keys : m \in
    {n \in Maintainer : job[n].stage \in {"locked", "rows", "final", "apply"}}}
RowLocks == UNION {job[m].rows : m \in Maintainer}

\* list_maintenance_key_states for the three scopes
ScopeKeys(scope) ==
    {k \in Key : IF scope = "cohort" THEN keyrow[k].cohort
                 ELSE IF scope = "all active" THEN keyrow[k].active
                 ELSE k = scope}

RowsOf(keys) == {id \in DOMAIN refs : id.key \in keys}
Snapshot(keys) == [k \in keys |-> keyrow[k].active]

\* _classify_row, with the state of the keys and the time it is given
Verdict(id, keys, time, ttl, expired) ==
    IF ~keys[id.key] \/ time >= ValidUntil[id.key] THEN "key_not_active_or_valid"
    ELSE IF refs[id].request \notin ledger THEN "ledger_not_finalized"
    ELSE IF id.version \notin secrets THEN "hmac_version_unavailable"
    ELSE IF refs[id].created + ttl <= time THEN "outside_lifetime"
    ELSE IF refs[id].expires <= time /\ ~expired THEN "expired_not_included"
    ELSE "eligible"

\* _entry_tuple for every row
Entries(keys, time, ttl, expired) ==
    [id \in RowsOf(DOMAIN keys) |->
        [request |-> refs[id].request, created |-> refs[id].created,
         expires |-> refs[id].expires,
         verdict |-> Verdict(id, keys, time, ttl, expired)]]

\* _expected_post_entries: the original creation plus the lifetime, never less
\* than what is stored.
PostEntries(entries, ttl) ==
    [id \in DOMAIN entries |->
        IF entries[id].verdict # "eligible" THEN entries[id]
        ELSE [entries[id] EXCEPT !.expires =
                IF entries[id].created + ttl > @ THEN entries[id].created + ttl
                ELSE @]]

-----------------------------------------------------------------------------
(* Preview *)

\* preview_replay_extend reads the keys of the scope ...
PreviewKeys(m, scope) ==
    /\ job[m].stage = "idle" /\ plan[m].form = "none"
    /\ job' = [job EXCEPT ![m] = [NoJob EXCEPT !.stage = "preview", !.time = now,
                                  !.keys = Snapshot(ScopeKeys(scope))]]
    /\ plan' = [plan EXCEPT ![m] = [form |-> "none", scope |-> scope]]
    /\ UNCHANGED <<runtime, keyrow, audit>>

\* ... and then their rows, and hands out the plan: as a signed token in the
\* console, as a file on the command line.
PreviewRows(m, ttl, expired, form) ==
    LET source == Entries(job[m].keys, job[m].time, ttl, expired) IN
    /\ job[m].stage = "preview"
    /\ plan' = [plan EXCEPT ![m] =
          [scope |-> @.scope, form |-> form, ttl |-> ttl, expired |-> expired,
           keys |-> DOMAIN job[m].keys,
           source |-> source, post |-> PostEntries(source, ttl)]]
    /\ job' = [job EXCEPT ![m] = NoJob]
    /\ UNCHANGED <<runtime, keyrow, audit>>

\* A plan file is not signed: its selections can be edited, its fingerprints
\* stay as they were (parse_replay_extend_plan_file checks the form only).
EditPlan(m, ttl, expired) ==
    /\ job[m].stage = "idle" /\ plan[m].form = "file"
    /\ plan' = [plan EXCEPT ![m] = [@ EXCEPT !.ttl = ttl, !.expired = expired]]
    /\ UNCHANGED <<runtime, keyrow, job, audit>>

-----------------------------------------------------------------------------
(* Apply, in one transaction *)

Stale(m) == job' = [job EXCEPT ![m] = NoJob]

\* Both front ends find the keys of the scope ...
Resolved(m) ==
    /\ job' = [job EXCEPT ![m] = [NoJob EXCEPT !.stage = "resolved",
                                  !.keys = Snapshot(ScopeKeys(plan[m].scope))]]
    /\ UNCHANGED <<runtime, keyrow, plan, audit>>

\* ... the console from the token it signed ...
ApplyToken(m) == job[m].stage = "idle" /\ plan[m].form = "token" /\ Resolved(m)

\* ... and "extend --execute" from the file it is given, which takes no other
\* option ...
ExecuteFile(m) == job[m].stage = "idle" /\ plan[m].form = "file" /\ Resolved(m)

\* ... lock them and read them again under the lock ...
LockKeys(m) ==
    /\ job[m].stage = "resolved"
    /\ DOMAIN job[m].keys \cap KeyLocks = {}
    /\ job' = [job EXCEPT ![m] = [@ EXCEPT !.stage = "locked",
                                            !.keys = Snapshot(DOMAIN job[m].keys)]]
    /\ UNCHANGED <<runtime, keyrow, plan, audit>>

\* ... see whether the scope still has these keys, before ...
Recheck(m) ==
    /\ job[m].stage = "locked"
    /\ IF ScopeKeys(plan[m].scope) = DOMAIN job[m].keys
       THEN job' = [job EXCEPT ![m].stage = "rows"]
       ELSE Stale(m)
    /\ UNCHANGED <<runtime, keyrow, plan, audit>>

\* ... and after their rows are locked ...
LockRows(m) ==
    /\ job[m].stage = "rows"
    /\ job' = [job EXCEPT ![m] = [@ EXCEPT !.stage = "final",
                                            !.rows = RowsOf(DOMAIN job[m].keys)]]
    /\ UNCHANGED <<runtime, keyrow, plan, audit>>

FinalRecheck(m) ==
    /\ job[m].stage = "final"
    /\ IF ScopeKeys(plan[m].scope) = DOMAIN job[m].keys
       THEN job' = [job EXCEPT ![m].stage = "apply"]
       ELSE Stale(m)
    /\ UNCHANGED <<runtime, keyrow, plan, audit>>

Expiry(entries) == [id \in DOMAIN entries |-> entries[id].expires]

\* extend_reference_expiries
Extended(post) ==
    [id \in DOMAIN refs |->
        IF id \in DOMAIN post /\ post[id].expires > refs[id].expires
        THEN [refs[id] EXCEPT !.expires = post[id].expires]
        ELSE refs[id]]

\* Mutant: the plan is recognised by its rows, whatever their expiry.
ApplyByState(m) ==
    LET p == plan[m]
        actual == Entries(job[m].keys, now, p.ttl, p.expired)
        post == PostEntries(actual, p.ttl)
    IN  /\ job[m].stage = "apply"
        /\ IF DOMAIN actual = DOMAIN p.source
           THEN refs' = Extended(post) /\ audit' = [audit EXCEPT ![m] = @ + 1]
           ELSE UNCHANGED <<refs, audit>>
        /\ Stale(m)
        /\ UNCHANGED <<now, ledger, operator, req, keyrow, plan>>

\* ... and decide, by the time it is then, from the locked state alone.  The
\* plan must describe the state before and the state after; a plan found in
\* place already writes nothing.
Apply(m) ==
    LET p == plan[m]
        actual == Entries(job[m].keys, now, p.ttl, p.expired)
        post == PostEntries(actual, p.ttl)
    IN  /\ job[m].stage = "apply"
        /\ IF DOMAIN job[m].keys = p.keys /\ actual = p.source /\ post = p.post
              /\ Expiry(post) # Expiry(actual)
           THEN refs' = Extended(post) /\ audit' = [audit EXCEPT ![m] = @ + 1]
           ELSE UNCHANGED <<refs, audit>>
        /\ Stale(m)
        /\ UNCHANGED <<now, ledger, operator, req, keyrow, plan>>

\* The connection or the process ends; the transaction rolls back.
Abandon(m) ==
    /\ job[m].stage \in {"preview", "resolved", "locked", "rows", "final", "apply"}
    /\ job' = [job EXCEPT ![m] = NoJob]
    /\ plan' = [plan EXCEPT ![m] = IF job[m].stage = "preview" THEN NoPlan ELSE @]
    /\ UNCHANGED <<runtime, keyrow, audit>>

-----------------------------------------------------------------------------
(* The rest of the system *)

\* A request that replays nothing, up to its charge: the steps before it touch
\* no reference, and a workload that is not about them takes them as one.
Produce(r, t, c) ==
    /\ req[r].stage = "idle"
    /\ req' = [req EXCEPT ![r] = [Idle EXCEPT !.stage = "answered", !.auth = {},
                 !.route = [id |-> t, model |-> upstream[t]], !.out = {c}]]
    /\ ledger' = ledger \cup {r}
    /\ UNCHANGED <<now, refs, operator>>

\* A new reference needs a share of its key's lock, a stored one its own row.
PersistUnlocked(r) ==
    /\ \A id \in IdsOf(r) : IF id \in DOMAIN refs THEN id \notin RowLocks
                            ELSE id.key \notin KeyLocks
    /\ Persist(r)

Suspend(k) ==
    /\ k \notin KeyLocks
    /\ keyrow' = [keyrow EXCEPT ![k].active = ~@]
    /\ UNCHANGED <<runtime, plan, job, audit>>

MoveCohort(k) ==
    /\ k \notin KeyLocks
    /\ keyrow' = [keyrow EXCEPT ![k].cohort = ~@]
    /\ UNCHANGED <<runtime, plan, job, audit>>

MaintenanceStep(m) ==
    \/ \E s \in Scopes : PreviewKeys(m, s)
    \/ \E l \in Lifetimes, e \in BOOLEAN :
          \/ \E form \in {"token", "file"} : PreviewRows(m, l, e, form)
          \/ EditPlan(m, l, e)
    \/ ApplyToken(m) \/ ExecuteFile(m) \/ LockKeys(m) \/ Recheck(m) \/ LockRows(m) \/ FinalRecheck(m)
    \/ Apply(m) \/ Abandon(m)

\* Keys change where there is an operator to see it.
MaintNext ==
    /\ \/ /\ \/ \E r \in Running : ~Load[load].brief /\ RequestStep(r)
             \/ \E r \in Running, t \in InUse, c \in Output : Load[load].brief /\ Produce(r, t, c)
             \/ \E r \in Running : PersistUnlocked(r)
             \/ AroundStep
          /\ UNCHANGED <<keyrow, plan, job, audit>>
       \/ \E m \in Load[load].maintainers : MaintenanceStep(m)
       \/ /\ Load[load].maintainers # {}
          /\ \E r \in Running : Suspend(KeyOf[r]) \/ MoveCohort(KeyOf[r])
    /\ UNCHANGED load

MaintSpec == MaintInit /\ [][MaintNext]_mvars

-----------------------------------------------------------------------------
(* Properties *)

Writes(m) == audit'[m] > audit[m]

ExtensionReviewed ==
    \A m \in Maintainer : Writes(m) =>
        /\ audit[m] = 0
        /\ plan[m].keys = DOMAIN job[m].keys
        /\ plan[m].keys \subseteq ScopeKeys(plan[m].scope)
        /\ RowsOf(plan[m].keys) = DOMAIN plan[m].post
        /\ \A id \in DOMAIN refs : refs'[id].expires =
              IF id \in DOMAIN plan[m].post THEN plan[m].post[id].expires
              ELSE refs[id].expires
        /\ \A id \in DOMAIN refs : refs'[id] # refs[id] =>
              /\ refs'[id].created = refs[id].created
              /\ refs[id].expires < refs'[id].expires
              /\ refs'[id].expires = refs[id].created + plan[m].ttl
              /\ refs[id].expires <= now => plan[m].expired
              /\ keyrow[id.key].active /\ now < ValidUntil[id.key]

\* What an apply writes is exactly what its plan showed: the reviewed keys are
\* still in the scope, every row of theirs gets the expiry that was reviewed,
\* and no other row changes, whatever was stored, suspended, moved or edited in
\* between (apply_replay_extend).  A key can still enter the scope after the
\* last look at it; its rows are not touched.  A lifetime is only extended, up
\* to the creation plus the selected lifetime, and an expired reference comes
\* back only for an operator who asked for it.  However often a plan is applied,
\* it is written once.
ExtendedAsReviewed == [][ExtensionReviewed]_mvars
=============================================================================

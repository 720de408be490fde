---------------------------- MODULE KeyLifecycle ----------------------------
(***************************************************************************)
(* Management of gateway keys: services/key_service.py, the client-module  *)
(* migrations of services/codex_module_upgrade.py, and their two front     *)
(* ends, the console handlers of api/admin.py and the commands of          *)
(* cli/keys.py and cli/codex.py.                                           *)
(*                                                                         *)
(* A service operation locks the row of its key (FOR UPDATE, refreshed),   *)
(* validates, writes and audits in one transaction: one action.  Four      *)
(* front ends read the row without the lock first and send back what they  *)
(* read for the members the operator left alone; they take two steps.  A   *)
(* group of settings is a function from member names to values, None when  *)
(* a member is not set, and an edit is a partial function.                 *)
(***************************************************************************)
EXTENDS Integers, FiniteSets, TLC

CONSTANTS
    Keys,           \* identities of gateway keys, which are ordered
    Tasks,          \* front-end requests that may run at once
    None,
    Load,           \* per name: a workload the instance examines
    Pins,           \* client-module identities
    Moves,          \* legal moves between them (_LEGAL_TRANSITIONS, profiles)
    MaxRequests,    \* TRUSTED_CALIBRATION_MAX_REQUESTS
    MaxValid        \* TRUSTED_CALIBRATION_MAX_VALID_DAYS

Groups == {"limits", "rate", "burn", "allow"}
Configured == Groups \cup {"lazy", "ext", "pin"}

\* The columns of a gateway key; status tells whether it may be used, ext which
\* tools, pin the client module, fence whether a hosted request is bound to it.
Columns == Configured \cup {"status", "purpose", "window", "fence", "used"}

ASSUME LifecycleConstants ==
    /\ Keys \subseteq Nat
    /\ \A n \in DOMAIN Load : LET l == Load[n] IN
          /\ l.initial \subseteq Keys /\ l.managed \subseteq Keys
          /\ \A row \in l.rows : DOMAIN row = Columns
          /\ \A g \in Groups : l.member[g] # {}
          /\ "requests" \in l.member["limits"]
          /\ l.modes \subseteq {"none", "pending", "send-now", "enqueue"}
          /\ {l.maxValue, l.maxTime, l.maxUsed} \subseteq Nat
    /\ Moves \subseteq Pins \X Pins
    /\ {MaxRequests, MaxValid} \subseteq Nat

VARIABLES
    keys,     \* per key: its row, NoRow before it exists
    mail,     \* per key: what happens to its one-time secret
    task,     \* per front-end request: the edit it carries
    now,
    load      \* the name of the workload, which never changes

vars == <<keys, mail, task, now, load>>

Initial == Load[load].initial                 \* the keys that exist at the start
Managed == Load[load].managed                 \* the keys that are managed one by one
Operations == Load[load].operations           \* the operations on them
Member == Load[load].member                   \* per group: the members that are edited
NewRows == Load[load].rows                    \* the rows that are created
Modes == Load[load].modes                     \* the delivery modes
Configurations == Load[load].configurations   \* the presence-aware configurations
MaxValue == Load[load].maxValue               \* bound on the values of a member
MaxTime == Load[load].maxTime                 \* bound on the clock and on the ends of windows
MaxUsed == Load[load].maxUsed                 \* bound on the spent units of a key

Values == 1..MaxValue
Settings(g) == [Member[g] -> Values \cup {None}]
Windows == {w \in [from : 0..MaxTime, until : 0..MaxTime] : w.from < w.until}
Patches(names, values) == UNION {[s -> values] : s \in (SUBSET names) \ {{}}}

Idle == [at |-> "idle"]
NoRow == [status |-> "none"]

Exists(k) == keys[k].status # "none"
\* _require_not_external_tool_fenced: state active or held
Fenced(k) == keys[k].fence
\* _validate_external_tool_limits
Finite(limits) == \A m \in Member["limits"] : limits[m] # None
Covers(w) == w.from <= now /\ now < w.until

\* _validate_external_tool_policy with the limits it is to hold beside
FencingAccepted(purpose, limits) == purpose = "standard" /\ Finite(limits)

\* _validate_trusted_calibration_create_policy
CalibrationAccepted(row) ==
    /\ row.limits["requests"] # None /\ row.limits["requests"] <= MaxRequests
    /\ row.window.until - row.window.from <= MaxValid

\* What create_gateway_key accepts: an active row that has spent nothing
Creatable(row) ==
    /\ row.status = "active" /\ ~row.fence /\ row.used = 0
    /\ row.purpose = "calibration" => CalibrationAccepted(row)
    /\ row.ext = "fenced" => FencingAccepted(row.purpose, row.limits)

\* The keys that exist at the start were just created.
LifecycleInit ==
    /\ load \in DOMAIN Load
    /\ keys \in [Keys -> NewRows \cup {NoRow}]
    /\ \A k \in Keys : Exists(k) <=> k \in Initial
    /\ \A k \in Initial : Creatable(keys[k])
    /\ mail = [k \in Keys |-> None]
    /\ task = [t \in Tasks |-> Idle]
    /\ now = 0

\* One write of a locked row; its audit row commits with it.
Write(k, row) == keys' = [keys EXCEPT ![k] = row]

-----------------------------------------------------------------------------
(* Status *)

SuspendKey(k) ==
    /\ Exists(k) /\ keys[k].status = "active"
    /\ Write(k, [keys[k] EXCEPT !.status = "suspended"])
    /\ UNCHANGED <<mail, task, now>>

ActivateKey(k) ==
    /\ Exists(k) /\ keys[k].status = "suspended"
    /\ Write(k, [keys[k] EXCEPT !.status = "active"])
    /\ UNCHANGED <<mail, task, now>>

RevokeKey(k) ==
    /\ Exists(k) /\ keys[k].status \in {"active", "suspended"}
    /\ Write(k, [keys[k] EXCEPT !.status = "revoked"])
    /\ UNCHANGED <<mail, task, now>>

-----------------------------------------------------------------------------
(* Settings: what the service accepts under the lock, and what it writes *)

\* update_gateway_key_validity
ValidityAccepted(k, w) ==
    /\ Exists(k) /\ keys[k].status # "revoked" /\ w.from < w.until
    /\ Covers(w) \/ ~Fenced(k)

\* Mutant: a fenced policy does not look at the new limits.
LimitsAny(k, new) == Exists(k) /\ ~Fenced(k)

\* update_gateway_key_limits
LimitsAccepted(k, new) ==
    /\ Exists(k) /\ ~Fenced(k)
    /\ keys[k].ext = "fenced" => Finite(new)

\* update_gateway_key_policy: the whole request policy, providers included
UpdatePolicy(k, new) ==
    /\ Exists(k) /\ ~Fenced(k)
    /\ Write(k, [keys[k] EXCEPT !.allow = new])
    /\ UNCHANGED <<mail, task, now>>

\* update_gateway_key_lazy_throttling; a reject policy is no stored policy
UpdateLazy(k, wait) ==
    /\ Exists(k)
    /\ Write(k, [keys[k] EXCEPT !.lazy = wait])
    /\ UNCHANGED <<mail, task, now>>

\* update_gateway_key_external_tool_policy
UpdateExternalTools(k, mode) ==
    /\ Exists(k) /\ ~Fenced(k)
    /\ mode = "fenced" => FencingAccepted(keys[k].purpose, keys[k].limits)
    /\ Write(k, [keys[k] EXCEPT !.ext = mode])
    /\ UNCHANGED <<mail, task, now>>

\* The row, or a document of its settings, with the members a configuration names
Patched(row, config) ==
    [row EXCEPT !.limits = config.limits @@ @, !.rate = config.rate @@ @,
                !.burn = config.burn @@ @, !.allow = config.allow @@ @,
                !.lazy = IF config.lazy = None THEN @ ELSE config.lazy,
                !.ext = IF config.ext = None THEN @ ELSE config.ext,
                !.pin = IF config.pin = None THEN @ ELSE config.pin]

\* _prepare_key_configuration_update: members that are absent keep what the
\* locked row holds; None when the resulting state is refused.
Prepared(row, config) ==
    LET new == Patched(row, config)
    IN IF /\ row.pin # None => new.pin = row.pin
          /\ config.ext = "fenced" => row.purpose = "standard"
          /\ new.ext = "fenced" => Finite(new.limits)
       THEN new ELSE None

\* update_gateway_key_configuration
UpdateConfiguration(k, config) ==
    /\ Exists(k) /\ ~Fenced(k)
    /\ Prepared(keys[k], config) # None
    /\ Write(k, Prepared(keys[k], config))
    /\ UNCHANGED <<mail, task, now>>

\* Mutant: counters may be reset under a bound fence.
ResetAnytime(k) ==
    /\ Exists(k)
    /\ Write(k, [keys[k] EXCEPT !.used = 0])
    /\ UNCHANGED <<mail, task, now>>

\* reset_gateway_key_usage, used counters; QuotaLedger has the reserved ones
ResetUsage(k) ==
    /\ Exists(k) /\ ~Fenced(k)
    /\ Write(k, [keys[k] EXCEPT !.used = 0])
    /\ UNCHANGED <<mail, task, now>>

\* mutate_codex_client_module, migrate_codex_0162_key_profile: the reviewed
\* source is compared under the lock; a repeat at the target writes nothing.
MigratePin(k, source, target) ==
    /\ Exists(k) /\ keys[k].pin = source
    /\ <<source, target>> \in Moves
    /\ Write(k, [keys[k] EXCEPT !.pin = target])
    /\ UNCHANGED <<mail, task, now>>

-----------------------------------------------------------------------------
(* Creation and rotation *)

\* create_gateway_key: the row and a pending one-time secret; mode tells how the
\* secret leaves.
CreateKey(k, row, mode) ==
    /\ ~Exists(k) /\ Creatable(row)
    /\ Write(k, row)
    /\ mail' = [mail EXCEPT ![k] = mode]
    /\ UNCHANGED <<task, now>>

\* rotate_gateway_key: the replacement is active and unspent and keeps the
\* settings of the old key, which is revoked unless it is to be kept.  The
\* front ends always preserve limits.
RotateKey(k, n, until, revoke, mode) ==
    /\ Exists(k) /\ keys[k].status # "revoked" /\ ~Fenced(k)
    /\ ~Exists(n) /\ keys[k].window.from < until
    /\ LET old == [keys[k] EXCEPT !.status = IF revoke THEN "revoked" ELSE @]
           new == [keys[k] EXCEPT !.status = "active", !.used = 0, !.window.until = until]
       IN keys' = [keys EXCEPT ![k] = old, ![n] = new]
    /\ mail' = [mail EXCEPT ![n] = mode]
    /\ UNCHANGED <<task, now>>

\* After the commit: the front end sends the mail itself or queues it; when it
\* fails to, the delivery row stays pending.  EmailDelivery has the rest.
HandOver(k) ==
    /\ mail[k] \in {"send-now", "enqueue"}
    /\ \E outcome \in {IF mail[k] = "enqueue" THEN "queued" ELSE "sent", "pending"} :
          mail' = [mail EXCEPT ![k] = outcome]
    /\ UNCHANGED <<keys, task, now>>

-----------------------------------------------------------------------------
(* The gateway and the clock *)

\* ExternalToolFenceService.acquire: validated under the lock of the key
AcquireFence(k) ==
    /\ Exists(k) /\ ~Fenced(k)
    /\ keys[k].status = "active" /\ Covers(keys[k].window)
    /\ keys[k].ext = "fenced" /\ Finite(keys[k].limits)
    /\ Write(k, [keys[k] EXCEPT !.fence = TRUE])
    /\ UNCHANGED <<mail, task, now>>

\* ExternalToolFenceService.resolve, and the finalization of a hosted request
ReleaseFence(k, spent) ==
    /\ Exists(k) /\ Fenced(k)
    /\ keys[k].used + spent <= MaxUsed
    /\ Write(k, [keys[k] EXCEPT !.fence = FALSE, !.used = @ + spent])
    /\ UNCHANGED <<mail, task, now>>

Tick ==
    /\ now < MaxTime
    /\ now' = now + 1
    /\ UNCHANGED <<keys, mail, task>>

-----------------------------------------------------------------------------
(* Front ends that read the row first *)

\* The row is read without a lock; the edit keeps what the operator left alone.
Read(t, k, group, patch) ==
    /\ task[t] = Idle /\ Exists(k)
    /\ task' = [task EXCEPT ![t] =
                  [at |-> "edit", key |-> k, group |-> group, patch |-> patch,
                   seen |-> keys[k][group]]]
    /\ UNCHANGED <<keys, mail, now>>

\* The complete group a front end submits.
Submitted(t) == task[t].patch @@ task[t].seen

\* The start of a window comes from the form or from the locked row, its end
\* from the form or from the row that was read.
SubmittedWindow(t) ==
    [from |-> IF "from" \in DOMAIN task[t].patch THEN task[t].patch["from"]
              ELSE keys[task[t].key].window.from,
     until |-> Submitted(t)["until"]]

\* update_admin_key_limits, _update_limits of the command line
ReadForLimits(t, k) ==
    \E p \in Patches(Member["limits"], Values \cup {None}) : Read(t, k, "limits", p)

\* update_admin_key_rate_limits, _update_rate_limits: a console edit that would
\* change nothing of what it read is refused.
ReadForRate(t, k) ==
    \E p \in Patches(Member["rate"], Values \cup {None}) :
        p @@ keys[k].rate # keys[k].rate /\ Read(t, k, "rate", p)

\* update_admin_key_chat_streaming_live_burn, set_chat_streaming_live_burn (the
\* command reads in a transaction of its own)
ReadForBurn(t, k) ==
    \E p \in Patches(Member["burn"], Values) : Read(t, k, "burn", p)

\* update_admin_key_validity
ReadForValidity(t, k) ==
    \E p \in Patches({"from", "until"}, 0..MaxTime) : Read(t, k, "window", p)

Accepted(t) ==
    CASE task[t].group = "limits" -> LimitsAccepted(task[t].key, Submitted(t))
      [] task[t].group = "window" -> ValidityAccepted(task[t].key, SubmittedWindow(t))
      [] OTHER -> Exists(task[t].key)

\* The service call of a front end that has read the row.
Submit(t) ==
    /\ task[t] # Idle /\ Accepted(t)
    /\ LET g == task[t].group
           new == IF g = "window" THEN SubmittedWindow(t) ELSE Submitted(t)
       IN Write(task[t].key, [keys[task[t].key] EXCEPT ![g] = new])
    /\ task' = [task EXCEPT ![t] = Idle]
    /\ UNCHANGED <<mail, now>>

Refuse(t) ==
    /\ task[t] # Idle /\ ~Accepted(t)
    /\ task' = [task EXCEPT ![t] = Idle]
    /\ UNCHANGED <<keys, mail, now>>

-----------------------------------------------------------------------------
(* Front ends: the console ... *)

\* A trusted calibration key may not be mailed at once.
create_admin_key(k) ==
    \E row \in NewRows, mode \in Modes :
        /\ row.purpose = "calibration" => mode \in {"none", "pending"}
        /\ CreateKey(k, row, mode)

suspend_admin_key(k) == SuspendKey(k)
activate_admin_key(k) == ActivateKey(k)
revoke_admin_key(k) == RevokeKey(k)
update_admin_key_policy(k) == \E new \in Settings("allow") : UpdatePolicy(k, new)
update_admin_key_lazy_throttling(k) == \E wait \in BOOLEAN : UpdateLazy(k, wait)
update_admin_key_external_tool_policy(k) ==
    \E mode \in {"strict", "fenced"} : UpdateExternalTools(k, mode)
update_admin_key_configuration(k) ==
    \E config \in Configurations : UpdateConfiguration(k, config)
reset_admin_key_usage(k) == ResetUsage(k)
rotate_admin_key(k) ==
    \E n \in Managed, revoke \in BOOLEAN, mode \in Modes :
        Exists(k) /\ RotateKey(k, n, keys[k].window.until, revoke, mode)
apply_admin_compatibility(k) == \E move \in Moves : MigratePin(k, move[1], move[2])

(* ... and the command line *)

cli_create(k) ==
    \E row \in NewRows, mode \in Modes :
        /\ row.purpose = "calibration" => mode \in {"none", "pending"}
        /\ CreateKey(k, row, mode)
cli_suspend(k) == SuspendKey(k)
cli_activate(k) == ActivateKey(k)
cli_revoke(k) == RevokeKey(k)
cli_policy_update(k) == \E new \in Settings("allow") : UpdatePolicy(k, new)
cli_external_tools_update(k) ==
    \E mode \in {"strict", "fenced"} : UpdateExternalTools(k, mode)
\* extend: the service keeps the start of the locked row
cli_extend(k) ==
    \E until \in 0..MaxTime :
        LET w == [from |-> keys[k].window.from, until |-> until]
        IN /\ ValidityAccepted(k, w)
           /\ Write(k, [keys[k] EXCEPT !.window = w])
           /\ UNCHANGED <<mail, task, now>>
cli_set_lazy_throttling(k) == \E wait \in BOOLEAN : UpdateLazy(k, wait)
cli_reset_usage(k) == ResetUsage(k)
cli_rotate(k) ==
    \E n \in Managed, until \in 1..MaxTime, revoke \in BOOLEAN, mode \in Modes :
        RotateKey(k, n, until, revoke, mode)
cli_client_module(k) == \E move \in Moves : MigratePin(k, move[1], move[2])

ConsoleStep(k) ==
    \/ "create" \in Operations /\ create_admin_key(k)
    \/ "status" \in Operations /\ (suspend_admin_key(k) \/ activate_admin_key(k) \/ revoke_admin_key(k))
    \/ "policy" \in Operations /\ update_admin_key_policy(k)
    \/ "lazy" \in Operations /\ update_admin_key_lazy_throttling(k)
    \/ "ext" \in Operations /\ update_admin_key_external_tool_policy(k)
    \/ "config" \in Operations /\ update_admin_key_configuration(k)
    \/ "reset" \in Operations /\ reset_admin_key_usage(k)
    \/ "rotate" \in Operations /\ rotate_admin_key(k)
    \/ "pin" \in Operations /\ apply_admin_compatibility(k)

CommandLineStep(k) ==
    \/ "create" \in Operations /\ cli_create(k)
    \/ "status" \in Operations /\ (cli_suspend(k) \/ cli_activate(k) \/ cli_revoke(k))
    \/ "policy" \in Operations /\ cli_policy_update(k)
    \/ "lazy" \in Operations /\ cli_set_lazy_throttling(k)
    \/ "ext" \in Operations /\ cli_external_tools_update(k)
    \/ "validity" \in Operations /\ Exists(k) /\ cli_extend(k)
    \/ "reset" \in Operations /\ cli_reset_usage(k)
    \/ "rotate" \in Operations /\ cli_rotate(k)
    \/ "pin" \in Operations /\ cli_client_module(k)

ReadStep(t, k) ==
    \/ "limits" \in Operations /\ ReadForLimits(t, k)
    \/ "rate" \in Operations /\ Exists(k) /\ ReadForRate(t, k)
    \/ "burn" \in Operations /\ ReadForBurn(t, k)
    \/ "validity" \in Operations /\ ReadForValidity(t, k)

GatewayStep(k) ==
    \/ "fence" \in Operations /\ AcquireFence(k)
    \/ "fence" \in Operations /\ \E spent \in 0..1 : ReleaseFence(k, spent)

-----------------------------------------------------------------------------
(* Properties *)

\* A key whose policy lets hosted tools run always has a finite budget, however
\* edits of limits, policy and configuration alternate.
FencedIsFinite ==
    \A k \in Keys : Exists(k) =>
        /\ keys[k].ext = "fenced" => Finite(keys[k].limits) /\ keys[k].purpose = "standard"
        /\ keys[k].fence => keys[k].ext = "fenced"

BudgetKept ==
    \A k \in Keys : (Exists(k) /\ Fenced(k) /\ keys'[k].fence) =>
        /\ keys'[k].limits = keys[k].limits /\ keys'[k].ext = keys[k].ext
        /\ keys'[k].allow = keys[k].allow /\ keys'[k].used = keys[k].used
        /\ keys'[k].window # keys[k].window => Covers(keys'[k].window)

\* While a hosted request is bound to a key, nobody changes what the request
\* was admitted under: budget, tool policy, allowlists, spent counters; a new
\* window still covers the present.
BoundKeepsBudget == [][BudgetKept]_vars
=============================================================================

----------------------------- MODULE KeyProofs ------------------------------
(***************************************************************************)
(* Proofs about KeyManagement.                                             *)
(***************************************************************************)
EXTENDS KeyManagement, WellFoundedInduction, TLAPS

\* Few steps need arithmetic or the values of strings; those name SMT.
USE Zenon

-----------------------------------------------------------------------------
(* Rows *)

\* What a stored row satisfies: it has its columns, a policy with hosted tools
\* has a finite budget, and only such a policy binds hosted requests.
RowOK(row) ==
    /\ DOMAIN row = Columns
    /\ row.ext = "fenced" => Finite(row.limits) /\ row.purpose = "standard"
    /\ row.fence => row.ext = "fenced"

\* A bound request keeps what it was admitted under.
KeepsBound(old, new) ==
    (old.fence /\ new.fence) =>
        /\ new.limits = old.limits /\ new.ext = old.ext
        /\ new.allow = old.allow /\ new.used = old.used
        /\ new.window # old.window => Covers(new.window)

\* What a step may do to the row of k.
Created(k) == ~Exists(k) /\ Exists(k)' /\ RowOK(keys'[k])
Edited(k) == Exists(k) /\ Exists(k)' /\ RowOK(keys'[k]) /\ KeepsBound(keys[k], keys'[k])
Legal(k) == keys'[k] = keys[k] \/ Created(k) \/ Edited(k)

RowsInv ==
    /\ load \in DOMAIN Load
    /\ DOMAIN keys = Keys
    /\ \A k \in Keys : Exists(k) => RowOK(keys[k])

\* One column of a row is written.
LEMMA ColumnWritten ==
    ASSUME NEW row, DOMAIN row = Columns, NEW c \in Columns, NEW v
    PROVE  /\ DOMAIN [row EXCEPT ![c] = v] = Columns
           /\ [row EXCEPT ![c] = v][c] = v
           /\ \A d \in Columns \ {c} : [row EXCEPT ![c] = v][d] = row[d]
OBVIOUS

\* The columns.
LEMMA ColumnNames ==
    /\ "limits" \in Columns /\ "rate" \in Columns /\ "burn" \in Columns /\ "allow" \in Columns
    /\ "lazy" \in Columns /\ "ext" \in Columns /\ "pin" \in Columns /\ "status" \in Columns
    /\ "purpose" \in Columns /\ "window" \in Columns /\ "fence" \in Columns /\ "used" \in Columns
BY DEF Columns, Configured, Groups

\* A write of one row writes no other.
LEMMA RowWritten ==
    ASSUME RowsInv, NEW k \in Keys, NEW row, Write(k, row)
    PROVE  DOMAIN keys' = Keys /\ keys'[k] = row /\ \A j \in Keys \ {k} : keys'[j] = keys[j]
BY DEF RowsInv, Write

\* Writing a column that is not about the budget.
LEMMA PlainColumn ==
    ASSUME NEW row, RowOK(row), NEW c \in {"rate", "burn", "lazy", "pin", "status"}, NEW v
    PROVE  RowOK([row EXCEPT ![c] = v]) /\ KeepsBound(row, [row EXCEPT ![c] = v])
BY ColumnNames, SMT DEF RowOK, KeepsBound

\* A step that writes the row of k and no other.
OneRow(k) ==
    /\ DOMAIN keys' = Keys
    /\ Legal(k)
    /\ \A j \in Keys \ {k} : keys'[j] = keys[j]

\* An accepted edit of a row.
LEMMA EditedRow ==
    ASSUME RowsInv, NEW k \in Keys, NEW row, Write(k, row), Exists(k),
           row.status # "none", RowOK(row), KeepsBound(keys[k], row)
    PROVE  OneRow(k)
BY RowWritten DEF OneRow, Legal, Edited, Exists

\* An edit of a column that is not about the budget (suspend_gateway_key,
\* activate_gateway_key, revoke_gateway_key, the traffic settings).
LEMMA PlainEdit ==
    ASSUME RowsInv, NEW k \in Keys, Exists(k), NEW v,
           NEW c \in {"rate", "burn", "lazy", "pin", "status"}, c = "status" => v # "none",
           Write(k, [keys[k] EXCEPT ![c] = v])
    PROVE  OneRow(k)
<1>1. RowOK(keys[k])
  BY DEF RowsInv
<1>2. [keys[k] EXCEPT ![c] = v].status # "none"
  BY <1>1, ColumnNames, SMT DEF RowOK, Exists
<1> QED BY <1>1, <1>2, PlainColumn, EditedRow

\* Status changes.
LEMMA StatusEdit ==
    ASSUME RowsInv, NEW k \in Keys, SuspendKey(k) \/ ActivateKey(k) \/ RevokeKey(k)
    PROVE  OneRow(k)
<1>1. Exists(k)
  BY SMT DEF SuspendKey, ActivateKey, RevokeKey
<1>2. \E v \in {"active", "suspended", "revoked"} : Write(k, [keys[k] EXCEPT !["status"] = v])
  BY DEF SuspendKey, ActivateKey, RevokeKey
<1>3. PICK v \in {"active", "suspended", "revoked"} : Write(k, [keys[k] EXCEPT !["status"] = v])
  BY <1>2
<1>4. v # "none"
  BY SMT
<1> QED BY <1>1, <1>3, <1>4, PlainEdit

\* A new window: it covers the present while a request is bound.
LEMMA WindowEdit ==
    ASSUME RowsInv, NEW k \in Keys, NEW w, ValidityAccepted(k, w),
           Write(k, [keys[k] EXCEPT !["window"] = w])
    PROVE  OneRow(k)
<1>1. RowOK(keys[k]) /\ Exists(k)
  BY DEF RowsInv, ValidityAccepted
<1> DEFINE row == [keys[k] EXCEPT !["window"] = w]
<1>2. /\ row.status # "none" /\ RowOK(row)
      /\ row.fence = keys[k].fence /\ row.window = w
      /\ row.limits = keys[k].limits /\ row.ext = keys[k].ext
      /\ row.allow = keys[k].allow /\ row.used = keys[k].used
  BY <1>1, ColumnNames, SMT DEF RowOK, Exists
<1>3. KeepsBound(keys[k], row)
  BY <1>2 DEF KeepsBound, ValidityAccepted, Fenced
<1> HIDE DEF row
<1>4. Write(k, row)
  BY DEF row
<1> QED BY <1>1, <1>2, <1>3, <1>4, EditedRow

\* New limits, which a fenced policy needs finite.
LEMMA LimitsEdit ==
    ASSUME RowsInv, NEW k \in Keys, NEW new, LimitsAccepted(k, new),
           Write(k, [keys[k] EXCEPT !["limits"] = new])
    PROVE  OneRow(k)
<1>1. RowOK(keys[k]) /\ Exists(k) /\ ~keys[k].fence
  BY DEF RowsInv, LimitsAccepted, Fenced
<1> DEFINE row == [keys[k] EXCEPT !["limits"] = new]
<1>2. /\ DOMAIN row = Columns /\ row.status = keys[k].status /\ row.limits = new
      /\ row.ext = keys[k].ext /\ row.fence = keys[k].fence /\ row.purpose = keys[k].purpose
  BY <1>1, ColumnNames, SMT DEF RowOK
<1> HIDE DEF row
<1>3. RowOK(row)
  BY <1>1, <1>2 DEF RowOK, LimitsAccepted
<1>4. Write(k, row) /\ row.status # "none" /\ KeepsBound(keys[k], row)
  BY <1>1, <1>2 DEF row, Exists, KeepsBound
<1> QED BY <1>1, <1>3, <1>4, EditedRow

\* A new request policy, or a new counter of spent units, of a key that is free.
LEMMA FreeEdit ==
    ASSUME RowsInv, NEW k \in Keys, Exists(k), ~Fenced(k), NEW v, NEW c \in {"allow", "used"},
           Write(k, [keys[k] EXCEPT ![c] = v])
    PROVE  OneRow(k)
<1>1. RowOK(keys[k])
  BY DEF RowsInv
<1> DEFINE row == [keys[k] EXCEPT ![c] = v]
<1>2. /\ DOMAIN row = Columns /\ row.status = keys[k].status /\ row.limits = keys[k].limits
      /\ row.ext = keys[k].ext /\ row.fence = keys[k].fence /\ row.purpose = keys[k].purpose
  BY <1>1, ColumnNames, SMT DEF RowOK
<1> HIDE DEF row
<1>3. RowOK(row)
  BY <1>1, <1>2 DEF RowOK
<1>4. Write(k, row) /\ row.status # "none" /\ KeepsBound(keys[k], row)
  BY <1>2 DEF row, Exists, Fenced, KeepsBound
<1> QED BY <1>3, <1>4, EditedRow

\* update_gateway_key_external_tool_policy
LEMMA ToolEdit ==
    ASSUME RowsInv, NEW k \in Keys, NEW mode \in {"strict", "fenced"}, UpdateExternalTools(k, mode)
    PROVE  OneRow(k)
<1>1. RowOK(keys[k]) /\ Exists(k) /\ ~keys[k].fence
  BY DEF RowsInv, UpdateExternalTools, Fenced
<1> DEFINE row == [keys[k] EXCEPT !["ext"] = mode]
<1>2. /\ DOMAIN row = Columns /\ row.status = keys[k].status /\ row.limits = keys[k].limits
      /\ row.ext = mode /\ row.fence = keys[k].fence /\ row.purpose = keys[k].purpose
  BY <1>1, ColumnNames, SMT DEF RowOK
<1>3. Write(k, row)
  BY DEF UpdateExternalTools
<1> HIDE DEF row
<1>4. RowOK(row)
  BY <1>1, <1>2 DEF RowOK, UpdateExternalTools, FencingAccepted
<1>5. row.status # "none" /\ KeepsBound(keys[k], row)
  BY <1>1, <1>2 DEF Exists, KeepsBound
<1> QED BY <1>1, <1>3, <1>4, <1>5, EditedRow

\* A configuration names no column outside the configured ones.
LEMMA PatchedRow ==
    ASSUME NEW row, DOMAIN row = Columns, NEW config
    PROVE  LET new == Patched(row, config) IN
           /\ DOMAIN new = Columns
           /\ new.status = row.status /\ new.purpose = row.purpose /\ new.window = row.window
           /\ new.fence = row.fence /\ new.used = row.used
           /\ new.ext = IF config.ext = None THEN row.ext ELSE config.ext
BY ColumnNames, SMT DEF Patched

\* What _prepare_key_configuration_update lets through is a legal row, with the
\* status, the purpose and the window of the old one.
LEMMA PreparedRow ==
    ASSUME NEW row, RowOK(row), ~row.fence, NEW config, Prepared(row, config) # None
    PROVE  LET new == Prepared(row, config) IN
           /\ RowOK(new) /\ KeepsBound(row, new)
           /\ new.status = row.status /\ new.purpose = row.purpose /\ new.window = row.window
<1> DEFINE new == Patched(row, config)
<1>1. /\ Prepared(row, config) = new
      /\ config.ext = "fenced" => row.purpose = "standard"
      /\ new.ext = "fenced" => Finite(new.limits)
  BY DEF Prepared
<1>2. /\ DOMAIN new = Columns /\ new.status = row.status /\ new.purpose = row.purpose
      /\ new.window = row.window /\ new.fence = row.fence
      /\ new.ext = IF config.ext = None THEN row.ext ELSE config.ext
  BY PatchedRow DEF RowOK
<1> HIDE DEF new
<1>3. new.ext = "fenced" => new.purpose = "standard"
  BY <1>1, <1>2 DEF RowOK
<1>4. RowOK(new) /\ KeepsBound(row, new)
  BY <1>1, <1>2, <1>3 DEF RowOK, KeepsBound
<1> QED BY <1>1, <1>2, <1>4

\* update_gateway_key_configuration
LEMMA ConfigurationEdit ==
    ASSUME RowsInv, NEW k \in Keys, NEW config, UpdateConfiguration(k, config)
    PROVE  OneRow(k)
<1>1. RowOK(keys[k]) /\ Exists(k) /\ ~keys[k].fence
  BY DEF RowsInv, UpdateConfiguration, Fenced
<1>2. Prepared(keys[k], config) # None /\ Write(k, Prepared(keys[k], config))
  BY DEF UpdateConfiguration
<1>3. /\ RowOK(Prepared(keys[k], config)) /\ KeepsBound(keys[k], Prepared(keys[k], config))
      /\ Prepared(keys[k], config).status = keys[k].status
  BY <1>1, <1>2, PreparedRow
<1> QED BY <1>1, <1>2, <1>3, EditedRow DEF Exists

\* create_gateway_key, of a row with all columns
LEMMA NewRow ==
    ASSUME RowsInv, NEW k \in Keys, NEW row, DOMAIN row = Columns, NEW mode, CreateKey(k, row, mode)
    PROVE  OneRow(k) /\ Created(k) /\ keys'[k] = row
<1>1. ~Exists(k) /\ Creatable(row) /\ Write(k, row)
  BY DEF CreateKey
<1>2. row.status # "none"
  BY <1>1, SMT DEF Creatable
<1>3. RowOK(row)
  BY <1>1 DEF Creatable, RowOK, FencingAccepted
<1> QED BY <1>1, <1>2, <1>3, RowWritten DEF OneRow, Legal, Created, Exists

\* rotate_gateway_key writes two rows.
LEMMA Rotation ==
    ASSUME RowsInv, NEW k \in Keys, NEW n \in Keys, NEW until, NEW revoke, NEW mode,
           RotateKey(k, n, until, revoke, mode)
    PROVE  /\ DOMAIN keys' = Keys /\ ~Exists(n) /\ k # n
           /\ \A j \in Keys : Legal(j) /\ (j \notin {k, n} => keys'[j] = keys[j])
<1> DEFINE old == [keys[k] EXCEPT !.status = IF revoke THEN "revoked" ELSE @]
           new == [keys[k] EXCEPT !.status = "active", !.used = 0, !.window.until = until]
<1>1. /\ Exists(k) /\ ~Exists(n) /\ ~keys[k].fence /\ RowOK(keys[k])
      /\ keys' = [keys EXCEPT ![k] = old, ![n] = new]
  BY DEF RotateKey, RowsInv, Fenced
<1>2. /\ DOMAIN old = Columns /\ old.status # "none" /\ old.ext = keys[k].ext
      /\ old.limits = keys[k].limits /\ old.purpose = keys[k].purpose /\ old.fence = keys[k].fence
  BY <1>1, ColumnNames, SMT DEF RowOK, Exists
<1>3. /\ DOMAIN new = Columns /\ new.status # "none" /\ new.ext = keys[k].ext
      /\ new.limits = keys[k].limits /\ new.purpose = keys[k].purpose /\ new.fence = keys[k].fence
  BY <1>1, ColumnNames, SMT DEF RowOK
<1> HIDE DEF old, new
<1>4. k # n
  BY <1>1
<1>5. DOMAIN keys' = Keys /\ keys'[k] = old /\ keys'[n] = new
      /\ \A j \in Keys \ {k, n} : keys'[j] = keys[j]
  BY <1>1, <1>4, SMT DEF RowsInv
<1>6. RowOK(old) /\ RowOK(new) /\ KeepsBound(keys[k], old)
  BY <1>1, <1>2, <1>3 DEF RowOK, KeepsBound
<1>7. Edited(k) /\ Created(n)
  BY <1>1, <1>2, <1>3, <1>5, <1>6 DEF Edited, Created, Exists
<1> QED BY <1>1, <1>4, <1>5, <1>7 DEF Legal

\* ExternalToolFenceService binds and releases hosted requests.
LEMMA FenceEdit ==
    ASSUME RowsInv, NEW k \in Keys, AcquireFence(k) \/ \E spent \in 0..1 : ReleaseFence(k, spent)
    PROVE  OneRow(k)
<1>1. CASE AcquireFence(k)
  <2> DEFINE row == [keys[k] EXCEPT !.fence = TRUE]
  <2>1. /\ RowOK(keys[k]) /\ Exists(k) /\ ~keys[k].fence /\ keys[k].ext = "fenced" /\ Write(k, row)
    BY <1>1 DEF RowsInv, AcquireFence, Fenced
  <2>2. /\ DOMAIN row = Columns /\ row.status = keys[k].status /\ row.limits = keys[k].limits
        /\ row.ext = keys[k].ext /\ row.purpose = keys[k].purpose
    BY <2>1, ColumnNames, SMT DEF RowOK
  <2> HIDE DEF row
  <2>3. RowOK(row) /\ KeepsBound(keys[k], row)
    BY <2>1, <2>2 DEF RowOK, KeepsBound
  <2> QED BY <2>1, <2>2, <2>3, EditedRow DEF Exists
<1>2. ASSUME NEW spent \in 0..1, ReleaseFence(k, spent) PROVE OneRow(k)
  <2> DEFINE row == [keys[k] EXCEPT !.fence = FALSE, !.used = @ + spent]
  <2>1. /\ RowOK(keys[k]) /\ Exists(k) /\ Write(k, row)
    BY <1>2 DEF ReleaseFence, RowsInv
  <2>2. /\ DOMAIN row = Columns /\ row.status = keys[k].status /\ row.limits = keys[k].limits
        /\ row.ext = keys[k].ext /\ row.purpose = keys[k].purpose /\ row.fence = FALSE
    BY <2>1, ColumnNames, SMT DEF RowOK
  <2> HIDE DEF row
  <2>3. RowOK(row) /\ KeepsBound(keys[k], row)
    BY <2>1, <2>2 DEF RowOK, KeepsBound
  <2> QED BY <2>1, <2>2, <2>3, EditedRow DEF Exists
<1> QED BY <1>1, <1>2

-----------------------------------------------------------------------------
(* The front ends *)

\* A step that writes the row of k, and perhaps one that did not exist.
RowsStep(k) ==
    /\ DOMAIN keys' = Keys
    /\ \A j \in Keys : Legal(j) /\ (j = k \/ ~Exists(j) \/ keys'[j] = keys[j])

\* One row is a case of it.
LEMMA OneRowStep ==
    ASSUME NEW k \in Keys, OneRow(k)
    PROVE  RowsStep(k)
BY DEF OneRow, RowsStep, Legal

\* The keys that are managed one by one, and the rows that are created.
LEMMA LoadTypes ==
    ASSUME RowsInv
    PROVE  Managed \subseteq Keys /\ \A row \in NewRows : DOMAIN row = Columns
BY LifecycleConstants DEF RowsInv, Managed, NewRows

\* Both front ends create keys.
LEMMA CreateStep ==
    ASSUME RowsInv, NEW k \in Keys, create_admin_key(k) \/ cli_create(k)
    PROVE  RowsStep(k) /\ UNCHANGED <<task, now>>
<1>1. PICK row \in NewRows, mode \in Modes : CreateKey(k, row, mode)
  BY DEF create_admin_key, cli_create
<1> QED BY <1>1, LoadTypes, NewRow, OneRowStep DEF CreateKey

\* Both front ends edit settings under the lock.
LEMMA EditStep ==
    ASSUME RowsInv, NEW k \in Keys,
           \/ suspend_admin_key(k) \/ activate_admin_key(k) \/ revoke_admin_key(k)
           \/ update_admin_key_policy(k) \/ update_admin_key_lazy_throttling(k)
           \/ update_admin_key_external_tool_policy(k) \/ update_admin_key_configuration(k)
           \/ reset_admin_key_usage(k) \/ apply_admin_compatibility(k)
           \/ cli_suspend(k) \/ cli_activate(k) \/ cli_revoke(k) \/ cli_policy_update(k)
           \/ cli_external_tools_update(k) \/ cli_set_lazy_throttling(k)
           \/ cli_reset_usage(k) \/ cli_client_module(k)
           \/ Exists(k) /\ cli_extend(k)
    PROVE  OneRow(k) /\ UNCHANGED <<task, now>>
<1>1. CASE SuspendKey(k) \/ ActivateKey(k) \/ RevokeKey(k)
  BY <1>1, StatusEdit DEF SuspendKey, ActivateKey, RevokeKey
<1>2. ASSUME NEW new, UpdatePolicy(k, new) PROVE OneRow(k) /\ UNCHANGED <<task, now>>
  BY <1>2, FreeEdit DEF UpdatePolicy
<1>3. ASSUME NEW wait, UpdateLazy(k, wait) PROVE OneRow(k) /\ UNCHANGED <<task, now>>
  <2>1. Exists(k) /\ Write(k, [keys[k] EXCEPT !["lazy"] = wait]) /\ "lazy" # "status"
    BY <1>3, SMT DEF UpdateLazy
  <2> QED BY <1>3, <2>1, PlainEdit DEF UpdateLazy
<1>4. ASSUME NEW mode \in {"strict", "fenced"}, UpdateExternalTools(k, mode)
      PROVE  OneRow(k) /\ UNCHANGED <<task, now>>
  BY <1>4, ToolEdit DEF UpdateExternalTools
<1>5. ASSUME NEW config, UpdateConfiguration(k, config) PROVE OneRow(k) /\ UNCHANGED <<task, now>>
  BY <1>5, ConfigurationEdit DEF UpdateConfiguration
<1>6. CASE ResetUsage(k)
  BY <1>6, FreeEdit DEF ResetUsage
<1>7. ASSUME NEW a, NEW b, MigratePin(k, a, b) PROVE OneRow(k) /\ UNCHANGED <<task, now>>
  <2>1. Exists(k) /\ Write(k, [keys[k] EXCEPT !["pin"] = b]) /\ "pin" # "status"
    BY <1>7, SMT DEF MigratePin
  <2> QED BY <1>7, <2>1, PlainEdit DEF MigratePin
<1>8. CASE Exists(k) /\ cli_extend(k)
  BY <1>8, WindowEdit DEF cli_extend
<1> QED
  BY <1>1, <1>2, <1>3, <1>4, <1>5, <1>6, <1>7, <1>8
     DEF suspend_admin_key, activate_admin_key, revoke_admin_key, update_admin_key_policy,
         update_admin_key_lazy_throttling, update_admin_key_external_tool_policy,
         update_admin_key_configuration, reset_admin_key_usage, apply_admin_compatibility,
         cli_suspend, cli_activate, cli_revoke, cli_policy_update, cli_external_tools_update,
         cli_set_lazy_throttling, cli_reset_usage, cli_client_module

\* Both front ends rotate keys.
LEMMA RotateStep ==
    ASSUME RowsInv, NEW k \in Keys, rotate_admin_key(k) \/ cli_rotate(k)
    PROVE  RowsStep(k) /\ UNCHANGED <<task, now>>
<1>1. ASSUME NEW n \in Managed, NEW until, NEW revoke, NEW mode, RotateKey(k, n, until, revoke, mode)
      PROVE  RowsStep(k) /\ UNCHANGED <<task, now>>
  <2>1. n \in Keys
    BY LoadTypes
  <2> QED BY <1>1, <2>1, Rotation DEF RowsStep, RotateKey
<1> QED BY <1>1 DEF rotate_admin_key, cli_rotate

\* Everything the front ends and the gateway do to an unlocked key.
LEMMA KeyStep ==
    ASSUME RowsInv, NEW k \in Keys, ConsoleStep(k) \/ CommandLineStep(k) \/ GatewayStep(k)
    PROVE  RowsStep(k) /\ UNCHANGED <<task, now>>
<1>1. CASE ConsoleStep(k)
  BY <1>1, CreateStep, EditStep, RotateStep, OneRowStep DEF ConsoleStep
<1>2. CASE CommandLineStep(k)
  BY <1>2, CreateStep, EditStep, RotateStep, OneRowStep DEF CommandLineStep
<1>3. CASE GatewayStep(k)
  <2>1. AcquireFence(k) \/ \E spent \in 0..1 : ReleaseFence(k, spent)
    BY <1>3 DEF GatewayStep
  <2> QED BY <2>1, FenceEdit, OneRowStep DEF AcquireFence, ReleaseFence
<1> QED BY <1>1, <1>2, <1>3

-----------------------------------------------------------------------------
(* The inductive invariant *)

\* Edits that front ends carry between their read and their call.
TasksInv ==
    /\ DOMAIN task = Tasks
    /\ \A t \in Tasks : task[t] # Idle =>
          task[t].key \in Keys /\ task[t].group \in {"limits", "rate", "burn", "window"}

\* A plan keeps its source, which stays; a receipt names the plan of its
\* operation, whatever was edited in the plan since.
ClonesInv ==
    /\ DOMAIN plan = Clones /\ DOMAIN receipt = Keys
    /\ \A o \in Clones : Reviewed(o) =>
          /\ "source" \in DOMAIN plan[o] /\ "mode" \in DOMAIN plan[o]
          /\ plan[o].source \in Keys /\ Exists(plan[o].source)
    /\ \A k \in Keys : receipt[k] # None =>
          /\ receipt[k].operation \in Clones
          /\ Reviewed(receipt[k].operation)
          /\ receipt[k].plan.source = plan[receipt[k].operation].source

\* The transaction of a batch: outside of one it holds no row; the rows it has
\* locked lie below those it still needs; once it has resolved the selection,
\* it holds all selected rows, and they have the statuses that were asked for.
BatchInv(b) ==
    /\ batch[b].at \in {"idle", "preview", "reviewed", "apply", "resolved"}
    /\ batch[b].at # "idle" =>
          /\ "at" \in DOMAIN batch[b] /\ "todo" \in DOMAIN batch[b]
          /\ "selected" \in DOMAIN batch[b] /\ "statuses" \in DOMAIN batch[b]
          /\ batch[b].selected \subseteq Keys /\ batch[b].todo \subseteq batch[b].selected
    /\ batch[b].at \in {"idle", "reviewed"} => \A k \in Keys : lock[k] # b
    /\ batch[b].at \in {"preview", "apply"} =>
          /\ \A k \in batch[b].selected \ batch[b].todo : lock[k] = b
          /\ \A k \in Keys, j \in batch[b].todo : lock[k] = b => k < j
    /\ batch[b].at = "resolved" => \A k \in batch[b].selected :
          lock[k] = b /\ Exists(k) /\ keys[k].status \in batch[b].statuses

BatchesInv ==
    /\ DOMAIN batch = Batches /\ DOMAIN lock = Keys
    /\ \A b \in Batches : BatchInv(b)

KeysInv == RowsInv /\ TasksInv /\ ClonesInv /\ BatchesInv

\* It holds at the start.
LEMMA KeysInvInit == KeysInit => KeysInv
<1> SUFFICES ASSUME KeysInit PROVE KeysInv
  OBVIOUS
<1>1. RowsInv
  <2>1. load \in DOMAIN Load /\ keys \in [Keys -> NewRows \cup {NoRow}]
        /\ (\A k \in Keys : Exists(k) <=> k \in Initial) /\ \A k \in Initial : Creatable(keys[k])
    BY DEF KeysInit, LifecycleInit
  <2>2. ASSUME NEW k \in Keys, Exists(k) PROVE RowOK(keys[k])
    <3>0. keys[k] # NoRow
      BY <2>2, SMT DEF Exists, NoRow
    <3>1. keys[k] \in NewRows /\ Creatable(keys[k])
      BY <2>1, <2>2, <3>0
    <3>2. DOMAIN keys[k] = Columns
      BY <2>1, <3>1, LifecycleConstants DEF NewRows
    <3> QED BY <3>1, <3>2 DEF RowOK, Creatable, FencingAccepted
  <2> QED BY <2>1, <2>2 DEF RowsInv
<1>2. TasksInv
  BY DEF KeysInit, LifecycleInit, TasksInv
<1>3. ClonesInv
  BY DEF KeysInit, CloneInit, ClonesInv, Reviewed, NoClone
<1>4. BatchesInv
  <2>1. \A b \in Batches : batch[b].at = "idle"
    BY DEF KeysInit, BatchInit, NoPlan
  <2>2. \A k \in Keys : lock[k] = None
    BY DEF KeysInit, BatchInit
  <2>3. \A b \in Batches : BatchInv(b)
    BY <2>1, <2>2, BatchConstants, SMT DEF BatchInv
  <2> QED BY <2>3 DEF BatchesInv, KeysInit, BatchInit
<1> QED BY <1>1, <1>2, <1>3, <1>4 DEF KeysInv

\* Legal changes keep the rows as they must be.
LEMMA RowsKept ==
    ASSUME RowsInv, UNCHANGED load, DOMAIN keys' = Keys, \A k \in Keys : Legal(k)
    PROVE  RowsInv' /\ \A k \in Keys : Exists(k) => Exists(k)'
<1>1. \A k \in Keys : Exists(k) => Exists(k)'
  BY DEF Legal, Created, Edited, Exists
<1>2. ASSUME NEW k \in Keys, Exists(k)' PROVE RowOK(keys[k])'
  <2>1. RowOK(keys'[k])
    BY <1>2 DEF Legal, Created, Edited, RowsInv, Exists
  <2> QED BY <2>1 DEF RowOK, Finite, Member
<1> QED BY <1>1, <1>2 DEF RowsInv

\* What everybody else does leaves locked rows alone.
Quiet ==
    /\ DOMAIN keys' = Keys
    /\ \A j \in Keys : Legal(j) /\ (lock[j] = None \/ ~Exists(j) \/ keys'[j] = keys[j])

\* The transactions of batches do not notice it.
LEMMA BatchesKept ==
    ASSUME KeysInv, Quiet, UNCHANGED <<batch, lock>>
    PROVE  BatchesInv'
<1>1. ASSUME NEW b \in Batches PROVE BatchInv(b)'
  <2>1. BatchInv(b) /\ batch'[b] = batch[b] /\ lock' = lock /\ None # b
    BY BatchConstants DEF KeysInv, BatchesInv
  <2>2. ASSUME batch[b].at = "resolved", NEW k \in batch[b].selected
        PROVE  keys'[k] = keys[k] /\ keys[k].status \in batch[b].statuses /\ lock[k] = b /\ Exists(k)
    <3>1. lock[k] = b /\ Exists(k) /\ keys[k].status \in batch[b].statuses
      BY <2>1, <2>2 DEF BatchInv
    <3>2. k \in Keys
      BY <2>1, <2>2, SMT DEF BatchInv
    <3> QED BY <2>1, <3>1, <3>2 DEF Quiet
  <2> QED BY <2>1, <2>2 DEF BatchInv, Exists
<1> QED BY <1>1 DEF KeysInv, BatchesInv

\* Neither do the plans and receipts of clones.
LEMMA ClonesKept ==
    ASSUME ClonesInv, UNCHANGED <<plan, receipt>>, \A k \in Keys : Exists(k) => Exists(k)'
    PROVE  ClonesInv'
BY DEF ClonesInv, Reviewed

\* The call of a front end that read the row before.
LEMMA SubmitRows ==
    ASSUME RowsInv, TasksInv, NEW t \in Tasks, Submit(t)
    PROVE  OneRow(task[t].key) /\ task[t].key \in Keys /\ task' = [task EXCEPT ![t] = Idle]
<1> DEFINE k == task[t].key
           g == task[t].group
           new == IF g = "window" THEN SubmittedWindow(t) ELSE Submitted(t)
<1>1. /\ k \in Keys /\ g \in {"limits", "rate", "burn", "window"} /\ Accepted(t)
      /\ Write(k, [keys[k] EXCEPT ![g] = new]) /\ task' = [task EXCEPT ![t] = Idle]
  BY DEF Submit, TasksInv
<1>2. CASE g = "limits"
  <2>1. LimitsAccepted(k, Submitted(t)) /\ new = Submitted(t)
    BY <1>1, <1>2, SMT DEF Accepted
  <2> QED BY <1>1, <1>2, <2>1, LimitsEdit
<1>3. CASE g = "window"
  <2>1. ValidityAccepted(k, SubmittedWindow(t)) /\ new = SubmittedWindow(t)
    BY <1>1, <1>3, SMT DEF Accepted
  <2> QED BY <1>1, <1>3, <2>1, WindowEdit
<1>4. CASE g \in {"rate", "burn"}
  <2>1. Exists(k) /\ g # "status" /\ g \in {"rate", "burn", "lazy", "pin", "status"}
    BY <1>1, <1>4, SMT DEF Accepted
  <2> QED BY <1>1, <2>1, PlainEdit
<1> QED BY <1>1, <1>2, <1>3, <1>4

\* A row is read for an edit.
LEMMA ReadTasks ==
    ASSUME TasksInv, NEW t \in Tasks, NEW k \in Keys, ReadStep(t, k)
    PROVE  TasksInv' /\ UNCHANGED keys
<1>1. ASSUME NEW g \in {"limits", "rate", "burn", "window"}, NEW p, Read(t, k, g, p)
      PROVE  TasksInv' /\ UNCHANGED keys
  BY <1>1 DEF Read, TasksInv
<1> QED BY <1>1 DEF ReadStep, ReadForLimits, ReadForRate, ReadForBurn, ReadForValidity

\* Everything but clones and batches.
LEMMA SingleInv ==
    ASSUME KeysInv, SingleStep, UNCHANGED <<load, plan, receipt, answer, batch, lock>>
    PROVE  KeysInv' /\ \A k \in Keys : Legal(k)
<1>1. RowsInv /\ TasksInv /\ ClonesInv /\ Managed \subseteq Keys
  BY LoadTypes DEF KeysInv
<1>2. Quiet /\ TasksInv'
  <2>1. ASSUME NEW k \in Managed, lock[k] = None, ConsoleStep(k) \/ CommandLineStep(k) \/ GatewayStep(k)
        PROVE  Quiet /\ TasksInv'
    BY <1>1, <2>1, KeyStep DEF RowsStep, Quiet, TasksInv
  <2>2. ASSUME UNCHANGED keys PROVE Quiet
    BY <1>1, <2>2 DEF Quiet, Legal, RowsInv
  <2>3. ASSUME NEW k \in Managed, HandOver(k) PROVE Quiet /\ TasksInv'
    BY <1>1, <2>2, <2>3 DEF HandOver, TasksInv
  <2>4. ASSUME NEW t \in Tasks, NEW k \in Managed, ReadStep(t, k) PROVE Quiet /\ TasksInv'
    BY <1>1, <2>2, <2>4, ReadTasks
  <2>5. ASSUME NEW t \in Tasks, lock[task[t].key] = None, Submit(t) PROVE Quiet /\ TasksInv'
    <3>1. OneRow(task[t].key) /\ task[t].key \in Keys /\ task' = [task EXCEPT ![t] = Idle]
      BY <1>1, <2>5, SubmitRows
    <3>2. Quiet
      BY <2>5, <3>1 DEF OneRow, Quiet, Legal
    <3> QED BY <1>1, <3>1, <3>2 DEF TasksInv
  <2>6. ASSUME NEW t \in Tasks, Refuse(t) PROVE Quiet /\ TasksInv'
    BY <1>1, <2>2, <2>6 DEF Refuse, TasksInv
  <2>7. CASE Tick
    BY <1>1, <2>2, <2>7 DEF Tick, TasksInv
  <2> QED BY <2>1, <2>3, <2>4, <2>5, <2>6, <2>7 DEF SingleStep
<1>3. RowsInv' /\ \A k \in Keys : Exists(k) => Exists(k)'
  BY <1>1, <1>2, RowsKept DEF Quiet
<1>4. ClonesInv' /\ BatchesInv'
  BY <1>1, <1>2, <1>3, ClonesKept, BatchesKept
<1> QED BY <1>2, <1>3, <1>4 DEF KeysInv, Quiet

-----------------------------------------------------------------------------
(* Clones *)

\* A plan is built.
LEMMA BuildPlanInv ==
    ASSUME ClonesInv, NEW o \in Clones, NEW s \in Keys, BuildPlan(o, s)
    PROVE  ClonesInv' /\ UNCHANGED <<keys, task, receipt>>
<1>1. ~Reviewed(o) /\ Exists(s) /\ UNCHANGED <<keys, task, receipt>>
  BY DEF BuildPlan
<1>2. PICK p : /\ p.source = s /\ p.mode \in {"copy", "duration", "absolute"}
               /\ "source" \in DOMAIN p /\ "mode" \in DOMAIN p
               /\ plan' = [plan EXCEPT ![o] = p]
  <2>1. ASSUME NEW owner \in Owners, NEW mode \in {"copy", "duration", "absolute"},
               NEW duration \in Durations, NEW window \in Windows,
               plan' = [plan EXCEPT ![o] =
                   [source |-> s, state |-> SourceState(keys[s]), policy |-> Policy(keys[s]),
                    expiry |-> keys[s].window.until, fenced |-> keys[s].ext = "fenced",
                    owner |-> owner, mode |-> mode,
                    duration |-> IF mode = "duration" THEN duration ELSE None,
                    window |-> IF mode = "absolute" THEN window ELSE None]]
        PROVE  \E p : /\ p.source = s /\ p.mode \in {"copy", "duration", "absolute"}
                      /\ "source" \in DOMAIN p /\ "mode" \in DOMAIN p
                      /\ plan' = [plan EXCEPT ![o] = p]
    <3> DEFINE p == [source |-> s, state |-> SourceState(keys[s]), policy |-> Policy(keys[s]),
                    expiry |-> keys[s].window.until, fenced |-> keys[s].ext = "fenced",
                    owner |-> owner, mode |-> mode,
                    duration |-> IF mode = "duration" THEN duration ELSE None,
                    window |-> IF mode = "absolute" THEN window ELSE None]
    <3>1. /\ p.source = s /\ p.mode = mode /\ "source" \in DOMAIN p /\ "mode" \in DOMAIN p
      OBVIOUS
    <3>2. plan' = [plan EXCEPT ![o] = p]
      BY <2>1
    <3> HIDE DEF p
    <3> QED BY <3>1, <3>2
  <2> QED BY <2>1, ZenonT(60) DEF BuildPlan
<1>3. p.mode # "none"
  BY <1>2, SMT
<1>4. DOMAIN plan' = Clones /\ plan'[o] = p /\ \A x \in Clones \ {o} : plan'[x] = plan[x]
  BY <1>2 DEF ClonesInv
<1>5. \A k \in Keys : receipt[k] # None => receipt[k].operation \in Clones \ {o}
  BY <1>1 DEF ClonesInv
<1>6. \A x \in Clones : Reviewed(x)' =>
          /\ "source" \in DOMAIN plan'[x] /\ "mode" \in DOMAIN plan'[x]
          /\ plan'[x].source \in Keys /\ Exists(plan'[x].source)
  BY <1>1, <1>2, <1>4 DEF ClonesInv, Reviewed
<1>7. \A k \in Keys : receipt[k] # None =>
          /\ receipt[k].operation \in Clones
          /\ Reviewed(receipt[k].operation)'
          /\ receipt[k].plan.source = plan'[receipt[k].operation].source
  BY <1>1, <1>4, <1>5 DEF ClonesInv, Reviewed
<1> QED BY <1>1, <1>4, <1>6, <1>7 DEF ClonesInv, Exists

\* A plan file is edited: its source stays.
LEMMA EditPlanInv ==
    ASSUME ClonesInv, NEW o \in Clones, EditClonePlan(o)
    PROVE  ClonesInv' /\ UNCHANGED <<keys, task, receipt>>
<1>1. Reviewed(o) /\ UNCHANGED <<keys, task, receipt>>
  BY DEF EditClonePlan
<1>2. "source" \in DOMAIN plan[o] /\ "mode" \in DOMAIN plan[o] /\ plan[o].mode # "none"
  BY <1>1 DEF ClonesInv, Reviewed
<1>3. PICK p : /\ p.source = plan[o].source /\ p.mode # "none"
               /\ "source" \in DOMAIN p /\ "mode" \in DOMAIN p
               /\ plan' = [plan EXCEPT ![o] = p]
  <2> DEFINE Keeps(p) == /\ p.source = plan[o].source /\ p.mode # "none"
                         /\ "source" \in DOMAIN p /\ "mode" \in DOMAIN p
  <2>1. \A x \in Owners : Keeps([plan[o] EXCEPT !.owner = x])
    BY <1>2, SMT
  <2>2. Keeps([plan[o] EXCEPT !.fenced = ~@])
    BY <1>2, SMT
  <2>3. Keeps([plan[o] EXCEPT !.mode = "copy", !.duration = None, !.window = None])
    BY <1>2, SMT
  <2>4. Keeps([plan[o] EXCEPT !.expiry = MaxTime])
    BY <1>2, SMT
  <2>5. Keeps([plan[o] EXCEPT !.policy.ext = "strict"])
    BY <1>2, SMT
  <2>6. PICK p \in {[plan[o] EXCEPT !.owner = x] : x \in Owners}
             \cup {[plan[o] EXCEPT !.fenced = ~@],
                   [plan[o] EXCEPT !.mode = "copy", !.duration = None, !.window = None],
                   [plan[o] EXCEPT !.expiry = MaxTime],
                   [plan[o] EXCEPT !.policy.ext = "strict"]} : plan' = [plan EXCEPT ![o] = p]
    BY DEF EditClonePlan
  <2>7. Keeps(p)
    <3> HIDE DEF Keeps
    <3> QED BY <2>1, <2>2, <2>3, <2>4, <2>5, <2>6
  <2> QED BY <2>6, <2>7
<1>4. DOMAIN plan' = Clones /\ plan'[o] = p /\ \A x \in Clones \ {o} : plan'[x] = plan[x]
  BY <1>3 DEF ClonesInv
<1>5. \A x \in Clones : plan'[x].source = plan[x].source /\ (Reviewed(x)' <=> Reviewed(x))
  BY <1>1, <1>3, <1>4 DEF Reviewed
<1>6. \A x \in Clones : Reviewed(x)' => "source" \in DOMAIN plan'[x] /\ "mode" \in DOMAIN plan'[x]
  BY <1>3, <1>4, <1>5 DEF ClonesInv
<1> QED BY <1>1, <1>4, <1>5, <1>6 DEF ClonesInv, Exists

\* A plan is executed for the first time.  The receipts of its operation, if
\* there were any, would name its source; so there is none.
LEMMA ExecuteInv ==
    ASSUME RowsInv, ClonesInv, UNCHANGED load, NEW o \in Clones, NEW n \in Keys, NEW mode,
           ExecuteFirst(o, n, mode)
    PROVE  /\ OneRow(n) /\ ~Exists(n) /\ UNCHANGED task /\ ClonesInv'
           /\ CloneAsReviewed
<1> DEFINE p == plan[o]
           w == TargetWindow(p)
           row == [keys[p.source] EXCEPT !.window = w, !.used = 0, !.fence = FALSE]
<1>1. /\ Reviewed(o) /\ Receipts(o) = {} /\ StillReviewed(p) /\ CreateKey(n, row, mode)
      /\ receipt' = [receipt EXCEPT ![n] = [operation |-> o, plan |-> p]] /\ plan' = plan
  BY DEF ExecuteFirst
<1>2. RowOK(keys[p.source]) /\ p.source \in Keys
  BY <1>1 DEF ClonesInv, RowsInv
<1>3. /\ DOMAIN row = Columns /\ row.window = w
      /\ row.ext = keys[p.source].ext /\ Policy(row) = Policy(keys[p.source])
  <2>1. DOMAIN row = Columns /\ row.window = w
    BY <1>2, ColumnNames, SMT DEF RowOK
  <2>2. \A f \in Configured : row[f] = keys[p.source][f]
    <3>1. \A f \in Configured : f \in Columns /\ f \notin {"window", "used", "fence"}
      BY SMT DEF Columns, Configured, Groups
    <3> DEFINE first == [keys[p.source] EXCEPT !["window"] = w]
               second == [first EXCEPT !["used"] = 0]
    <3>2. row = [second EXCEPT !["fence"] = FALSE]
      OBVIOUS
    <3>3. DOMAIN first = Columns /\ \A f \in Configured : first[f] = keys[p.source][f]
      BY <1>2, <3>1, SMT DEF RowOK
    <3> HIDE DEF first
    <3>4. DOMAIN second = Columns /\ \A f \in Configured : second[f] = first[f]
      BY <3>1, <3>3, SMT
    <3> HIDE DEF second, row
    <3>5. \A f \in Configured : row[f] = second[f]
      BY <3>1, <3>2, <3>4
    <3> QED BY <3>3, <3>4, <3>5
  <2>3. row.ext = keys[p.source].ext
    BY <2>2 DEF Configured
  <2> QED BY <2>1, <2>2, <2>3 DEF Policy
<1> HIDE DEF row
<1>4. OneRow(n) /\ Created(n) /\ keys'[n] = row
  BY <1>1, <1>3, NewRow
<1>5. /\ DOMAIN receipt' = Keys
      /\ receipt'[n] = [operation |-> o, plan |-> p]
      /\ \A k \in Keys \ {n} : receipt'[k] = receipt[k]
  BY <1>1 DEF ClonesInv
<1>6. \A k \in Keys : Exists(k) => Exists(k)'
  BY <1>4 DEF OneRow, Legal, Created, Edited, Exists
<1>7. ClonesInv'
  <2>1. \A k \in Keys : receipt'[k] # None =>
          /\ receipt'[k].operation \in Clones
          /\ Reviewed(receipt'[k].operation)
          /\ receipt'[k].plan.source = plan[receipt'[k].operation].source
    BY <1>1, <1>5 DEF ClonesInv
  <2> QED BY <1>1, <1>5, <1>6, <2>1 DEF ClonesInv, Reviewed
<1>8. \A k \in Keys : receipt[k] # None => receipt[k].operation # o
  BY <1>1 DEF ClonesInv, Receipts
<1>9. /\ Policy(keys'[n]) = p.policy /\ p.policy = Policy(keys[p.source])
      /\ p.fenced = (keys'[n].ext = "fenced")
  BY <1>1, <1>3, <1>4 DEF StillReviewed
<1>10. p.mode = "copy" => keys'[n].window.until = p.expiry
  <2>1. p.mode = "copy" => w.until = keys[p.source].window.until
    BY DEF TargetWindow
  <2> QED BY <1>1, <1>3, <1>4, <2>1 DEF StillReviewed
<1>11. CloneAsReviewed
  <2>1. ASSUME NEW m \in Keys, receipt[m] = None, receipt'[m] # None PROVE m = n
    BY <1>5, <2>1
  <2>2. receipt'[n].plan = p /\ receipt'[n].operation = o
    BY <1>5, SMT
  <2> HIDE DEF p
  <2> QED BY <1>8, <1>9, <1>10, <2>1, <2>2 DEF CloneAsReviewed
<1> QED BY <1>4, <1>7, <1>11, <1>1 DEF Created, CreateKey

\* Nothing else writes receipts.
LEMMA NoReceipt ==
    ASSUME UNCHANGED receipt
    PROVE  CloneAsReviewed
BY DEF CloneAsReviewed

\* Everything that is done with a plan of a clone.
LEMMA CloneStepInv ==
    ASSUME KeysInv, NEW o \in Clones, CloneStep(o), UNCHANGED <<load, batch, lock>>
    PROVE  KeysInv' /\ (\A k \in Keys : Legal(k)) /\ CloneAsReviewed
<1>1. RowsInv /\ TasksInv /\ ClonesInv
  BY DEF KeysInv
<1>2. Quiet /\ ClonesInv' /\ UNCHANGED task /\ CloneAsReviewed
  <2>1. ASSUME UNCHANGED keys PROVE Quiet
    BY <1>1, <2>1 DEF Quiet, Legal, RowsInv
  <2>2. ASSUME NEW s \in Keys, BuildPlan(o, s)
        PROVE  Quiet /\ ClonesInv' /\ UNCHANGED task /\ CloneAsReviewed
    BY <1>1, <2>1, <2>2, BuildPlanInv, NoReceipt
  <2>3. ASSUME EditClonePlan(o)
        PROVE  Quiet /\ ClonesInv' /\ UNCHANGED task /\ CloneAsReviewed
    BY <1>1, <2>1, <2>3, EditPlanInv, NoReceipt
  <2>4. ASSUME ExecuteAgain(o) \/ LoseAnswer(o)
        PROVE  Quiet /\ ClonesInv' /\ UNCHANGED task /\ CloneAsReviewed
    <3>1. UNCHANGED <<keys, task, plan, receipt>>
      BY <2>4 DEF ExecuteAgain, LoseAnswer
    <3>2. \A k \in Keys : Exists(k) => Exists(k)'
      BY <3>1 DEF Exists
    <3> QED BY <1>1, <2>1, <3>1, <3>2, ClonesKept, NoReceipt
  <2>5. ASSUME NEW n \in Keys, NEW mode, ExecuteFirst(o, n, mode)
        PROVE  Quiet /\ ClonesInv' /\ UNCHANGED task /\ CloneAsReviewed
    <3>1. /\ OneRow(n) /\ ~Exists(n) /\ UNCHANGED task /\ ClonesInv'
          /\ CloneAsReviewed
      BY <1>1, <2>5, ExecuteInv
    <3> QED BY <3>1 DEF Quiet, OneRow, Legal
  <2> QED
    BY <2>2, <2>3, <2>4, <2>5 DEF CloneStep, clone_key_review, clone_key_apply, cli_clone
<1>3. RowsInv'
  BY <1>1, <1>2, RowsKept DEF Quiet
<1>4. BatchesInv' /\ TasksInv'
  BY <1>1, <1>2, BatchesKept DEF TasksInv
<1> QED BY <1>2, <1>3, <1>4 DEF KeysInv, Quiet

-----------------------------------------------------------------------------
(* Batches *)

\* A set of natural numbers has a least member.
LEMMA Minimum ==
    ASSUME NEW S, S \subseteq Nat, S # {}
    PROVE  \E x \in S : \A y \in S : x <= y
<1> DEFINE R == {ss \in Nat \X Nat : ss[1] < ss[2]}
<1>1. IsWellFoundedOn(R, Nat)
  BY NatLessThanWellFounded DEF OpToRel
<1>2. PICK x \in S : \A y \in S : ~(<<y, x>> \in R)
  <2> HIDE DEF R
  <2> QED BY <1>1, WFMin
<1>3. ASSUME NEW y \in S PROVE x <= y
  <2>1. x \in Nat /\ y \in Nat
    OBVIOUS
  <2>2. ~(y < x)
    <3>1. <<y, x>> \notin R
      BY <1>2
    <3> QED BY <2>1, <3>1, SMT
  <2> QED BY <2>1, <2>2, SMT
<1> QED BY <1>3

\* Least is the least of the keys.
LEMMA LeastIs ==
    ASSUME NEW S, S \subseteq Keys, S # {}
    PROVE  Least(S) \in S /\ \A j \in S : Least(S) <= j
<1>1. S \subseteq Nat
  BY LifecycleConstants
<1>2. \E x \in S : \A j \in S : x <= j
  BY <1>1, Minimum
<1> QED BY <1>2 DEF Least

\* What a step of b means for another operator c.
LEMMA OtherBatch ==
    ASSUME KeysInv, NEW c \in Batches, batch'[c] = batch[c],
           \A k \in Keys : lock'[k] = c <=> lock[k] = c,
           \A k \in Keys : lock[k] = c => keys'[k] = keys[k]
    PROVE  BatchInv(c)'
<1>1. BatchInv(c)
  BY DEF KeysInv, BatchesInv
<1>2. batch[c].at # "idle" => batch[c].selected \subseteq Keys
  BY <1>1 DEF BatchInv
<1>3. batch[c].at \in {"preview", "apply"} => \A k \in batch[c].selected \ batch[c].todo : lock'[k] = c
  <2>1. batch[c].at \in {"preview", "apply"} => batch[c].at # "idle"
    BY SMT
  <2> QED BY <1>1, <1>2, <2>1 DEF BatchInv
<1>4. batch[c].at = "resolved" => \A k \in batch[c].selected :
          lock'[k] = c /\ keys'[k] = keys[k] /\ Exists(k) /\ keys[k].status \in batch[c].statuses
  <2>1. batch[c].at = "resolved" => batch[c].at # "idle"
    BY SMT
  <2> QED BY <1>1, <1>2, <2>1 DEF BatchInv
<1>5. batch[c].at \in {"preview", "apply"} =>
          \A k \in Keys, j \in batch[c].todo : lock'[k] = c => k < j
  BY <1>1 DEF BatchInv
<1>6. batch[c].at \in {"idle", "reviewed"} => \A k \in Keys : lock'[k] # c
  BY <1>1 DEF BatchInv
<1> QED BY <1>1, <1>3, <1>4, <1>5, <1>6 DEF BatchInv, Exists

\* A transaction that ends gives back its locks and no others.
LEMMA UnlockedIs ==
    ASSUME NEW b \in Batches
    PROVE  /\ DOMAIN Unlocked(b) = Keys
           /\ \A k \in Keys : Unlocked(b)[k] # b
           /\ \A c \in Batches \ {b} : \A k \in Keys : Unlocked(b)[k] = c <=> lock[k] = c
BY BatchConstants, SMT DEF Unlocked

\* What a step of b shows to the others: it writes only rows it holds, and
\* takes or gives only locks of its own.
Own(b) ==
    /\ DOMAIN batch' = Batches /\ DOMAIN lock' = Keys /\ UNCHANGED task
    /\ \A c \in Batches \ {b} : batch'[c] = batch[c]
    /\ \A c \in Batches \ {b} : \A k \in Keys : lock'[k] = c <=> lock[k] = c
    /\ DOMAIN keys' = Keys
    /\ \A k \in Keys : Legal(k) /\ (keys'[k] = keys[k] \/ lock[k] = b)

\* Then only the transaction of b itself is left to look at.
LEMMA OwnStep ==
    ASSUME KeysInv, NEW b \in Batches, Own(b), BatchInv(b)', UNCHANGED <<load, plan, receipt>>
    PROVE  KeysInv' /\ (\A k \in Keys : Legal(k)) /\ CloneAsReviewed
<1>1. ASSUME NEW c \in Batches \ {b} PROVE BatchInv(c)'
  BY OtherBatch DEF Own
<1>2. BatchesInv'
  BY <1>1 DEF Own, BatchesInv
<1>3. RowsInv' /\ \A k \in Keys : Exists(k) => Exists(k)'
  BY RowsKept DEF Own, KeysInv
<1>4. TasksInv' /\ ClonesInv'
  BY <1>3, ClonesKept DEF KeysInv, Own, TasksInv
<1> QED BY <1>2, <1>3, <1>4, NoReceipt DEF KeysInv, Own

\* A step that changes only the plan of b.
LEMMA OwnPlan ==
    ASSUME KeysInv, NEW b \in Batches, NEW x, batch' = [batch EXCEPT ![b] = x],
           UNCHANGED <<keys, task, lock>>
    PROVE  Own(b) /\ batch'[b] = x
BY DEF KeysInv, BatchesInv, RowsInv, Own, Legal

\* A step that ends the transaction of b and writes nothing.
LEMMA OwnEnd ==
    ASSUME KeysInv, NEW b \in Batches, NEW x, batch' = [batch EXCEPT ![b] = x],
           lock' = Unlocked(b), UNCHANGED <<keys, task>>
    PROVE  Own(b) /\ batch'[b] = x /\ \A k \in Keys : lock'[k] # b
BY UnlockedIs, ZenonT(60) DEF KeysInv, BatchesInv, RowsInv, Own, Legal

\* The plan of b as far as its transaction is concerned.
PlanIs(x, at, selected, todo) ==
    /\ x.at = at /\ x.selected = selected /\ x.todo = todo
    /\ "at" \in DOMAIN x /\ "todo" \in DOMAIN x
    /\ "selected" \in DOMAIN x /\ "statuses" \in DOMAIN x

\* The operator has no plan, or has one and no transaction.
LEMMA AtRest ==
    ASSUME NEW b \in Batches, \A k \in Keys : lock'[k] # b,
           \/ batch'[b] = NoPlan
           \/ \E S \in SUBSET Keys : PlanIs(batch'[b], "reviewed", S, {})
    PROVE  BatchInv(b)'
<1>1. CASE batch'[b] = NoPlan
  <2>1. batch'[b].at = "idle"
    BY <1>1, SMT DEF NoPlan
  <2> QED BY <2>1, SMT DEF BatchInv
<1>2. ASSUME NEW S \in SUBSET Keys, PlanIs(batch'[b], "reviewed", S, {}) PROVE BatchInv(b)'
  BY <1>2, SMT DEF BatchInv, PlanIs
<1> QED BY <1>1, <1>2

\* A transaction begins: it holds nothing yet.
LEMMA AtStart ==
    ASSUME NEW b \in Batches, \A k \in Keys : lock'[k] # b, NEW S \in SUBSET Keys,
           NEW at \in {"preview", "apply"}, PlanIs(batch'[b], at, S, S)
    PROVE  BatchInv(b)'
BY SMT DEF BatchInv, PlanIs

\* The invariant of an operator who holds nothing.
LEMMA Holding ==
    ASSUME KeysInv, NEW b \in Batches
    PROVE  /\ batch[b].at \in {"idle", "reviewed"} => \A k \in Keys : lock[k] # b
           /\ batch[b].at # "idle" =>
                 /\ PlanIs(batch[b], batch[b].at, batch[b].selected, batch[b].todo)
                 /\ batch[b].selected \in SUBSET Keys /\ batch[b].todo \subseteq batch[b].selected
BY DEF KeysInv, BatchesInv, BatchInv, PlanIs

\* The start of a preview.
LEMMA SelectInv ==
    ASSUME KeysInv, NEW b \in Batches, NEW store, Select(b, store), UNCHANGED <<load, plan, receipt>>
    PROVE  Own(b) /\ BatchInv(b)'
<1>1. \A k \in Keys : lock[k] # b
  <2>1. batch[b].at = "idle"
    BY DEF Select
  <2> QED BY <2>1, Holding
<1>2. ASSUME NEW kind, NEW statuses, NEW config, NEW asked \in SUBSET Keys,
             batch' = [batch EXCEPT ![b] =
                [at |-> "preview", store |-> store, kind |-> kind, statuses |-> statuses,
                 config |-> config, selected |-> InFilter(asked, statuses),
                 todo |-> InFilter(asked, statuses),
                 excluded |-> [k \in IF kind = "keys" THEN asked \ InFilter(asked, statuses) ELSE {}
                                 |-> keys[k].status]]]
      PROVE  Own(b) /\ BatchInv(b)'
  <2> DEFINE S == InFilter(asked, statuses)
             x == [at |-> "preview", store |-> store, kind |-> kind, statuses |-> statuses,
                   config |-> config, selected |-> S, todo |-> S,
                   excluded |-> [k \in IF kind = "keys" THEN asked \ S ELSE {} |-> keys[k].status]]
  <2>1. S \in SUBSET Keys
    BY DEF InFilter
  <2> HIDE DEF S
  <2>2. PlanIs(x, "preview", S, S)
    BY DEF PlanIs
  <2>3. batch' = [batch EXCEPT ![b] = x]
    BY <1>2 DEF S
  <2> HIDE DEF x
  <2>4. Own(b) /\ batch'[b] = x
    BY <2>3, OwnPlan DEF Select
  <2>5. \A k \in Keys : lock'[k] # b
    BY <1>1 DEF Select
  <2> QED BY <2>1, <2>2, <2>4, <2>5, AtStart
<1>3. \A kind : Askable(kind) \subseteq SUBSET Keys
  BY DEF Askable
<1> QED BY <1>2, <1>3, ZenonT(60) DEF Select

\* A row is locked: the least that is needed.
LEMMA LockInv ==
    ASSUME KeysInv, NEW b \in Batches, Lock(b), UNCHANGED <<load, plan, receipt>>
    PROVE  Own(b) /\ BatchInv(b)'
<1> DEFINE T == batch[b].todo
           k == Least(T)
           x == [batch[b] EXCEPT !.todo = @ \ {k}]
<1>1. /\ batch[b].at \in {"preview", "apply"} /\ T # {} /\ lock[k] = None
      /\ lock' = [lock EXCEPT ![k] = b] /\ batch' = [batch EXCEPT ![b] = x] /\ UNCHANGED <<keys, task>>
  BY DEF Lock
<1>2. batch[b].at # "idle"
  BY <1>1, SMT
<1>3. /\ PlanIs(batch[b], batch[b].at, batch[b].selected, T)
      /\ batch[b].selected \in SUBSET Keys /\ T \subseteq batch[b].selected
  BY <1>2, Holding
<1>4. k \in T /\ (\A j \in T : k <= j) /\ T \subseteq Keys
  BY <1>1, <1>3, LeastIs
<1>5. PlanIs(x, batch[b].at, batch[b].selected, T \ {k})
  BY <1>3, SMT DEF PlanIs
<1> HIDE DEF x, k
<1>6. /\ DOMAIN lock' = Keys /\ lock'[k] = b /\ \A j \in Keys \ {k} : lock'[j] = lock[j]
  BY <1>1, <1>4 DEF KeysInv, BatchesInv
<1>7. DOMAIN batch' = Batches /\ batch'[b] = x /\ \A c \in Batches \ {b} : batch'[c] = batch[c]
  BY <1>1 DEF KeysInv, BatchesInv
<1>8. Own(b)
  <2>1. \A c \in Batches \ {b} : \A j \in Keys : lock'[j] = c <=> lock[j] = c
    BY <1>1, <1>6, BatchConstants
  <2> QED BY <1>1, <1>6, <1>7, <2>1 DEF Own, KeysInv, RowsInv, Legal
<1>9. \A j \in batch[b].selected \ (T \ {k}) : lock'[j] = b
  BY <1>1, <1>3, <1>6, ZenonT(60) DEF KeysInv, BatchesInv, BatchInv
<1>10. \A i \in Keys, j \in T \ {k} : lock'[i] = b => i < j
  <2>1. \A i \in Keys, j \in T : lock[i] = b => i < j
    BY <1>1 DEF KeysInv, BatchesInv, BatchInv
  <2>2. \A j \in T \ {k} : k < j
    <3>1. T \subseteq Nat
      BY <1>4, LifecycleConstants
    <3> QED BY <1>4, <3>1, SMT
  <2> QED BY <1>6, <2>1, <2>2
<1>11. BatchInv(b)'
  BY <1>1, <1>3, <1>5, <1>7, <1>9, <1>10, SMT DEF BatchInv, PlanIs
<1> QED BY <1>8, <1>11

\* The rest of a preview.
LEMMA PreviewInv ==
    ASSUME KeysInv, NEW b \in Batches, Preview(b), UNCHANGED <<load, plan, receipt>>
    PROVE  Own(b) /\ BatchInv(b)'
<1>1. /\ batch[b].at # "idle" /\ lock' = Unlocked(b) /\ UNCHANGED <<keys, task>>
  BY SMT DEF Preview
<1>2. batch[b].selected \in SUBSET Keys
  BY <1>1, Holding
<1>3. PICK x : /\ batch' = [batch EXCEPT ![b] = x]
               /\ x = NoPlan \/ PlanIs(x, "reviewed", batch[b].selected, {})
  <2> DEFINE p == batch[b]
             after == [k \in p.selected |-> Projected(keys[k], p.config)]
             y == [at |-> "reviewed", store |-> p.store, kind |-> p.kind, statuses |-> p.statuses,
                   config |-> p.config, selected |-> p.selected, todo |-> {},
                   excluded |-> p.excluded, after |-> after,
                   before |-> [k \in p.selected |-> Document(keys[k])],
                   source |-> [k \in p.selected |-> Fingerprint(Document(keys[k]), keys[k])],
                   post |-> [k \in p.selected |-> Fingerprint(after[k], keys[k])]]
  <2>1. batch' = [batch EXCEPT ![b] = IF \E k \in p.selected : after[k] = None THEN NoPlan ELSE y]
    BY DEF Preview
  <2>2. PlanIs(y, "reviewed", batch[b].selected, {})
    BY DEF PlanIs
  <2> HIDE DEF y, after
  <2> QED BY <2>1, <2>2
<1>4. Own(b) /\ batch'[b] = x /\ \A k \in Keys : lock'[k] # b
  BY <1>1, <1>3, OwnEnd
<1> QED BY <1>2, <1>3, <1>4, AtRest

\* A saved plan is edited or lost.
LEMMA SavedInv ==
    ASSUME KeysInv, NEW b \in Batches, EditPlan(b) \/ LoseToken(b), UNCHANGED <<load, plan, receipt>>
    PROVE  Own(b) /\ BatchInv(b)'
<1>1. batch[b].at = "reviewed" /\ UNCHANGED <<keys, task, lock>>
  BY DEF EditPlan, LoseToken
<1>2. /\ \A k \in Keys : lock[k] # b
      /\ PlanIs(batch[b], "reviewed", batch[b].selected, batch[b].todo)
      /\ batch[b].selected \in SUBSET Keys
  <2>1. "reviewed" # "idle"
    BY SMT
  <2> QED BY <1>1, <2>1, Holding
<1>3. CASE LoseToken(b)
  <2>1. Own(b) /\ batch'[b] = NoPlan
    BY <1>1, <1>3, OwnPlan DEF LoseToken
  <2> QED BY <1>1, <1>2, <2>1, AtRest
<1>4. CASE EditPlan(b)
  <2>1. PICK config, after : batch' = [batch EXCEPT ![b] =
                               [batch[b] EXCEPT !["config"] = config, !["after"] = after]]
    BY <1>4 DEF EditPlan
  <2> DEFINE x == [batch[b] EXCEPT !["config"] = config, !["after"] = after]
  <2>2. PlanIs(x, "reviewed", batch[b].selected, batch[b].todo)
    BY <1>2, SMT DEF PlanIs
  <2> HIDE DEF x
  <2>3. Own(b) /\ batch'[b] = x
    BY <1>1, <2>1, OwnPlan DEF x
  <2>4. batch[b].todo \subseteq batch[b].selected
    <3>1. batch[b].at # "idle"
      BY <1>1, SMT
    <3> QED BY <3>1, Holding
  <2> QED BY <1>1, <1>2, <2>2, <2>3, <2>4, SMT DEF BatchInv, PlanIs
<1> QED BY <1>3, <1>4

\* An apply begins.
LEMMA BeginInv ==
    ASSUME KeysInv, NEW b \in Batches, BeginApply(b), UNCHANGED <<load, plan, receipt>>
    PROVE  Own(b) /\ BatchInv(b)'
<1> DEFINE S == batch[b].selected
           x == [batch[b] EXCEPT !.at = "apply", !.todo = S]
<1>1. batch[b].at = "reviewed" /\ batch' = [batch EXCEPT ![b] = x] /\ UNCHANGED <<keys, task, lock>>
  BY DEF BeginApply
<1>2. /\ \A k \in Keys : lock[k] # b
      /\ PlanIs(batch[b], "reviewed", S, batch[b].todo) /\ S \in SUBSET Keys
  <2>1. "reviewed" # "idle"
    BY SMT
  <2> QED BY <1>1, <2>1, Holding
<1>3. PlanIs(x, "apply", S, S)
  BY <1>2, SMT DEF PlanIs
<1> HIDE DEF x
<1>4. Own(b) /\ batch'[b] = x
  BY <1>1, OwnPlan
<1> QED BY <1>1, <1>2, <1>3, <1>4, AtStart

\* A transaction ends without a write.
LEMMA RollBackInv ==
    ASSUME KeysInv, NEW b \in Batches, RollBack(b), UNCHANGED <<load, plan, receipt>>
    PROVE  Own(b) /\ BatchInv(b)' /\ UNCHANGED keys
<1> DEFINE S == batch[b].selected
           x == [batch[b] EXCEPT !.at = "reviewed", !.todo = {}]
<1>1. /\ batch[b].at # "idle" /\ batch' = [batch EXCEPT ![b] = x]
      /\ lock' = Unlocked(b) /\ UNCHANGED <<keys, task>>
  BY SMT DEF RollBack
<1>2. PlanIs(batch[b], batch[b].at, S, batch[b].todo) /\ S \in SUBSET Keys
  BY <1>1, Holding
<1>3. PlanIs(x, "reviewed", S, {})
  BY <1>2, SMT DEF PlanIs
<1> HIDE DEF x
<1>4. Own(b) /\ batch'[b] = x /\ \A k \in Keys : lock'[k] # b
  BY <1>1, OwnEnd
<1> QED BY <1>1, <1>2, <1>3, <1>4, AtRest

\* The membership is resolved.
LEMMA ResolveInv ==
    ASSUME KeysInv, NEW b \in Batches, Resolve(b), UNCHANGED <<load, plan, receipt>>
    PROVE  Own(b) /\ BatchInv(b)' /\ UNCHANGED keys
<1> DEFINE S == batch[b].selected
<1>1. /\ batch[b].at = "apply" /\ batch[b].todo = {} /\ batch[b].at # "idle" /\ UNCHANGED <<keys, task>>
  BY SMT DEF Resolve
<1>2. PlanIs(batch[b], "apply", S, {}) /\ S \in SUBSET Keys
  BY <1>1, Holding
<1>3. CASE SameMembers(batch[b])
  <2> DEFINE x == [batch[b] EXCEPT !.at = "resolved"]
  <2>1. batch' = [batch EXCEPT ![b] = x] /\ lock' = lock
    BY <1>3 DEF Resolve
  <2>2. PlanIs(x, "resolved", S, {}) /\ x.statuses = batch[b].statuses
    BY <1>2, SMT DEF PlanIs
  <2>3. \A k \in S : lock[k] = b
    BY <1>1 DEF KeysInv, BatchesInv, BatchInv
  <2>4. \A k \in S : Exists(k) /\ keys[k].status \in batch[b].statuses
    BY <1>3 DEF SameMembers, InFilter
  <2> HIDE DEF x
  <2>5. Own(b) /\ batch'[b] = x
    BY <1>1, <2>1, OwnPlan
  <2>6. BatchInv(b)'
    <3>1. \A k \in S : lock'[k] = b /\ Exists(k)' /\ keys'[k].status \in batch'[b].statuses
      BY <1>1, <2>1, <2>2, <2>3, <2>4, <2>5 DEF Exists
    <3> QED BY <1>2, <2>2, <2>5, <3>1, SMT DEF BatchInv, PlanIs
  <2> QED BY <1>1, <2>5, <2>6
<1>4. CASE ~SameMembers(batch[b])
  <2> DEFINE x == [batch[b] EXCEPT !.at = "reviewed"]
  <2>1. batch' = [batch EXCEPT ![b] = x] /\ lock' = Unlocked(b)
    BY <1>4 DEF Resolve
  <2>2. PlanIs(x, "reviewed", S, {})
    BY <1>2, SMT DEF PlanIs
  <2> HIDE DEF x
  <2>3. Own(b) /\ batch'[b] = x /\ \A k \in Keys : lock'[k] # b
    BY <1>1, <2>1, OwnEnd
  <2> QED BY <1>1, <1>2, <2>2, <2>3, AtRest
<1> QED BY <1>3, <1>4

\* What the verdict on a locked row tells.
LEMMA VerdictIs ==
    ASSUME NEW p, NEW k
    PROVE  LET v == Verdict(p, k) IN
           /\ v \in {"stale", "same", "done", "pending"}
           /\ v # "stale" =>
                 /\ ~keys[k].fence /\ Prepared(keys[k], p.config) # None
                 /\ Document(Prepared(keys[k], p.config)) = p.after[k]
                 /\ Fingerprint(p.after[k], keys[k]) = p.post[k]
           /\ v = "same" => Document(keys[k]) = p.after[k] /\ p.before[k] = p.after[k]
           /\ v = "pending" =>
                 /\ Document(keys[k]) # p.after[k]
                 /\ Fingerprint(Document(keys[k]), keys[k]) = p.source[k]
<1> DEFINE v == Verdict(p, k)
           D == Document(keys[k])
<1>1. CASE \/ Projected(keys[k], p.config) = None \/ Projected(keys[k], p.config) # p.after[k]
           \/ Fingerprint(p.before[k], keys[k]) # p.source[k]
           \/ Fingerprint(p.after[k], keys[k]) # p.post[k]
  <2>1. Verdict(p, k) = "stale"
    BY <1>1 DEF Verdict
  <2>2. "stale" # "same" /\ "stale" # "pending"
    BY SMT
  <2> QED BY <2>1, <2>2
<1>2. CASE /\ Projected(keys[k], p.config) # None /\ Projected(keys[k], p.config) = p.after[k]
           /\ Fingerprint(p.before[k], keys[k]) = p.source[k]
           /\ Fingerprint(p.after[k], keys[k]) = p.post[k]
  <2>1. v = IF D = p.after[k] THEN IF p.before[k] = p.after[k] THEN "same" ELSE "done"
            ELSE IF Fingerprint(D, keys[k]) # p.source[k] THEN "stale" ELSE "pending"
    BY <1>2 DEF Verdict
  <2>2. /\ ~keys[k].fence /\ Prepared(keys[k], p.config) # None
        /\ Document(Prepared(keys[k], p.config)) = p.after[k]
    BY <1>2 DEF Projected
  <2> HIDE DEF v, D
  <2>3. /\ v \in {"stale", "same", "done", "pending"}
        /\ v = "same" => D = p.after[k] /\ p.before[k] = p.after[k]
        /\ v = "pending" => D # p.after[k] /\ Fingerprint(D, keys[k]) = p.source[k]
    BY <2>1, SMT
  <2> QED BY <1>2, <2>2, <2>3 DEF v, D
<1> QED BY <1>1, <1>2

\* The rows that an apply writes are selected, and no other selected row stands
\* in the way.
LEMMA WritableIs ==
    ASSUME NEW p, NEW w \in Writable(p)
    PROVE  /\ w \in p.selected /\ Verdict(p, w) = "pending"
           /\ \A k \in p.selected :
                 \/ Verdict(p, k) = "same" /\ k \notin Writable(p)
                 \/ Verdict(p, k) = "pending" /\ k \in Writable(p)
<1>1. /\ \A k \in p.selected : Verdict(p, k) \notin {"stale", "done"}
      /\ Writable(p) = {k \in p.selected : Verdict(p, k) = "pending"}
  BY DEF Writable
<1>2. ASSUME NEW k \in p.selected PROVE Verdict(p, k) = "same" \/ Verdict(p, k) = "pending"
  BY <1>1, VerdictIs
<1>3. "same" # "pending"
  BY SMT
<1> QED BY <1>1, <1>2, <1>3

\* An apply writes the rows it holds, to the reviewed targets.
LEMMA ApplyInv ==
    ASSUME KeysInv, NEW b \in Batches, Apply(b), UNCHANGED <<load, plan, receipt>>
    PROVE  Own(b) /\ BatchInv(b)' /\ AppliedAsReviewed
<1> DEFINE p == batch[b]
           S == p.selected
           W == Writable(p)
           x == [p EXCEPT !.at = "reviewed"]
<1>1. /\ p.at = "resolved" /\ p.at # "idle" /\ batch' = [batch EXCEPT ![b] = x]
      /\ lock' = Unlocked(b) /\ UNCHANGED task
      /\ keys' = [k \in Keys |-> IF k \in W THEN Prepared(keys[k], p.config) ELSE keys[k]]
  BY SMT DEF Apply
<1>2. /\ PlanIs(p, "resolved", S, p.todo) /\ S \in SUBSET Keys /\ p.todo \subseteq S
      /\ \A k \in S : lock[k] = b /\ Exists(k) /\ keys[k].status \in p.statuses
  <2>1. \A k \in S : lock[k] = b /\ Exists(k) /\ keys[k].status \in p.statuses
    BY <1>1 DEF KeysInv, BatchesInv, BatchInv
  <2> QED BY <1>1, <2>1, Holding
<1>3. PlanIs(x, "reviewed", S, p.todo)
  BY <1>2, SMT DEF PlanIs
<1>4. /\ DOMAIN keys' = Keys /\ \A k \in Keys \ W : keys'[k] = keys[k]
      /\ \A k \in Keys : k \in W => keys'[k] = Prepared(keys[k], p.config)
  <2> HIDE DEF p, W
  <2> QED BY <1>1
<1>5. DOMAIN batch' = Batches /\ batch'[b] = x /\ \A c \in Batches \ {b} : batch'[c] = batch[c]
  <2> HIDE DEF x
  <2> QED BY <1>1 DEF KeysInv, BatchesInv
<1>6. ASSUME NEW k \in W
      PROVE  /\ k \in S /\ k \in Keys /\ lock[k] = b /\ Edited(k)
             /\ Document(keys'[k]) = p.after[k] /\ Document(keys[k]) # p.after[k]
             /\ Fingerprint(p.after[k], keys[k]) = p.post[k]
             /\ Fingerprint(Document(keys[k]), keys[k]) = p.source[k]
             /\ Context(keys'[k]) = Context(keys[k])
  <2>1. k \in S /\ Verdict(p, k) = "pending"
    BY <1>6, WritableIs
  <2>2. Verdict(p, k) # "stale"
    BY <2>1, SMT
  <2>3. k \in Keys /\ lock[k] = b /\ Exists(k) /\ RowOK(keys[k])
    BY <1>2, <2>1 DEF KeysInv, RowsInv
  <2>4. /\ ~keys[k].fence /\ Prepared(keys[k], p.config) # None
        /\ Document(Prepared(keys[k], p.config)) = p.after[k] /\ Document(keys[k]) # p.after[k]
        /\ Fingerprint(p.after[k], keys[k]) = p.post[k]
        /\ Fingerprint(Document(keys[k]), keys[k]) = p.source[k]
    BY <2>1, <2>2, VerdictIs
  <2>5. keys'[k] = Prepared(keys[k], p.config)
    BY <1>4, <1>6, <2>3
  <2>6. /\ RowOK(keys'[k]) /\ KeepsBound(keys[k], keys'[k])
        /\ keys'[k].status = keys[k].status /\ keys'[k].purpose = keys[k].purpose
        /\ keys'[k].window = keys[k].window
    <3> DEFINE new == Prepared(keys[k], p.config)
    <3>1. /\ RowOK(new) /\ KeepsBound(keys[k], new)
          /\ new.status = keys[k].status /\ new.purpose = keys[k].purpose
          /\ new.window = keys[k].window
      BY <2>3, <2>4, PreparedRow
    <3> HIDE DEF new
    <3> QED BY <2>5, <3>1 DEF new
  <2>7. Edited(k) /\ Context(keys'[k]) = Context(keys[k])
    BY <2>3, <2>6 DEF Edited, Exists, Context
  <2> QED BY <2>1, <2>3, <2>4, <2>5, <2>7
<1> HIDE DEF x, W
<1>7. Own(b) /\ \A k \in Keys : lock'[k] # b
  <2>1. \A k \in Keys : Legal(k) /\ (keys'[k] = keys[k] \/ lock[k] = b)
    BY <1>4, <1>6 DEF Legal
  <2>2. /\ DOMAIN lock' = Keys /\ \A k \in Keys : lock'[k] # b
        /\ \A c \in Batches \ {b} : \A k \in Keys : lock'[k] = c <=> lock[k] = c
    <3>1. lock' = Unlocked(b)
      BY <1>1
    <3> QED BY <3>1, BatchConstants, SMT DEF Unlocked
  <2> QED BY <1>1, <1>4, <1>5, <2>1, <2>2 DEF Own
<1>8. BatchInv(b)'
  BY <1>2, <1>3, <1>5, <1>7, SMT DEF BatchInv, PlanIs
<1>9. ASSUME NEW c \in Batches, Applied(c) PROVE c = b
  BY <1>5, <1>9, SMT DEF Applied
<1>10. ASSUME NEW j \in Keys, keys'[j] # keys[j], NEW k \in S
       PROVE  /\ keys[k].status \in p.statuses /\ Document(keys'[k]) = p.after[k]
              /\ Fingerprint(p.after[k], keys'[k]) = p.post[k]
              /\ keys'[k] = keys[k] => p.before[k] = p.after[k]
  <2>1. PICK w \in W : TRUE
    BY <1>4, <1>10
  <2>2. \/ Verdict(p, k) = "same" /\ k \notin W
        \/ Verdict(p, k) = "pending" /\ k \in W
    BY <2>1, WritableIs DEF W
  <2>3. keys[k].status \in p.statuses /\ k \in Keys
    BY <1>2
  <2>4. CASE k \in W
    BY <1>6, <2>3, <2>4 DEF Fingerprint
  <2>5. CASE Verdict(p, k) = "same" /\ k \notin W
    <3>1. Verdict(p, k) # "stale"
      BY <2>5, SMT
    <3>2. /\ Document(keys[k]) = p.after[k] /\ p.before[k] = p.after[k]
          /\ Fingerprint(p.after[k], keys[k]) = p.post[k]
      BY <2>5, <3>1, VerdictIs
    <3>3. keys'[k] = keys[k]
      BY <1>4, <2>3, <2>5
    <3> QED BY <2>3, <3>2, <3>3
  <2> QED BY <2>2, <2>4, <2>5
<1>11. ASSUME NEW k \in Keys, keys'[k] # keys[k]
       PROVE  k \in S /\ Fingerprint(Document(keys[k]), keys[k]) = p.source[k]
  BY <1>4, <1>6, <1>11
<1>12. AppliedAsReviewed
  BY <1>9, <1>10, <1>11 DEF AppliedAsReviewed, Applied
<1> QED BY <1>7, <1>8, <1>12

\* Everything else that is done with a plan of a batch, and everything that is
\* done with other things, is no apply that writes.
LEMMA NoApply ==
    ASSUME UNCHANGED keys \/ UNCHANGED batch
    PROVE  AppliedAsReviewed
<1>1. ASSUME NEW b \in Batches, Applied(b) PROVE FALSE
  BY <1>1, SMT DEF Applied
<1> QED BY <1>1 DEF AppliedAsReviewed

\* Everything that is done with a plan of a batch.
LEMMA BatchStepInv ==
    ASSUME KeysInv, NEW b \in Batches, BatchStep(b), UNCHANGED <<load, plan, receipt>>
    PROVE  /\ KeysInv' /\ (\A k \in Keys : Legal(k))
           /\ CloneAsReviewed /\ AppliedAsReviewed
<1>1. Own(b) /\ BatchInv(b)' /\ AppliedAsReviewed
  <2>1. ASSUME NEW store, Select(b, store) PROVE Own(b) /\ BatchInv(b)' /\ AppliedAsReviewed
    BY <2>1, SelectInv, NoApply DEF Select
  <2>2. CASE Lock(b)
    BY <2>2, LockInv, NoApply DEF Lock
  <2>3. CASE Preview(b)
    BY <2>3, PreviewInv, NoApply DEF Preview
  <2>4. CASE EditPlan(b) \/ LoseToken(b)
    BY <2>4, SavedInv, NoApply DEF EditPlan, LoseToken
  <2>5. CASE BeginApply(b)
    BY <2>5, BeginInv, NoApply DEF BeginApply
  <2>6. CASE Resolve(b)
    BY <2>6, ResolveInv, NoApply
  <2>7. CASE Apply(b)
    BY <2>7, ApplyInv
  <2>8. CASE RollBack(b)
    BY <2>8, RollBackInv, NoApply
  <2> QED BY <2>1, <2>2, <2>3, <2>4, <2>5, <2>6, <2>7, <2>8
    DEF BatchStep, batch_key_plan, cli_plan, batch_key_apply, cli_apply
<1> QED BY <1>1, OwnStep

-----------------------------------------------------------------------------
(* What everything together does *)

\* Every step keeps the invariant, makes legal changes of rows only, and makes
\* clones and applies batches as they were reviewed.
LEMMA KeysStep ==
    ASSUME KeysInv, [KeysNext]_keyVars
    PROVE  /\ KeysInv' /\ (\A k \in Keys : Legal(k))
           /\ CloneAsReviewed /\ AppliedAsReviewed
<1>1. CASE UNCHANGED keyVars
  <2>1. UNCHANGED <<load, keys, task, plan, receipt, batch, lock>>
    BY <1>1 DEF keyVars, vars
  <2>2. RowsInv'
    BY <2>1 DEF KeysInv, RowsInv, Exists, RowOK, Finite, Member
  <2>3. TasksInv' /\ ClonesInv'
    BY <2>1 DEF KeysInv, TasksInv, ClonesInv, Exists, Reviewed
  <2>4. BatchesInv'
    <3>1. Quiet
      BY <2>1 DEF Quiet, Legal, KeysInv, RowsInv
    <3> QED BY <2>1, <3>1, BatchesKept
  <2>5. \A k \in Keys : Legal(k)
    BY <2>1 DEF Legal
  <2> QED BY <2>1, <2>2, <2>3, <2>4, <2>5, NoReceipt, NoApply DEF KeysInv
<1>2. ASSUME SingleStep, UNCHANGED <<load, plan, receipt, answer, batch, lock>>
      PROVE  /\ KeysInv' /\ (\A k \in Keys : Legal(k))
             /\ CloneAsReviewed /\ AppliedAsReviewed
  BY <1>2, SingleInv, NoReceipt, NoApply
<1>3. ASSUME NEW o \in Load[load].clones, CloneStep(o), UNCHANGED <<load, batch, lock>>
      PROVE  /\ KeysInv' /\ (\A k \in Keys : Legal(k))
             /\ CloneAsReviewed /\ AppliedAsReviewed
  <2>1. o \in Clones
    BY ManagementConstants DEF KeysInv, RowsInv
  <2> QED BY <1>3, <2>1, CloneStepInv, NoApply
<1>4. ASSUME NEW b \in Load[load].batches, BatchStep(b), UNCHANGED <<load, plan, receipt>>
      PROVE  /\ KeysInv' /\ (\A k \in Keys : Legal(k))
             /\ CloneAsReviewed /\ AppliedAsReviewed
  <2>1. b \in Batches
    BY ManagementConstants DEF KeysInv, RowsInv
  <2> QED BY <1>4, <2>1, BatchStepInv
<1> QED BY <1>1, <1>2, <1>3, <1>4 DEF KeysNext

\* The invariant is one.
THEOREM KeysInvariant == KeysSpec => []KeysInv
<1>1. KeysInv /\ [KeysNext]_keyVars => KeysInv'
  BY KeysStep
<1> QED BY <1>1, KeysInvInit, PTL DEF KeysSpec

\* No operation on a key, no clone and no batch stores a policy with hosted
\* tools without a finite cost and token budget.
THEOREM FencedKeysFinite == KeysSpec => []FencedIsFinite
<1>1. KeysInv => FencedIsFinite
  BY DEF KeysInv, RowsInv, RowOK, FencedIsFinite
<1> QED BY <1>1, KeysInvariant, PTL

\* A hosted request keeps the limits, the policy and the counters under which
\* it was admitted, whoever edits the key meanwhile.
THEOREM BoundRowsKeepBudget == KeysSpec => BoundKeepsBudget
<1>1. ASSUME KeysInv, [KeysNext]_keyVars PROVE [BudgetKept]_vars
  <2>1. ASSUME NEW k \in Keys, Exists(k), Fenced(k), keys'[k].fence
        PROVE  KeepsBound(keys[k], keys'[k])
    <3>1. CASE keys'[k] = keys[k]
      BY <3>1 DEF KeepsBound
    <3>2. CASE Created(k) \/ Edited(k)
      BY <2>1, <3>2 DEF Created, Edited
    <3> QED BY <1>1, <3>1, <3>2, KeysStep DEF Legal
  <2> QED BY <2>1 DEF BudgetKept, KeepsBound, Fenced
<1>2. KeysInv /\ [KeysNext]_keyVars => [BudgetKept]_vars
  BY <1>1
<1> QED BY <1>2, KeysInvariant, PTL DEF KeysSpec, BoundKeepsBudget

\* Clones and batches do what was reviewed.
THEOREM KeysDoAsReviewed == KeysSpec => KeysAsReviewed
<1>1. KeysInv /\ [KeysNext]_keyVars => [CloneAsReviewed /\ AppliedAsReviewed]_keyVars
  BY KeysStep
<1> QED BY <1>1, KeysInvariant, PTL DEF KeysSpec, KeysAsReviewed

\* Some batch waits for the highest of the keys that are waited for.
LEMMA Highest ==
    ASSUME NEW S, S # {}, NEW f, \A b \in S : f[b] \in Keys
    PROVE  \E b \in S : \A c \in S : f[c] <= f[b]
<1>1. PICK n \in Keys : \A k \in Keys : k <= n
  BY BatchConstants
<1>2. Keys \subseteq Nat
  BY LifecycleConstants
<1> DEFINE M == {n - f[b] : b \in S}
<1>3. M \subseteq Nat /\ M # {}
  <2>1. ASSUME NEW b \in S PROVE n - f[b] \in Nat
    <3>1. f[b] \in Nat /\ n \in Nat /\ f[b] <= n
      BY <1>1, <1>2
    <3> QED BY <3>1, SMT
  <2> QED BY <2>1
<1>4. PICK x \in M : \A y \in M : x <= y
  <2> HIDE DEF M
  <2> QED BY <1>3, Minimum
<1>5. PICK b \in S : x = n - f[b]
  OBVIOUS
<1>6. ASSUME NEW c \in S PROVE f[c] <= f[b]
  <2>1. n - f[b] <= n - f[c]
    BY <1>4, <1>5
  <2>2. f[b] \in Nat /\ f[c] \in Nat /\ n \in Nat
    BY <1>2
  <2> QED BY <2>1, <2>2, SMT
<1> QED BY <1>6

\* Batches never wait for each other in a circle: whoever waits for the highest
\* key waits for somebody who holds it and waits for none above it
\* (KeyBatchService locks rows in the order of their ids).
THEOREM BatchesNeverStuck == KeysSpec => []NoCircularWait
<1>1. ASSUME KeysInv PROVE NoCircularWait
  <2> DEFINE want(b) == Least(batch[b].todo)
             waits == {b \in Batches : batch[b].at \in {"preview", "apply"} /\ batch[b].todo # {}}
             blocked == {b \in waits : lock[want(b)] # None}
  <2>1. ASSUME NEW b \in waits
        PROVE  /\ want(b) \in Keys /\ want(b) \in batch[b].todo
               /\ \A k \in Keys : lock[k] = b => k < want(b)
    <3>1. /\ b \in Batches /\ batch[b].at \in {"preview", "apply"} /\ batch[b].todo # {}
      BY <2>1
    <3>2. batch[b].at # "idle"
      BY <3>1, SMT
    <3>3. BatchInv(b)
      BY <1>1, <3>1 DEF KeysInv, BatchesInv
    <3>4. batch[b].todo \subseteq Keys
      BY <3>2, <3>3 DEF BatchInv
    <3>5. want(b) \in batch[b].todo
      BY <3>1, <3>4, LeastIs
    <3> HIDE DEF want
    <3> QED BY <3>1, <3>3, <3>4, <3>5 DEF BatchInv
  <2>2. ASSUME NEW S \in SUBSET blocked, S # {}
        PROVE  \E b \in S : lock[want(b)] \notin S
    <3>1. \A b \in S : b \in waits /\ want(b) \in Keys
      BY <2>1, <2>2
    <3> HIDE DEF want
    <3>2. PICK b \in S : \A c \in S : want(c) <= want(b)
      <4> DEFINE f == [b \in S |-> want(b)]
      <4>1. \A b \in S : f[b] = want(b) /\ f[b] \in Keys
        BY <3>1
      <4> HIDE DEF f
      <4>2. \E b \in S : \A c \in S : f[c] <= f[b]
        BY <2>2, <4>1, Highest
      <4> QED BY <4>1, <4>2
    <3>3. ASSUME NEW c \in S, c = lock[want(b)] PROVE FALSE
      <4>1. want(b) \in Keys /\ want(c) \in Keys /\ c \in waits
        BY <3>1, <3>3
      <4>2. want(b) < want(c) /\ want(c) <= want(b)
        BY <2>1, <3>2, <3>3, <4>1
      <4>3. want(b) \in Nat /\ want(c) \in Nat
        BY <4>1, LifecycleConstants
      <4> QED BY <4>2, <4>3, SMT
    <3> QED BY <3>2, <3>3
  <2>3. ASSUME NEW S \in (SUBSET blocked) \ {{}} PROVE \E b \in S : lock[want(b)] \notin S
    <3> HIDE DEF blocked, want
    <3>1. S \in SUBSET blocked /\ S # {}
      BY <2>3
    <3> QED BY <2>2, <3>1
  <2> QED BY <2>3 DEF NoCircularWait
<1> QED BY <1>1, KeysInvariant, PTL
=============================================================================

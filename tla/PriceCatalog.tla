---------------------------- MODULE PriceCatalog ----------------------------
(***************************************************************************)
(* Pricing rules and exchange rates: services/pricing_rule_service.py,     *)
(* services/fx_rate_service.py, the imports of services/pricing_import.py  *)
(* and services/fx_import.py, their console pages and commands, and the    *)
(* capture of a price with its rate that admission makes                   *)
(* (services/pricing.py).                                                  *)
(*                                                                         *)
(* An edit reads its rows without a lock and writes, in the same           *)
(* transaction, the columns whose submitted value differs from the value   *)
(* it read (the unit of work of the mapper): it takes two steps.  A        *)
(* reviewed disable locks its rows and looks, and then writes: nobody      *)
(* writes the locked rows in between, but other rows may join the scope.   *)
(* The tables hold one unique constraint each, on scope and start; nothing *)
(* in the schema orders the ends of a window.  A scope stands for          *)
(* provider, model and endpoint; a price for all price columns; Open for a *)
(* missing end.                                                            *)
(***************************************************************************)
EXTENDS Integers, FiniteSets, FiniteSetsExt, TLC

CONSTANTS
    Rules,        \* identities of pricing rules
    Rates,        \* identities of exchange rates
    Scopes,       \* provider, model and endpoint
    Eur,          \* the currency that needs no rate
    Editors,      \* concurrent edits and imports
    Reviewers,    \* concurrent reviews of a disable
    None,
    MaxTime,      \* bound on the clock
    Load,         \* per name: a workload the instance examines
    MaxReviewed   \* PRICING_DISABLE_MAX_REVIEWED_ROWS

Open == MaxTime + 1

ASSUME CatalogConstants ==
    /\ MaxTime \in Nat /\ MaxReviewed \in Nat
    /\ \A n \in DOMAIN Load :
          /\ \A row \in Load[n].rules : row.scope \in Scopes /\ {row.from, row.until} \subseteq 0..Open
          /\ \A row \in Load[n].rates : row.base # Eur /\ {row.from, row.until} \subseteq 0..Open

VARIABLES
    rules,    \* per rule: its row, None before it exists
    rates,    \* per rate: its row, None before it exists
    edit,     \* per editor: the transaction or import that is under way
    plan,     \* per reviewer: the reviewed plan of a disable
    now,
    load      \* the name of the workload, which never changes

priceVars == <<rules, rates, edit, plan, now, load>>

RuleRows == Load[load].rules            \* the pricing rows that are submitted
RateRows == Load[load].rates            \* the rate rows that are submitted
Operations == Load[load].operations     \* the operations that are performed
MaxRows == Load[load].rows              \* bound on the rows of a table

Idle == [kind |-> "idle"]
Stored(table) == {x \in DOMAIN table : table[x] # None}
Changed(table, new) == new @@ table

Room(table) == Cardinality(Stored(table)) < MaxRows

PriceInit ==
    /\ load \in DOMAIN Load
    /\ rules = [r \in Rules |-> None]
    /\ rates = [f \in Rates |-> None]
    /\ edit = [e \in Editors |-> Idle]
    /\ plan = [v \in Reviewers |-> None]
    /\ now = 0

-----------------------------------------------------------------------------
(* The tables *)

\* _validate_validity, _validate_fx_rate_metadata
Ordered(row) == row.from < row.until
Valid(row, at) == row.from <= at /\ at < row.until

\* uq_pricing_rules_identity
UniqueRules(table) ==
    \A x, y \in Stored(table) :
        (x # y /\ table[x].scope = table[y].scope) => table[x].from # table[y].from
\* uq_fx_rates_pair_valid_from
UniqueRates(table) ==
    \A x, y \in Stored(table) :
        (x # y /\ table[x].base = table[y].base) => table[x].from # table[y].from

\* _windows_overlap
Overlap(a, b) == a.from < b.until /\ b.from < a.until

\* find_active_pricing_rule: enabled, valid, the newest start first
ActiveRules(table, scope, at) ==
    {r \in Stored(table) : table[r].scope = scope /\ table[r].enabled /\ Valid(table[r], at)}
ActiveRule(table, scope, at) ==
    {r \in ActiveRules(table, scope, at) :
        \A x \in ActiveRules(table, scope, at) : table[x].from <= table[r].from}

\* find_latest_rate
ActiveRates(table, base, at) ==
    {f \in Stored(table) : table[f].base = base /\ Valid(table[f], at)}
ActiveRate(table, base, at) ==
    {f \in ActiveRates(table, base, at) :
        \A x \in ActiveRates(table, base, at) : table[x].from <= table[f].from}

-----------------------------------------------------------------------------
(* Single rows *)

create_pricing_rule(r, row) ==
    /\ rules[r] = None /\ Room(rules) /\ Ordered(row)
    /\ UniqueRules(Changed(rules, r :> row))
    /\ rules' = Changed(rules, r :> row)
    /\ UNCHANGED <<rates, edit, plan, now>>

create_fx_rate(f, row) ==
    /\ rates[f] = None /\ Room(rates) /\ Ordered(row)
    /\ UniqueRates(Changed(rates, f :> row))
    /\ rates' = Changed(rates, f :> row)
    /\ UNCHANGED <<rules, edit, plan, now>>

\* The first half of an edit: the rows are read, the new values are at hand.
ReadRules(e, new) ==
    /\ edit[e] = Idle
    /\ edit' = [edit EXCEPT ![e] =
                   [kind |-> "rules", seen |-> [r \in DOMAIN new |-> rules[r]], new |-> new]]
    /\ UNCHANGED <<rules, rates, plan, now>>

ReadRate(e, f, row) ==
    /\ edit[e] = Idle /\ rates[f] # None /\ Ordered(row)
    /\ edit' = [edit EXCEPT ![e] =
                   [kind |-> "rates", seen |-> f :> rates[f], new |-> f :> row]]
    /\ UNCHANGED <<rules, rates, plan, now>>

\* The rows that a reviewed disable holds FOR UPDATE
LockedRules == UNION {DOMAIN plan[v].facts : v \in {x \in Reviewers : plan[x] # None /\ plan[x].locked}}

\* Mutant: the whole submitted row is written.
MergedWhole(row, seen, new) == new

\* What an UPDATE of the mapper leaves in a row: the columns that differ from
\* those that were read.
Merged(row, seen, new) ==
    [c \in DOMAIN row |-> IF new[c] # seen[c] THEN new[c] ELSE row[c]]

MergedTable(e, table) ==
    Changed(table, [x \in DOMAIN edit[e].new |-> Merged(table[x], edit[e].seen[x], edit[e].new[x])])

\* The second half: update_pricing_rule_metadata, update_fx_rate_metadata and
\* set_pricing_rule_enabled of the repositories, and the commit; it waits for
\* rows that are locked
Write(e) ==
    /\ \/ /\ edit[e].kind = "rules" /\ UniqueRules(MergedTable(e, rules))
          /\ DOMAIN edit[e].new \cap LockedRules = {}
          /\ rules' = MergedTable(e, rules) /\ UNCHANGED rates
       \/ /\ edit[e].kind = "rates" /\ UniqueRates(MergedTable(e, rates))
          /\ rates' = MergedTable(e, rates) /\ UNCHANGED rules
    /\ edit' = [edit EXCEPT ![e] = Idle]
    /\ UNCHANGED <<plan, now>>

\* The constraint fails, or the operator's session ends: all is rolled back.
RollBack(e) ==
    /\ edit[e] # Idle
    /\ edit' = [edit EXCEPT ![e] = Idle]
    /\ UNCHANGED <<rules, rates, plan, now>>

update_pricing_rule(e, r, row) ==
    rules[r] # None /\ Ordered(row) /\ ReadRules(e, r :> row)
set_pricing_rule_enabled(e, r, on) ==
    rules[r] # None /\ ReadRules(e, r :> [rules[r] EXCEPT !.enabled = on])
update_fx_rate(e, f, row) == ReadRate(e, f, row)

\* disable_model: every enabled rule of the scope that the transaction sees
Enabled(scope) == {r \in Stored(rules) : rules[r].scope = scope /\ rules[r].enabled}
disable_model(e, scope) ==
    /\ Enabled(scope) # {}
    /\ ReadRules(e, [r \in Enabled(scope) |-> [rules[r] EXCEPT !.enabled = FALSE]])

-----------------------------------------------------------------------------
(* The reviewed disable *)

\* _pricing_disable_row_facts: everything but the flag
Facts(row) == [c \in DOMAIN row \ {"enabled"} |-> row[c]]

\* preview_disable_model; an empty scope and one above the cap are refused
preview_disable_model(v, scope) ==
    /\ plan[v] = None
    /\ Enabled(scope) # {} /\ Cardinality(Enabled(scope)) <= MaxReviewed
    /\ plan' = [plan EXCEPT ![v] =
                   [scope |-> scope, facts |-> [r \in Enabled(scope) |-> Facts(rules[r])], locked |-> FALSE]]
    /\ UNCHANGED <<rules, rates, edit, now>>

\* The locked rows are the reviewed ones.
RowsAsReviewed(p) == \A r \in DOMAIN p.facts : Facts(rules[r]) = p.facts[r]

\* All reviewed rules are enabled still, and they are the enabled ones of the
\* scope.
ScopeAsReviewed(p) == Enabled(p.scope) = DOMAIN p.facts

\* lock_pricing_rules_for_review, and what apply_disable_model_reviewed then
\* looks at
LockReviewed(v) ==
    /\ plan[v] # None /\ ~plan[v].locked
    /\ DOMAIN plan[v].facts \cap LockedRules = {}
    /\ RowsAsReviewed(plan[v]) /\ ScopeAsReviewed(plan[v])
    /\ plan' = [plan EXCEPT ![v].locked = TRUE]
    /\ UNCHANGED <<rules, rates, edit, now>>

\* apply_disable_model_reviewed: what it writes, and the commit
apply_disable_model_reviewed(v) ==
    /\ plan[v] # None /\ plan[v].locked
    /\ rules' = Changed(rules, [r \in DOMAIN plan[v].facts |-> [rules[r] EXCEPT !.enabled = FALSE]])
    /\ plan' = [plan EXCEPT ![v] = None]
    /\ UNCHANGED <<rates, edit, now>>

\* Already disabled, or stale: nothing is written.  Likewise when an audit row
\* fails late and all is rolled back.
LeaveDisable(v) ==
    /\ plan[v] # None /\ (plan[v].locked \/ ~(RowsAsReviewed(plan[v]) /\ ScopeAsReviewed(plan[v])))
    /\ plan' = [plan EXCEPT ![v] = None]
    /\ UNCHANGED <<rules, rates, edit, now>>

-----------------------------------------------------------------------------
(* Imports: classified against one read of the table, executed by another
   transaction, all rows or none *)

\* validate_pricing_import_rows, validate_fx_import_rows: a file repeats no window
Files(rows, key) ==
    {b \in SUBSET rows : /\ Cardinality(b) \in 1..2
                         /\ \A x, y \in b : (x # y /\ x[key] = y[key]) =>
                               <<x.from, x.until>> # <<y.from, y.until>>}

\* classify_pricing_import_preview, _classify_existing: a rule is created only
\* for a scope that has none; every other class blocks the file
RuleClass(row) ==
    LET same == {r \in Stored(rules) : rules[r].scope = row.scope}
        exact == {r \in same : rules[r].from = row.from /\ rules[r].until = row.until}
    IN CASE same = {} -> "create"
         [] exact # {} -> IF \E r \in exact : rules[r].enabled THEN "duplicate" ELSE "disabled"
         [] \E r \in same : Overlap(row, rules[r]) -> "overlap"
         [] OTHER -> "update"

\* _classify_existing of the rates: a new window beside the others is created
RateClass(row) ==
    LET same == {f \in Stored(rates) : rates[f].base = row.base}
        exact == {f \in same : rates[f].from = row.from /\ rates[f].until = row.until}
    IN CASE exact # {} -> IF \E f \in exact : rates[f].rate = row.rate THEN "duplicate" ELSE "update"
         [] \E f \in same : Overlap(row, rates[f]) -> "conflict"
         [] OTHER -> "create"

\* build_pricing_import_execution_plan
PlanRuleImport(e, file) ==
    /\ edit[e] = Idle
    /\ \A row \in file : Ordered(row) /\ RuleClass(row) = "create"
    /\ edit' = [edit EXCEPT ![e] = [kind |-> "rule import", file |-> file]]
    /\ UNCHANGED <<rules, rates, plan, now>>

\* build_fx_import_execution_plan
PlanRateImport(e, file) ==
    /\ edit[e] = Idle
    /\ \A row \in file : Ordered(row) /\ RateClass(row) = "create"
    /\ edit' = [edit EXCEPT ![e] = [kind |-> "rate import", file |-> file]]
    /\ UNCHANGED <<rules, rates, plan, now>>

\* The table with the rows of a file under fresh identities
WithFile(table, ids, file) ==
    {Changed(table, [x \in s |-> f[x]]) :
        <<s, f>> \in {<<s, f>> \in UNION {{s} \X [s -> file] :
                                          s \in kSubset(Cardinality(file), ids \ Stored(table))} :
                      \A x, y \in s : x # y => f[x] # f[y]}}

\* execute_pricing_import_plan
ExecuteRuleImport(e) ==
    /\ edit[e].kind = "rule import"
    /\ Cardinality(Stored(rules)) + Cardinality(edit[e].file) <= MaxRows
    /\ \E table \in WithFile(rules, Rules, edit[e].file) : UniqueRules(table) /\ rules' = table
    /\ edit' = [edit EXCEPT ![e] = Idle]
    /\ UNCHANGED <<rates, plan, now>>

\* execute_fx_import_plan
ExecuteRateImport(e) ==
    /\ edit[e].kind = "rate import"
    /\ Cardinality(Stored(rates)) + Cardinality(edit[e].file) <= MaxRows
    /\ \E table \in WithFile(rates, Rates, edit[e].file) : UniqueRates(table) /\ rates' = table
    /\ edit' = [edit EXCEPT ![e] = Idle]
    /\ UNCHANGED <<rules, plan, now>>

-----------------------------------------------------------------------------
(* Front ends *)

create_admin_pricing_rule(r) == \E row \in RuleRows : create_pricing_rule(r, row)
cli_add_pricing(r) == \E row \in RuleRows : create_pricing_rule(r, row)
update_admin_pricing_rule(e, r) == \E row \in RuleRows : update_pricing_rule(e, r, row)
enable_admin_pricing_rule(e, r) == set_pricing_rule_enabled(e, r, TRUE)
disable_admin_pricing_rule(e, r) == set_pricing_rule_enabled(e, r, FALSE)
cli_disable_model(e) == \E scope \in Scopes : disable_model(e, scope)
pricing_disable_preview(v) == \E scope \in Scopes : preview_disable_model(v, scope)
pricing_disable_apply(v) == LockReviewed(v) \/ apply_disable_model_reviewed(v) \/ LeaveDisable(v)
admin_pricing_import_execute(e) == \E file \in Files(RuleRows, "scope") : PlanRuleImport(e, file)
cli_import_pricing(e) == \E file \in Files(RuleRows, "scope") : PlanRuleImport(e, file)
create_admin_fx_rate(f) == \E row \in RateRows : create_fx_rate(f, row)
cli_add_fx(f) == \E row \in RateRows : create_fx_rate(f, row)
update_admin_fx_rate(e, f) == \E row \in RateRows : update_fx_rate(e, f, row)
admin_fx_import_execute(e) == \E file \in Files(RateRows, "base") : PlanRateImport(e, file)

RuleStep ==
    \/ "create" \in Operations /\ \E r \in Rules : create_admin_pricing_rule(r) \/ cli_add_pricing(r)
    \/ "edit" \in Operations /\ \E e \in Editors, r \in Rules :
          update_admin_pricing_rule(e, r) \/ enable_admin_pricing_rule(e, r)
          \/ disable_admin_pricing_rule(e, r)
    \/ "disable" \in Operations /\ \E e \in Editors : cli_disable_model(e)
    \/ "review" \in Operations /\ \E v \in Reviewers :
          pricing_disable_preview(v) \/ pricing_disable_apply(v)
    \/ "import" \in Operations /\ \E e \in Editors :
          admin_pricing_import_execute(e) \/ cli_import_pricing(e) \/ ExecuteRuleImport(e)

RateStep ==
    \/ "create rate" \in Operations /\ \E f \in Rates : create_admin_fx_rate(f) \/ cli_add_fx(f)
    \/ "edit rate" \in Operations /\ \E e \in Editors, f \in Rates : update_admin_fx_rate(e, f)
    \/ "import rate" \in Operations /\ \E e \in Editors :
          admin_fx_import_execute(e) \/ ExecuteRateImport(e)

Tick ==
    /\ now < MaxTime
    /\ now' = now + 1
    /\ UNCHANGED <<rules, rates, edit, plan>>

PriceNext ==
    /\ RuleStep \/ RateStep \/ \E e \in Editors : Write(e) \/ RollBack(e)
    /\ UNCHANGED load

PriceSpec == PriceInit /\ [][PriceNext]_priceVars

-----------------------------------------------------------------------------
(* Properties *)

\* A reviewed disable changes the reviewed rules and no other, each of which
\* was enabled until then with the facts that were reviewed, whatever came
\* between its look and its commit.  A rule that joins the scope after the look
\* stays as it is.
DisabledAsReviewed ==
    \A v \in Reviewers : (plan[v] # None /\ plan'[v] = None /\ rules' # rules) =>
          /\ {r \in Rules : rules'[r] # rules[r]} = DOMAIN plan[v].facts
          /\ \A r \in DOMAIN plan[v].facts : /\ rules[r].enabled /\ ~rules'[r].enabled
                                           /\ Facts(rules[r]) = plan[v].facts[r]

\* A disabled rule is enabled only by an edit whose transaction read it as
\* disabled: none that is stale, and no import, setup, review or refresh, undoes
\* a disable that was committed meanwhile.
RulesStayOff ==
    \A r \in Stored(rules) : (~rules[r].enabled /\ rules'[r].enabled) =>
        \E e \in Editors : /\ edit[e].kind = "rules" /\ edit'[e] = Idle
                           /\ r \in DOMAIN edit[e].new /\ ~edit[e].seen[r].enabled

\* The services: valid_until must be after valid_from.
WindowsOrdered ==
    /\ \A r \in Stored(rules) : Ordered(rules[r])
    /\ \A f \in Stored(rates) : Ordered(rates[f])
=============================================================================

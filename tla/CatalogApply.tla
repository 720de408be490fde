---------------------------- MODULE CatalogApply ----------------------------
(***************************************************************************)
(* Applying a reviewed catalogue refresh to the price tables, while the    *)
(* gateway goes on pricing requests: services/catalog_refresh/apply.py,    *)
(* the plan operations of services/catalog_refresh/validation.py, and the  *)
(* capture of services/pricing.py.                                         *)
(*                                                                         *)
(* A run is sealed with the tables it was reviewed against.  Its           *)
(* application locks the tables against writers, not against readers,      *)
(* fixes its effective time, and commits later; the gateway fixes the time *)
(* of a capture before the statement that reads.  A row that a reviewed    *)
(* disable holds is not closed; where each waits for the other, one is     *)
(* rolled back.                                                            *)
(*                                                                         *)
(* Left out: the providers and routes a plan may also create, the quality  *)
(* of the evidence, and the authentication of the sealed run.              *)
(***************************************************************************)
EXTENDS PriceCatalog

CONSTANTS
    Runs,       \* catalogue refresh runs
    Requests,   \* requests to price
    Proposals,  \* prices, with their currency, that the evidence proposes
    NewRates    \* rates that the evidence proposes

VARIABLES
    sealed,     \* per run: the reviewed baseline and proposals
    applying,   \* the application that holds the table locks
    applied,    \* per run: its application record
    request     \* per request: the time and the captured pair

applyVars == <<priceVars, sealed, applying, applied, request>>

ApplyInit ==
    /\ PriceInit
    /\ sealed = [b \in Runs |-> None]
    /\ applying = None
    /\ applied = [b \in Runs |-> None]
    /\ request = [q \in Requests |-> None]

-----------------------------------------------------------------------------
(* The plan *)

Rows(table, scope) == {r \in Stored(table) : table[r].scope = scope}
Value(row) == [currency |-> row.currency, price |-> row.price]

\* The rows that are active in the reviewed tables
OldRules(b, s, at) == ActiveRules(sealed[b].rules, s, at)
OldRates(b, c, at) == ActiveRates(sealed[b].rates, c, at)

\* What the proposals change against the active row
RuleChanged(b, s, at) == \A r \in OldRules(b, s, at) : Value(sealed[b].rules[r]) # sealed[b].prices[s]
RateChanged(b, c, at) == \A f \in OldRates(b, c, at) : sealed[b].rates[f].rate # sealed[b].fx[c]

\* The blockers of validate_bundle for a selected model: ambiguous active rows,
\* another currency, a disabled or future row where nothing is active, and a
\* change of more than one active row
RuleBlocked(b, s, at) ==
    LET old == OldRules(b, s, at)
        rows == Rows(sealed[b].rules, s)
    IN \/ Cardinality({Value(sealed[b].rules[r]) : r \in old}) > 1
       \/ \E r \in old : sealed[b].rules[r].currency # sealed[b].prices[s].currency
       \/ old = {} /\ \E r \in rows : ~sealed[b].rules[r].enabled \/ sealed[b].rules[r].from > at
       \/ old # {} /\ RuleChanged(b, s, at) /\ Cardinality(old) # 1

\* _run_fx_gate; a rate has no flag, and a future one does not block
RateBlocked(b, c, at) ==
    LET old == OldRates(b, c, at)
    IN \/ Cardinality({sealed[b].rates[f].rate : f \in old}) > 1
       \/ old # {} /\ RateChanged(b, c, at) /\ Cardinality(old) # 1

Blocked(b, at) ==
    \/ \E s \in DOMAIN sealed[b].prices : RuleBlocked(b, s, at)
    \/ \E c \in DOMAIN sealed[b].fx : RateBlocked(b, c, at)

\* supersede_pricing_op, create_pricing_op: per changed scope the row it
\* supersedes, None where it creates; likewise for the rates
RuleOps(b, at) ==
    [s \in {x \in DOMAIN sealed[b].prices : RuleChanged(b, x, at)} |->
        IF OldRules(b, s, at) = {} THEN None ELSE CHOOSE r \in OldRules(b, s, at) : TRUE]
RateOps(b, at) ==
    [c \in {x \in DOMAIN sealed[b].fx : RateChanged(b, x, at)} |->
        IF OldRates(b, c, at) = {} THEN None ELSE CHOOSE f \in OldRates(b, c, at) : TRUE]

\* A run is collected and sealed with the tables it was compared with; every
\* selected currency but the euro brings a rate.
Seal(b) ==
    /\ sealed[b] = None
    /\ \E ss \in (SUBSET Scopes) \ {{}} : \E prices \in [ss -> Proposals] :
       LET currencies == {prices[s].currency : s \in ss} \ {Eur} IN
       \E fx \in [currencies -> NewRates] :
          sealed' = [sealed EXCEPT ![b] =
             [at |-> now, rules |-> rules, rates |-> rates, prices |-> prices, fx |-> fx]]
    /\ UNCHANGED <<rules, rates, edit, plan, now, applying, applied, request>>

\* _stale_tables; a first installation was compared with empty tables
Fresh(b) == rules = sealed[b].rules /\ rates = sealed[b].rates

\* apply_reviewed_run, first part of _execute_transaction: the table locks are
\* taken; the run is not applied yet, its review was not blocked and holds
\* operations, the plan derived at this moment is the reviewed one, and the
\* tables are the reviewed ones.
BeginApply(b) ==
    /\ applying = None /\ sealed[b] # None /\ applied[b] = None
    /\ ~Blocked(b, sealed[b].at) /\ ~Blocked(b, now)
    /\ DOMAIN RuleOps(b, now) # {} \/ DOMAIN RateOps(b, now) # {}
    /\ RuleOps(b, now) = RuleOps(b, sealed[b].at) /\ RateOps(b, now) = RateOps(b, sealed[b].at)
    /\ Fresh(b)
    /\ applying' = [run |-> b, rules |-> RuleOps(b, now), rates |-> RateOps(b, now), effective |-> None]
    /\ UNCHANGED <<rules, rates, edit, plan, now, sealed, applied, request>>

\* The effective time, read once; the close of a superseded row demands that it
\* is still active then.
FixEffective(b) ==
    /\ applying # None /\ applying.run = b /\ applying.effective = None
    /\ \A s \in DOMAIN applying.rules : applying.rules[s] # None => rules[applying.rules[s]].until > now
    /\ \A c \in DOMAIN applying.rates : applying.rates[c] # None => rates[applying.rates[c]].until > now
    /\ applying' = [applying EXCEPT !.effective = now]
    /\ UNCHANGED <<rules, rates, edit, plan, now, sealed, applied, request>>

NewRule(b, s, at) ==
    [scope |-> s, currency |-> sealed[b].prices[s].currency, price |-> sealed[b].prices[s].price,
     from |-> at, until |-> Open, enabled |-> TRUE]
NewRate(b, c, at) == [base |-> c, rate |-> sealed[b].fx[c], from |-> at, until |-> Open]

\* The fresh row of every operation
Placements(keys, ids, table) ==
    {p \in [keys -> ids \ Stored(table)] : \A x, y \in keys : x # y => p[x] # p[y]}

\* close_active_pricing_rule, close_active_fx_rate
Closed(table, ops, at) ==
    Changed(table, [x \in {ops[k] : k \in DOMAIN ops} \ {None} |-> [table[x] EXCEPT !.until = at]])

\* The rows that are created, under fresh identities
Created(p, row(_)) == [x \in {p[k] : k \in DOMAIN p} |-> row(CHOOSE k \in DOMAIN p : p[k] = x)]

\* Mutant: a rate is superseded from the next moment on.
RatesAfterLate(p) ==
    LET b == applying.run
        new(c) == NewRate(b, c, applying.effective + 1)
    IN Changed(Closed(rates, applying.rates, applying.effective + 1), Created(p, new))

RatesAfter(p) ==
    LET b == applying.run
        new(c) == NewRate(b, c, applying.effective)
    IN Changed(Closed(rates, applying.rates, applying.effective), Created(p, new))

\* Mutant: the new rule starts after the old one ended.
RulesAfterGap(p) ==
    LET b == applying.run
        new(s) == NewRule(b, s, applying.effective + 1)
    IN Changed(Closed(rules, applying.rules, applying.effective), Created(p, new))

RulesAfter(p) ==
    LET b == applying.run
        new(s) == NewRule(b, s, applying.effective)
    IN Changed(Closed(rules, applying.rules, applying.effective), Created(p, new))

\* The operations, the application record and the audit rows are committed
\* together.
CommitApply(b) ==
    /\ applying # None /\ applying.run = b /\ applying.effective # None
    /\ \A s \in DOMAIN applying.rules : applying.rules[s] \notin LockedRules
    /\ \E pr \in Placements(DOMAIN applying.rules, Rules, rules),
          pf \in Placements(DOMAIN applying.rates, Rates, rates) :
          /\ UniqueRules(RulesAfter(pr)) /\ UniqueRates(RatesAfter(pf))
          /\ rules' = RulesAfter(pr) /\ rates' = RatesAfter(pf)
          /\ applied' = [applied EXCEPT ![b] =
                [at |-> applying.effective, rules |-> pr, rates |-> pf,
                 oldRules |-> applying.rules, oldRates |-> applying.rates]]
    /\ applying' = None
    /\ UNCHANGED <<edit, plan, now, sealed, request>>

\* A guard or a constraint fails, or the transaction is lost: nothing is written.
AbandonApply ==
    /\ applying # None
    /\ applying' = None
    /\ UNCHANGED <<rules, rates, edit, plan, now, sealed, applied, request>>

apply_reviewed_run(b) == BeginApply(b) \/ FixEffective(b) \/ CommitApply(b)

-----------------------------------------------------------------------------
(* Pricing a request *)

BeginCapture(q) ==
    /\ request[q] = None
    /\ request' = [request EXCEPT ![q] = [at |-> now, rule |-> None, rate |-> None]]
    /\ UNCHANGED <<rules, rates, edit, plan, now, sealed, applying, applied>>

\* capture_pricing_and_fx, find_active_pricing_rule_with_fx: one statement reads
\* the rule and the rate; a price in euro needs none, a missing one is refused.
capture_pricing_and_fx(q) ==
    /\ request[q] # None /\ request[q].rule = None
    /\ \E s \in Scopes : \E r \in ActiveRule(rules, s, request[q].at) :
          IF rules[r].currency = Eur
          THEN request' = [request EXCEPT ![q].rule = r]
          ELSE \E f \in ActiveRate(rates, rules[r].currency, request[q].at) :
                  request' = [request EXCEPT ![q].rule = r, ![q].rate = f]
    /\ UNCHANGED <<rules, rates, edit, plan, now, sealed, applying, applied>>

ApplyNext ==
    /\ \/ \E b \in Load[load].runs : Seal(b) \/ apply_reviewed_run(b)
       \/ AbandonApply
       \/ \E q \in Load[load].requests : BeginCapture(q) \/ capture_pricing_and_fx(q)
       \/ /\ applying = None
          /\ RuleStep \/ RateStep \/ \E e \in Editors : Write(e) \/ RollBack(e)
          /\ UNCHANGED <<sealed, applying, applied, request>>
       \/ "clock" \in Operations /\ Tick /\ UNCHANGED <<sealed, applying, applied, request>>
    /\ UNCHANGED load

ApplySpec == ApplyInit /\ [][ApplyNext]_applyVars

-----------------------------------------------------------------------------
(* Properties *)

\* The pricing guide: a request that is priced around the application of a run
\* sees the old price with the old rate or the new price with the new rate,
\* never one of each.
PairIsCoherent ==
    \A q \in Requests, b \in Runs : (request[q] # None /\ applied[b] # None) =>
        LET old(table) == {table[k] : k \in DOMAIN table} IN
        /\ ~(request[q].rule \in old(applied[b].oldRules) \ {None} /\ request[q].rate \in old(applied[b].rates))
        /\ ~(request[q].rate \in old(applied[b].oldRates) \ {None} /\ request[q].rule \in old(applied[b].rules))

\* Applying a run reprices nothing before its effective time, where every scope
\* and currency keeps its row and its price, and leaves no later moment without
\* a price or a rate that had one.  The pricing guide: an intentional
\* enabled = false or a rule that starts later is never overridden by a refresh
\* where nothing is priced at present, however long ago the run was reviewed.
OnlyFutureRepriced ==
    [][applied' # applied =>
          /\ \A at \in 0..(applying.effective - 1) :
             /\ \A s \in Scopes : /\ ActiveRule(rules', s, at) = ActiveRule(rules, s, at)
                                 /\ \A r \in ActiveRule(rules, s, at) : rules'[r].price = rules[r].price
             /\ \A f \in Stored(rates) :
                   ActiveRate(rates', rates[f].base, at) = ActiveRate(rates, rates[f].base, at)
          /\ \A at \in applying.effective..MaxTime :
             /\ \A s \in Scopes : ActiveRule(rules, s, at) # {} => ActiveRule(rules', s, at) # {}
             /\ \A f \in Stored(rates) :
                   Valid(rates[f], at) => ActiveRate(rates', rates[f].base, at) # {}
          /\ \A s \in Scopes :
             (/\ ActiveRule(rules, s, applying.effective) = {}
              /\ \E r \in Rows(rules, s) : ~rules[r].enabled \/ rules[r].from > applying.effective)
             => ActiveRule(rules', s, applying.effective) = {}]_applyVars
=============================================================================

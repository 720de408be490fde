----------------------------- MODULE MCCatalog ------------------------------
(***************************************************************************)
(* The catalogue: prices and rates, their reviewed refresh, and providers  *)
(* with their routes.  A setup of models writes routes and prices; it      *)
(* waits, as every writer of prices does, for a refresh that is being      *)
(* applied.  Workloads of it.                                              *)
(***************************************************************************)
EXTENDS CatalogApply, RouteCatalog

CONSTANTS Usd, Priced, s1, s2, o1

RulesOf(windows, flags) ==
    {[scope |-> s, currency |-> Usd, price |-> 1, from |-> w[1], until |-> w[2], enabled |-> on] :
        s \in Priced, w \in windows, on \in flags}
RatesOf(windows) ==
    {[base |-> Usd, rate |-> 1, from |-> w[1], until |-> w[2]] : w \in windows}

OpenEnds == {<<0, Open>>, <<1, Open>>}
TwoStarts == {<<0, Open>>, <<1, Open>>, <<0, 1>>}
ThreeTimes == {<<0, 1>>, <<2, Open>>, <<0, Open>>}
LateEnds == {<<0, Open>>, <<1, Open>>, <<0, 2>>}

\* no operations on providers and routes
Still == [providers |-> {}, routes |-> {}, routeOps |-> {}, routeIds |-> {},
          maxProviders |-> 0, keys |-> {}, busy |-> {}]
\* no operations on prices
Unpriced == [operations |-> {}, rows |-> 0, rules |-> {}, rates |-> {}, runs |-> {}, requests |-> {}]

ProvidersOf(slugs, kinds, retries) ==
    {[slug |-> s, enabled |-> TRUE, kind |-> k, retries |-> n] : s \in slugs, k \in kinds, n \in retries}
PoliciesOf(models) ==
    {[models |-> m, providers |-> p, trusted |-> t] : m \in models, p \in {None, {}, {"a"}}, t \in BOOLEAN}
RoutesOf(patterns, endpoints, slugs, priorities, flags, caps) ==
    {[pattern |-> p, endpoint |-> e, provider |-> s, priority |-> n, enabled |-> on, visible |-> TRUE,
      stream |-> FALSE, caps |-> c] :
        p \in patterns, e \in endpoints, s \in slugs, n \in priorities, on \in flags, c \in caps}

Workloads ==
    \* two editors and a reviewed disable
    [edits |-> Still @@ [operations |-> {"create", "edit", "disable", "review"}, rows |-> 2,
                rules |-> RulesOf(OpenEnds, BOOLEAN), rates |-> {}, runs |-> {}, requests |-> {}],
    \* rules and rates that are created, edited and imported
     tables |-> Still @@ [operations |-> {"create", "import", "edit", "create rate", "import rate", "edit rate"},
                 rows |-> 2, rules |-> RulesOf(OpenEnds, {TRUE}), rates |-> RatesOf(TwoStarts),
                 runs |-> {}, requests |-> {}],
    \* a refresh that is applied while requests are priced
     refresh |-> Still @@ [operations |-> {"create", "create rate", "clock"}, rows |-> 3,
                  rules |-> RulesOf(LateEnds, {TRUE}) \cup RulesOf({<<0, Open>>}, {FALSE}), rates |-> RatesOf(LateEnds),
                  runs |-> Runs, requests |-> Requests],
    \* a route that is reviewed while it and its destinations are edited
     reviewed |-> Unpriced @@
        [providers |-> ProvidersOf({"a", "b"}, {"module"}, {0}) \cup ProvidersOf({"a"}, {"module"}, {1}),
         maxProviders |-> 2, routeIds |-> {1}, keys |-> {}, busy |-> {o1},
         routes |-> RoutesOf({"m"}, {"chat"}, {"a"}, {1}, {TRUE}, {{Completion}, {}}),
         routeOps |-> {"providers", "create route", "edit route", "switch route", "plan"}],
    \* routes that compete for a model
     ranking |-> Unpriced @@
        [providers |-> ProvidersOf({"a", "b"}, {"compatible"}, {0}),
         maxProviders |-> 2, routeIds |-> {1, 2}, busy |-> {},
         keys |-> PoliciesOf({None, {}, {"m"}, {"m", "mm"}, {"m[m]"}}),
         routes |-> RoutesOf({"m", "m*", "m[m]"}, {"chat"}, {"a", "b"}, {1}, {TRUE}, {{}}),
         routeOps |-> {"providers", "switch provider", "create route", "switch route"}],
    \* imports, setups and validated routes, which read and write later
     arrivals |-> Unpriced @@
        [providers |-> ProvidersOf({"a"}, {"compatible"}, {0}),
         maxProviders |-> 1, routeIds |-> {1, 2, 3}, busy |-> Operators, keys |-> PoliciesOf({{"m"}}),
         routes |-> RoutesOf({"m"}, {"chat"}, {"a"}, {1}, {TRUE}, {{}})
                        \cup RoutesOf({"m*"}, {"chat"}, {"a"}, {1}, {TRUE}, {{Transport}}),
         routeOps |-> {"providers", "validate", "import routes", "setup"}]]
MCLoad == [n \in DOMAIN Workloads |-> Workloads[n]]

\* two editors of windows that lie apart
WindowLoad ==
    [n \in {"windows"} |->
        Still @@ [operations |-> {"create", "edit"}, rows |-> 2, rules |-> RulesOf(ThreeTimes, {TRUE}),
         rates |-> {}, runs |-> {}, requests |-> {}]]

MCProposals == {[currency |-> Usd, price |-> p] : p \in {1, 2}}

MCPattern ==
    [p \in {"m", "m*", "m[m]"} |->
        CASE p = "m" -> [match |-> "exact", text |-> "m", length |-> 1, covers |-> {"m"}]
          [] p = "m*" -> [match |-> "prefix", text |-> "m", length |-> 1, covers |-> {"m", "mm", "m[m]"}]
          [] p = "m[m]" -> [match |-> "glob", text |-> "m[m]", length |-> 4, covers |-> {"mm"}]]
\* the price of a Responses route lies outside the scopes that are edited
MCPriceScope == [e \in {"chat", "responses"} |-> IF e = "chat" THEN s1 ELSE s2]
Interchangeable == Permutations(Rules) \cup Permutations(Rates) \cup Permutations(Editors)

-----------------------------------------------------------------------------
catalogVars == <<applyVars, routeVars>>

CatalogInit == ApplyInit /\ RouteInit

CatalogNext ==
    \/ ApplyNext /\ UNCHANGED routeVars
    \/ /\ applying = None
       /\ RouteStep
       /\ UNCHANGED <<rates, edit, plan, now, load, sealed, applying, applied, request>>

CatalogSpec == CatalogInit /\ [][CatalogNext]_catalogVars

-----------------------------------------------------------------------------
\* What operators review binds: a disable hits the reviewed rules, as they were
\* reviewed, and a route plan moves the reviewed route, for the reviewed
\* destination (apply_disable_model_reviewed, execute_route_update_plan).
CatalogAsReviewed == [][DisabledAsReviewed /\ UpdatedAsReviewed]_catalogVars

\* What an operator switches off stays off until somebody who saw it so switches
\* it on: two edits of a row, each from its own unlocked read, keep a disable
\* that one of them did not know of (update_pricing_rule_metadata,
\* update_model_route_metadata), and so do all other writers of the tables.
SwitchedOffStaysOff == [][RulesStayOff /\ RoutesStayOff]_catalogVars
=============================================================================

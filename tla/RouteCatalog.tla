---------------------------- MODULE RouteCatalog ----------------------------
(***************************************************************************)
(* Providers and model routes: services/provider_config_service.py,        *)
(* services/model_route_service.py, the reviewed route configuration of    *)
(* services/provider_route_configuration.py, the create-only import of     *)
(* services/route_import.py, the setup of OpenAI-compatible providers      *)
(* (services/openai_compatible_setup.py), their console pages and          *)
(* commands; and the three readers of the tables: the resolution of a      *)
(* request's model, the list of models, and the explanation of access.     *)
(*                                                                         *)
(* As with prices, a plain edit of a route reads its row without a lock    *)
(* and writes the columns it changed; an import and a setup read the       *)
(* tables and write later.  A provider's row is locked by its editors.  A  *)
(* reviewed change locks the route, then its destination provider, and is  *)
(* one step.  The fingerprint of a route or a provider is the state it     *)
(* digests.  A pattern stands for match type and requested model together; *)
(* names, addresses, credentials' names and notes are left out, except     *)
(* that "retries" stands for all of a provider's connection settings.      *)
(***************************************************************************)
EXTENDS PriceCatalog

CONSTANTS
    Providers,    \* identities of provider rows
    Routes,       \* identities of route rows, in the order of their text
    Slugs,        \* names of providers
    Pattern,      \* per pattern: match type, text, length and the models it covers
    PriceScope,   \* per endpoint: the scope of the price of the model that is set up
    Operators,    \* concurrent changes of the two tables
    CandidateBound  \* ROUTE_CANDIDATE_BOUND

Completion == "completion"      \* the capability that selects a completion profile
Transport == "transport"        \* the capabilities that select another server module

ASSUME RouteConstants ==
    /\ Routes \subseteq Nat /\ CandidateBound \in Nat
    /\ \A p \in DOMAIN Pattern : /\ Pattern[p].match \in {"exact", "prefix", "glob"}
                                 /\ Pattern[p].match # "glob" => Pattern[p].text \in Pattern[p].covers

VARIABLES
    providers,    \* per provider: its row, None before it exists
    routes,       \* per route: its row, None before it exists
    change,       \* per operator: the unlocked change that is under way
    review        \* per operator: the reviewed plan of a route change

routeVars == <<providers, routes, change, review>>

ProviderRows == Load[load].providers    \* the provider rows that are submitted
RouteRows == Load[load].routes          \* the route rows that are submitted
RouteIds == Load[load].routeIds         \* bound on the rows of the route table
RouteOps == Load[load].routeOps         \* the operations that are performed
Busy == Load[load].busy                 \* the operators that act
MaxProviders == Load[load].maxProviders \* bound on the rows of the provider table
KeyPolicies == Load[load].keys          \* what keys may use: models and providers, None for
                                        \* all, and whether they are trusted

RouteInit ==
    /\ providers = [p \in Providers |-> None]
    /\ routes = [r \in Routes |-> None]
    /\ change = [o \in Operators |-> Idle]
    /\ review = [o \in Operators |-> None]

Named(slug) == {p \in Stored(providers) : providers[p].slug = slug}

-----------------------------------------------------------------------------
(* Resolution of a request's model, and the views of it *)

\* _specificity_rank
SpecificityRank(match) == CASE match = "exact" -> 0 [] match = "prefix" -> 1 [] match = "glob" -> 2

\* _RankedMatch.sort_key, smallest first
Ranks(r, q) ==
    LET a == routes[r]  b == routes[q]
        rankA == SpecificityRank(Pattern[a.pattern].match)
        rankB == SpecificityRank(Pattern[b.pattern].match)
        lenA == Pattern[a.pattern].length
        lenB == Pattern[b.pattern].length
    IN  \/ a.priority < b.priority
        \/ a.priority = b.priority /\ rankA < rankB
        \/ a.priority = b.priority /\ rankA = rankB /\ lenA > lenB
        \/ a.priority = b.priority /\ rankA = rankB /\ lenA = lenB /\ r <= q

\* matches_model_route
matches_model_route(model, r) == model \in Pattern[routes[r].pattern].covers

ModelAllowed(key, model) == key.trusted \/ key.models = None \/ model \in key.models
ProviderAllowed(key, slug) == key.trusted \/ key.providers = None \/ slug \in key.providers
ProviderServes(slug) == \E p \in Named(slug) : providers[p].enabled

\* RouteResolutionService.resolve_model on tables that do not move: the
\* route, or the error it raises
resolve_model(model, key, endpoint) ==
    LET matching == {r \in Stored(routes) : routes[r].endpoint = endpoint /\ matches_model_route(model, r)}
        enabled == {r \in matching : routes[r].enabled}
        served == {r \in enabled : ProviderServes(routes[r].provider)}
        ranked == {r \in served : ProviderAllowed(key, routes[r].provider)}
        Error(what) == [error |-> what, route |-> None]
    IN  CASE ~ModelAllowed(key, model) -> Error("model not allowed")
          [] ModelAllowed(key, model) /\ enabled = {} ->
                Error(IF matching # {} THEN "route disabled" ELSE "not found")
          [] ModelAllowed(key, model) /\ enabled # {} /\ ranked = {} ->
                Error(IF ~key.trusted /\ key.providers # None THEN "provider not allowed" ELSE "provider disabled")
          [] OTHER -> [error |-> "none", route |-> CHOOSE r \in ranked : \A q \in ranked : Ranks(r, q)]

Resolves(model, key, endpoint) == resolve_model(model, key, endpoint).error = "none"

\* Mutant: the listing forgets the key's provider list
list_visible_any_provider(key) ==
    {r \in Stored(routes) : /\ routes[r].enabled /\ routes[r].visible
                            /\ ProviderServes(routes[r].provider)
                            /\ ModelAllowed(key, Pattern[routes[r].pattern].text)}

\* ModelCatalogService.list_visible_models: the routes whose text is listed
list_visible_models(key) ==
    {r \in Stored(routes) : /\ routes[r].enabled /\ routes[r].visible
                            /\ ProviderServes(routes[r].provider)
                            /\ ProviderAllowed(key, routes[r].provider)
                            /\ ModelAllowed(key, Pattern[routes[r].pattern].text)}

\* build_inspection_key: a trusted key is promoted to all models
InspectionKey(key) == [key EXCEPT !.models = IF key.trusted THEN None ELSE @]

\* explain_model_route_access: the allowed models it reports as having a
\* candidate route
explain_model_route_access(key, endpoint) ==
    LET candidates == {r \in Stored(routes) : /\ routes[r].endpoint = endpoint /\ routes[r].enabled
                                              /\ ProviderServes(routes[r].provider)
                                              /\ ProviderAllowed(key, routes[r].provider)}
    IN  {m \in key.models : \E r \in candidates : matches_model_route(m, r)}

-----------------------------------------------------------------------------
(* Providers *)

\* create_provider_config, cli add and create_admin_provider: a free name
create_provider_config(p, row) ==
    /\ providers[p] = None /\ Cardinality(Stored(providers)) < MaxProviders
    /\ Named(row.slug) = {}
    /\ providers' = [providers EXCEPT ![p] = row]
    /\ UNCHANGED <<routes, change, review>>

\* update_provider_config, under the row lock of update_admin_provider
update_provider_config(p, row) ==
    /\ providers[p] # None
    /\ Named(row.slug) \subseteq {p}
    /\ providers' = [providers EXCEPT ![p] = row]
    /\ UNCHANGED <<routes, change, review>>

\* partial_update_provider_config: keeps the name and the enabled state
partial_update_provider_config(p, row) ==
    /\ providers[p] # None
    /\ providers' = [providers EXCEPT ![p] = 
                                 [row EXCEPT !.slug = providers[p].slug, !.enabled = providers[p].enabled]]
    /\ UNCHANGED <<routes, change, review>>

\* set_provider_enabled writes one column: it takes effect when it writes,
\* or, when the column already had the value, when it read
set_provider_enabled(p, on) ==
    /\ providers[p] # None
    /\ providers' = [providers EXCEPT ![p].enabled = on]
    /\ UNCHANGED <<routes, change, review>>

-----------------------------------------------------------------------------
(* Routes *)

\* validate_capabilities_document: the selectors exclude each other
validate_capabilities_document(caps) == ~({Completion, Transport} \subseteq caps)

\* validate_merged_route_candidate, against a provider row.  The profile of a
\* completion route binds one exact pattern.
ValidCandidate(row, provider) ==
    /\ validate_capabilities_document(row.caps)
    /\ Transport \in row.caps => provider.kind = "compatible"
    /\ Completion \in row.caps => /\ provider.kind = "module"
                                  /\ provider.retries = 0
                                  /\ row.endpoint = "chat"
                                  /\ ~row.stream
                                  /\ Pattern[row.pattern].match = "exact"

\* create_model_route
create_model_route(r, row) ==
    /\ routes[r] = None
    /\ routes' = [routes EXCEPT ![r] = row]
    /\ UNCHANGED <<providers, change, review>>

\* create_admin_route and cli add with validation: validate_route_creation_candidate
\* reads the provider without a lock; the row is written later
validate_route_creation_candidate(o, row) ==
    /\ change[o] = Idle
    /\ \E p \in Named(row.provider) : ValidCandidate(row, providers[p])
    /\ change' = [change EXCEPT ![o] = [kind |-> "create", rows |-> {row}]]
    /\ UNCHANGED <<providers, routes, review>>

\* set_model_route_enabled: one column, as set_provider_enabled
set_model_route_enabled(r, on) ==
    /\ routes[r] # None
    /\ routes' = [routes EXCEPT ![r].enabled = on]
    /\ UNCHANGED <<providers, change, review>>

\* update_model_route without a lock: the read
ReadRoute(o, r, row) ==
    /\ change[o] = Idle /\ routes[r] # None
    /\ change' = [change EXCEPT ![o] = [kind |-> "edit", route |-> r, seen |-> routes[r], new |-> row]]
    /\ UNCHANGED <<providers, routes, review>>

\* ... and the columns that differ from what it read
WriteRoute(o) ==
    /\ change[o].kind = "edit"
    /\ routes' = [routes EXCEPT ![change[o].route] = Merged(@, change[o].seen, change[o].new)]
    /\ change' = [change EXCEPT ![o] = Idle]
    /\ UNCHANGED <<providers, review>>

-----------------------------------------------------------------------------
(* The reviewed change of one route *)

\* merge_capability_patch: sets or clears the selector it names
merge_capability_patch(caps, patch) == IF patch = "clear" THEN caps \ {Completion} ELSE caps \cup {Completion}

\* _capabilities_for_mode
CapabilitiesForMode(caps, mode, given) ==
    CASE mode = "unchanged" -> caps
      [] mode = "full-replacement" -> given
      [] mode \in {"set", "clear"} -> merge_capability_patch(caps, mode)

\* The complete state a plan leads to from a row
Proposal(row, before, mode) ==
    [row EXCEPT !.enabled = before.enabled, !.caps = CapabilitiesForMode(before.caps, mode, row.caps)]

\* preview_route_update: read only, for a destination that exists and a
\* candidate it accepts
preview_route_update(o, r, row, proposed, mode) ==
    /\ review[o] = None /\ routes[r] # None
    /\ mode # "full-replacement" => proposed.caps = {}     \* the plan then holds no document
    /\ \E p \in Named(row.provider) :
          /\ ValidCandidate(Proposal(row, routes[r], mode), providers[p])
          /\ review' = [review EXCEPT ![o] =
                [route |-> r, before |-> routes[r], proposed |-> proposed, mode |-> mode, provider |-> p,
                 kind |-> providers[p].kind, retries |-> providers[p].retries, turn |-> FALSE]]
    /\ UNCHANGED <<providers, routes, change>>

\* _route_fingerprint, and the enabled state beside it
RouteAsReviewed(plan_) == routes[plan_.route] = plan_.before

\* Mutant: only the destination's identity is compared
DestinationById(plan_) == Named(plan_.proposed.provider) = {plan_.provider}

\* compute_provider_context_fingerprint of the destination, with its identity
DestinationAsReviewed(plan_) ==
    /\ Named(plan_.proposed.provider) = {plan_.provider}
    /\ providers[plan_.provider].kind = plan_.kind
    /\ providers[plan_.provider].retries = plan_.retries

Target(plan_) == Proposal(plan_.proposed, routes[plan_.route], plan_.mode)

\* execute_route_update_plan: under both row locks; a plan that changes
\* nothing writes nothing
execute_route_update_plan(o) ==
    /\ review[o] # None
    /\ RouteAsReviewed(review[o])
    /\ DestinationAsReviewed(review[o])
    /\ ValidCandidate(Target(review[o]), providers[review[o].provider])
    /\ routes[review[o].route] # Target(review[o])
    /\ routes' = [routes EXCEPT ![review[o].route] = Target(review[o])]
    /\ review' = [review EXCEPT ![o].turn = ~@]
    /\ UNCHANGED <<providers, change>>

-----------------------------------------------------------------------------
(* Import and setup *)

RouteKey(row) == <<row.pattern, row.endpoint>>

\* _classify_existing, _same_route
RouteClass(row) ==
    LET same == {r \in Stored(routes) : RouteKey(routes[r]) = RouteKey(row)}
    IN  CASE same = {} -> "create"
          [] \E r \in same : routes[r] = row -> "duplicate"
          [] same # {} /\ (\A r \in same : routes[r] # row) /\ (\E r \in same : routes[r].provider # row.provider) -> "conflict"
          [] OTHER -> "update"

\* validate_route_import_rows, classify_route_import_preview and
\* build_route_import_execution_plan: only a file of new routes goes on
PlanRouteImport(o, file) ==
    /\ change[o] = Idle
    /\ \A row \in file : Named(row.provider) # {} /\ RouteClass(row) = "create"
    /\ change' = [change EXCEPT ![o] = [kind |-> "create", rows |-> file]]
    /\ UNCHANGED <<providers, routes, review>>

\* execute_route_import_plan: every row of the file, in one transaction; also
\* the insertion of a validated route
execute_route_import_plan(o) ==
    /\ change[o].kind = "create"
    /\ routes' \in WithFile(routes, RouteIds, change[o].rows)
    /\ change' = [change EXCEPT ![o] = Idle]
    /\ UNCHANGED <<providers, review>>

\* OpenAICompatibleDiscoveryService.discover and _validate_provider: an
\* enabled compatible provider answers with a list that holds the model
Discovered(slug) == \E p \in Named(slug) : providers[p].enabled /\ providers[p].kind = "compatible"

\* _preset_endpoints, _capabilities: the routes of a setup
SetupRows(slug, pattern, endpoints, on) ==
    {[pattern |-> pattern, endpoint |-> e, provider |-> slug, priority |-> 1, enabled |-> on,
      visible |-> TRUE, stream |-> TRUE, caps |-> {}] : e \in endpoints}

\* _preflight_conflicts: the setup's own provider, exact routes, enabled prices
PreflightConflicts(slug, pattern, endpoints) ==
    \/ \E r \in Stored(routes) : routes[r].provider = slug /\ routes[r].pattern = pattern
                                 /\ routes[r].endpoint \in endpoints
    \/ \E r \in Stored(rules) : rules[r].enabled /\ rules[r].scope \in {PriceScope[e] : e \in endpoints}

\* OpenAICompatibleSetupService.execute: what it reads
BeginSetup(o, slug, pattern, endpoints, on) ==
    /\ change[o] = Idle
    /\ Discovered(slug)
    /\ ~PreflightConflicts(slug, pattern, endpoints)
    /\ change' = [change EXCEPT ![o] = [kind |-> "setup", rows |-> SetupRows(slug, pattern, endpoints, on)]]
    /\ UNCHANGED <<providers, routes, review>>

SetupPrice(row) == [scope |-> PriceScope[row.endpoint], currency |-> Eur, price |-> 1,
                    from |-> now, until |-> Open, enabled |-> row.enabled]

\* ... and what it writes, in one transaction
FinishSetup(o) ==
    /\ change[o].kind = "setup"
    /\ routes' \in WithFile(routes, RouteIds, change[o].rows)
    /\ rules' \in WithFile(rules, Rules, {SetupPrice(row) : row \in change[o].rows})
    /\ UniqueRules(rules')
    /\ change' = [change EXCEPT ![o] = Idle]
    /\ UNCHANGED <<providers, review>>

\* A change that is refused or that breaks writes nothing
Withdraw(o) ==
    /\ change[o] # Idle
    /\ change' = [change EXCEPT ![o] = Idle]
    /\ UNCHANGED <<providers, routes, review>>

-----------------------------------------------------------------------------
(* The console and the commands *)

cli_add_provider(p) == \E row \in ProviderRows : create_provider_config(p, row)
create_admin_provider(p) == \E row \in ProviderRows : create_provider_config(p, row)
update_admin_provider(p) == \E row \in ProviderRows : update_provider_config(p, row)
cli_update_provider(p) == \E row \in ProviderRows : partial_update_provider_config(p, row)
enable_admin_provider(p) == set_provider_enabled(p, TRUE)
disable_admin_provider(p) == set_provider_enabled(p, FALSE)
cli_switch_provider(p) == \E on \in BOOLEAN : set_provider_enabled(p, on)

\* create_admin_route: with an intent it is validated, without one it is not
create_admin_route(r) == \E row \in RouteRows : create_model_route(r, row)
cli_add_route(o) == \E row \in RouteRows : validate_route_creation_candidate(o, row)
create_validated_route(o) == \E row \in RouteRows : validate_route_creation_candidate(o, row)
update_admin_route(o, r) == \E row \in RouteRows : Named(row.provider) # {} /\ ReadRoute(o, r, row)
enable_admin_route(r) == set_model_route_enabled(r, TRUE)
disable_admin_route(r) == set_model_route_enabled(r, FALSE)
cli_switch_route(r) == \E on \in BOOLEAN : set_model_route_enabled(r, on)

\* The signed plan of the console; and the plan file of the command, whose
\* proposed values the operator may change (parse_route_update_plan_document)
Modes == {"unchanged", "set", "clear", "full-replacement"}
route_configuration_plan(o, r) ==
    \E row \in RouteRows, mode \in Modes : preview_route_update(o, r, row, row, mode)
cli_update_route(o, r) ==
    \E row, edited \in RouteRows, mode \in Modes : preview_route_update(o, r, row, edited, mode)

\* route_configuration_apply, and cli update with a plan file; a plan that is
\* stale, or whose token has expired, is left
DropPlan(o) ==
    /\ review[o] # None
    /\ review' = [review EXCEPT ![o] = None]
    /\ UNCHANGED <<providers, routes, change>>
route_configuration_apply(o) == execute_route_update_plan(o) \/ DropPlan(o)
cli_execute_route_plan(o) == execute_route_update_plan(o)

RouteFiles == {file \in kSubset(1, RouteRows) \cup kSubset(2, RouteRows) :
                  \A a, b \in file : RouteKey(a) = RouteKey(b) => a = b}
admin_route_import_execute(o) == \E file \in RouteFiles : PlanRouteImport(o, file)
cli_import_routes(o) == \E file \in RouteFiles : PlanRouteImport(o, file)

admin_provider_discover_execute(o) ==
    \E slug \in Slugs, pattern \in DOMAIN Pattern, endpoints \in {{"chat"}, {"chat", "responses"}}, on \in BOOLEAN :
        Pattern[pattern].match = "exact" /\ BeginSetup(o, slug, pattern, endpoints, on)
cli_setup_models(o) ==
    \E slug \in Slugs, pattern \in DOMAIN Pattern, endpoints \in {{"chat"}, {"chat", "responses"}}, on \in BOOLEAN :
        Pattern[pattern].match = "exact" /\ BeginSetup(o, slug, pattern, endpoints, on)

RouteStep ==
    \/ /\ \/ "providers" \in RouteOps /\ \E p \in Providers :
                create_admin_provider(p) \/ cli_add_provider(p) \/ update_admin_provider(p) \/ cli_update_provider(p)
          \/ "switch provider" \in RouteOps /\ \E p \in Providers :
                enable_admin_provider(p) \/ disable_admin_provider(p) \/ cli_switch_provider(p)
          \/ "create route" \in RouteOps /\ \E r \in RouteIds : create_admin_route(r)
          \/ "validate" \in RouteOps /\ \E o \in Busy : create_validated_route(o) \/ cli_add_route(o)
          \/ "edit route" \in RouteOps /\ \E o \in Busy, r \in Routes :
                update_admin_route(o, r)
          \/ "switch route" \in RouteOps /\ \E r \in Routes :
                enable_admin_route(r) \/ disable_admin_route(r) \/ cli_switch_route(r)
          \/ "plan" \in RouteOps /\ \E o \in Busy, r \in Routes :
                route_configuration_plan(o, r) \/ cli_update_route(o, r)
          \/ \E o \in Busy : route_configuration_apply(o) \/ cli_execute_route_plan(o)
          \/ "import routes" \in RouteOps /\ \E o \in Busy : admin_route_import_execute(o) \/ cli_import_routes(o)
          \/ "setup" \in RouteOps /\ \E o \in Busy : admin_provider_discover_execute(o) \/ cli_setup_models(o)
          \/ \E o \in Busy : WriteRoute(o) \/ execute_route_import_plan(o) \/ Withdraw(o)
       /\ UNCHANGED rules
    \/ \E o \in Busy : FinishSetup(o)

-----------------------------------------------------------------------------
(* Properties *)

\* The three readers of the tables agree: what a key sees in the list of
\* models resolves for it on the listed route's endpoint, unless it is the text
\* of a glob that does not match itself (list_visible_models lists the text of
\* "gpt-[45]", which fnmatchcase does not match with it), and the models the
\* explanation calls reachable are those that resolve.
AccessViewsAgree ==
    Cardinality(Stored(routes)) <= CandidateBound =>
        \A key \in KeyPolicies :
            /\ \A r \in list_visible_models(key) :
                  LET p == Pattern[routes[r].pattern] IN
                  \/ Resolves(p.text, key, routes[r].endpoint)
                  \/ p.match = "glob" /\ p.text \notin p.covers
            /\ InspectionKey(key).models # None => \A endpoint \in {"chat", "responses"} :
                  explain_model_route_access(InspectionKey(key), endpoint) =
                      {m \in key.models : Resolves(m, key, endpoint)}

\* The execution of a plan moves its route, alone, from the reviewed state to
\* the planned one, for a destination that still has the reviewed identity
\* and connection and accepts the route, and it never changes enablement.
UpdatedAsReviewed ==
    \A o \in Operators :
          (review[o] # None /\ review'[o] # None /\ review'[o].turn # review[o].turn) =>
              LET r == review[o].route IN
              /\ \A q \in Routes \ {r} : routes'[q] = routes[q]
              /\ routes[r] = review[o].before
              /\ routes'[r] = Proposal(review[o].proposed, review[o].before, review[o].mode)
              /\ \E p \in Providers : /\ providers[p] # None
                                      /\ p = review[o].provider
                                      /\ providers[p].slug = routes'[r].provider
                                      /\ providers[p].kind = review[o].kind
                                      /\ providers[p].retries = review[o].retries
                                      /\ ValidCandidate(routes'[r], providers[p])

\* An edit, a reviewed plan or an import that took its read before a route was
\* disabled does not enable it again: only an edit that read it as disabled does,
\* and the switch itself.
RoutesStayOff ==
    \A r \in Stored(routes) : (~routes[r].enabled /\ routes'[r].enabled) =>
        /\ review' = review
        /\ \A o \in Operators : change'[o] # change[o] => change[o].kind = "edit" /\ ~change[o].seen.enabled
=============================================================================

----------------------------- MODULE CodexReplay -----------------------------
(***************************************************************************)
(* Ownership of the provider items that a coding client sends back         *)
(* (services/codex_replay_service.py, db/repositories/codex_replay.py and  *)
(* their callers in services/responses_gateway.py).                        *)
(*                                                                         *)
(* A finished request stores, per output item, a reference that holds only *)
(* digests made with the signing secret of the moment.  A later request of *)
(* the same key may replay an item when exactly one live reference of the  *)
(* key matches it and that reference fits the route the request runs on.   *)
(* A digest stands for what it binds: the item, and the secret's version.  *)
(***************************************************************************)
EXTENDS Integers, FiniteSets

CONSTANTS
    Request,      \* the requests
    KeyOf,        \* the gateway key of a request
    Route,        \* the model routes
    Compatible,   \* routes whose compactions a route accepts
    Load,         \* per name: a workload the instance examines
    MaxVersions,  \* _MAX_ACTIVE_HMAC_VERSIONS
    Ttl,          \* CODEX_REPLAY_REFERENCE_TTL_SECONDS
    None

\* An identifier of a provider names one item.
ASSUME ReplayConstants ==
    /\ MaxVersions \in Nat \ {0} /\ Ttl \in Nat \ {0}
    /\ Compatible \in [Route -> SUBSET Route]
    /\ \A n \in DOMAIN Load :
          /\ Load[n].time \in Nat /\ 1 \in Load[n].versions
          /\ Load[n].versions \subseteq Nat \ {0} /\ IsFiniteSet(Load[n].versions)
          /\ Load[n].requests \subseteq Request
          /\ \A body \in Load[n].bodies : IsFiniteSet(body)
          /\ \A c, d \in Load[n].output : c.kind = d.kind /\ c.item = d.item => c = d

Key == {KeyOf[r] : r \in Request}
ToolCall == {"function_call", "custom_tool_call"}

VARIABLES
    now,          \* the time
    refs,         \* codex_replay_references, by their unique index
    ledger,       \* requests with a successful finalized ledger row
    upstream,     \* the model a route leads to
    signing,      \* version of the active secret
    secrets,      \* versions whose secret is configured
    req,          \* per request: its stage and its local variables
    load          \* the name of the workload, which never changes

Running == Load[load].requests   \* the requests that arrive
Output == Load[load].output      \* candidates [kind, item, call, tool] a provider may answer
Bodies == Load[load].bodies      \* sets of candidates a client may replay
InUse == Load[load].routes       \* the routes that are found
Model == Load[load].models       \* upstream models, each of one provider
Version == Load[load].versions   \* versions of the HMAC secret
MaxTime == Load[load].time       \* bound of the clock

vars == <<now, refs, ledger, upstream, signing, secrets, req, load>>
operator == <<upstream, signing, secrets>>

Idle == [stage |-> "idle", body |-> {}, compact |-> FALSE, auth |-> None,
         route |-> None, out |-> {}]

ReplayInit ==
    /\ load \in DOMAIN Load
    /\ now = 0
    /\ refs = << >>
    /\ ledger = {}
    /\ upstream \in [Route -> Model]
    /\ signing = 1
    /\ secrets = Version
    /\ req = [r \in Request |-> Idle]

\* The task is over, and its local variables with it.
End(r) == req' = [req EXCEPT ![r] = [Idle EXCEPT !.stage = "ended"]]

-----------------------------------------------------------------------------
(* Candidates *)

Idless(body) == \E c \in body : c.item = None

\* _validated_candidates: item and call identifiers are present where the kind
\* has them, and none is used twice.
Valid(body, idless) ==
    /\ \A c \in body :
          /\ c.item = None => idless /\ c.kind \in ToolCall
          /\ (c.kind \in ToolCall) = (c.call # None)
          /\ (c.kind \in ToolCall) = (c.tool # None)
    /\ \A c, d \in body : c # d /\ c.kind = d.kind =>
          /\ c.item = d.item => c.item = None
          /\ c.call = d.call => c.call = None

\* Rows of a key that have not expired, for some kinds
Active(k, kinds) ==
    {id \in DOMAIN refs : id.key = k /\ id.kind \in kinds /\ refs[id].expires > now}

\* list_active_by_item_digests, or by call digests when the item has no id
Matches(k, c) ==
    {id \in Active(k, {c.kind}) :
        IF c.item = None THEN refs[id].call = c.call ELSE id.item = c.item}

\* Mutant: only the item id is compared.
RowMatchesItem(id, c) == TRUE

\* _validate_row_matches_candidate
RowMatches(id, c) == refs[id].call = c.call /\ refs[id].tool = c.tool

-----------------------------------------------------------------------------
(* A request that replays items *)

\* codex_replay_request_candidates of a create or of a compact request
Begin(r, body, compact) ==
    /\ req[r].stage = "idle"
    /\ req' = [req EXCEPT ![r] = [Idle EXCEPT !.stage = "checking",
                                  !.body = body, !.compact = compact]]
    /\ UNCHANGED <<now, refs, ledger, operator>>

\* CodexReplayService.verify_owned_replay.  A body with an item that has no id
\* is looked up only once the route is known.
Verify(r) ==
    LET q == req[r]
        k == KeyOf[r]
        versions == {id.version : id \in Active(k, {c.kind : c \in q.body})}
        owned == /\ Valid(q.body, ~q.compact)
                 /\ q.body # {} =>
                       /\ versions # {}
                       /\ Cardinality(versions) <= MaxVersions
                       /\ versions \subseteq secrets
                 /\ \A c \in q.body :
                       /\ Cardinality(Matches(k, c)) = 1
                       /\ \A id \in Matches(k, c) : RowMatches(id, c)
    IN  /\ q.stage = "checking" /\ q.auth = None
        /\ Idless(q.body) /\ ~q.compact => q.route # None
        /\ IF owned
           THEN req' = [req EXCEPT ![r].auth =
                          {[id |-> id, kind |-> id.kind, route |-> refs[id].route,
                            model |-> refs[id].model] :
                           id \in UNION {Matches(k, c) : c \in q.body}}]
           ELSE End(r)
        /\ UNCHANGED <<now, refs, ledger, operator>>

\* _resolve_responses_route
Resolve(r, t) ==
    /\ req[r].stage = "checking" /\ req[r].route = None
    /\ req[r].auth # None \/ (Idless(req[r].body) /\ ~req[r].compact)
    /\ req' = [req EXCEPT ![r].route = [id |-> t, model |-> upstream[t]]]
    /\ UNCHANGED <<now, refs, ledger, operator>>

\* CodexReplayService.verify_route_compatibility
FitsRoute(a, route, compact) ==
    /\ a.model = route.model
    /\ \/ a.route = route.id
       \/ (a.kind = "compaction" \/ compact) /\ a.route \in Compatible[route.id]

\* _verify_codex_replay_route
CheckRoute(r) ==
    LET q == req[r] IN
    /\ q.stage = "checking" /\ q.auth # None /\ q.route # None
    /\ IF \A a \in q.auth : FitsRoute(a, q.route, q.compact)
       THEN req' = [req EXCEPT ![r].stage = "admission"]
       ELSE End(r)
    /\ UNCHANGED <<now, refs, ledger, operator>>

\* Mutant: the route found after the wait is used as it is.
RerouteUnchecked(r, t) ==
    /\ req[r].stage = "admission"
    /\ req' = [req EXCEPT ![r].route = [id |-> t, model |-> upstream[t]]]
    /\ UNCHANGED <<now, refs, ledger, operator>>

\* The route is resolved again after a wait for the rate limit, and checked
\* against what was authorised before it (_compact_route_checks_after_wait).
Reroute(r, t) ==
    /\ req[r].stage = "admission"
    /\ req' = [req EXCEPT ![r] = [@ EXCEPT !.route = [id |-> t, model |-> upstream[t]],
                                            !.stage = "checking"]]
    /\ UNCHANGED <<now, refs, ledger, operator>>

Send(r) ==
    /\ req[r].stage = "admission"
    /\ req' = [req EXCEPT ![r].stage = "sent"]
    /\ UNCHANGED <<now, refs, ledger, operator>>

\* The provider answers and the request is charged.
Answer(r, out) ==
    /\ req[r].stage = "sent"
    /\ req' = [req EXCEPT ![r] = [@ EXCEPT !.stage = "answered", !.out = out]]
    /\ ledger' = ledger \cup {r}
    /\ UNCHANGED <<now, refs, operator>>

\* The provider fails, charging fails, or the process ends.
Fail(r) ==
    /\ req[r].stage \in {"sent", "answered"}
    /\ End(r)
    /\ UNCHANGED <<now, refs, ledger, operator>>

-----------------------------------------------------------------------------
(* Storing what a finished request produced *)

IdsOf(r) == {[key |-> KeyOf[r], kind |-> c.kind, item |-> c.item,
              version |-> signing] : c \in req[r].out}

\* CodexReplayReferencesRepository.upsert_many: the newest request wins.
Upsert(r) ==
    [id \in IdsOf(r) \cup DOMAIN refs |->
        IF id \notin IdsOf(r) THEN refs[id]
        ELSE LET c == CHOOSE c \in req[r].out : c.kind = id.kind /\ c.item = id.item
             IN  [request |-> r, route |-> req[r].route.id,
                  model |-> req[r].route.model, call |-> c.call, tool |-> c.tool,
                  created |-> now, expires |-> now + Ttl]]

\* CodexReplayService.persist_validated_references, in a transaction of its own
Persist(r) ==
    /\ req[r].stage = "answered"
    /\ r \in ledger
    /\ IF Valid(req[r].out, FALSE) /\ signing \in secrets
       THEN refs' = Upsert(r)
       ELSE UNCHANGED refs
    /\ End(r)
    /\ UNCHANGED <<now, ledger, operator>>

-----------------------------------------------------------------------------
(* What happens around the requests *)

\* The active secret is replaced; the old one stays configured.
Rotate(v) ==
    /\ v > signing
    /\ signing' = v
    /\ UNCHANGED <<now, refs, ledger, upstream, secrets, req>>

\* An old secret is taken out of the configuration.
DropSecret(v) ==
    /\ v \in secrets /\ v # signing
    /\ secrets' = secrets \ {v}
    /\ UNCHANGED <<now, refs, ledger, upstream, signing, req>>

\* An operator points a route at another upstream model.
EditRoute(t, m) ==
    /\ upstream[t] # m
    /\ upstream' = [upstream EXCEPT ![t] = m]
    /\ UNCHANGED <<now, refs, ledger, signing, secrets, req>>

Tick ==
    /\ now < MaxTime
    /\ now' = now + 1
    /\ UNCHANGED <<refs, ledger, operator, req>>

RequestStep(r) ==
    \/ \E body \in Bodies, compact \in BOOLEAN : Begin(r, body, compact)
    \/ Verify(r)
    \/ \E t \in InUse : Resolve(r, t)
    \/ CheckRoute(r)
    \/ \E t \in InUse : Reroute(r, t)
    \/ Send(r)
    \/ \E out \in {{}} \cup {{c} : c \in Output} : Answer(r, out)
    \/ Fail(r)

AroundStep ==
    \/ \E v \in Version : Rotate(v) \/ DropSecret(v)
    \/ \E t \in InUse, m \in Model : EditRoute(t, m)
    \/ Tick

-----------------------------------------------------------------------------
(* Properties *)

\* Every item that goes upstream goes to the model that produced it, on its own
\* route or on one declared compatible, whatever happened to the routes while
\* the request waited (verify_route_compatibility).
SentWhereProduced ==
    \A r \in Request : req[r].stage = "sent" =>
        \A a \in req[r].auth :
            /\ a.model = req[r].route.model
            /\ a.route # req[r].route.id =>
                  /\ a.kind = "compaction" \/ req[r].compact
                  /\ a.route \in Compatible[req[r].route.id]

\* What a request may replay was produced by a charged request of the same key
\* (verify_owned_replay, usage_ledger_is_finalized_for_key).  A request that
\* goes upstream has one reference for each item it replays, and a replayed
\* tool call names the call and the tool of its reference, also when a later
\* request has stored the item again.
EveryItemBacked ==
    /\ \A r \in Request : req[r].auth # None =>
          \A a \in req[r].auth :
              /\ a.id.key = KeyOf[r]
              /\ KeyOf[refs[a.id].request] = KeyOf[r]
              /\ refs[a.id].request \in ledger
    /\ \A r \in Request : req[r].stage \in {"admission", "sent"} =>
          /\ Cardinality(req[r].auth) = Cardinality(req[r].body)
          /\ \A c \in req[r].body : \E a \in req[r].auth :
                /\ a.kind = c.kind
                /\ c.item # None => a.id.item = c.item
                /\ refs[a.id].call = c.call /\ refs[a.id].tool = c.tool
=============================================================================

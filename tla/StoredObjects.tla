---------------------------- MODULE StoredObjects ----------------------------
(***************************************************************************)
(* Responses and conversations that a provider stores for a gateway key    *)
(* (services/responses_gateway.py, db/repositories/response_references.py  *)
(* and conversation_references.py).                                        *)
(*                                                                         *)
(* The gateway keeps a row, the reference, for every object a key created  *)
(* through it.  Every later call on the object reads the reference, reads  *)
(* the provider row, calls the provider and, when it deletes, updates the  *)
(* reference: four transactions or calls of their own, between which the   *)
(* other requests and the operator run and the process may end.            *)
(***************************************************************************)
EXTENDS Naturals, FiniteSets, Values

CONSTANTS
    Request,      \* the requests, each handled at most once
    Sender,       \* per kind of workload: the gateway key that sends a request
    Route,        \* rows of model_routes for the endpoint /v1/responses
    Provider,     \* providers, numbered in the order of their names
    ProviderOf,   \* the provider of a route
    OpenAI,       \* the provider named "openai"
    Allowed,      \* allowed_providers of a key
    Id,           \* the ids a provider gives to an object
    Offered       \* per kind of workload: the handlers that are called

Kind == {"response", "conversation"}
Object == [provider : Provider, kind : Kind, id : Id]
Key == UNION {{Sender[n][r] : r \in Request} : n \in DOMAIN Sender}

ASSUME StoredConstants ==
    /\ Provider \subseteq Nat
    /\ OpenAI \in Nat
    /\ DOMAIN Sender = DOMAIN Offered
    /\ ProviderOf \in [Route -> Provider]
    /\ Allowed \in [Key -> SUBSET Provider]
    /\ None \notin Object \cup {"active", "deleted", "exists", "gone"}

VARIABLES
    upstream,     \* what a provider holds: an object exists or is gone
    creator,      \* the key whose call created an object
    ref,          \* rows of response_references and conversation_references
    enabled,      \* provider_configs that are enabled
    listing,      \* routes that are enabled and list input items
    pc, op, target, found, at, made,   \* of a request
    late,         \* references that were deleted when a request began
    kinds          \* the kind of workload, which never changes

KeyOf == Sender[kinds]

calls == <<pc, op, target, found, at, made, late>>
storedVars == <<upstream, creator, ref, enabled, listing, calls, kinds>>

NoRef == [status |-> None, key |-> None, route |-> None]

StoredInit ==
    /\ kinds \in DOMAIN Offered
    /\ upstream = [o \in Object |-> None]
    /\ creator = [o \in Object |-> None]
    /\ ref = [o \in Object |-> NoRef]
    /\ enabled = Provider
    /\ listing = Route
    /\ pc = [r \in Request |-> "idle"]
    /\ op = [r \in Request |-> None]
    /\ target = [r \in Request |-> None]
    /\ found = [r \in Request |-> None]
    /\ at = [r \in Request |-> None]
    /\ made = [r \in Request |-> None]
    /\ late = [r \in Request |-> {}]

-----------------------------------------------------------------------------
(* The handlers: the kind of object they are about and what they ask the   *)
(* provider for.  A creation may name a prior object.                      *)

handle_response_create == [kind |-> "response", ask |-> "create"]
handle_response_retrieve == [kind |-> "response", ask |-> "read"]
handle_response_delete == [kind |-> "response", ask |-> "delete"]
handle_response_input_items_list == [kind |-> "response", ask |-> "list"]
handle_conversation_create == [kind |-> "conversation", ask |-> "create"]
handle_conversation_update == [kind |-> "conversation", ask |-> "update"]
handle_conversation_retrieve == [kind |-> "conversation", ask |-> "read"]
handle_conversation_delete == [kind |-> "conversation", ask |-> "delete"]
handle_conversation_item_create == [kind |-> "conversation", ask |-> "add item"]
handle_conversation_items_list == [kind |-> "conversation", ask |-> "items"]
handle_conversation_item_retrieve == [kind |-> "conversation", ask |-> "read item"]
handle_conversation_item_delete == [kind |-> "conversation", ask |-> "delete item"]

Handlers ==
    {handle_response_create, handle_response_retrieve, handle_response_delete,
     handle_response_input_items_list, handle_conversation_create,
     handle_conversation_update, handle_conversation_retrieve,
     handle_conversation_delete, handle_conversation_item_create,
     handle_conversation_items_list, handle_conversation_item_retrieve,
     handle_conversation_item_delete}

MoveTo(r, place) == pc' = [pc EXCEPT ![r] = place]

\* The request arrives.  Authentication and the validation of ids, queries
\* and bodies either refuse it at once or leave no trace.
Begin(r, h, i) ==
    /\ pc[r] = "idle"
    /\ op' = [op EXCEPT ![r] = h]
    /\ target' = [target EXCEPT ![r] = i]
    /\ late' = [late EXCEPT ![r] = {o \in Object : ref[o].status = "deleted"}]
    /\ MoveTo(r, IF h.ask = "create" THEN "selecting" ELSE "looking")
    /\ UNCHANGED <<upstream, creator, ref, enabled, listing, found, at, made>>

-----------------------------------------------------------------------------
(* Finding the object *)

\* Mutant: the status is not part of the query.
ReferencesOfKey(kind, id, key) ==
    {o \in Object : o.kind = kind /\ o.id = id
                    /\ ref[o].status # None /\ ref[o].key = key}

\* The rows of the query of get_active_reference_for_key.  Two providers may
\* give the same id.
ActiveReferences(kind, id, key) ==
    {o \in Object : /\ o.kind = kind
                    /\ o.id = id
                    /\ ref[o].status = "active"
                    /\ ref[o].key = key}

\* _get_owned_active_response_reference and its sibling: anything but exactly
\* one row is a 404.
Lookup(r) ==
    /\ pc[r] = "looking"
    /\ LET rows == ActiveReferences(op[r].kind, target[r], KeyOf[r]) IN
       IF Cardinality(rows) = 1
       THEN /\ \E o \in rows : found' = [found EXCEPT ![r] = o]
            /\ MoveTo(r, "routing")
       ELSE /\ MoveTo(r, "refused")
            /\ UNCHANGED found
    /\ UNCHANGED <<upstream, creator, ref, enabled, listing, op, target, at,
                   made, late>>

\* _provider_route_for_reference and _provider_route_for_conversation_reference.
RouteOfReference(r) ==
    /\ pc[r] = "routing"
    /\ LET o == found[r] IN
       MoveTo(r, IF /\ o.provider \in enabled
                  /\ op[r].ask = "list" => ref[o].route \in listing
               THEN "calling" ELSE "refused")
    /\ UNCHANGED <<upstream, creator, ref, enabled, listing, op, target, found,
                   at, made, late>>

-----------------------------------------------------------------------------
(* Calls on an object that exists *)

\* A call that does not delete the object.
CallObject(r) ==
    /\ pc[r] = "calling"
    /\ op[r].ask # "delete"
    /\ \/ upstream[found[r]] = "exists" /\ MoveTo(r, "done")
       \/ MoveTo(r, "failed")
    /\ UNCHANGED <<upstream, creator, ref, enabled, listing, op, target, found,
                   at, made, late>>

\* Mutant: a failed delete is followed by the update of the reference too.
CallDeleteUnchecked(r) ==
    /\ pc[r] = "calling"
    /\ op[r].ask = "delete"
    /\ upstream' = [upstream EXCEPT ![found[r]] = "gone"] \/ UNCHANGED upstream
    /\ MoveTo(r, "marking")
    /\ UNCHANGED <<creator, ref, enabled, listing, op, target, found, at, made,
                   late>>

\* The delete call: the provider deletes and answers, deletes and the answer
\* is lost, or fails; it refuses an object that is gone.
CallDelete(r) ==
    /\ pc[r] = "calling"
    /\ op[r].ask = "delete"
    /\ \/ /\ upstream[found[r]] = "exists"
          /\ upstream' = [upstream EXCEPT ![found[r]] = "gone"]
          /\ MoveTo(r, "marking") \/ MoveTo(r, "failed")
       \/ /\ MoveTo(r, "failed")
          /\ UNCHANGED upstream
    /\ UNCHANGED <<creator, ref, enabled, listing, op, target, found, at, made,
                   late>>

\* _mark_response_reference_deleted and _mark_conversation_reference_deleted,
\* or a failure of the database.
MarkDeleted(r) ==
    /\ pc[r] = "marking"
    /\ \/ /\ ref[found[r]].status = "active"
          /\ ref' = [ref EXCEPT ![found[r]].status = "deleted"]
          /\ MoveTo(r, "done")
       \/ /\ MoveTo(r, "failed")
          /\ UNCHANGED ref
    /\ UNCHANGED <<upstream, creator, enabled, listing, op, target, found, at,
                   made, late>>

-----------------------------------------------------------------------------
(* Calls that create an object *)

\* _select_conversation_provider_config: openai, or the first by name.
ConversationProvider(k) ==
    LET usable == Allowed[k] \cap enabled IN
    IF OpenAI \in usable THEN {OpenAI}
    ELSE {p \in usable : \A q \in usable : p <= q}

\* _provider_route_for_new_conversation; the row stores no route.
SelectForConversation(r) ==
    /\ pc[r] = "selecting"
    /\ op[r].kind = "conversation"
    /\ IF ConversationProvider(KeyOf[r]) = {}
       THEN MoveTo(r, "refused") /\ UNCHANGED at
       ELSE /\ \E p \in ConversationProvider(KeyOf[r]) :
                  at' = [at EXCEPT ![r] = [provider |-> p, route |-> None]]
            /\ MoveTo(r, "creating")
    /\ UNCHANGED <<upstream, creator, ref, enabled, listing, op, target, found,
                   made, late>>

\* _resolve_responses_route finds a route of an enabled provider.
SelectForResponse(r, route) ==
    /\ pc[r] = "selecting"
    /\ op[r].kind = "response"
    /\ ProviderOf[route] \in enabled
    /\ at' = [at EXCEPT ![r] = [provider |-> ProviderOf[route], route |-> route]]
    /\ MoveTo(r, IF target[r] = None THEN "creating" ELSE "verifying")
    /\ UNCHANGED <<upstream, creator, ref, enabled, listing, op, target, found,
                   made, late>>

\* _response_reference_matches_route, _conversation_reference_matches_route.
MatchesRoute(o, a) ==
    /\ o.provider = a.provider
    /\ ref[o].route # None => ref[o].route = a.route

\* _verify_previous_response_reference and _verify_conversation_reference.
\* Reserving quota and waiting for the rate limit follow; neither reads the
\* reference again.
VerifyPrior(r, kind) ==
    /\ pc[r] = "verifying"
    /\ LET rows == ActiveReferences(kind, target[r], KeyOf[r]) IN
       IF Cardinality(rows) = 1 /\ \A o \in rows : MatchesRoute(o, at[r])
       THEN /\ \E o \in rows : found' = [found EXCEPT ![r] = o]
            /\ MoveTo(r, "creating")
       ELSE /\ MoveTo(r, "refused")
            /\ UNCHANGED found
    /\ UNCHANGED <<upstream, creator, ref, enabled, listing, op, target, at,
                   made, late>>

\* A response without store=true, or a call that fails before it creates.
CallCreateNothing(r) ==
    /\ pc[r] = "creating"
    /\ \/ MoveTo(r, "failed")
       \/ /\ op[r].kind = "response"
          /\ target[r] # None => upstream[found[r]] = "exists"
          /\ MoveTo(r, "done")
    /\ UNCHANGED <<upstream, creator, ref, enabled, listing, op, target, found,
                   at, made, late>>

\* The provider creates an object; the answer may be lost, or hold no id.
CallCreate(r, o) ==
    /\ pc[r] = "creating"
    /\ o.kind = op[r].kind
    /\ o.provider = at[r].provider
    /\ upstream[o] = None
    /\ target[r] # None => upstream[found[r]] = "exists"
    /\ upstream' = [upstream EXCEPT ![o] = "exists"]
    /\ creator' = [creator EXCEPT ![o] = KeyOf[r]]
    /\ made' = [made EXCEPT ![r] = o]
    /\ MoveTo(r, "persisting") \/ MoveTo(r, "failed")
    /\ UNCHANGED <<ref, enabled, listing, op, target, found, at, late>>

\* Mutant: the answer does not wait for the reference.
PersistOrNot(r) ==
    /\ pc[r] = "persisting"
    /\ \/ ref' = [ref EXCEPT ![made[r]] =
                     [status |-> "active", key |-> KeyOf[r], route |-> at[r].route]]
       \/ UNCHANGED ref
    /\ MoveTo(r, "done")
    /\ UNCHANGED <<upstream, creator, enabled, listing, op, target, found, at,
                   made, late>>

\* _persist_stored_response_reference and _persist_conversation_reference.
Persist(r) ==
    /\ pc[r] = "persisting"
    /\ \/ /\ ref[made[r]].status = None
          /\ ref' = [ref EXCEPT ![made[r]] =
                        [status |-> "active", key |-> KeyOf[r], route |-> at[r].route]]
          /\ MoveTo(r, "done")
       \/ /\ MoveTo(r, "failed")
          /\ UNCHANGED ref
    /\ UNCHANGED <<upstream, creator, enabled, listing, op, target, found, at,
                   made, late>>

-----------------------------------------------------------------------------
(* The operator and the process *)

\* A provider is enabled or disabled.
SwitchProvider(p) ==
    /\ enabled' = IF p \in enabled THEN enabled \ {p} ELSE enabled \cup {p}
    /\ UNCHANGED <<upstream, creator, ref, listing, calls>>

\* A route, or its capability to list input items, is enabled or disabled.
SwitchRoute(x) ==
    /\ listing' = IF x \in listing THEN listing \ {x} ELSE listing \cup {x}
    /\ UNCHANGED <<upstream, creator, ref, enabled, calls>>

Over == {"refused", "failed", "done", "cut"}

\* The process that handles the request ends, or the client's connection.
CutOff(r) ==
    /\ pc[r] \notin Over \cup {"idle"}
    /\ MoveTo(r, "cut")
    /\ UNCHANGED <<upstream, creator, ref, enabled, listing, op, target, found,
                   at, made, late>>

Handle(r) ==
    \/ \E h \in Offered[kinds] \cap Handlers, i \in Id \cup {None} :
          /\ i = None => h.ask = "create"
          /\ h = handle_conversation_create => i = None
          /\ Begin(r, h, i)
    \/ Lookup(r)
    \/ RouteOfReference(r)
    \/ CallObject(r)
    \/ CallDelete(r)
    \/ MarkDeleted(r)
    \/ SelectForConversation(r)
    \/ \E x \in Route : SelectForResponse(r, x)
    \/ \E kind \in Kind : VerifyPrior(r, kind)
    \/ CallCreateNothing(r)
    \/ \E o \in Object : CallCreate(r, o)
    \/ Persist(r)
    \/ CutOff(r)

StoredNext ==
    /\ \/ \E r \in Request : Handle(r)
       \/ \E p \in Provider : SwitchProvider(p)
       \/ \E x \in Route : SwitchRoute(x)
    /\ UNCHANGED kinds

StoredSpec == StoredInit /\ [][StoredNext]_storedVars

-----------------------------------------------------------------------------
(* Properties *)

\* The object a request may call on
Reached(r) == pc[r] \in {"routing", "calling", "marking", "creating"} /\ found[r] # None

\* A provider is asked about an object only for the key whose own call created
\* it, under the id the client named, also when two providers gave out the same
\* id, and never about an object whose delete had succeeded before the request
\* began.  A prior object goes only to the provider that holds it, though
\* operators switch routes and providers while the request waits
\* (get_active_reference_for_key, _response_reference_matches_route).
ReachesOwnLiveObject ==
    \A r \in Request : Reached(r) =>
        /\ creator[found[r]] = KeyOf[r]
        /\ found[r].id = target[r]
        /\ found[r] \notin late[r]
        /\ pc[r] = "creating" => found[r].provider = at[r].provider

\* A reference is marked deleted only once the provider has deleted the
\* object: no failed or lost delete call hides an object that still exists.
DeletedIsGone ==
    \A o \in Object : ref[o].status = "deleted" => upstream[o] = "gone"

\* A stored response or a conversation that the client was told about has a
\* reference, so its key can always come back to it.
StoredIsReferenced ==
    \A r \in Request :
        pc[r] = "done" /\ made[r] # None => ref[made[r]].status # None
=============================================================================

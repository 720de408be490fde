----------------------------- MODULE MCRequests -----------------------------
(***************************************************************************)
(* Small instances of the request policy: a few bodies per question, sizes *)
(* of a few bytes and limits just above them; and requests of two keys on  *)
(* stored responses and conversations.  The workload "objects" looks at    *)
(* the stored objects, all others at bodies.                               *)
(***************************************************************************)
EXTENDS ResponsesPolicy, StoredObjects, TLC

CONSTANTS k1, k2, r1, r2, r3, ra, rb

MCLimit == [extension |-> 3, item_text |-> 9, image_data |-> 12, image_url |-> 12, file_url |-> 6, file_name |-> 3,
    file_data |-> 12, text_parts |-> 2, schema |-> 9, format |-> 6, namespaces |-> 2, tools |-> 2, total_tools |-> 3,
    client_description |-> 6, depth |-> 2, properties |-> 4, declaration |-> 18, summary_parts |-> 1, summary |-> 3,
    encrypted_item |-> 9, visible_parts |-> 1, visible_part |-> 3, visible |-> 6, compaction_item |-> 9, call |-> 6,
    metadata |-> 3, items |-> 6, encrypted_request |-> 12, total_text |-> 30, images |-> 2, total_image_data |-> 18,
    files |-> 1, total_file_data |-> 12, input_text |-> 9, format_name |-> 3, format_schema |-> 6,
    format_description |-> 3, metadata_keys |-> 2, metadata_value |-> 3, client_metadata |-> 6, include |-> 2,
    cache_key |-> 3, metadata_field |-> 6, instructions |-> 6, description |-> 3, request_tools |-> 3,
    function_tools |-> 2, custom_tools |-> 1, total_schema |-> 9, total_format |-> 6, budget |-> 8]
MCSetting == [hard_input |-> 8, hard_output |-> 6, default_output |-> 4, absolute_input |-> 16,
    absolute_output |-> 10, compact_output |-> 4, compact_hard |-> 6]

\* Tools of one namespace: a function and a custom tool.
F1 == <<"ns", "f", "function">>
P1 == <<"ns", "p", "custom">>
MCClient ==
    LET base == [present |-> TRUE, module |-> "0147", idless |-> FALSE, visible |-> FALSE, empty |-> FALSE,
                 images |-> FALSE, history |-> FALSE, labels |-> FALSE, classifies |-> FALSE, namespaces |-> {"ns"},
                 fixed |-> {F1}, exact |-> {F1, P1}, custom |-> {P1}, extensions |-> {}]
        c149 == [base EXCEPT !.module = "0149", !.idless = TRUE, !.visible = TRUE, !.empty = TRUE,
                             !.history = TRUE, !.images = TRUE, !.fixed = {},
                             !.exact = {}, !.custom = {P1, <<"functions", "p", "custom">>}]
    IN  "default" :> [base EXCEPT !.present = FALSE, !.module = "default"] @@ "0147" :> base @@ "0149" :> c149
          @@ "0162" :> [c149 EXCEPT !.module = "0162", !.classifies = TRUE, !.labels = TRUE,
                                    !.extensions = {<<<<"request">>, "note", "preserve">>,
                                                    <<<<"message", "user">>, "tag", "drop">>}]

All == {"envelope", "client_tools", "tool_events", "encrypted", "codex_compaction"}
Caps == All \cup {"text", "stateless", "stored", "streaming", "image", "file", "function_tools", "custom_tools",
                  "previous_response", "compact", "token_count", "json_mode"}
K(module, policy) == [module |-> module, policy |-> policy, taxonomy |-> None, web |-> FALSE, active |-> TRUE]
L == [window |-> 20, default |-> 4, max |-> 6]
R1 == [id |-> "r1", provider |-> "p", model |-> "m", enabled |-> TRUE, server |-> "openai", caps |-> Caps, streaming |-> TRUE,
       limits |-> L, budget |-> None, contract |-> TRUE, compatible |-> {}, web |-> FALSE, priced |-> FALSE]

Text(n) == <<[type |-> "string", text |-> n]>>
Msg(role, n) == [type |-> "message", role |-> role, content |-> Text(n)]
Tool(type, name, n) ==
    (IF type = "function" THEN [parameters |-> n] ELSE [format |-> n])
      @@ [type |-> type, name |-> name, marker |-> "none", depth |-> 1, properties |-> 1]
Search == [type |-> "web_search", marker |-> "none", depth |-> 0, properties |-> 0]
Decl == [type |-> "additional_tools", role |-> "developer",
         tools |-> <<[name |-> "ns", tools |-> <<Tool("function", "f", 3), Tool("custom", "p", 3)>>]>>]
Call(type, id, call) ==
    [type |-> type, id |-> id, call_id |-> call, status |-> "completed"]
      @@ (IF type = "function_call" THEN [name |-> "f", arguments |-> 3] ELSE [name |-> "p", input |-> 3])
Idfree(i) == [f \in DOMAIN i \ {"id"} |-> i[f]]
Out(type, call) == [type |-> type, call_id |-> call, output |-> Text(1)]
Cipher(id) == [type |-> "reasoning", id |-> id, summary |-> <<>>, encrypted_content |-> 3]
Img(scheme, n) == [type |-> "input_image", image_url |-> [scheme |-> scheme, bytes |-> n, plain |-> TRUE]]
Picture(s) == [type |-> "message", role |-> "user", content |-> s]
Ref(type, id, call, from) == [type |-> type, id |-> id, call_id |-> call, route |-> from, model |-> "m"]
Create(b) == [endpoint |-> "create", body |-> [model |-> "m"] @@ b]


Scene == [requests |-> {}, keys |-> {K("default", None)}, routes |-> {R1}, stores |-> {{}}, edits |-> 0]
Served(server) == [R1 EXCEPT !.server = server]
Refs == {Ref("function_call", "i1", "a", "r1"), Ref("custom_tool_call", "i2", "b", "r1"),
         Ref("reasoning", "i3", None, "r1"), Ref("compaction", "i4", None, "r0")}

\* Conversations of up to four items after the declaration.
Turns == {Call("function_call", "i1", "a"), Call("custom_tool_call", "i2", "b"), Out("function_call_output", "a"),
          Out("custom_tool_call_output", "b"), Msg("user", 1), Msg("assistant", 1)}
Conversations(max) == UNION {[1..n -> Turns] : n \in 1..max}
\* A call without an id and its output.
Anonymous == {Create([input |-> <<Decl, Idfree(Call(t[1], "i1", "a")), Out(t[2], "a")>>, stream |-> TRUE]) :
                 t \in {<<"function_call", "function_call_output">>, <<"custom_tool_call", "custom_tool_call_output">>}}
Roundtrips(max) == {Create([input |-> <<Decl>> \o s, stream |-> TRUE]) : s \in Conversations(max)}

\* One body for each thing a request may ask for.
Asking ==
    LET hello == [input |-> Text(3)]
        talk == [input |-> <<Msg("user", 3)>>]
        tool == <<Tool("function", "f", 3)>>
    IN  {hello, talk @@ [stream |-> TRUE], hello @@ [store |-> TRUE], hello @@ [store |-> TRUE, stream |-> TRUE],
         hello @@ [tools |-> tool], hello @@ [tools |-> tool, stream |-> TRUE],
         hello @@ [tools |-> <<Tool("custom", "p", 3)>>, tool_choice |-> [type |-> "custom", name |-> "p"]],
         hello @@ [previous_response_id |-> "o1"], hello @@ [text |-> [format |-> [type |-> "json_object"]]],
         hello @@ [parallel_tool_calls |-> TRUE], hello @@ [include |-> 1, prompt_cache_key |-> 3],
         hello @@ [instructions |-> 6, max_output_tokens |-> 6], hello @@ [max_output_tokens |-> 10],
         [input |-> <<Picture(<<Img("https", 6)>>)>>], [input |-> <<Picture(<<Img("data", 9), Img("data", 9)>>)>>],
         [input |-> <<Msg("user", 3), [type |-> "message", role |-> "assistant", id |-> "i9", content |-> Text(3)]>>],
         [input |-> <<Cipher("i3"), Msg("user", 3)>>],
         [input |-> <<[type |-> "compaction", id |-> "i4", encrypted_content |-> 6], Msg("user", 3)>>],
         [input |-> <<Decl, Msg("user", 3)>>], [input |-> <<Decl, Msg("user", 3)>>, stream |-> TRUE]}
Endpoints(S) == {[endpoint |-> e, body |-> [model |-> "m"] @@ b] : e \in {"create", "compact", "count"}, b \in S}

\* The tools of a 0.149 request are declared at the top level.
Top(i) == [input |-> i, stream |-> TRUE, tools |-> <<Tool("function", "f", 3), Tool("custom", "p", 3)>>]
TopBodies == {Top(<<Msg("user", 3)>>), Top(<<Call("function_call", "i1", "a"), Out("function_call_output", "a")>>),
              Top(<<Idfree(Call("function_call", "i1", "a")), Out("function_call_output", "a"), Msg("user", 3)>>),
              Top(<<Idfree(Call("custom_tool_call", "i2", "b")), Out("custom_tool_call_output", "b")>>)}

\* Stored objects.
MCSender == [kind \in Kind |-> [r \in Request |->
                IF kind = "conversation" /\ r = r3 THEN k2 ELSE k1]]
MCProviderOf == (ra :> 1) @@ (rb :> 2)
MCAllowed == [k \in {k1, k2} |-> IF k = k1 THEN {1, 2} ELSE {2}]
MCOffered == [kind \in Kind |-> {h \in Handlers : h.kind = kind}]
MCSymmetry == Permutations(Request \ {r3})

Workloads ==
    [objects |-> [Scene EXCEPT !.requests = {Create([input |-> Text(3)])}],
     roundtrips |-> [Scene EXCEPT !.requests = Roundtrips(4), !.keys = {K("0147", All)}, !.stores = {Refs}],
     asked |-> [Scene EXCEPT !.requests = Endpoints(Asking), !.keys = {K("default", None), K("0147", All),
                    K("0147", All \ {"codex_compaction"}), K("0147", {"envelope"})},
                  !.routes = {[R1 EXCEPT !.compatible = {"r0"}]}, !.edits = 1,
                  !.stores = {Refs \cup {[type |-> "object", id |-> "o1", route |-> "r1"]}}],
     rerouted |-> [Scene EXCEPT !.requests = Endpoints(Asking), !.keys = {K("0147", All)}, !.edits = 1,
                  !.routes = {[R1 EXCEPT !.caps = Caps \ {x}] : x \in All \cup {"image", "streaming", "function_tools"}},
                  !.stores = {Refs}],
     windows |-> [Scene EXCEPT !.keys = {K("0147", All), K("default", None)}, !.edits = 2, !.stores = {Refs},
                  !.requests = {Create(b) : b \in {[input |-> <<Picture(<<Img("data", n)>>), Msg("user", 3)>>] @@ x :
                                    n \in {3, 9, 12}, x \in {[prompt_cache_key |-> 3], [max_output_tokens |-> 5]}}},
                  !.routes = {[R1 EXCEPT !.budget = n, !.limits = [window |-> w, default |-> 3, max |-> m]] :
                                 n \in {None, 1, 4}, w \in {9, 14}, m \in {3, 6}}],
     hosted |-> [Scene EXCEPT !.requests = Endpoints({[input |-> Text(3), tools |-> <<Search>>] @@ x :
                                    x \in {[stream |-> TRUE], [max_tool_calls |-> 2]}}), !.edits = 1,
                  !.keys = {[K("default", None) EXCEPT !.web = x] : x \in BOOLEAN},
                  !.routes = {[R1 EXCEPT !.web = x, !.priced = y] : x, y \in BOOLEAN}],
     local |-> [Scene EXCEPT !.requests = {Create(b) : b \in TopBodies}, !.stores = {Refs, {}}, !.edits = 1,
                  !.keys = {K("0149", All), K("0149", All \ {"tool_events"})},
                  !.routes = {Served(x) : x \in {"local-coding", "vllm"}}
                      \cup {[Served("local-coding") EXCEPT !.id = "r2"],
                            [Served("local-coding") EXCEPT !.caps = Caps \ {"tool_events"}]}],
     lowered |-> [Scene EXCEPT !.requests = Roundtrips(2) \cup Anonymous, !.stores = {Refs}, !.edits = 1,
                  !.keys = {K("0162", All)},
                  !.routes = {Served(x) : x \in {"local-coding", "vllm", "openai"}}]]
MCLoad == [n \in DOMAIN Workloads |-> Workloads[n]]

RequestsInit ==
    /\ PolicyInit
    /\ StoredInit
    /\ load # "objects" => kinds = "response"

RequestsNext ==
    \/ load = "objects" /\ StoredNext /\ UNCHANGED vars
    \/ load # "objects" /\ PolicyNext /\ UNCHANGED storedVars

RequestsSpec == RequestsInit /\ [][RequestsNext]_<<vars, storedVars>>
=============================================================================

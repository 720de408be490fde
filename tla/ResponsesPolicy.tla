--------------------------- MODULE ResponsesPolicy --------------------------
(***************************************************************************)
(* A Responses request from its body to the provider: the dialect module   *)
(* of the key's client, the request policy, the proof that replayed items  *)
(* were produced under this key, the route and its capabilities, the token *)
(* limits, the wait for admission and what is checked again after it.      *)
(* Operators edit the key and the route while the request is on its way.   *)
(*                                                                         *)
(* A body is a record whose DOMAIN holds the fields sent; see              *)
(* ResponsesInput for items and tools.  Sizes are bytes, and the framing   *)
(* of a field that carries no text of its own counts as one byte.          *)
(***************************************************************************)
EXTENDS ResponsesInput

CONSTANTS
    Client,     \* module identifier -> what its dialect accepts
    Setting,    \* the token ceilings of the settings
    Load        \* workload name -> requests, keys, routes, references and a bound on edits

(***************************************************************************)
(* The key's grants.  k.policy is None, Bad (malformed) or a set.          *)
(***************************************************************************)
Granted(k, capability) == k.policy \notin {None, Bad} /\ capability \in k.policy
Gates(k) ==
    LET envelope == Granted(k, "envelope")
        tools == envelope /\ Granted(k, "client_tools")
        streaming == tools /\ Granted(k, "tool_events")
        encrypted == envelope /\ Granted(k, "encrypted")
    IN  [envelope |-> envelope, tools |-> tools, streaming |-> streaming, encrypted |-> encrypted,
         extended |-> streaming /\ encrypted,
         compaction |-> streaming /\ encrypted /\ Granted(k, "codex_compaction")]

(***************************************************************************)
(* What a body asks for.                                                   *)
(***************************************************************************)
InputOf(b) == IF Is(b, "input") THEN b.input ELSE <<>>
HasItem(b, types) == Typed(InputOf(b), types) # {}
ToolsOf(b) == IF Is(b, "tools") THEN b.tools ELSE <<>>
HasTool(b, types) == \E n \in DOMAIN ToolsOf(b) : b.tools[n].type \in types
Streams(b) == Get(b, "stream") = TRUE

ClientToolsRequested(b) == HasItem(b, {"additional_tools"})
ToolEventsRequested(b) ==
    /\ HasItem(b, {"additional_tools"}) \/ HasTool(b, {"namespace"})
    /\ Streams(b) \/ HasItem(b, ToolCall \cup ToolOutput)
EnvelopeFields == {"client_metadata", "include", "parallel_tool_calls", "prompt_cache_key", "reasoning"}
EnvelopeRequested(b) ==
    \/ DOMAIN b \cap EnvelopeFields # {}
    \/ Is(b, "text") /\ "verbosity" \in DOMAIN b.text
    \/ \E i \in Items(InputOf(b)) :
          \/ Message(i) /\ "id" \in DOMAIN i
          \/ Get(i, "type") = "reasoning" /\ "encrypted_content" \in DOMAIN i
          \/ Get(i, "type") = "compaction"
EncryptedReplayRequested(b) ==
    \E i \in Items(InputOf(b)) :
        Get(i, "type") = "reasoning" /\ Get(i, "encrypted_content") # None
CompactionReplayRequested(b) == HasItem(b, {"compaction"})
CodexCompactionRequested(b) ==
    \/ DOMAIN b \cap {"tools", "parallel_tool_calls", "reasoning", "prompt_cache_key", "text"} # {}
    \/ HasItem(b, {"additional_tools", "reasoning", "compaction"} \cup ToolCall \cup ToolOutput)
Chooses(b, type) == Is(b, "tool_choice") /\ Get(b.tool_choice, "type") = type
FunctionToolsRequested(b) ==
    HasTool(b, {"function"}) \/ Chooses(b, "function") \/ HasItem(b, {"function_call_output"})
CustomToolsRequested(b) ==
    HasTool(b, {"custom"}) \/ Chooses(b, "custom") \/ HasItem(b, {"custom_tool_call_output"})
PartRequested(b, type) == OfType(AllParts(InputOf(b)), type) # <<>>
TextFormat(b) ==
    IF Is(b, "text") /\ Is(b.text, "format") THEN b.text.format.type ELSE None

(***************************************************************************)
(* The dialect modules.  "default" and the 0.147 client pass the body      *)
(* through; 0.149 checks the captured shape of its fields and tools; 0.162 *)
(* declares tools only in the input and is otherwise checked like 0.149.   *)
(***************************************************************************)
Fields == {"model", "input", "instructions", "max_output_tokens", "max_tool_calls", "temperature",
           "metadata", "stream", "store", "text", "service_tier", "tools", "tool_choice",
           "previous_response_id", "conversation"} \cup EnvelopeFields
Captured == {"input", "instructions", "model", "store", "stream", "text", "tool_choice", "tools"}
              \cup EnvelopeFields
SearchTools == {"tool_search", "web_search"}
Shape(type) ==
    CASE type = "function" -> FunctionFields
      [] type = "custom" -> CustomFields
      [] type = "namespace" -> {"type", "name", "description", "tools"}
      [] type = "tool_search" -> {"type", "description", "execution", "parameters"}
      [] type = "web_search" -> {"type", "external_web_access", "search_content_types"}
SearchToolOk(t) ==
    /\ DOMAIN t \ ToolMeasures = Shape(t.type)
    /\ \A f \in DOMAIN t : t[f] \notin {None, Bad}
    /\ t.type = "web_search" => t.search_content_types \in 1..8
CapturedToolOk(t) ==
    /\ t.type \in {"function", "custom", "namespace"} \cup SearchTools
    /\ DOMAIN t \subseteq Shape(t.type) \cup ToolMeasures
    /\ t.type \in SearchTools => SearchToolOk(t)
    /\ t.marker = "none"
    /\ t.type = "namespace" =>
          /\ Is(t, "tools") /\ Len(t.tools) \in 1..32
          /\ \A n \in DOMAIN t.tools :
               /\ t.tools[n].type \in {"function", "custom"}
               /\ DOMAIN t.tools[n] \subseteq Shape(t.tools[n].type) \cup ToolMeasures
               /\ t.tools[n].marker = "none"
SearchCandidates(b) == {b.tools[n].type : n \in DOMAIN ToolsOf(b)} \cap SearchTools
CapturedChoiceOk(b) ==
    Is(b, "tool_choice") =>
        LET v == b.tool_choice IN
        IF "mode" \in DOMAIN v
        THEN /\ v.mode \in {"none", "auto", "required"}
             /\ v.mode = "required" /\ SearchCandidates(b) # {} =>
                  HasTool(b, {"function", "custom", "namespace"})
        ELSE DOMAIN v \subseteq {"type", "name"} /\ Get(v, "type") \in {"function", "custom"}
\* The two aliases of the session are one canonical identifier.
IdentityOk(b) == "client_metadata" \in DOMAIN b => b.client_metadata.aliases = "same"

Captured0149(b) ==
    /\ DOMAIN b \subseteq Fields
    /\ \A f \in Captured \cap DOMAIN b : b[f] \notin {None, Bad}
    /\ Is(b, "input") => ~IsString(b.input)
    /\ Len(ToolsOf(b)) <= 64
    /\ \A n \in DOMAIN ToolsOf(b) : CapturedToolOk(b.tools[n])
    /\ CapturedChoiceOk(b)
    /\ IdentityOk(b)
\* The declared tools have distinct names, at most 32 of them; the handler asks for
\* them when it reads the body.
DeclarableOk(b, c) ==
    c.module = "0149" =>
        LET local == SelectSeq(ToolsOf(b), LAMBDA t : t.type \in {"function", "custom"})
        IN  /\ Len(local) <= 32
            /\ \A n \in DOMAIN local : Is(local[n], "name")
            /\ \A n, m \in DOMAIN local :
                  local[n].name = local[m].name /\ local[n].type = local[m].type => n = m
Captured0162(b, c) ==
    /\ ToolsOf(b) = <<>>
    /\ ExtensionsOk(c, <<"request">>, b)
    /\ Captured0149(Core(c, <<"request">>, b))
NormalizeOk(endpoint, b, c) ==
    CASE endpoint = "count" \/ c.module \in {"default", "0147"} -> TRUE
      [] endpoint # "count" /\ c.module = "0149" -> endpoint = "create" /\ Captured0149(b) /\ DeclarableOk(b, c)
      [] endpoint # "count" /\ c.module = "0162" -> endpoint = "create" /\ Captured0162(b, c)

\* Nulls are not dumped, but those of the envelope are put back afterwards.
PutBack(endpoint) ==
    CASE endpoint = "create" -> EnvelopeFields
      [] endpoint = "compact" -> {"parallel_tool_calls", "reasoning", "prompt_cache_key", "text"}
      [] endpoint = "count" -> {}
Dumped(b, back) == [f \in {g \in DOMAIN b : b[g] # None \/ g \in back} |-> b[f]]

\* The tools a 0.149 request declares at the top level.
TopDeclared(b, c) ==
    IF c.module # "0149" THEN {}
    ELSE {<<"functions", b.tools[n].name, b.tools[n].type>> :
             n \in {m \in DOMAIN ToolsOf(b) : b.tools[m].type \in {"function", "custom"}}}
Pairs(in, kind) ==
    {n \in 1..(Len(in) - 1) :
        /\ Get(in[n], "type") \in ToolCall /\ ToolKind(in[n].type) = kind
        /\ Get(in[n + 1], "type") \in ToolOutput /\ ToolKind(in[n + 1].type) = kind}
OneRoundtrip(in) == Cardinality(Pairs(in, "function")) + Cardinality(Pairs(in, "custom")) = 1
Continuation(b, c, g) ==
    IF TopDeclared(b, c) # {} /\ Gated(g) /\ Streams(b) /\ OneRoundtrip(InputOf(b))
    THEN TopDeclared(b, c) ELSE None

(***************************************************************************)
(* The request policy: the controls of the body.                           *)
(***************************************************************************)
TextFormatOk(f, b) ==
    /\ f # Bad /\ f.type \in {"text", "json_object", "json_schema"}
    /\ f.type # "text" => ~Streams(b)
    /\ IF f.type = "json_schema"
       THEN /\ DOMAIN f \subseteq {"type", "name", "schema", "description", "strict"}
            /\ Sized(Get(f, "name"), Limit.format_name)
            /\ Get(f, "schema") \in 0..Limit.format_schema
            /\ Get(f, "description") \in {None} \cup (0..Limit.format_description)
            /\ Get(f, "strict") \in {None, TRUE, FALSE}
       ELSE DOMAIN f = {"type"}
TextOk(b, c, envelope) ==
    Get(b, "text") # None =>
        /\ b.text # Bad
        /\ DOMAIN b.text \subseteq IF envelope THEN {"format", "verbosity"} ELSE {"format"}
        /\ "verbosity" \in DOMAIN b.text => c.present /\ b.text.verbosity \in {"low", "medium", "high"}
        /\ Get(b.text, "format") # None => TextFormatOk(b.text.format, b)

ReasoningControlOk(r) ==
    /\ r \notin {None, Bad} /\ DOMAIN r \subseteq {"effort", "context"}
    /\ Get(r, "effort") \in {"low", "medium", "high"}
    /\ "context" \in DOMAIN r => r.context = "all_turns"
ClientMetadataOk(m, c) ==
    /\ m \notin {None, Bad} /\ m.known /\ m.keys <= Limit.metadata_keys
    /\ m.value <= Limit.metadata_value /\ m.keys * m.value <= Limit.client_metadata
\* include is the number of the reviewed values in the list, Bad with another value.
EnvelopeOk(b, c, g) ==
    g.envelope /\ DOMAIN b \cap EnvelopeFields # {} =>
        /\ c.present
        /\ "include" \in DOMAIN b => b.include \in 1..Limit.include
        /\ "parallel_tool_calls" \in DOMAIN b => b.parallel_tool_calls \in {TRUE, FALSE}
        /\ "prompt_cache_key" \in DOMAIN b => Sized(b.prompt_cache_key, Limit.cache_key)
        /\ "reasoning" \in DOMAIN b => ReasoningControlOk(b.reasoning)
        /\ "client_metadata" \in DOMAIN b => ClientMetadataOk(b.client_metadata, c)

StorageOk(b) ==
    /\ Get(b, "stream") \in {None, TRUE, FALSE} /\ Get(b, "store") \in {None, TRUE, FALSE}
    /\ Get(b, "store") = TRUE => ~Streams(b)
    /\ Get(b, "service_tier") \in {None, "auto"}
StateOk(b) ==
    /\ "previous_response_id" \in DOMAIN b => Is(b, "previous_response_id")
    /\ "conversation" \in DOMAIN b => Is(b, "conversation")
    /\ ~({"previous_response_id", "conversation"} \subseteq DOMAIN b)
ScalarsOk(b) ==
    /\ Get(b, "temperature") \in {None, 0, 1, 2}
    /\ "max_tool_calls" \in DOMAIN b => b.max_tool_calls \in Nat \ {0}
MetadataFieldOk(b) == Get(b, "metadata") \in {None} \cup (0..Limit.metadata_field)
InstructionsOk(b) == Get(b, "instructions") \in {None} \cup (0..Limit.instructions)

HostedSearchOk(t) ==
    /\ DOMAIN t \ ToolMeasures \subseteq {"type", "search_context_size"}
    /\ Get(t, "search_context_size") \in {None, "low", "medium", "high"}
NamespaceToolOk(t) ==
    /\ DOMAIN t \ ToolMeasures \subseteq Shape("namespace")
    /\ Is(t, "name") /\ Is(t, "tools") /\ Len(t.tools) <= 128
    /\ \A n \in DOMAIN t.tools : t.tools[n].type \in {"function", "custom"}
ToolOk(t, g, hosted, candidates) ==
    CASE t.type \in candidates -> SearchToolOk(t) /\ t.marker = "none"
      [] t.type = "web_search" /\ t.type \notin candidates -> hosted /\ HostedSearchOk(t)
      [] t.type = "namespace" -> g.tools /\ NamespaceToolOk(t)
      [] OTHER -> LocalToolOk(t, Limit.description)
NamedTools(b) == SelectSeq(ToolsOf(b), LAMBDA t : t.type \in {"function", "custom", "namespace"})
TypedTools(b, type) == SelectSeq(ToolsOf(b), LAMBDA t : t.type = type)
ToolsOk(b, g, hosted, candidates) ==
    Get(b, "tools") # None =>
        /\ b.tools # Bad /\ Len(b.tools) \in 1..Limit.request_tools
        /\ \A n \in DOMAIN b.tools : ToolOk(b.tools[n], g, hosted, candidates)
        /\ Distinct(NamedTools(b), "name")
        /\ Len(TypedTools(b, "function")) <= Limit.function_tools
        /\ Len(TypedTools(b, "custom")) <= Limit.custom_tools
        /\ Total(LAMBDA t : t.parameters, TypedTools(b, "function")) <= Limit.total_schema
        /\ Total(LAMBDA t : IF Is(t, "format") THEN t.format ELSE 0, TypedTools(b, "custom"))
              <= Limit.total_format

ToolChoiceOk(b) ==
    "tool_choice" \in DOMAIN b =>
        LET v == b.tool_choice IN
        /\ Get(b, "tools") # None \/ ClientToolsRequested(b)
        /\ v \notin {None, Bad}
        /\ IF "mode" \in DOMAIN v THEN v.mode \in {"none", "auto", "required"}
           ELSE /\ ~ClientToolsRequested(b)
                /\ DOMAIN v \subseteq {"type", "name"} /\ v.type \in {"function", "custom"}
                /\ \E n \in DOMAIN ToolsOf(b) :
                     b.tools[n].type = v.type /\ b.tools[n].name = Get(v, "name")

\* A stream carries local tools only where their events are validated.
StreamOk(b, g, candidates, continuation) ==
    Streams(b) =>
        /\ FunctionToolsRequested(b) \/ CustomToolsRequested(b) =>
              \/ ToolEventsRequested(b)
              \/ candidates # {} /\ Gated(g)
              \/ continuation # None
        /\ DOMAIN b \cap {"previous_response_id", "conversation"} = {}

(***************************************************************************)
(* The estimate of the input: a token for every three bytes of what the    *)
(* provider will read.                                                     *)
(***************************************************************************)
TopToolBytes(t) ==
    1 + ToolBytes(t) + (IF Is(t, "tools") THEN Total(ToolBytes, t.tools) ELSE 0)
FieldBytes(b, f) ==
    IF Get(b, f) = None THEN 0
    ELSE 1 + CASE f = "prompt_cache_key" -> b[f]
               [] f = "text" /\ Is(b.text, "format") ->
                    Total(LAMBDA g : IF Is(b.text.format, g) THEN b.text.format[g] ELSE 0,
                          <<"name", "schema", "description">>)
               [] OTHER -> 0
Counted == <<"tool_choice", "include", "parallel_tool_calls", "prompt_cache_key", "reasoning", "text">>
Declaring(in) == SelectSeq(in, LAMBDA i : Get(i, "type") = "additional_tools")
ControlBytes(b) ==
    Total(LAMBDA f : FieldBytes(b, f), Counted) + Total(TopToolBytes, ToolsOf(b))
      + Total(LAMBDA i : 1 + DeclarationBytes(i), Declaring(b.input)) + MessageIdBytes(b.input)
Ceil3(n) == (n + 2) \div 3
Floor1(n) == IF n < 1 THEN 1 ELSE n
Estimate(b, extension) ==
    Floor1(Ceil3(InputMaterial(b.input) + extension + ControlBytes(b)
                   + (IF Is(b, "instructions") THEN b.instructions ELSE 0)))

\* Inline media counts by the bytes of its URL until a route has a budget for it.
MediaBytes(b) == Total(ImageBytes, AllParts(b.input))
TextOnly(n, b) == Floor1(n - MediaBytes(b) \div 3)

OutputOk(b, max) == Get(b, "max_output_tokens") = None \/ b.max_output_tokens \in 1..max
Injected(b) == Get(b, "max_output_tokens") = None
Output(b) == IF Injected(b) THEN Setting.default_output ELSE b.max_output_tokens

\* result.original is the estimate before media budgets, None until a route is known.
Result(b, output, injected, n) ==
    [body |-> b, output |-> output, injected |-> injected, estimate |-> n, original |-> None]

(***************************************************************************)
(* The three entry points of the policy.  n is the normalized body.        *)
(***************************************************************************)
Extended(n, k) == (EnvelopeRequested(n) \/ ClientToolsRequested(n)) /\ Gates(k).extended
\* 0.149 declares searches its adapter manages; elsewhere a web search is hosted.
Candidates(n, c) == IF c.module = "0149" THEN SearchCandidates(n) ELSE {}
HostedRequested(n, c) == HasTool(n, {"web_search"}) /\ "web_search" \notin Candidates(n, c)

RequestCore(n, c, g) == IF Gated(g) /\ c.present THEN Core(c, <<"request">>, n) ELSE n
RequestBytes(n, c, g) == IF Gated(g) /\ c.present THEN PreservedBytes(c, <<"request">>, n) ELSE 0
Effective(n, c, g) ==
    LET b == RequestCore(n, c, g)
        kept == [f \in DOMAIN b \ {"client_metadata"} |->
                    IF f = "input" /\ ~IsString(b.input) THEN Canonical(b.input, c, g) ELSE b[f]]
    IN  [store |-> Get(b, "store") = TRUE, max_output_tokens |-> Output(b)]
          @@ (IF "include" \in DOMAIN kept THEN [include |-> 1] ELSE [f \in {} |-> 0]) @@ kept

GatesOpen(n, g) ==
    /\ ClientToolsRequested(n) => g.tools
    /\ ToolEventsRequested(n) => g.streaming
    /\ EnvelopeRequested(n) => g.envelope
    /\ EncryptedReplayRequested(n) => g.encrypted

ControlsOk(b, n, k, c, g) ==
    /\ InstructionsOk(b) /\ StorageOk(b) /\ StateOk(b) /\ ScalarsOk(b) /\ MetadataFieldOk(b)
    /\ TextOk(b, c, g.envelope) /\ EnvelopeOk(b, c, g)
    /\ ClientToolsRequested(b) => "tools" \notin DOMAIN b
    /\ ToolsOk(b, g, HostedRequested(n, c) /\ k.web, Candidates(n, c))
    /\ "max_tool_calls" \in DOMAIN b => HasTool(b, {"web_search"})
    /\ ToolChoiceOk(b)
    /\ StreamOk(b, g, Candidates(n, c), Continuation(n, c, g))

ApplyOk(n, k, c) ==
    LET g == Gates(k)
        b == RequestCore(n, c, g)
        e == Effective(n, c, g)
    IN  /\ GatesOpen(n, g)
        /\ Gated(g) /\ c.present => ExtensionsOk(c, <<"request">>, n)
        /\ DOMAIN b \subseteq Fields /\ Is(b, "model") /\ Is(b, "input")
        /\ InputOk(b.input, c, g, k.taxonomy, Continuation(n, c, g))
        /\ ControlsOk(b, n, k, c, g)
        /\ DOMAIN b \cap {"previous_response_id", "conversation"} # {} =>
              ReplayCandidates(e.input, Continuation(n, c, g), c.idless) = {}
        /\ OutputOk(b, IF Extended(n, k) THEN Setting.absolute_output ELSE Setting.hard_output)
        /\ TextOnly(Estimate(e, RequestBytes(n, c, g)), e)
              <= IF Extended(n, k) THEN Setting.absolute_input ELSE Setting.hard_input
Applied(n, k, c) ==
    LET g == Gates(k)
        e == Effective(n, c, g)
        x == IF Gated(g) /\ c.present THEN Preserved(c, <<"request">>, n) ELSE [f \in {} |-> 0]
    IN  Result(e @@ x, e.max_output_tokens, Injected(RequestCore(n, c, g)),
               Estimate(e, RequestBytes(n, c, g)))

NoGates == Gates([policy |-> None])
CountOk(n, c) ==
    /\ DOMAIN n \subseteq {"model", "input", "instructions", "text", "tools", "tool_choice",
                           "parallel_tool_calls"}
    /\ Is(n, "model") /\ Is(n, "input") /\ InputOk(n.input, c, NoGates, None, None)
    /\ InstructionsOk(n) /\ TextOk(n, c, FALSE)
    /\ ToolsOk(n, NoGates, FALSE, {}) /\ ToolChoiceOk(n)
    /\ Get(n, "parallel_tool_calls") \in {None, TRUE, FALSE}
    /\ Estimate(n, 0) <= Setting.hard_input
Counting(n) == Result(n, 0, FALSE, Estimate(n, 0))

\* A compaction in the Codex dialect is checked with every gate open.
AllGates == [envelope |-> TRUE, tools |-> TRUE, streaming |-> TRUE, encrypted |-> TRUE,
             extended |-> TRUE, compaction |-> TRUE]
Compacted(n, c) ==
    LET kept == [f \in DOMAIN n |-> IF f = "input" /\ ~IsString(n.input) THEN Canonical(n.input, c, AllGates)
                                    ELSE n[f]]
    IN  IF CodexCompactionRequested(n) THEN kept ELSE n
CompactOk(n, k, c) ==
    LET codex == CodexCompactionRequested(n)
    IN  /\ codex => Gates(k).compaction /\ c.present
        /\ DOMAIN n \subseteq {"model", "input", "instructions"} \cup
              (IF codex THEN {"tools", "parallel_tool_calls", "reasoning", "prompt_cache_key", "text"} ELSE {})
        /\ Is(n, "model") /\ Is(n, "input") /\ InstructionsOk(n)
        /\ IF codex
           THEN /\ InputOk(n.input, c, AllGates, None, None)
                /\ TextOk(n, c, TRUE) /\ EnvelopeOk(n, c, AllGates)
                /\ ClientToolsRequested(n) => "tools" \notin DOMAIN n
                /\ ToolsOk(n, NoGates, FALSE, {})
           ELSE CompactInputOk(n.input)
        /\ Estimate(Compacted(n, c), 0) <= IF codex THEN Setting.absolute_input ELSE Setting.hard_input
        /\ Setting.compact_output <= IF codex THEN Setting.absolute_output ELSE Setting.compact_hard
Compacting(n, c) ==
    Result(Compacted(n, c), Setting.compact_output, TRUE, Estimate(Compacted(n, c), 0))

(***************************************************************************)
(* The route.  r.caps is None or Bad when the capability block is missing  *)
(* or malformed, and otherwise the set of capabilities it says TRUE to.    *)
(***************************************************************************)
When(condition, capability) == IF condition THEN {capability} ELSE {}
Required(f) ==
    LET compaction == f.compaction
        extended == f.extended \/ compaction
        events == f.events \/ extended
        tools == f.tools \/ events
        encrypted == f.encrypted \/ extended
        stateless == ~(f.stored \/ f.previous \/ f.compact \/ f.conversation)
    IN  {"text"} \cup When(f.previous, "previous_response") \cup When(f.compact, "compact")
          \cup When(f.conversation, "conversations") \cup When(f.stored, "stored")
          \cup When(stateless, "stateless") \cup When(f.streaming, "streaming")
          \cup When(f.format = "json_object", "json_mode")
          \cup When(f.format = "json_schema", "structured")
          \cup When(f.function, "function_tools") \cup When(f.custom, "custom_tools")
          \cup When(f.image, "image") \cup When(f.file, "file") \cup When(f.count, "token_count")
          \cup When(f.envelope \/ tools \/ encrypted, "envelope") \cup When(tools, "client_tools")
          \cup When(events, "tool_events") \cup When(encrypted, "encrypted")
          \cup When(compaction, "codex_compaction")
RouteLimitsOk(l) ==
    l \notin {None, Bad} /\ l.default \in 1..l.max /\ l.max < l.window
CapabilitiesOk(r, f) ==
    /\ r.caps \notin {None, Bad} /\ Required(f) \subseteq r.caps
    /\ f.streaming => r.streaming
    /\ f.extended \/ f.compaction => RouteLimitsOk(r.limits)

NoFlags == [streaming |-> FALSE, format |-> None, function |-> FALSE, custom |-> FALSE, image |-> FALSE,
            file |-> FALSE, count |-> FALSE, stored |-> FALSE, previous |-> FALSE, compact |-> FALSE,
            conversation |-> FALSE, envelope |-> FALSE, tools |-> FALSE, events |-> FALSE,
            encrypted |-> FALSE, extended |-> FALSE, compaction |-> FALSE]
\* A client may ask for encrypted reasoning in the answer.
EncryptedOutput(n, k, c) == c.module = "0147" /\ Gates(k).encrypted /\ Is(n, "include")
CreateFlags(n, e, k, c) ==
    [NoFlags EXCEPT
        !.streaming = Streams(e), !.format = TextFormat(e),
        !.function = FunctionToolsRequested(e) /\ ~ClientToolsRequested(n),
        !.custom = CustomToolsRequested(e) /\ ~ClientToolsRequested(n),
        !.image = PartRequested(e, "input_image"), !.file = PartRequested(e, "input_file"),
        !.stored = e.store, !.previous = "previous_response_id" \in DOMAIN e,
        !.conversation = "conversation" \in DOMAIN e,
        !.envelope = EnvelopeRequested(n) \/ ClientToolsRequested(n),
        !.tools = ClientToolsRequested(n), !.events = ToolEventsRequested(n),
        !.encrypted = EncryptedReplayRequested(n) \/ EncryptedOutput(n, k, c),
        !.extended = Extended(n, k), !.compaction = CompactionReplayRequested(n)]
CountFlags(e) ==
    [NoFlags EXCEPT
        !.format = TextFormat(e), !.function = FunctionToolsRequested(e),
        !.custom = CustomToolsRequested(e), !.image = PartRequested(e, "input_image"),
        !.file = PartRequested(e, "input_file"), !.count = TRUE]
CompactFlags(n) ==
    LET codex == CodexCompactionRequested(n)
    IN  [NoFlags EXCEPT
            !.compact = TRUE,
            !.envelope = codex, !.tools = codex, !.events = codex, !.encrypted = codex,
            !.extended = codex, !.compaction = codex]

Local == {"local-coding", "vllm", "upstream-llm"}
Servers(module) ==
    CASE module = "default" -> {"openai", "openai-compatible"} \cup Local
      [] module = "0147" -> {"openai"}
      [] module = "0149" -> {"local-coding"}
      [] module = "0162" -> Local
PairOk(c, r) == r.server \in Servers(c.module)
\* Only a generic provider may not be told to fetch an image itself.
BoundaryOk(b, r) ==
    r.server # "openai" =>
        \A i \in Items(b.input) : \A n \in DOMAIN PartsOf(i) :
            PartsOf(i)[n].type = "input_image" => PartsOf(i)[n].image_url.scheme = "data"

(***************************************************************************)
(* Token limits of the route.  The estimate without media budgets is kept, *)
(* so applying a second route's limits starts from it again.               *)
(***************************************************************************)
BudgetOk(r) == r.budget = None \/ r.budget \in 1..Limit.budget
\* Mutant: the budget of the second route is taken off the first one's estimate.
OriginalForgotten(res) == res.estimate
Original(res) == IF res.original = None THEN res.estimate ELSE res.original
Budgeted(res, r) ==
    IF r.budget = None THEN Original(res)
    ELSE Floor1(Original(res) - MediaBytes(res.body) \div 3)
           + r.budget * Len(OfType(AllParts(res.body.input), "input_image"))
WithMedia(res, r) == [res EXCEPT !.estimate = Budgeted(res, r), !.original = Original(res)]
MediaOk(res, r, ceiling) == BudgetOk(r) /\ Budgeted(res, r) <= ceiling

RouteOutput(res, r, compact) ==
    CASE compact -> r.limits.max
      [] res.injected /\ ~compact -> r.limits.default
      [] OTHER -> res.output
RouteLimitsFit(res, r, compact) ==
    LET output == RouteOutput(res, r, compact)
    IN  /\ RouteLimitsOk(r.limits) /\ MediaOk(res, r, Setting.absolute_input)
        /\ r.limits.default <= Setting.absolute_output
        /\ output <= r.limits.max /\ output <= Setting.absolute_output
        /\ Budgeted(res, r) + output <= r.limits.window
WithRouteLimits(res, r, compact) ==
    LET output == RouteOutput(res, r, compact)
        m == WithMedia(res, r)
    IN  [m EXCEPT !.output = output,
                  !.body = IF compact THEN Without(@, {"max_output_tokens"})
                           ELSE ("max_output_tokens" :> output) @@ @]

-----------------------------------------------------------------------------
(***************************************************************************)
(* One request on its way.                                                 *)
(***************************************************************************)
VARIABLES
    load,       \* the workload
    request,    \* [endpoint, body] as the client sent it
    key,        \* the key as the database has it
    table,      \* the route as the database has it
    store,      \* references to what this key's answers produced
    auth,       \* the key the request was authenticated with
    route,      \* the route it resolved
    context,    \* whether the first route is served locally
    stage,      \* where the handler is
    result,     \* the policy result, None before the policy ran
    proved,     \* the references the replayed items resolved to
    sent,       \* the body that went to the provider, None before
    current,    \* [key, route, first]: the rows of the database when they were last
                \* read, and the route as it was first read
    edits       \* edits the operators made

vars == <<load, request, key, table, store, auth, route, context, stage, result, proved, sent, current, edits>>
environment == <<load, request, key, table, store, edits>>

C == Client[auth.module]
Normalized == Dumped(request.body, PutBack(request.endpoint))
Body == result.body
Creates == request.endpoint = "create"
Compacts == request.endpoint = "compact"
Codex == IF Compacts THEN CodexCompactionRequested(Normalized) ELSE Extended(Normalized, auth)

PolicyInit ==
    /\ load \in DOMAIN Load
    /\ request \in Load[load].requests /\ key \in Load[load].keys
    /\ table \in Load[load].routes /\ store \in Load[load].stores
    /\ auth = key /\ route = None /\ context = FALSE /\ stage = "received" /\ result = None /\ proved = {}
    /\ sent = None /\ current = [key |-> key, route |-> None, first |-> None] /\ edits = 0

Goto(s) == stage' = s
Refuse == Goto("refused") /\ UNCHANGED <<result, route, proved, current>>

Normalize ==
    /\ stage = "received"
    /\ IF NormalizeOk(request.endpoint, Dumped(request.body, {}), C) THEN Goto("normalized") ELSE Goto("refused")
    /\ UNCHANGED <<environment, auth, route, context, result, proved, sent, current>>

Accepts ==
    CASE Creates -> ApplyOk(Normalized, auth, C)
      [] Compacts -> CompactOk(Normalized, auth, C)
      [] OTHER -> CountOk(Normalized, C)
ApplyPolicy ==
    /\ stage = "normalized"
    /\ IF Accepts
       THEN /\ result' = CASE Creates -> Applied(Normalized, auth, C)
                           [] Compacts -> Compacting(Normalized, C)
                           [] OTHER -> Counting(Normalized)
            /\ Goto("applied") /\ UNCHANGED <<route, proved, current>>
       ELSE Refuse
    /\ UNCHANGED <<environment, auth, context, sent>>

\* Only 0.149 proves a call without an item id, and only behind a local server.
Idless == Creates /\ C.module = "0149" /\ C.idless
Replayed ==
    IF request.endpoint = "count" THEN {}
    ELSE ReplayCandidates(Body.input, IF Creates THEN Continuation(Normalized, C, Gates(auth)) ELSE None, Idless)
Deferred == \E i \in Replayed : ~Is(i, "id")
References(i) ==
    {x \in store : /\ x.type = i.type
                   /\ Is(i, "id") => x.id = i.id
                   /\ i.type \in ToolCall => x.call_id = i.call_id}
AllProved == \A i \in Replayed : Cardinality(References(i)) = 1
Prove(next) ==
    /\ IF AllProved
       THEN /\ proved' = UNION {References(i) : i \in Replayed}
            /\ Goto(next) /\ UNCHANGED <<result, route, current>>
       ELSE Refuse
    /\ UNCHANGED <<environment, auth, context, sent>>

VerifyReplay ==
    /\ stage = "applied"
    /\ \/ Deferred /\ Goto("proved") /\ UNCHANGED <<environment, auth, route, context, result, proved, sent, current>>
       \/ ~Deferred /\ Prove("proved")

Flags ==
    CASE Creates -> CreateFlags(Normalized, Body, auth, C)
      [] Compacts -> CompactFlags(Normalized)
      [] OTHER -> CountFlags(Body)
LocalContext(r) == r.server \in Local
ContextOk(r) == Creates /\ LocalContext(r) => r.contract
ResolveRoute ==
    /\ stage = "proved"
    /\ IF /\ table.enabled /\ CapabilitiesOk(table, Flags)
          /\ request.endpoint # "count" => PairOk(C, table)
          /\ ContextOk(table)
          /\ Deferred => LocalContext(table)
       THEN /\ route' = table /\ current' = [current EXCEPT !.route = table, !.first = table]
            /\ Goto(IF Deferred THEN "deferred" ELSE "routed")
            /\ context' = LocalContext(table) /\ UNCHANGED <<result, proved>>
       ELSE Refuse /\ UNCHANGED context
    /\ UNCHANGED <<environment, auth, sent>>

VerifyDeferred == stage = "deferred" /\ Prove("routed")

\* Streams of 0.149's own tools need the events the local pair validates.
PairLocalTools ==
    Creates /\ C.module = "0149" /\ context /\ Streams(Body) /\ TopDeclared(Body, C) # {}
PairLocalOk(r) ==
    PairLocalTools =>
        Gates(auth).streaming /\ CapabilitiesOk(r, [Flags EXCEPT !.events = TRUE])

Fits(x, r) ==
    \/ x.route = r.id
    \/ (x.type = "compaction" \/ (Compacts /\ Codex)) /\ x.route \in r.compatible
\* Mutant: the model alone decides.
ReplayRouteOkByModel(r) ==
    \A x \in proved : x.model = r.model
ReplayRouteOk(r) ==
    /\ (Compacts /\ Codex) \/ (\E x \in proved : x.type = "compaction") => r.compatible # Bad
    /\ \A x \in proved : Fits(x, r) /\ x.model = r.model
HostedOk(k, r) == HostedRequested(Normalized, C) => k.web /\ r.web /\ r.priced

\* The checks of the route, alike before and after a wait.
RouteChecksOk(k, r) ==
    /\ Creates => BoundaryOk(Body, r) /\ HostedOk(k, r)
    /\ Compacts => ~LocalContext(r)
    /\ ReplayRouteOk(r)
    /\ IF Codex THEN RouteLimitsFit(result, r, Compacts)
       ELSE Creates => MediaOk(result, r, Setting.hard_input)
RouteChecked(r) ==
    IF Codex THEN WithRouteLimits(result, r, Compacts)
    ELSE IF Creates THEN WithMedia(result, r) ELSE result

Prior(b) ==
    {Get(b, f) : f \in {"previous_response_id", "conversation"} \cap DOMAIN b}
PriorOk(r) ==
    Creates => \A id \in Prior(Body) :
                  \E x \in store : x.type = "object" /\ x.id = id /\ x.route \in {None, r.id}
\* The 0.162 declaration, moved to the top level, must open the input.
Lowers == C.module = "0162" /\ context
LowerOk ==
    Creates /\ Lowers => Typed(Body.input, {"additional_tools"}) \subseteq {1}
Lowered(b) ==
    IF Typed(b.input, {"additional_tools"}) = {} THEN b
    ELSE [tools |-> [n \in DOMAIN b.input[1].tools |-> [type |-> "namespace"] @@ b.input[1].tools[n]]]
           @@ [b EXCEPT !.input = Tail(@)]
Upstream(b) ==
    LET l == IF Creates /\ Lowers THEN Lowered(b) ELSE b
    IN  IF Creates /\ C.module \in {"0149", "0162"} /\ context
        THEN Without(l, {"prompt_cache_key"}) ELSE l

CheckRoute ==
    /\ stage = "routed"
    /\ IF PairLocalOk(route) /\ RouteChecksOk(auth, route) /\ PriorOk(route) /\ LowerOk
       THEN /\ result' = RouteChecked(route)
            /\ Goto("checked") /\ UNCHANGED <<route, proved, current>>
       ELSE Refuse
    /\ UNCHANGED <<environment, auth, context, sent>>

\* A request that is not admitted at once waits; counting tokens needs no admission.
Wait ==
    /\ stage = "checked" /\ request.endpoint # "count"
    /\ Goto("waiting")
    /\ UNCHANGED <<environment, auth, route, context, result, proved, sent, current>>
Reauthenticate ==
    /\ stage = "waiting"
    /\ IF key.active /\ key = auth
       THEN /\ current' = [current EXCEPT !.key = key]
            /\ Goto("rekeyed") /\ UNCHANGED <<result, route, proved>>
       ELSE Refuse
    /\ UNCHANGED <<environment, auth, context, sent>>
\* Mutant: the capabilities are those of the route before the wait.
StillServesAsBefore(r) ==
    /\ r.enabled /\ CapabilitiesOk(route, Flags)
    /\ r.model = route.model /\ r.provider = route.provider /\ PairOk(C, r)
StillServes(r) ==
    /\ r.enabled /\ CapabilitiesOk(r, Flags)
    /\ r.model = route.model /\ r.provider = route.provider /\ PairOk(C, r)
Revalidate ==
    /\ stage = "rekeyed"
    /\ IF StillServes(table) /\ RouteChecksOk(auth, table)
       THEN /\ route' = table /\ current' = [current EXCEPT !.route = table]
            /\ result' = RouteChecked(table)
            /\ Goto("waited") /\ UNCHANGED proved
       ELSE Refuse
    /\ UNCHANGED <<environment, auth, context, sent>>

Forward ==
    /\ stage \in {"checked", "waited"}
    /\ sent' = Upstream(Body)
    /\ Goto("sent")
    /\ UNCHANGED <<environment, auth, route, context, result, proved, current>>

(***************************************************************************)
(* The operators, while the request is under way.                          *)
(***************************************************************************)
Under == stage \notin {"sent", "refused"} /\ edits < Load[load].edits
EditKey ==
    /\ Under /\ \E k \in Load[load].keys \ {key} : key' = k
    /\ edits' = edits + 1
    /\ UNCHANGED <<load, request, table, store, auth, route, context, stage, result, proved, sent, current>>
EditRoute ==
    /\ Under /\ \E r \in Load[load].routes \ {table} : table' = r
    /\ edits' = edits + 1
    /\ UNCHANGED <<load, request, key, store, auth, route, context, stage, result, proved, sent, current>>
Expire ==
    /\ Under /\ \E x \in store : store' = store \ {x}
    /\ edits' = edits + 1
    /\ UNCHANGED <<load, request, key, table, auth, route, context, stage, result, proved, sent, current>>

PolicyNext ==
    \/ Normalize \/ ApplyPolicy \/ VerifyReplay \/ ResolveRoute \/ VerifyDeferred \/ CheckRoute
    \/ Wait \/ Reauthenticate \/ Revalidate \/ Forward
    \/ EditKey \/ EditRoute \/ Expire
PolicySpec == PolicyInit /\ [][PolicyNext]_vars

-----------------------------------------------------------------------------
(***************************************************************************)
(* Properties.                                                             *)
(***************************************************************************)
Sent == sent # None
NewInput(i) ==
    /\ Get(i, "type") \notin {"reasoning"} \cup ToolCall \cup ToolOutput
    /\ ~(Message(i) /\ i.role = "assistant")
Answers(in, n, m) ==
    m > n /\ in[m].call_id = in[n].call_id /\ ToolKind(in[m].type) = ToolKind(in[n].type)

(***************************************************************************)
(* What the provider gets is a closed conversation: every replayed tool    *)
(* call has an identifier of its own, one output of its kind answers it    *)
(* later on and no new input comes in between, and with calls in the input *)
(* there is no output without one.  _validate_codex_tool_roundtrip_items   *)
(* decides this in one pass over the items.                                *)
(***************************************************************************)
RoundtripsAreClosed ==
    Sent => LET in == sent.input
                calls == Typed(in, ToolCall)
                outputs == Typed(in, ToolOutput)
            IN  /\ \A n, m \in calls : in[n].call_id = in[m].call_id => n = m
                /\ \A n \in calls : \E m \in outputs :
                      /\ Answers(in, n, m)
                      /\ \A o \in outputs : Answers(in, n, o) => o = m
                      /\ \A j \in (n + 1)..(m - 1) : ~NewInput(in[j])
                /\ calls # {} => \A m \in outputs : \E n \in calls : Answers(in, n, m)

\* What a body makes the provider do, read off its content alone.
ToolTraffic(b) == HasItem(b, {"additional_tools"} \cup ToolCall) \/ HasTool(b, {"namespace"})
Exercised(b) ==
    When(Streams(b), "streaming")
      \cup When(request.endpoint # "compact" /\ PartRequested(b, "input_image"), "image")
      \cup When(request.endpoint # "compact" /\ PartRequested(b, "input_file"), "file")
      \cup When(request.endpoint # "compact" /\ HasTool(b, {"function"}), "function_tools")
      \cup When(request.endpoint # "compact" /\ HasTool(b, {"custom"}), "custom_tools")
      \cup When(Creates /\ "previous_response_id" \in DOMAIN b, "previous_response")
      \cup When(Creates /\ Get(b, "store") = TRUE, "stored")
      \cup When(Compacts, "compact") \cup When(request.endpoint = "count", "token_count")
      \cup When(ToolTraffic(b), "client_tools")
      \cup When(Streams(b) /\ (ToolTraffic(b) \/ HasTool(b, {"function", "custom"})), "tool_events")
      \cup When(\E i \in Items(b.input) : Ciphertext(i) > 0, "encrypted")
      \cup When(HasItem(b, {"compaction"}), "codex_compaction")
      \cup When(request.endpoint # "count" /\ DOMAIN b \cap EnvelopeFields # {}, "envelope")
KeyCapabilities == {"envelope", "client_tools", "tool_events", "encrypted", "codex_compaction"}

(***************************************************************************)
(* What a forwarded body makes the provider do was allowed by the key and  *)
(* by the route as the database had them when they were last read: before  *)
(* the wait, or after it when the request waited                           *)
(* (_revalidate_responses_after_wait).  One check is made before the wait  *)
(* only: that the route carries the tool events of a stream of 0.149's own *)
(* tools; the route as it was first read carries them.                     *)
(***************************************************************************)
ForwardedIsCovered ==
    Sent => /\ \A x \in Exercised(sent) :
                  \/ x \in current.route.caps
                  \/ x = "tool_events" /\ PairLocalTools /\ x \in current.first.caps
            /\ \A x \in Exercised(sent) \cap KeyCapabilities : Granted(current.key, x)
            /\ HostedRequested(Normalized, C) => current.key.web /\ current.route.web

Produced(i) == Get(i, "type") \in {"compaction"} \cup ToolCall \/ Ciphertext(i) > 0
Backs(x, i) ==
    /\ x.type = i.type /\ (Is(i, "id") => x.id = i.id)
    /\ i.type \in ToolCall => x.call_id = i.call_id

(***************************************************************************)
(* Every call, compaction and ciphertext sent back to a provider resolved  *)
(* to a reference of this key, and the route it goes to is one the         *)
(* reference may be used on (_verify_owned_codex_replay_references and     *)
(* _verify_codex_replay_route).  Not so a tool call without an id under    *)
(* 0.162, which accepts it and does not look it up                         *)
(* (allow_idless_tool_call_replay of handle_response_create).              *)
(***************************************************************************)
ReplayedIsVerified ==
    Sent => \A i \in Items(sent.input) :
               Produced(i) => \/ \E x \in proved : Backs(x, i) /\ Fits(x, current.route)
                              \/ C.module = "0162" /\ i.type \in ToolCall /\ ~Is(i, "id")

\* The size of what is sent, without the images.
Volume(b) ==
    InputMaterial(b.input) - MediaBytes(b)
      + Total(LAMBDA i : DeclarationBytes(i), Declaring(b.input))
      + Total(LAMBDA t : ToolBytes(t) + (IF Is(t, "tools") THEN Total(ToolBytes, t.tools) ELSE 0), ToolsOf(b))
      + (IF Is(b, "instructions") THEN b.instructions ELSE 0)
      + (IF Is(b, "prompt_cache_key") THEN b.prompt_cache_key ELSE 0)
MediaTokens(b, r) ==
    IF r.budget = None THEN MediaBytes(b) \div 3
    ELSE r.budget * Len(OfType(AllParts(b.input), "input_image"))

(***************************************************************************)
(* The tokens admission and quota reckon with cover the request: every     *)
(* text, schema and image that is sent counts, and in a Codex request      *)
(* input and output together fit the window of the route in force, also    *)
(* when the limits of a second route replaced those of the first           *)
(* (apply_media_input_estimate, apply_codex_route_limits).                 *)
(***************************************************************************)
BudgetCoversRequest ==
    Sent /\ request.endpoint # "count" =>
        LET l == current.route.limits IN
        /\ Volume(sent) + 3 * MediaTokens(sent, current.route) <= 3 * result.estimate
        /\ Creates => sent.max_output_tokens = result.output
        /\ Codex => result.output <= l.max /\ result.estimate + result.output <= l.window
        /\ ~Codex /\ Creates => result.estimate <= Setting.hard_input
=============================================================================

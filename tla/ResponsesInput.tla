--------------------------- MODULE ResponsesInput ---------------------------
(***************************************************************************)
(* The input items of a Responses request and what the request policy      *)
(* accepts of them.  An item, a content part and a tool are records whose  *)
(* DOMAIN holds the fields the client sent.  A text, a ciphertext or a URL *)
(* is its size in bytes, a null value is None and a value of the wrong     *)
(* type or form is Bad.  A string given where a list may stand is the list *)
(* of one element of type "string".  Every validator is the predicate that *)
(* holds when the code does not raise; running totals only grow, so they   *)
(* are compared with their limits once, at the end.                        *)
(***************************************************************************)
EXTENDS Integers, Sequences, FiniteSets, SequencesExt, Values

CONSTANTS
    Limit       \* the size limits of the settings and of the client modules

Get(r, f) == IF f \in DOMAIN r THEN r[f] ELSE None
Without(r, F) == [f \in DOMAIN r \ F |-> r[f]]
Is(r, f) == f \in DOMAIN r /\ r[f] \notin {None, Bad}
Total(f(_), s) == FoldSeq(LAMBDA x, n : f(x) + n, 0, s)
Sized(v, max) == v \in 1..max
Items(in) == {in[n] : n \in DOMAIN in}
IsString(in) == Len(in) = 1 /\ in[1].type = "string"

(***************************************************************************)
(* What a client may send on top of the core fields: the extensions of its *)
(* preset, <<scope, field, action>>, are taken out before validation and   *)
(* the preserved ones put back afterwards.                                 *)
(***************************************************************************)
Extensions(c, scope) == {e \in c.extensions : e[1] = scope}
ExtensionFields(c, scope) == {e[2] : e \in Extensions(c, scope)}
ExtensionsOk(c, scope, r) ==
    \A f \in ExtensionFields(c, scope) \cap DOMAIN r : r[f] \in 0..Limit.extension
Core(c, scope, r) == Without(r, ExtensionFields(c, scope))
Preserved(c, scope, r) ==
    [f \in {e[2] : e \in {x \in Extensions(c, scope) : x[3] = "preserve"}} \cap DOMAIN r |-> r[f]]
PreservedBytes(c, scope, r) ==
    LET p == Preserved(c, scope, r) IN Total(LAMBDA f : p[f], SetToSeq(DOMAIN p))

(***************************************************************************)
(* Content parts.                                                          *)
(***************************************************************************)
TextPartOk(p, role, c) ==
    /\ \/ p.type = "input_text"
       \/ p.type = "output_text" /\ role = "assistant" /\ c.history
    /\ DOMAIN p \subseteq {"type", "text"}
    /\ Sized(Get(p, "text"), Limit.item_text)

\* [scheme, bytes, plain]: plain says that it has a host and neither
\* credentials nor a fragment, or that the data is base64 of an allowed type.
ImageUrlOk(u) ==
    /\ u # None /\ u # Bad /\ u.plain
    /\ \/ u.scheme = "data" /\ u.bytes <= Limit.image_data
       \/ u.scheme \in {"http", "https"} /\ u.bytes <= Limit.image_url

ImagePartOk(p, role) ==
    /\ role = "user"
    /\ DOMAIN p \subseteq {"type", "image_url", "detail"}
    /\ Get(p, "detail") \in {None, "auto", "low", "high", "original"}
    /\ ImageUrlOk(Get(p, "image_url"))

FileUrlOk(u) ==
    u # Bad /\ u.plain /\ u.scheme = "https" /\ u.bytes <= Limit.file_url /\ u.extension
FileNameOk(n) == n # None /\ n # Bad /\ n.bytes <= Limit.file_name /\ n.extension
FileDataOk(u) ==
    u # Bad /\ u.scheme = "data" /\ u.plain /\ u.bytes <= Limit.file_data

FilePartOk(p, role) ==
    /\ role = "user"
    /\ DOMAIN p \subseteq {"type", "file_url", "file_data", "filename"}
    /\ ("file_url" \in DOMAIN p) # ("file_data" \in DOMAIN p)
    /\ IF "file_url" \in DOMAIN p
       THEN FileUrlOk(p.file_url) /\ "filename" \notin DOMAIN p
       ELSE FileNameOk(Get(p, "filename")) /\ FileDataOk(p.file_data)

PartOk(p, role, c) ==
    CASE p.type = "input_image" -> ImagePartOk(p, role)
      [] p.type = "input_file" -> FilePartOk(p, role)
      [] OTHER -> TextPartOk(p, role, c)

TextBytes(p) == IF Is(p, "text") THEN p.text ELSE 0
ImageBytes(p) == IF p.type = "input_image" THEN p.image_url.bytes ELSE 0
ImageData(p) ==
    IF p.type = "input_image" /\ p.image_url.scheme = "data" THEN p.image_url.bytes ELSE 0
FileData(p) == IF "file_data" \in DOMAIN p THEN p.file_data.bytes ELSE 0
FileBytes(p) ==
    FileData(p) + (IF "filename" \in DOMAIN p THEN p.filename.bytes ELSE 0)
                + (IF "file_url" \in DOMAIN p THEN p.file_url.bytes ELSE 0)
PartBytes(p) == TextBytes(p) + ImageBytes(p) + FileBytes(p)
Texts(s) == SelectSeq(s, LAMBDA p : p.type \notin {"input_image", "input_file"})

ContentOk(s, role, c) ==
    /\ s # Bad /\ s # <<>>
    /\ IF IsString(s) THEN s[1].text > 0 ELSE \A n \in DOMAIN s : PartOk(s[n], role, c)
    /\ Len(Texts(s)) <= Limit.text_parts
    /\ Total(TextBytes, s) <= Limit.item_text

(***************************************************************************)
(* Local tools: functions with a schema, custom tools with a format.       *)
(* tool.marker is where the declaration carries a name of provider         *)
(* authority: "none", "label" (a property label of its JSON schema) or     *)
(* "key"; tool.depth and tool.properties measure its schema.               *)
(***************************************************************************)
FunctionFields == {"type", "name", "description", "parameters", "strict"}
CustomFields == {"type", "name", "description", "format"}
ToolMeasures == {"marker", "depth", "properties"}
ToolBytes(t) ==
    Total(LAMBDA f : IF Is(t, f) THEN t[f] ELSE 0, <<"description", "parameters", "format">>)

FunctionToolOk(t, description) ==
    /\ DOMAIN t \subseteq FunctionFields \cup ToolMeasures
    /\ Is(t, "name")
    /\ "description" \in DOMAIN t => t.description \in 0..description
    /\ Get(t, "parameters") \in 0..Limit.schema
    /\ "strict" \in DOMAIN t => t.strict \in BOOLEAN

CustomToolOk(t, description) ==
    /\ DOMAIN t \subseteq CustomFields \cup ToolMeasures
    /\ Is(t, "name")
    /\ "description" \in DOMAIN t => t.description \in 0..description
    /\ "format" \in DOMAIN t => t.format \in 0..Limit.format

LocalToolOk(t, description) ==
    \/ t.type = "function" /\ FunctionToolOk(t, description)
    \/ t.type = "custom" /\ CustomToolOk(t, description)

AuthorityMarked(t, c) == t.marker = "key" \/ (t.marker = "label" /\ ~c.labels)

(***************************************************************************)
(* Client tools: one additional_tools item declares namespaces of tools.   *)
(* c.fixed is the taxonomy of a module whose identifier the key names.     *)
(* Otherwise the module expects c.exact ({}: it knows none) or classifies  *)
(* what was declared, within its bounds.                                   *)
(***************************************************************************)
Declared(ns) ==
    UNION {{<<ns[n].name, ns[n].tools[m].name, ns[n].tools[m].type>> : m \in DOMAIN ns[n].tools} :
              n \in DOMAIN ns}
Distinct(s, f) == \A n, m \in DOMAIN s : s[n][f] = s[m][f] => n = m

Classified(ns, c) ==
    /\ ns # <<>> /\ Len(ns) <= Limit.namespaces /\ Distinct(ns, "name")
    /\ \A n \in DOMAIN ns :
         /\ ns[n].name \in c.namespaces
         /\ ns[n].tools # <<>> /\ Len(ns[n].tools) <= Limit.tools /\ Distinct(ns[n].tools, "name")
         /\ \A m \in DOMAIN ns[n].tools :
              LET t == ns[n].tools[m] IN
              t.type = "function" \/ <<ns[n].name, t.name, t.type>> \in c.custom
    /\ Total(LAMBDA n : Len(n.tools), ns) <= Limit.total_tools

TaxonomyOk(ns, c, taxonomy) ==
    CASE taxonomy = c.module -> Declared(ns) = c.fixed /\ Distinct(ns, "name")
      [] taxonomy # c.module /\ c.classifies -> Classified(ns, c)
      [] OTHER -> c.exact # {} /\ Declared(ns) = c.exact /\ Distinct(ns, "name")

ClientToolOk(n, t, c) ==
    /\ ~AuthorityMarked(t, c)
    /\ LocalToolOk(t, Limit.client_description)
    /\ IF t.type = "function" THEN t.depth <= Limit.depth
       ELSE <<n, t.name, "custom">> \in c.custom /\ Is(t, "format")

AllTools(ns) == FlattenSeq([n \in DOMAIN ns |-> ns[n].tools])
DeclarationBytes(i) == Total(LAMBDA n : Total(ToolBytes, n.tools), i.tools)

AdditionalToolsOk(i, c, taxonomy) ==
    /\ DOMAIN i \subseteq {"type", "role", "tools"} \cup (IF c.idless THEN {"id"} ELSE {})
    /\ Get(i, "id") # Bad
    /\ Get(i, "role") = "developer"
    /\ Is(i, "tools") /\ TaxonomyOk(i.tools, c, taxonomy)
    /\ \A n \in DOMAIN i.tools : \A m \in DOMAIN i.tools[n].tools :
          ClientToolOk(i.tools[n].name, i.tools[n].tools[m], c)
    /\ Total(LAMBDA t : t.properties, AllTools(i.tools)) <= Limit.properties
    /\ DeclarationBytes(i) <= Limit.declaration

(***************************************************************************)
(* Items a provider produced and a client replays.                         *)
(***************************************************************************)
PartsTotal(s) == Total(TextBytes, s)
SummaryOk(s) == s \notin {None, Bad} /\ Len(s) <= Limit.summary_parts /\ PartsTotal(s) <= Limit.summary

EncryptedReasoningOk(i) ==
    /\ DOMAIN i \subseteq {"type", "id", "summary", "encrypted_content", "content"}
    /\ Is(i, "id")
    /\ Sized(Get(i, "encrypted_content"), Limit.encrypted_item)
    /\ Get(i, "content") = None
    /\ SummaryOk(Get(i, "summary"))

VisibleReasoningOk(i) ==
    /\ DOMAIN i \subseteq {"type", "id", "summary", "encrypted_content", "content"}
    /\ Get(i, "id") # Bad
    /\ SummaryOk(Get(i, "summary"))
    /\ "content" \in DOMAIN i => i.content # Bad
    /\ Is(i, "content") => /\ Len(i.content) <= Limit.visible_parts
                           /\ \A n \in DOMAIN i.content : i.content[n].text \in 0..Limit.visible_part
    /\ PartsTotal(i.summary) + (IF Is(i, "content") THEN PartsTotal(i.content) ELSE 0)
         <= Limit.visible

CompactionOk(i) ==
    /\ DOMAIN i = {"type", "id", "encrypted_content"}
    /\ Is(i, "id")
    /\ Sized(i.encrypted_content, Limit.compaction_item)

ToolCall == {"function_call", "custom_tool_call"}
ToolOutput == {"function_call_output", "custom_tool_call_output"}
Payload(type) == IF type = "custom_tool_call" THEN "input" ELSE "arguments"
ToolKind(type) ==
    IF type \in {"custom_tool_call", "custom_tool_call_output"} THEN "custom" ELSE "function"

ToolCallOk(i, c) ==
    /\ DOMAIN i \subseteq {"type", "id", "status", "namespace", "name", "call_id", Payload(i.type)}
    /\ Is(i, "call_id") /\ Is(i, "name")
    /\ Get(i, "namespace") # Bad
    /\ Get(i, "status") \in {None, "completed"}
    /\ Get(i, "id") # Bad /\ (Get(i, "id") = None => c.idless)
    /\ Get(i, Payload(i.type)) \in 0..Limit.call

CodexOutputOk(i, c) ==
    /\ DOMAIN i \subseteq {"type", "id", "call_id", "output"}
    /\ Is(i, "call_id")
    /\ Is(i, "output")
    /\ \/ IsString(i.output)
       \/ /\ i.type = "custom_tool_call_output" \/ c.images
          /\ Len(i.output) \in 1..8
          /\ \A n \in DOMAIN i.output :
               \/ c.images /\ i.output[n].type = "input_image" /\ ImagePartOk(i.output[n], "user")
               \/ i.output[n].type = "input_text" /\ DOMAIN i.output[n] \subseteq {"type", "text"}
    /\ PartsTotal(i.output) <= Limit.call
    /\ "id" \in DOMAIN i => Is(i, "id")

PlainOutputOk(i) ==
    /\ DOMAIN i \subseteq {"type", "call_id", "output"}
    /\ Is(i, "call_id")
    /\ Is(i, "output") /\ IsString(i.output) /\ i.output[1].text <= Limit.call

(***************************************************************************)
(* One item.  g holds the gates the key opened: envelope, tools,           *)
(* streaming, encrypted and compaction.                                    *)
(***************************************************************************)
Roles == {"user", "assistant", "developer", "system"}
Gated(g) == g.envelope /\ g.tools /\ g.streaming
Message(i) == Get(i, "type") \in {None, "message"}

\* Metadata of the client is dropped from an item when every gate is open.
DropsMetadata(i, c, g) ==
    /\ c.present /\ Gated(g) /\ g.encrypted /\ g.compaction
    /\ Message(i) \/ i.type \in {"reasoning", "compaction"} \cup ToolCall \cup ToolOutput
MetadataOk(i, c, g) ==
    DropsMetadata(i, c, g) /\ "metadata" \in DOMAIN i => i.metadata \in {None} \cup (0..Limit.metadata)
Stripped(i, c, g) == IF DropsMetadata(i, c, g) THEN Without(i, {"metadata"}) ELSE i

Scope(i) == IF i.type = "message" THEN <<"message", Get(i, "role")>> ELSE <<"item", i.type>>
Interpreted(i, c, g) == c.present /\ Gated(g) /\ "type" \in DOMAIN i
CoreItem(i, c, g) == Stripped(IF Interpreted(i, c, g) THEN Core(c, Scope(i), i) ELSE i, c, g)

MessageOk(i, c, g) ==
    /\ DOMAIN i \subseteq {"type", "role", "content", "id"}
    /\ Get(i, "role") \in Roles
    /\ "content" \in DOMAIN i /\ ContentOk(i.content, i.role, c)
    /\ "id" \in DOMAIN i => g.envelope /\ c.present /\ Is(i, "id")

Visible(i, c) ==
    /\ c.present /\ c.visible
    /\ \/ Get(i, "encrypted_content") = None
       \/ c.empty /\ i.encrypted_content = 0

ReasoningOk(i, c, g) ==
    /\ c.present /\ (c.visible => g.envelope)
    /\ \/ Visible(i, c) /\ VisibleReasoningOk(i)
       \/ /\ ~Visible(i, c)
          /\ "encrypted_content" \in DOMAIN i \/ g.encrypted
          /\ g.envelope /\ g.encrypted
          /\ EncryptedReasoningOk(i)

CoreOk(i, c, g, taxonomy) ==
    CASE Message(i) -> MessageOk(i, c, g)
      [] i.type = "compaction" -> c.present /\ g.compaction /\ CompactionOk(i)
      [] i.type = "additional_tools" ->
            c.present /\ g.envelope /\ g.tools /\ AdditionalToolsOk(i, c, taxonomy)
      [] i.type = "reasoning" -> ReasoningOk(i, c, g)
      [] i.type \in ToolCall -> c.present /\ Gated(g) /\ ToolCallOk(i, c)
      [] i.type \in ToolOutput ->
            IF Gated(g) THEN c.present /\ CodexOutputOk(i, c) ELSE PlainOutputOk(i)
      [] OTHER -> FALSE

ItemOk(i, c, g, taxonomy) ==
    /\ Interpreted(i, c, g) => ExtensionsOk(c, Scope(i), i)
    /\ MetadataOk(i, c, g)
    /\ CoreOk(CoreItem(i, c, g), c, g, taxonomy)

\* The canonical item: a declaration without a null id, and the preserved extensions.
CanonicalItem(i, c, g) ==
    LET k == CoreItem(i, c, g)
        d == IF Get(k, "type") = "additional_tools" /\ Get(k, "id") = None THEN Without(k, {"id"}) ELSE k
    IN  IF Interpreted(i, c, g) THEN d @@ Preserved(c, Scope(i), i) ELSE d

PartsOf(i) ==
    CASE Is(i, "content") -> i.content [] Is(i, "output") -> i.output [] OTHER -> <<>>
Opaque(i) ==
    Total(LAMBDA f : IF Is(i, f) THEN i[f] ELSE 0, <<"encrypted_content", "arguments", "input">>)
      + (IF Is(i, "summary") THEN PartsTotal(i.summary) ELSE 0)
ItemText(i) == Total(TextBytes, PartsOf(i)) + Opaque(i)
ItemMaterial(i) == Total(PartBytes, PartsOf(i)) + Opaque(i)

(***************************************************************************)
(* A tool round trip: every call names one declared tool and is answered   *)
(* once by an output of its kind, before any new input.  The scan keeps    *)
(* the calls, the answered and the pending identifiers, and the item ids.  *)
(***************************************************************************)
InputDeclarations(in) ==
    UNION {Declared(i.tools) : i \in {x \in Items(in) : Get(x, "type") = "additional_tools"}}
Declarations(in, top) ==
    IF InputDeclarations(in) # {} \/ top = None THEN InputDeclarations(in) ELSE top
Matches(i, decls) ==
    {d \in decls : /\ d[2] = i.name /\ d[3] = ToolKind(i.type)
                   /\ Get(i, "namespace") \in {None, d[1]}}
CallOk(i, decls, c) ==
    \E d \in decls : Matches(i, decls) = {d} /\ (d[3] = "custom" => d \in c.custom)

Scan == [ok |-> TRUE, calls |-> {}, outputs |-> {}, pending |-> {}, ids |-> {}]
\* Mutant: new input may come before the answer.
ScanItemEarly(i, s, decls, c) ==
    CASE Get(i, "type") \in ToolCall ->
           [s EXCEPT !.ok = @ /\ CallOk(i, decls, c) /\ \A k \in s.calls : k[1] # i.call_id,
                     !.calls = @ \cup {<<i.call_id, ToolKind(i.type)>>}, !.pending = @ \cup {i.call_id}]
      [] Get(i, "type") \in ToolOutput ->
           [s EXCEPT !.ok = @ /\ i.call_id \in s.pending /\ <<i.call_id, ToolKind(i.type)>> \in s.calls,
                     !.outputs = @ \cup {i.call_id}, !.pending = @ \ {i.call_id}]
      [] OTHER -> s
ScanItem(i, s, decls, c) ==
    LET fresh == ~Is(i, "id") \/ i.id \notin s.ids
        ids == IF Is(i, "id") THEN s.ids \cup {i.id} ELSE s.ids
        type == Get(i, "type")
    IN  CASE type = "reasoning" -> [s EXCEPT !.ok = @ /\ fresh, !.ids = ids]
          [] type \in ToolCall ->
               [s EXCEPT !.ok = /\ @ /\ fresh /\ CallOk(i, decls, c)
                                /\ \A k \in s.calls : k[1] # i.call_id,
                         !.calls = @ \cup {<<i.call_id, ToolKind(type)>>},
                         !.pending = @ \cup {i.call_id}, !.ids = ids]
          [] type \in ToolOutput ->
               [s EXCEPT !.ok = /\ @ /\ fresh /\ i.call_id \in s.pending
                                /\ <<i.call_id, ToolKind(type)>> \in s.calls,
                         !.outputs = @ \cup {i.call_id},
                         !.pending = @ \ {i.call_id}, !.ids = ids]
          [] OTHER ->
               [s EXCEPT !.ok = /\ @ /\ fresh
                                /\ s.pending = {} \/ (Message(i) /\ i.role = "assistant"),
                         !.ids = ids]

RoundtripOk(in, top, c, g) ==
    LET own == InputDeclarations(in)
        s == FoldLeft(LAMBDA a, i : ScanItem(i, a, Declarations(in, top), c), Scan, in)
    IN  /\ top # None /\ own # {} => own = top
        /\ s.ok /\ {k[1] : k \in s.calls} = s.outputs
        /\ s.calls # {} => g.streaming

(***************************************************************************)
(* The whole input of a request.                                           *)
(***************************************************************************)
Typed(in, types) == {n \in DOMAIN in : Get(in[n], "type") \in types}
Canonical(in, c, g) == [n \in DOMAIN in |-> CanonicalItem(in[n], c, g)]
Ciphertext(i) ==
    IF Get(i, "type") = "reasoning" /\ Is(i, "encrypted_content") THEN i.encrypted_content ELSE 0
OfType(s, type) == SelectSeq(s, LAMBDA p : p.type = type)
AllParts(in) == FlattenSeq([n \in DOMAIN in |-> PartsOf(in[n])])

TotalsOk(in) ==
    LET parts == AllParts(in)
    IN  /\ Total(Ciphertext, in) <= Limit.encrypted_request
        /\ Total(ItemText, in) <= Limit.total_text
        /\ Len(OfType(parts, "input_image")) <= Limit.images
        /\ Total(ImageData, parts) <= Limit.total_image_data
        /\ Len(OfType(parts, "input_file")) <= Limit.files
        /\ Total(FileData, parts) <= Limit.total_file_data

ItemsOk(in, c, g, taxonomy, top) ==
    /\ in # <<>> /\ Len(in) <= Limit.items
    /\ Cardinality(Typed(in, {"additional_tools"})) <= 1
    /\ \A n \in DOMAIN in : ItemOk(in[n], c, g, taxonomy)
    /\ TotalsOk(Canonical(in, c, g))
    /\ Typed(in, ToolCall) # {} /\ Typed(in, {"additional_tools"}) = {} => top # None
    /\ Typed(in, {"additional_tools", "reasoning"} \cup (IF top # None THEN ToolCall ELSE {})) # {} =>
          RoundtripOk(Canonical(in, c, g), top, c, g)

InputOk(in, c, g, taxonomy, top) ==
    IF IsString(in) THEN Sized(in[1].text, Limit.input_text)
    ELSE ItemsOk(in, c, g, taxonomy, top)

\* The input of an ordinary compaction holds only messages of text.
CompactItemOk(i) ==
    /\ DOMAIN i \subseteq {"type", "role", "content", "id", "status"}
    /\ Message(i) /\ Get(i, "role") \in Roles
    /\ "content" \in DOMAIN i /\ i.content \notin {Bad, <<>>}
    /\ \A n \in DOMAIN i.content :
          i.content[n].type \in {"string", "input_text", "output_text"} /\ i.content[n].text > 0
    /\ Total(TextBytes, i.content) <= Limit.item_text
    /\ Get(i, "id") # Bad
    /\ Get(i, "status") \in {None, "completed", "in_progress", "incomplete"}

CompactInputOk(in) ==
    IF IsString(in) THEN Sized(in[1].text, Limit.input_text)
    ELSE /\ in # <<>> /\ Len(in) <= Limit.items
         /\ \A n \in DOMAIN in : CompactItemOk(in[n])
         /\ Total(ItemText, in) <= Limit.total_text

InputMaterial(in) == IF IsString(in) THEN in[1].text ELSE Total(ItemMaterial, in)
MessageIdBytes(in) == Cardinality({n \in DOMAIN in : Is(in[n], "id")})

(***************************************************************************)
(* The items whose origin must be proved before they are sent again.       *)
(***************************************************************************)
Candidate(i, decls, idless) ==
    CASE Get(i, "type") = "compaction" -> TRUE
      [] Get(i, "type") = "reasoning" -> Is(i, "id") /\ Get(i, "encrypted_content") # 0
      [] Get(i, "type") \in ToolCall ->
            (Is(i, "id") \/ idless) /\ Cardinality(Matches(i, decls)) = 1
      [] OTHER -> FALSE
ReplayCandidates(in, top, idless) ==
    {i \in Items(in) : Candidate(i, Declarations(in, top), idless)}
=============================================================================

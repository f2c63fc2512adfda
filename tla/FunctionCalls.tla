---------------------------- MODULE FunctionCalls ----------------------------
(***************************************************************************)
(* A function between an inference request and a model: the validation of   *)
(* the input against the function's schemas, the templates, the tools that  *)
(* are offered, the JSON mode (function.rs, tool.rs, variant/mod.rs,        *)
(* variant/chat_completion.rs), and what becomes of the model's answer.     *)
(*                                                                          *)
(* The functions: "chat" and "json"; "templated", a chat function with      *)
(* templates for all roles and schemas for two of them; and "default", the  *)
(* chat function without tools that a bare model is called through.         *)
(***************************************************************************)
EXTENDS ProviderResponses

CONSTANTS StaticTools,   \* the tools of the configuration
          FunctionTools  \* those of a chat function, in order

ASSUME ToolsAssumption ==
    /\ FunctionTools \in Seq(STRING)
    /\ ToSet(FunctionTools) \subseteq StaticTools /\ "respond" \notin StaticTools

Arguments(body) == Block("arguments", 0, <<>>, body, <<>>)
RawText(body) == Block("raw_text", 0, <<>>, body, <<>>)

-----------------------------------------------------------------------------
(***************************************************************************)
(* The input                                                                *)
(***************************************************************************)
HasSchema(function, role) == function = "templated" /\ role \in {"system", "user"}
HasTemplate(function, role) == function = "templated"

\* Without a schema a text is a string; with one, an object that it describes.
ValidateSingleMessage(b, schema) ==
    IF schema THEN b.type = "arguments" /\ b.body # <<"invalid">> ELSE b.type = "text"

\* The system message, and every text of the messages that is not a raw one.
ValidateAllTextInput(function, system, messages) ==
    /\ IF system = <<>> THEN ~HasSchema(function, "system")
       ELSE ValidateSingleMessage(system[1], HasSchema(function, "system"))
    /\ \A i \in DOMAIN messages : \A j \in DOMAIN messages[i].content :
          messages[i].content[j].type \in {"text", "arguments"} =>
              ValidateSingleMessage(messages[i].content[j], HasSchema(function, messages[i].role))

\* A chat function has no implicit tool.
ValidateInferenceParams(ask) ==
    IF (ask.function # "json" /\ ask.json = "implicit_tool")
           \/ ~ValidateAllTextInput(ask.function, ask.system, ask.messages)
    THEN Failed("InvalidRequest") ELSE Ok(<<>>)

\* A call as the client sends it: its name and its arguments, or the raw ones (each given or not:
\* a sequence).  The arguments are an object, or a string taken for one.
InputCalls == [type : {"tool_call_input"}, id : Nat, name : Seq(Seq(STRING)), arguments : Seq(Seq(Words)),
               raw_name : Seq(Seq(STRING)), raw_arguments : Seq(Seq(Words))]
Inputs == [role : {"user", "assistant"}, content : Seq(Blocks \cup InputCalls)]
NoObject == <<"number">>
ToolCallInput(b) ==
    LET name == b.name \o b.raw_name
        arguments == b.arguments \o b.raw_arguments
    IN  IF name = <<>> \/ arguments = <<>> \/ b.arguments = <<NoObject>> THEN Failed("InvalidRequest")
        ELSE Ok(<<Block("tool_call", b.id, name[1], arguments[1], <<>>)>>)

ResolveBlock(b) == IF b.type = "tool_call_input" THEN ToolCallInput(b) ELSE Ok(<<b>>)
Resolve(m) ==
    LET content == Each(m.content, ResolveBlock)
    IN  IF content.ok THEN Ok(<<Message(m.role, content.value)>>) ELSE content

Render(function, role, body) == IF HasTemplate(function, role) THEN <<"template">> \o body ELSE body

\* A text goes through the template of its role; the other blocks stay as they are.
PrepareRequestBlock(function, role, b) ==
    CASE b.type = "text" -> Ok(<<Text(Render(function, role, b.body))>>)
      [] b.type = "arguments" ->
            IF HasTemplate(function, role) /\ HasSchema(function, role)
            THEN Ok(<<Text(Render(function, role, b.body))>>) ELSE Refused
      [] b.type = "raw_text" -> Ok(<<Text(b.body)>>)
      [] OTHER -> Ok(<<b>>)
PrepareRequestMessage(function, m) ==
    LET content == All([i \in DOMAIN m.content |-> PrepareRequestBlock(function, m.role, m.content[i])])
    IN  IF content.ok THEN Ok(<<Message(m.role, content.value)>>) ELSE content

\* A template is rendered even without a system message.
PrepareSystemMessage(function, system) ==
    IF HasTemplate(function, "system")
    THEN Ok(Render(function, "system", IF system = <<>> THEN <<>> ELSE system[1].body))
    ELSE IF system = <<>> THEN Ok(<<>>)
    ELSE IF system[1].type = "text" THEN Ok(system[1].body) ELSE Refused

-----------------------------------------------------------------------------
(***************************************************************************)
(* The tools and the request                                                *)
(***************************************************************************)
NoDynamicTools == [allowed |-> <<>>, additional |-> <<>>, choice |-> "absent", tool |-> "none"]
NoToolConfig == [tools |-> {}, choice |-> "no_tools", specific |-> "none"]
ToolsOf(function) == IF function = "default" THEN <<>> ELSE FunctionTools

\* The allowed tools of the configuration (the function's, if none are given) and the additional
\* ones, without duplicates; a tool that must be called is among them.
ToolCallConfig(function, dynamic) ==
    LET allowed == IF dynamic.allowed = <<>> THEN ToolsOf(function) ELSE dynamic.allowed[1]
        available == allowed \o dynamic.additional
        choice == IF dynamic.choice = "absent" THEN "auto" ELSE dynamic.choice
    IN  IF ~(ToSet(allowed) \subseteq StaticTools) THEN Failed("ToolNotFound")
        ELSE IF Cardinality(ToSet(available)) # Len(available) THEN Failed("DuplicateTool")
        ELSE IF choice = "specific" /\ dynamic.tool \notin ToSet(available) THEN Failed("ToolNotFound")
        ELSE Ok(IF available = <<>> THEN NoToolConfig
                ELSE [tools |-> ToSet(available), choice |-> choice, specific |-> dynamic.tool])

PrepareToolConfig(function, dynamic) ==
    IF function # "json" THEN ToolCallConfig(function, dynamic)
    ELSE IF dynamic = NoDynamicTools THEN Ok(NoToolConfig)
    ELSE Failed("InvalidRequest")

\* The implicit tool takes the output as its arguments.
ImplicitTool == [tools |-> {"respond"}, choice |-> "specific", specific |-> "respond"]

\* The JSON mode of the request, or of the variant; off for a chat function, strict for a JSON
\* function; with the implicit tool the model is not asked for JSON.
PrepareModelInferenceRequest(ask, messages, system, tools) ==
    LET json == IF ask.json # "absent" THEN ask.json ELSE ask.base
        offered == IF ask.function = "json" /\ json = "implicit_tool" THEN ImplicitTool ELSE tools
    IN  [messages |-> messages, system |-> system,
         tools |-> offered.tools, choice |-> offered.choice, specific |-> offered.specific,
         function |-> IF ask.function = "json" THEN "json" ELSE "chat",
         json |-> CASE json = "implicit_tool" -> "off"
                    [] json = "absent" -> (IF ask.function = "json" THEN "strict" ELSE "off")
                    [] OTHER -> json,
         schema |-> ask.function = "json" \/ ask.schema]

\* inference() and the chat completion variant, up to the call of the model.
PrepareRequest(ask) ==
    LET tools == PrepareToolConfig(ask.function, ask.dynamic)
        input == Each(ask.messages, Resolve)
        messages == All([i \in DOMAIN input.value |-> PrepareRequestMessage(ask.function, input.value[i])])
        system == PrepareSystemMessage(ask.function, ask.system)
        checked == First(<<ValidateInferenceParams(ask), tools, input>>)
        rendered == First(<<messages, system>>)
    IN  IF ~checked.ok THEN checked
        ELSE IF ~rendered.ok THEN rendered
        ELSE Ok(PrepareModelInferenceRequest(ask, messages.value, system.value, tools.value))

-----------------------------------------------------------------------------
(***************************************************************************)
(* The output                                                               *)
(***************************************************************************)
\* A call of a known tool has a name, and arguments if they are valid; every call has raw ones.
ToolCallOutput(b, tools) ==
    LET known == ToSet(b.name) \subseteq tools
    IN  [type |-> "tool_call_input", id |-> b.id, name |-> IF known THEN <<b.name>> ELSE <<>>,
         arguments |-> IF known /\ IsObject(b.body) THEN <<b.body>> ELSE <<>>,
         raw_name |-> <<b.name>>, raw_arguments |-> <<b.body>>]

\* The chunks of a stream have only the raw ones.
ToolCallChunks(b) == [ToolCallOutput(b, {}) EXCEPT !.name = <<>>, !.arguments = <<>>]

\* The last text, or call, is the JSON output; there may be none.
JsonOutput(content) ==
    LET blocks == OfType(content, {"text", "tool_call"})
    IN  IF blocks = <<>> THEN <<>> ELSE <<Text(Last(blocks).body)>>

\* What a client of the inference endpoint has of an answer.
NativeOutput(r, content) ==
    IF r.function = "json" THEN JsonOutput(content)
    ELSE [i \in DOMAIN content |->
             IF content[i].type # "tool_call" THEN content[i]
             ELSE IF r.stream THEN ToolCallChunks(content[i]) ELSE ToolCallOutput(content[i], r.tools)]

\* The chunk of a JSON function: the last text, or arguments, and the last thought.
JsonChunk(content) ==
    LET raw == OfType(content, {"text", "tool_call"})
        thoughts == OfType(content, {"thought"})
    IN  [raw |-> IF raw = <<>> THEN <<>> ELSE <<Last(raw).body>>,
         thought |-> IF thoughts = <<>> THEN <<>> ELSE Last(thoughts).body]

\* collect_chunks for a JSON function: one text and one thought.
AddTo(content, b) ==
    LET at == {i \in DOMAIN content : content[i].type = b.type}
    IN  IF at = {} THEN Append(content, b) ELSE [content EXCEPT ![Min(at)] = Extended(@, <<>>, b.body, <<>>)]
CollectJson(blocks, chunk) ==
    LET texted == IF chunk.raw = <<>> THEN blocks ELSE AddTo(blocks, Text(chunk.raw[1]))
    IN  IF chunk.thought = <<>> THEN texted ELSE AddTo(texted, Thought(chunk.thought, <<>>))

=============================================================================

--------------------------- MODULE ProviderRequests ---------------------------
(***************************************************************************)
(* What each model provider is sent (providers/*.rs): the conversion of a   *)
(* ModelInferenceRequest into the messages, the tools and the response      *)
(* format of a provider's API.                                              *)
(*                                                                          *)
(* A content block has a type, an id and a name (of a tool call or result), *)
(* a body and a signature, the last three as sequences of pieces, empty for *)
(* None.  The piece "json" is a text that mentions JSON.                    *)
(***************************************************************************)
EXTENDS Integers, Sequences, SequencesExt, FiniteSets, FiniteSetsExt, Vectors

Block(type, id, name, body, sig) == [type |-> type, id |-> id, name |-> name, body |-> body, sig |-> sig]

\* A piece of a body is a string; these are the ones the gateway, or a client's next turn, writes.
Written == {"json", "listening", "brace", "template", "quote", "newline", "result", "u", "v"}
Words == STRING \cup Written
BlocksOf(types) == [type : types, id : Nat, name : Seq(STRING), body : Seq(Words), sig : Seq(STRING)]
BlockTypes == {"text", "thought", "tool_call", "tool_result", "image", "file", "unknown",
               "arguments", "raw_text", "reasoning", "invalid"}
Blocks == BlocksOf(BlockTypes)
Text(body) == Block("text", 0, <<>>, body, <<>>)
Message(role, content) == [role |-> role, content |-> content]

\* A result: a value, or the error it ends in.  First is the `?` of a sequence of them.
Ok(value) == [ok |-> TRUE, value |-> value, error |-> "none"]
Failed(error) == [ok |-> FALSE, value |-> <<>>, error |-> error]
Refused == Failed("Request")
First(results) ==
    LET failed == {i \in DOMAIN results : ~results[i].ok}
    IN  results[IF failed = {} THEN Len(results) ELSE Min(failed)]

\* The conversion of every element, in order, or the first error.
All(results) ==
    IF \A i \in DOMAIN results : results[i].ok
    THEN Ok(Flatten([i \in DOMAIN results |-> results[i].value]))
    ELSE First(results)
Each(s, Convert(_)) == All([i \in DOMAIN s |-> Convert(s[i])])

OfType(content, types) == Filter(content, {b \in ToSet(content) : b.type \in types})
Has(content, types) == \E i \in DOMAIN content : content[i].type \in types
NonEmpty(role, content) == IF content = <<>> THEN <<>> ELSE <<Message(role, content)>>
WithoutEmpty(messages) == Filter(messages, {m \in ToSet(messages) : m.content # <<>>})

\* The arguments of a call parse as a JSON object: one opening and one closing piece.
IsObject(body) == body = <<"open", "close">>

JsonMode(r) == r.json \in {"on", "strict"}
NoTools == [tools |-> {}, choice |-> "absent"]
Wire(messages, system, tools, format, usage) ==
    [messages |-> messages, system |-> system, tools |-> tools.tools, choice |-> tools.choice,
     format |-> format, usage |-> usage]

\* The wire request of converted messages, if they were; `usage`: its stream reports the usage.
Send(r, messages, system, tools, format, usage) ==
    IF messages.ok THEN Ok(Wire(messages.value, system, tools, format, usage /\ r.stream)) ELSE messages

-----------------------------------------------------------------------------
(***************************************************************************)
(* OpenAI and the providers that speak its API                              *)
(***************************************************************************)
ToolMessages(content) ==
    LET results == OfType(content, {"tool_result"})
    IN  [i \in DOMAIN results |-> Message("tool", <<results[i]>>)]

\* Mutant: the text goes before the results it comes with.
OpenAIUser_TextFirst(content) ==
    IF Has(content, {"tool_call"}) THEN Refused
    ELSE Ok(NonEmpty("user", OfType(content, {"text", "image", "file", "unknown"})) \o ToolMessages(content))

\* The results of the calls go first, each a message of its own; thoughts are dropped.
OpenAIUser(content) ==
    IF Has(content, {"tool_call"}) THEN Refused
    ELSE Ok(ToolMessages(content) \o NonEmpty("user", OfType(content, {"text", "image", "file", "unknown"})))

OpenAIAssistant(content) ==
    IF Has(content, {"tool_result", "file"}) THEN Refused
    ELSE Ok(OfType(content, {"text", "image", "unknown"}) \o OfType(content, {"tool_call"}))

OpenAIMessages(m) ==
    IF m.role = "user" THEN OpenAIUser(m.content)
    ELSE LET content == OpenAIAssistant(m.content)
         IN  IF content.ok THEN Ok(NonEmpty("assistant", content.value)) ELSE content

Mentions(body) == "json" \in ToSet(body)
MentionsJson(messages) ==
    \E i \in DOMAIN messages : \E j \in DOMAIN messages[i].content :
        messages[i].content[j].type \in {"text", "tool_result"} /\ Mentions(messages[i].content[j].body)

\* In JSON mode OpenAI wants the word JSON somewhere in the conversation.
OpenAISystem(system, json, messages) ==
    IF system = <<>>
    THEN IF json = "on" THEN <<Message("system", <<Text(<<"json">>)>>)>> ELSE <<>>
    ELSE IF json = "on" /\ ~MentionsJson(messages) /\ ~Mentions(system)
         THEN <<Message("system", <<Text(<<"json">> \o system)>>)>>
         ELSE <<Message("system", <<Text(system)>>)>>

PlainSystem(system) == IF system = <<>> THEN <<>> ELSE <<Message("system", <<Text(system)>>)>>

PrepareOpenAIMessages(r) ==
    LET messages == Each(r.messages, OpenAIMessages)
    IN  IF messages.ok THEN Ok(OpenAISystem(r.system, r.json, messages.value) \o messages.value) ELSE messages

PreparePlainMessages(r) ==
    LET messages == Each(r.messages, OpenAIMessages)
    IN  IF messages.ok THEN Ok(PlainSystem(r.system) \o messages.value) ELSE messages

OpenAITools(r) == IF r.choice = "no_tools" THEN NoTools ELSE [tools |-> r.tools, choice |-> r.choice]

\* A strict schema where there is one, otherwise any JSON object.
SchemaFormat(r) ==
    CASE r.json = "off" -> "absent"
      [] r.json = "on" -> "json_object"
      [] OTHER -> IF r.schema THEN "json_schema" ELSE "json_object"

OpenAIFormat(r) == IF r.model = "gpt-3.5" /\ r.json = "strict" THEN "json_object" ELSE SchemaFormat(r)

\* o1-mini knows no system message.
SystemToUser(r, messages) ==
    IF r.model = "o1-mini" /\ messages.ok /\ messages.value # <<>> /\ Head(messages.value).role = "system"
    THEN Ok(<<Message("user", Head(messages.value).content)>> \o Tail(messages.value))
    ELSE messages

OpenAIRequest(r) == Send(r, SystemToUser(r, PrepareOpenAIMessages(r)), <<>>, OpenAITools(r), OpenAIFormat(r), TRUE)

AzureTools(r) == IF r.choice = "required" THEN [tools |-> r.tools, choice |-> "auto"] ELSE OpenAITools(r)
AzureFormat(r) == SchemaFormat(r)
AzureRequest(r) == Send(r, PrepareOpenAIMessages(r), <<>>, AzureTools(r), AzureFormat(r), FALSE)

XAIFormat(r) == SchemaFormat(r)
XAIRequest(r) == Send(r, PrepareOpenAIMessages(r), <<>>, OpenAITools(r), XAIFormat(r), TRUE)

\* Hyperbolic is sent neither tools nor a format.
HyperbolicRequest(r) == Send(r, PrepareOpenAIMessages(r), <<>>, NoTools, "absent", FALSE)

TGIRequest(r) == Send(r, PrepareOpenAIMessages(r), <<>>, OpenAITools(r), "absent", TRUE)

\* JSON mode needs a schema.
SGLangFormat(r) ==
    CASE ~JsonMode(r) -> Ok("absent")
      [] JsonMode(r) /\ r.schema -> Ok("json_schema")
      [] OTHER -> Refused
SGLangRequest(r) ==
    IF SGLangFormat(r).ok
    THEN Send(r, PrepareOpenAIMessages(r), <<>>, OpenAITools(r), SGLangFormat(r).value, TRUE)
    ELSE SGLangFormat(r)

VLLMMessages(r) == PreparePlainMessages(r)
VLLMRequest(r) ==
    Send(r, VLLMMessages(r), <<>>, OpenAITools(r), IF JsonMode(r) /\ r.schema THEN "guided_json" ELSE "absent", TRUE)

TogetherMessages(r) == PreparePlainMessages(r)
TogetherRequest(r) ==
    Send(r, TogetherMessages(r), <<>>, IF r.choice = "none" THEN NoTools ELSE OpenAITools(r),
         IF JsonMode(r) THEN "json_object" ELSE "absent", FALSE)

FireworksMessages(r) == PreparePlainMessages(r)
FireworksRequest(r) ==
    Send(r, FireworksMessages(r), <<>>, OpenAITools(r), IF JsonMode(r) THEN "json_object" ELSE "absent", FALSE)

MistralMessages(r) == PreparePlainMessages(r)

\* Mistral cannot name the tool: it is offered that one alone, and must call.
MistralTools(r) ==
    CASE r.choice = "no_tools" -> NoTools
      [] r.choice = "none" -> [tools |-> {}, choice |-> "none"]
      [] r.choice = "specific" -> [tools |-> {r.specific}, choice |-> "required"]
      [] OTHER -> [tools |-> r.tools, choice |-> r.choice]
MistralRequest(r) ==
    Send(r, MistralMessages(r), <<>>, MistralTools(r), IF JsonMode(r) THEN "json_object" ELSE "absent", FALSE)

\* Groq and OpenRouter have their own copies; Groq keeps an empty assistant message, sends
\* any file as an image, and names the text format.
GroqUser(content) == OpenAIUser(content)
GroqAssistant(content) ==
    IF Has(content, {"tool_result"}) THEN Refused
    ELSE Ok(<<Message("assistant", OfType(content, {"text", "image", "file", "unknown"}) \o OfType(content, {"tool_call"}))>>)
GroqSystem(system, json, messages) == OpenAISystem(system, json, messages)
GroqMessage(m) == IF m.role = "user" THEN GroqUser(m.content) ELSE GroqAssistant(m.content)
GroqMessages(r) ==
    LET messages == Each(r.messages, GroqMessage)
    IN  IF messages.ok THEN Ok(GroqSystem(r.system, r.json, messages.value) \o messages.value) ELSE messages
GroqTools(r) == OpenAITools(r)
GroqFormat(r) == IF JsonMode(r) THEN "json_object" ELSE "text"
GroqRequest(r) == Send(r, SystemToUser(r, GroqMessages(r)), <<>>, GroqTools(r), GroqFormat(r), TRUE)

OpenRouterUser(content) == IF Has(content, {"file"}) THEN Refused ELSE OpenAIUser(content)
OpenRouterAssistant(content) ==
    LET converted == OpenAIAssistant(content)
    IN  IF converted.ok THEN Ok(NonEmpty("assistant", converted.value)) ELSE converted
OpenRouterSystem(system, json, messages) == OpenAISystem(system, json, messages)
OpenRouterMessage(m) == IF m.role = "user" THEN OpenRouterUser(m.content) ELSE OpenRouterAssistant(m.content)
OpenRouterMessages(r) ==
    LET messages == Each(r.messages, OpenRouterMessage)
    IN  IF messages.ok THEN Ok(OpenRouterSystem(r.system, r.json, messages.value) \o messages.value) ELSE messages
OpenRouterTools(r) == OpenAITools(r)
OpenRouterFormat(r) == OpenAIFormat(r)
OpenRouterRequest(r) ==
    Send(r, SystemToUser(r, OpenRouterMessages(r)), <<>>, OpenRouterTools(r), OpenRouterFormat(r), TRUE)

\* Two APIs take no two messages of one role in a row, but for the roles `apart`: the messages
\* done so far and the next one.  DeepSeek's calls of two messages follow their texts (`split`).
Joined(role, content, split) ==
    IF split /\ role = "assistant"
    THEN OfType(content, {"text", "image", "unknown"}) \o OfType(content, {"tool_call"}) ELSE content
Merge(done, m, apart, split) ==
    IF done # <<>> /\ Last(done).role = m.role /\ m.role \notin apart
    THEN Append(Front(done), Message(m.role, Joined(m.role, Last(done).content \o m.content, split)))
    ELSE Append(done, m)
Merges(messages, apart, split) ==
    LET done[n \in 0 .. Len(messages)] == IF n = 0 THEN <<>> ELSE Merge(done[n - 1], messages[n], apart, split) IN done
Merged(messages, apart, split) == Merges(messages, apart, split)[Len(messages)]

Coalesce(messages) == Merged(messages, {"tool"}, TRUE)

\* A reasoner is given the system message as the first message of the user.
DeepSeekMessages(r) ==
    LET messages == Each(r.messages, OpenAIMessages)
        system == IF r.model = "reasoner"
                  THEN IF r.system = <<>> THEN <<>> ELSE <<Message("user", <<Text(r.system)>>)>>
                  ELSE OpenAISystem(r.system, r.json, messages.value)
    IN  IF messages.ok THEN Ok(Coalesce(system \o messages.value)) ELSE messages
DeepSeekFormat(r) == IF JsonMode(r) THEN "json_object" ELSE "absent"
DeepSeekRequest(r) == Send(r, DeepSeekMessages(r), <<>>, OpenAITools(r), DeepSeekFormat(r), TRUE)

-----------------------------------------------------------------------------
(***************************************************************************)
(* Anthropic, and Anthropic's models on Vertex AI and Bedrock               *)
(***************************************************************************)
Listening == Message("user", <<Text(<<"listening">>)>>)
Prefill == Message("assistant", <<Text(<<"json">>)>>)
Prefills(r) == JsonMode(r) /\ r.function = "json"

\* A block of a request: kept, dropped (<<>>) or refused.
AnthropicBlock(b) ==
    CASE b.type = "tool_call" -> IF IsObject(b.body) THEN Ok(<<b>>) ELSE Refused
      [] b.type = "thought" -> IF b.body = <<>> /\ b.sig = <<>> THEN Ok(<<>>) ELSE Ok(<<b>>)
      [] OTHER -> Ok(<<b>>)

AnthropicMessage(m) ==
    LET content == Each(m.content, AnthropicBlock)
    IN  IF content.ok THEN Ok(<<Message(m.role, content.value)>>) ELSE content

\* The first message is the user's, and so is the last: the model would go on with its own.
Listen(messages) ==
    LET opened == IF messages = <<>> \/ Head(messages).role # "user" THEN <<Listening>> \o messages ELSE messages
    IN  IF Last(opened).role = "assistant" THEN Append(opened, Listening) ELSE opened

AnthropicPrepare(messages) == Listen(messages)
AnthropicPrefill(messages) == Append(messages, Prefill)

AnthropicTools(r) == IF r.choice = "none" THEN NoTools ELSE OpenAITools(r)

AnthropicRequest(r) ==
    LET messages == Each(r.messages, AnthropicMessage)
        prepared == AnthropicPrepare(messages.value)
    IN  IF r.messages = <<>> THEN Refused
        ELSE IF ~messages.ok THEN messages
        ELSE Send(r, Ok(IF Prefills(r) THEN AnthropicPrefill(prepared) ELSE prepared),
                  r.system, AnthropicTools(r), "absent", TRUE)

VertexAnthropicBlock(b) ==
    CASE b.type = "tool_call" -> IF IsObject(b.body) THEN Ok(<<b>>) ELSE Refused
      [] b.type = "thought" -> Ok(<<>>)
      [] b.type = "file" -> Refused
      [] OTHER -> Ok(<<b>>)

VertexAnthropicMessage(m) ==
    LET content == Each(m.content, VertexAnthropicBlock)
    IN  IF content.ok THEN Ok(<<Message(m.role, content.value)>>) ELSE content

Consolidate(messages) == Merged(messages, {}, FALSE)
VertexAnthropicPrepare(messages) == Listen(Consolidate(messages))
VertexAnthropicPrefill(messages) == Append(messages, Prefill)
VertexAnthropicTools(r) == IF r.choice = "none" THEN NoTools ELSE OpenAITools(r)

VertexAnthropicRequest(r) ==
    LET messages == Each(r.messages, VertexAnthropicMessage)
        prepared == VertexAnthropicPrepare(WithoutEmpty(messages.value))
    IN  IF r.messages = <<>> THEN Refused
        ELSE IF ~messages.ok THEN messages
        ELSE Send(r, Ok(IF Prefills(r) THEN VertexAnthropicPrefill(prepared) ELSE prepared),
                  r.system, VertexAnthropicTools(r), "absent", TRUE)

\* Arguments need only be JSON here; `open, close` is all of it that the model has.
BedrockBlock(b) ==
    CASE b.type = "tool_call" -> IF IsObject(b.body) THEN Ok(<<b>>) ELSE Refused
      [] b.type = "thought" -> Ok(<<>>)
      [] b.type = "unknown" -> Refused
      [] OTHER -> Ok(<<b>>)
BedrockMessage(m) ==
    LET content == Each(m.content, BedrockBlock)
    IN  IF content.ok THEN Ok(<<Message(m.role, content.value)>>) ELSE content
BedrockPrefills(r) == Prefills(r) /\ r.model = "claude"
BedrockPrefill(messages) == Append(messages, Prefill)
BedrockTools(r) == IF r.choice = "none" THEN NoTools ELSE OpenAITools(r)

\* Only `infer` leaves out the messages that have become empty.
BedrockRequest(r) ==
    LET messages == Each(r.messages, BedrockMessage)
        kept == IF r.stream THEN messages.value ELSE WithoutEmpty(messages.value)
    IN  IF ~messages.ok THEN messages
        ELSE Send(r, Ok(IF BedrockPrefills(r) THEN BedrockPrefill(kept) ELSE kept),
                  r.system, BedrockTools(r), "absent", TRUE)

-----------------------------------------------------------------------------
(***************************************************************************)
(* Gemini on Vertex AI and in Google AI Studio                              *)
(***************************************************************************)
\* Vertex AI takes any file; thoughts are dropped.
VertexGeminiBlock(b) ==
    CASE b.type = "tool_call" -> IF IsObject(b.body) THEN Ok(<<b>>) ELSE Refused
      [] b.type = "thought" -> Ok(<<>>)
      [] OTHER -> Ok(<<b>>)
VertexGeminiContent(m) ==
    LET content == Each(m.content, VertexGeminiBlock)
    IN  IF content.ok THEN Ok(<<Message(m.role, content.value)>>) ELSE content

\* Some models on Vertex AI cannot be made to call a tool.
VertexGeminiToolConfig(r) ==
    IF r.model = "no_any" /\ r.choice \in {"required", "specific"} THEN "auto" ELSE r.choice
VertexGeminiTools(r) ==
    IF r.choice = "no_tools" THEN NoTools ELSE [tools |-> r.tools, choice |-> VertexGeminiToolConfig(r)]

GeminiFormat(r) == IF JsonMode(r) THEN (IF r.schema THEN "json_schema" ELSE "json_object") ELSE "absent"

VertexGeminiRequest(r) ==
    LET messages == Each(r.messages, VertexGeminiContent)
    IN  IF r.messages = <<>> THEN Refused
        ELSE IF ~messages.ok THEN messages
        ELSE Send(r, Ok(WithoutEmpty(messages.value)), r.system, VertexGeminiTools(r), GeminiFormat(r), TRUE)

StudioBlock(b) ==
    CASE b.type = "tool_call" -> IF IsObject(b.body) THEN Ok(<<b>>) ELSE Refused
      [] b.type = "file" -> Refused
      [] OTHER -> Ok(<<b>>)

\* A thought that is only a signature is attached to the block that follows it, and that has to
\* be a block it can be attached to; a thought with a text is dropped.
StudioPart(content, i) ==
    LET b == content[i]
        signature == IF i > 1 /\ content[i - 1].type = "thought" /\ content[i - 1].body = <<>>
                     THEN content[i - 1].sig ELSE <<>>
        next == IF i < Len(content) THEN content[i + 1].type ELSE "none"
    IN  IF b.type # "thought" THEN StudioBlock([b EXCEPT !.sig = signature])
        ELSE IF b.body = <<>> /\ b.sig # <<>> /\ next \in {"none", "thought", "unknown"} THEN Refused
        ELSE Ok(<<>>)

\* Mutant: the signature of a thought is dropped with it.
StudioParts_NoSignature(content) == Each(Filter(content, {b \in ToSet(content) : b.type # "thought"}), StudioBlock)

StudioParts(content) == All([i \in DOMAIN content |-> StudioPart(content, i)])
StudioContent(m) ==
    LET parts == StudioParts(m.content)
    IN  IF parts.ok THEN Ok(<<Message(m.role, parts.value)>>) ELSE parts
StudioToolConfig(r) == r.choice
StudioTools(r) == IF r.choice = "no_tools" THEN NoTools ELSE [tools |-> r.tools, choice |-> StudioToolConfig(r)]

StudioRequest(r) ==
    LET messages == Each(r.messages, StudioContent)
    IN  IF r.messages = <<>> THEN Refused
        ELSE IF ~messages.ok THEN messages
        ELSE Send(r, Ok(WithoutEmpty(messages.value)), r.system, StudioTools(r), GeminiFormat(r), TRUE)

=============================================================================

----------------------------- MODULE ProviderCall -----------------------------
(***************************************************************************)
(* An inference, from the request at either endpoint through the function   *)
(* to the call of a model provider (providers/*.rs), back to the client as  *)
(* an answer, streamed or not, and the next turn of the conversation, which *)
(* sends that answer back.                                                  *)
(*                                                                          *)
(* The provider is the environment: it answers with a status and a response *)
(* or with a stream of events, in which the calls of tools may interleave   *)
(* where its API lets them, and an event may be garbled.                    *)
(***************************************************************************)
EXTENDS OpenAICompatible

OpenAILike == {"openai", "azure", "xai", "hyperbolic", "vllm", "sagemaker", "groq", "openrouter", "sglang",
               "tgi", "deepseek", "together", "fireworks", "mistral"}
Gemini == {"vertex_gemini", "studio"}

CONSTANTS Providers,      \* the providers to check
          Asks(_),        \* the requests at the gateway that lead to a provider
          Replies(_, _),  \* the answers of a provider to a chat or a JSON function
          SplitCalls      \* the providers that may spread a tool call over several events

DynamicTools == [allowed : Seq(Seq(STRING)), additional : Seq(STRING), tool : STRING,
                 choice : {"absent", "none", "auto", "required", "specific"}]

\* The requests at an endpoint.  A result directly follows the call it answers, or other results.
AsksAt(endpoint, messages) ==
    [endpoint : {endpoint}, messages : Seq(messages), system : Seq(Blocks), function : STRING, json : STRING, base : STRING,
     schema : BOOLEAN, dynamic : DynamicTools, key : STRING, model : STRING, stream : BOOLEAN, discard : BOOLEAN,
     format : STRING, header : STRING, before : Seq(Blocks), whole : BOOLEAN, status : {200}, choices : {1}, answer : {<<>>}]

ResultsFollow(m) ==
    \A i \in DOMAIN m : m[i].role = "user" /\ Has(m[i].content, {"tool_result"}) =>
        /\ i > 1
        /\ \/ Has(m[i - 1].content, {"tool_call", "tool_call_input"})
           \/ /\ m[i - 1].role = "user" /\ m[i - 1].content # <<>>
              /\ \A j \in DOMAIN m[i - 1].content : m[i - 1].content[j].type = "tool_result"
OpenAIResultsFollow(m) ==
    \A i \in DOMAIN m : m[i].role = "tool" =>
        /\ m[i].content # <<>>
        /\ \/ ResultName(m, i) = <<>>
           \/ i > 1 /\ (m[i - 1].role = "tool" \/ (m[i - 1].role # "system" /\ m[i - 1].calls # <<>>))
ClientRequests ==
    {a \in AsksAt("native", Inputs) : ResultsFollow(a.messages)}
      \cup {a \in AsksAt("openai", OpenAIInputs) : OpenAIResultsFollow(a.messages)}

ASSUME ProvidersAssumption == Providers \subseteq OpenAILike \cup Gemini \cup {"anthropic", "vertex_anthropic", "bedrock"}
ASSUME AsksAssumption == \A p \in Providers : Asks(p) \subseteq ClientRequests
ASSUME RepliesAssumption == \A p \in Providers, f \in {"chat", "json"} : Replies(p, f) \subseteq Seq(Blocks)

VARIABLES provider, \* the provider called
          call,     \* the request: the client's, then the model's, with its credential and the reply
          phase,    \* "asked", "new", "sent", "streaming", then "answered" or "failed"
          sent,     \* the wire request, between sending it and the reply
          left,     \* of the stream: the events still to come, in sequences that may interleave
          st,       \* of the stream: what its adapter remembers
          first,    \* of the stream: no chunk has been yielded
          got,      \* the content blocks of the answer so far
          received, \* what a client of the OpenAI-compatible endpoint has put together of a stream
          usage,    \* the usage added up so far: input and output
          error,    \* the error the call or an event of its stream ended in
          turn      \* the turn of the conversation

vars == <<provider, call, phase, sent, left, st, first, got, received, usage, error, turn>>

-----------------------------------------------------------------------------
(***************************************************************************)
(* Credentials, statuses, and the whole of `infer` and of the opening of    *)
(* `infer_stream`, provider by provider                                     *)
(***************************************************************************)
\* A dynamic key has to come with the inference.  Without a configured key, some providers
\* are called without one.
RequiredKey(c) == IF c.key \in {"static", "dynamic"} THEN Ok(<<>>) ELSE Failed("ApiKeyMissing")
OptionalKey(c) == IF c.key # "dynamic_missing" THEN Ok(<<>>) ELSE Failed("ApiKeyMissing")

OpenAIKey(c) == OptionalKey(c)
AzureKey(c) == RequiredKey(c)
DeepSeekKey(c) == RequiredKey(c)
FireworksKey(c) == RequiredKey(c)
TogetherKey(c) == RequiredKey(c)
GroqKey(c) == OptionalKey(c)
OpenRouterKey(c) == OptionalKey(c)
XAIKey(c) == RequiredKey(c)
HyperbolicKey(c) == RequiredKey(c)
SGLangKey(c) == OptionalKey(c)
TGIKey(c) == OptionalKey(c)
VLLMKey(c) == OptionalKey(c)
MistralKey(c) == RequiredKey(c)
AnthropicKey(c) == RequiredKey(c)
VertexKey(c) == RequiredKey(c)
StudioKey(c) == RequiredKey(c)

\* The error of a status: the client's or the provider's.
Status(c, clients) ==
    CASE c.status = 200 -> Ok(<<>>)
      [] c.status \in clients -> Failed("InferenceClient")
      [] OTHER -> Failed("InferenceServer")

OpenAIStatus(c) == Status(c, {400, 401, 403, 429})
TGIStatus(c) == Status(c, {400, 401, 403, 429})
MistralStatus(c) == Status(c, {400, 401, 403, 429})
GroqStatus(c) == Status(c, {400, 401, 403, 429})
OpenRouterStatus(c) == Status(c, {400, 401, 403, 429})
AnthropicStatus(c) == Status(c, {400, 401, 413, 429})
VertexAnthropicStatus(c) == Status(c, {400, 401, 413, 429})
VertexGeminiStatus(c) == Status(c, {400, 401, 413, 429})
StudioStatus(c) == Status(c, {400, 401, 413, 429})
AWSStatus(c) == Status(c, {})

OpenAIInfer(c) == First(<<OpenAIKey(c), OpenAIRequest(c), OpenAIStatus(c), OpenAIResponse(c)>>)
AzureInfer(c) == First(<<AzureRequest(c), AzureKey(c), OpenAIStatus(c), AzureResponse(c)>>)
DeepSeekInfer(c) == First(<<DeepSeekRequest(c), DeepSeekKey(c), OpenAIStatus(c), DeepSeekResponse(c)>>)
FireworksInfer(c) == First(<<FireworksRequest(c), FireworksKey(c), OpenAIStatus(c), FireworksResponse(c)>>)
TogetherInfer(c) == First(<<TogetherRequest(c), TogetherKey(c), OpenAIStatus(c), TogetherResponse(c)>>)
GroqInfer(c) == First(<<GroqKey(c), GroqRequest(c), GroqStatus(c), GroqResponse(c)>>)
OpenRouterInfer(c) == First(<<OpenRouterKey(c), OpenRouterRequest(c), OpenRouterStatus(c), OpenRouterResponse(c)>>)
XAIInfer(c) == First(<<XAIRequest(c), XAIKey(c), OpenAIStatus(c), XAIResponse(c)>>)
HyperbolicInfer(c) == First(<<HyperbolicRequest(c), HyperbolicKey(c), OpenAIStatus(c), HyperbolicResponse(c)>>)
SGLangInfer(c) == First(<<SGLangRequest(c), SGLangKey(c), OpenAIStatus(c), SGLangResponse(c)>>)
TGIInfer(c) == First(<<TGIRequest(c), TGIKey(c), TGIStatus(c), TGIResponse(c)>>)
VLLMInfer(c) == First(<<VLLMRequest(c), VLLMKey(c), OpenAIStatus(c), VLLMResponse(c)>>)
MistralInfer(c) == First(<<MistralRequest(c), MistralKey(c), MistralStatus(c), MistralResponse(c)>>)
AnthropicInfer(c) == First(<<AnthropicRequest(c), AnthropicKey(c), AnthropicStatus(c), AnthropicResponse(c)>>)
VertexAnthropicInfer(c) ==
    First(<<VertexAnthropicRequest(c), VertexKey(c), VertexAnthropicStatus(c), VertexAnthropicResponse(c)>>)
VertexGeminiInfer(c) == First(<<VertexGeminiRequest(c), VertexKey(c), VertexGeminiStatus(c), VertexGeminiResponse(c)>>)
StudioInfer(c) == First(<<StudioRequest(c), StudioKey(c), StudioStatus(c), StudioResponse(c)>>)

\* AWS signs its requests with its own credentials; SageMaker hosts an OpenAI-like server.
BedrockInfer(c) == First(<<BedrockRequest(c), AWSStatus(c), BedrockResponse(c)>>)
SageMakerInfer(c) == First(<<OpenAIRequest(c), AWSStatus(c), OpenAIResponse(c)>>)

\* The status of a stream is found out with its first event.
OpenAIOpen(c) == First(<<OpenAIRequest(c), OpenAIKey(c)>>)
AzureOpen(c) == First(<<AzureRequest(c), AzureKey(c)>>)
DeepSeekOpen(c) == First(<<DeepSeekRequest(c), DeepSeekKey(c)>>)
FireworksOpen(c) == First(<<FireworksRequest(c), FireworksKey(c)>>)
TogetherOpen(c) == First(<<TogetherRequest(c), TogetherKey(c)>>)
GroqOpen(c) == First(<<GroqRequest(c), GroqKey(c)>>)
OpenRouterOpen(c) == First(<<OpenRouterRequest(c), OpenRouterKey(c)>>)
XAIOpen(c) == First(<<XAIRequest(c), XAIKey(c)>>)
HyperbolicOpen(c) == First(<<HyperbolicRequest(c), HyperbolicKey(c)>>)
SGLangOpen(c) == First(<<SGLangRequest(c), SGLangKey(c)>>)
TGIOpen(c) == First(<<TGIRequest(c), TGIKey(c)>>)
VLLMOpen(c) == First(<<VLLMRequest(c), VLLMKey(c)>>)
MistralOpen(c) == First(<<MistralRequest(c), MistralKey(c)>>)
AnthropicOpen(c) == First(<<AnthropicRequest(c), AnthropicKey(c)>>)
VertexAnthropicOpen(c) == First(<<VertexAnthropicRequest(c), VertexKey(c)>>)
VertexGeminiOpen(c) == First(<<VertexGeminiRequest(c), VertexKey(c)>>)
StudioOpen(c) == First(<<StudioRequest(c), StudioKey(c)>>)
BedrockOpen(c) == BedrockRequest(c)
SageMakerOpen(c) == OpenAIRequest(c)

-----------------------------------------------------------------------------
Request(p, c) ==
    CASE p = "openai" -> OpenAIRequest(c) [] p = "azure" -> AzureRequest(c)
      [] p = "deepseek" -> DeepSeekRequest(c) [] p = "fireworks" -> FireworksRequest(c)
      [] p = "together" -> TogetherRequest(c) [] p = "groq" -> GroqRequest(c)
      [] p = "openrouter" -> OpenRouterRequest(c) [] p = "xai" -> XAIRequest(c)
      [] p = "hyperbolic" -> HyperbolicRequest(c) [] p = "sglang" -> SGLangRequest(c)
      [] p = "tgi" -> TGIRequest(c) [] p = "vllm" -> VLLMRequest(c) [] p = "mistral" -> MistralRequest(c)
      [] p = "anthropic" -> AnthropicRequest(c) [] p = "vertex_anthropic" -> VertexAnthropicRequest(c)
      [] p = "vertex_gemini" -> VertexGeminiRequest(c) [] p = "studio" -> StudioRequest(c)
      [] p = "bedrock" -> BedrockRequest(c) [] p = "sagemaker" -> OpenAIRequest(c)

Infer(p, c) ==
    CASE p = "openai" -> OpenAIInfer(c) [] p = "azure" -> AzureInfer(c)
      [] p = "deepseek" -> DeepSeekInfer(c) [] p = "fireworks" -> FireworksInfer(c)
      [] p = "together" -> TogetherInfer(c) [] p = "groq" -> GroqInfer(c)
      [] p = "openrouter" -> OpenRouterInfer(c) [] p = "xai" -> XAIInfer(c)
      [] p = "hyperbolic" -> HyperbolicInfer(c) [] p = "sglang" -> SGLangInfer(c)
      [] p = "tgi" -> TGIInfer(c) [] p = "vllm" -> VLLMInfer(c) [] p = "mistral" -> MistralInfer(c)
      [] p = "anthropic" -> AnthropicInfer(c) [] p = "vertex_anthropic" -> VertexAnthropicInfer(c)
      [] p = "vertex_gemini" -> VertexGeminiInfer(c) [] p = "studio" -> StudioInfer(c)
      [] p = "bedrock" -> BedrockInfer(c) [] p = "sagemaker" -> SageMakerInfer(c)

InferStream(p, c) ==
    CASE p = "openai" -> OpenAIOpen(c) [] p = "azure" -> AzureOpen(c)
      [] p = "deepseek" -> DeepSeekOpen(c) [] p = "fireworks" -> FireworksOpen(c)
      [] p = "together" -> TogetherOpen(c) [] p = "groq" -> GroqOpen(c)
      [] p = "openrouter" -> OpenRouterOpen(c) [] p = "xai" -> XAIOpen(c)
      [] p = "hyperbolic" -> HyperbolicOpen(c) [] p = "sglang" -> SGLangOpen(c)
      [] p = "tgi" -> TGIOpen(c) [] p = "vllm" -> VLLMOpen(c) [] p = "mistral" -> MistralOpen(c)
      [] p = "anthropic" -> AnthropicOpen(c) [] p = "vertex_anthropic" -> VertexAnthropicOpen(c)
      [] p = "vertex_gemini" -> VertexGeminiOpen(c) [] p = "studio" -> StudioOpen(c)
      [] p = "bedrock" -> BedrockOpen(c) [] p = "sagemaker" -> SageMakerOpen(c)

\* The chunk of an event.  Azure, xAI, Hyperbolic, vLLM and SageMaker use stream_openai.
StreamEvent(p, s, deltas, discard) ==
    CASE p = "deepseek" -> StreamDeepSeek(s, deltas) [] p = "fireworks" -> StreamFireworks(s, deltas)
      [] p = "together" -> StreamTogether(s, deltas) [] p = "groq" -> StreamGroq(s, deltas)
      [] p = "openrouter" -> StreamOpenRouter(s, deltas) [] p = "sglang" -> StreamSGLang(s, deltas)
      [] p = "tgi" -> StreamTGI(s, deltas) [] p = "mistral" -> StreamMistral(s, deltas)
      [] p = "anthropic" -> StreamAnthropic(s, deltas, discard)
      [] p = "vertex_anthropic" -> StreamVertexAnthropic(s, deltas, discard)
      [] p = "vertex_gemini" -> StreamVertexGemini(s, deltas, discard)
      [] p = "studio" -> StreamStudio(s, deltas, discard)
      [] p = "bedrock" -> StreamBedrock(s, deltas)
      [] OTHER -> StreamOpenAI(s, deltas)

\* AI Studio reports the running usage in every chunk: only that of the last one is passed on.
StudioUsage(e) == IF e.last THEN e.usage ELSE <<0, 0>>

ChunkUsage(p, e) == IF p = "studio" THEN StudioUsage(e) ELSE e.usage

\* The streams whose first chunk `infer_stream` waits for, to put the "{" in front.
PrefillsStream(p, c) ==
    \/ p \in {"anthropic", "vertex_anthropic"} /\ Prefills(c)
    \/ p = "bedrock" /\ BedrockPrefills(c)

\* The events that make no chunk at all.
Quiet(p, d, discard) ==
    \/ d.type = "stop"
    \/ p = "bedrock" /\ (d.type = "usage_input" \/ (d.type = "start" /\ d.of = "text"))
    \/ p \in {"anthropic", "vertex_anthropic"} /\ d.of = "unknown" /\ discard
    \/ p = "vertex_anthropic" /\ d.of = "thought" /\ discard

-----------------------------------------------------------------------------
(***************************************************************************)
(* The environment: the calls made, the answers given, the streams sent     *)
(***************************************************************************)
User(content) == Message("user", content)
Assistant(content) == Message("assistant", content)
Hello == User(<<Text(<<"u">>)>>)
Bye == User(<<Text(<<"v">>)>>)

\* A request to the gateway.
Asked == [endpoint |-> "native", messages |-> <<Hello>>, system |-> <<>>, function |-> "chat", json |-> "absent",
          base |-> "absent", schema |-> FALSE, dynamic |-> NoDynamicTools, key |-> "static", model |-> "plain",
          stream |-> FALSE, discard |-> FALSE, format |-> "absent", header |-> "absent", before |-> <<>>, whole |-> TRUE,
          status |-> 200, choices |-> 1, answer |-> <<>>]

\* A tool is called only if one was offered.
Answers(p, wire, c) == {a \in Replies(p, c.function) : wire.tools # {} \/ ~Has(a, {"tool_call"})}

Delta(type, of, index, id, name, body, sig) ==
    [type |-> type, of |-> of, index |-> index, id |-> id, name |-> name, body |-> body, sig |-> sig]
Signal(type) == Delta(type, "signal", 0, 0, <<>>, <<>>, <<>>)
PiecesOf(b, type, index) ==
    [i \in DOMAIN b.body |-> Delta(type, b.type, index, 0, <<>>, <<b.body[i]>>, <<>>)]

\* A call, with its arguments in its first delta or after it; Mistral names it in each delta.
CallDeltas(p, b, index, atOnce) ==
    CASE atOnce -> <<Delta("tool_call", b.type, index, b.id, b.name, b.body, <<>>)>>
      [] ~atOnce /\ p = "mistral" -> [i \in DOMAIN b.body |-> Delta("tool_call", b.type, index, b.id, b.name, <<b.body[i]>>, <<>>)]
      [] OTHER -> <<Delta("tool_call", b.type, index, b.id, b.name, <<>>, <<>>)>> \o PiecesOf(b, "tool_call", index)

\* OpenAI's stream: the text, each call, and the end with the usage, if it is reported.
OpenAIThreads(p, wire, answer, atOnce) ==
    LET calls == OfType(answer, {"tool_call"})
        said == Filter(answer, {b \in ToSet(answer) : b.type # "tool_call"})
        end == <<Signal(IF wire.usage \/ p \in {"together", "fireworks", "mistral"} THEN "usage" ELSE "end")>>
        deltas == [i \in DOMAIN calls |->
                      CallDeltas(p, calls[i], IF p = "sglang" /\ Len(calls) = 1 THEN 0 ELSE i, atOnce)]
    IN  <<<<Delta("text", "text", 0, 0, <<>>, <<>>, <<>>)>>
            \o Flatten([i \in DOMAIN said |-> PiecesOf(said[i], said[i].type, 0)])>>
          \o (IF p = "mistral" THEN <<Flatten(deltas)>> ELSE deltas) \o <<end>>

\* Anthropic's: each block starts, goes on and stops before the next.
AnthropicThread(p, answer) ==
    LET Start1(b, i) == [Delta("start", b.type, i - 1, b.id, b.name, <<>>, <<>>)
                            EXCEPT !.sig = IF b.body = <<>> THEN b.sig ELSE <<>>]
        Sign(b, i) == IF b.body # <<>> /\ b.sig # <<>>
                      THEN <<Delta("delta", b.type, i - 1, 0, <<>>, <<>>, b.sig)>> ELSE <<>>
        Stop(i) == Delta("stop", "signal", i - 1, 0, <<>>, <<>>, <<>>)
        Events(i) == LET b == answer[i] IN <<Start1(b, i)>> \o PiecesOf(b, "delta", i - 1) \o Sign(b, i) \o <<Stop(i)>>
    IN  <<<<Signal("usage_input")>> \o Flatten([i \in DOMAIN answer |-> Events(i)]) \o <<Signal("usage_output")>>>>

\* Gemini's: parts, a call in one.  A signature comes with the last part of a thought and with
\* the first of another block.
GeminiThread(answer) ==
    LET Parts(b) ==
            IF b.type = "tool_call" THEN <<Delta(b.type, b.type, 0, 0, b.name, b.body, b.sig)>>
            ELSE [i \in DOMAIN b.body |->
                     Delta(b.type, b.type, 0, 0, <<>>, <<b.body[i]>>,
                           IF i = (IF b.type = "thought" THEN Len(b.body) ELSE 1) THEN b.sig ELSE <<>>)]
    IN  <<Flatten([i \in DOMAIN answer |-> Parts(answer[i])])>>

Threads(p, wire, answer, atOnce) ==
    CASE p \in OpenAILike -> OpenAIThreads(p, wire, answer, atOnce)
      [] p \in Gemini -> GeminiThread(answer)
      [] OTHER -> AnthropicThread(p, answer)

\* A call starts after the calls before it, the end comes last.
Started(thread) == thread # <<>> => Head(thread).id = 0
MayCome(i) ==
    /\ left[i] # <<>>
    /\ Head(left[i]).id # 0 => \A j \in 1..(i - 1) : Started(left[j])
    /\ Head(left[i]).type \in {"usage", "end"} => \A j \in DOMAIN left : j # i => left[j] = <<>>

\* The usage an event reports: AI Studio's is a running one, Bedrock's comes after the message.
EventUsage(p, deltas, last) ==
    IF p = "bedrock" THEN IF deltas[1].type = "usage_output" THEN <<1, 1>> ELSE <<0, 0>>
    ELSE IF p = "studio" \/ (p = "vertex_gemini" /\ last) THEN <<1, 1>>
    ELSE CASE deltas[1].type = "usage" -> <<1, 1>>
           [] deltas[1].type = "usage_input" -> <<1, 0>>
           [] deltas[1].type = "usage_output" -> <<0, 1>>
           [] OTHER -> <<0, 0>>

-----------------------------------------------------------------------------
(***************************************************************************)
(* The call                                                                 *)
(***************************************************************************)
NothingSent == Wire(<<>>, <<>>, NoTools, "absent", FALSE)
NoUsage == <<0, 0>>
AddUsage(a, b) == <<a[1] + b[1], a[2] + b[2]>>

Init ==
    /\ provider \in Providers
    /\ call \in Asks(provider)
    /\ phase = "asked" /\ sent = NothingSent /\ left = <<>> /\ st = Start /\ first = TRUE
    /\ got = <<>> /\ received = NothingReceived /\ usage = NoUsage /\ error = "none" /\ turn = 1

\* What of a call still matters once it is answered.
Answered(answer) == [call EXCEPT !.messages = <<Hello>>, !.system = <<>>, !.key = "static", !.choice = "auto",
                                 !.specific = "none", !.answer = answer]

Fail(why) == phase' = "failed" /\ error' = why /\ sent' = NothingSent /\ UNCHANGED <<left, st, first, got, received, usage>>

\* The request of the model, with what of the client's still matters, before there is a reply.
Called(r, ask) ==
    [messages |-> r.messages, system |-> r.system, function |-> r.function, json |-> r.json, schema |-> r.schema,
     tools |-> r.tools, choice |-> r.choice, specific |-> r.specific,
     endpoint |-> ask.endpoint, key |-> ask.key, model |-> ask.model, stream |-> ask.stream,
     discard |-> ask.discard, before |-> ask.before, whole |-> ask.whole,
     status |-> 200, choices |-> 1, answer |-> <<>>]

\* The request of the model, from the request at an endpoint.
Handle(ask) ==
    LET params == IF ask.endpoint = "openai" THEN OpenAIParams(ask) ELSE Ok(ask)
        request == PrepareRequest(params.value)
    IN  IF ~params.ok THEN params
        ELSE IF ~request.ok THEN request
        ELSE Ok(Called(request.value, ask))

Ask ==
    LET request == Handle(call)
    IN  /\ phase = "asked"
        /\ IF request.ok
           THEN /\ phase' = "new" /\ call' = request.value
                /\ UNCHANGED <<sent, left, st, first, got, received, usage, error>>
           ELSE Fail(request.error) /\ UNCHANGED call
        /\ UNCHANGED <<provider, turn>>

\* The request is converted, its key found, and it is sent (for all it knows, answered with nothing).
Prepare ==
    LET result == IF call.stream THEN InferStream(provider, call) ELSE Infer(provider, call)
    IN  /\ phase = "new"
        /\ IF result.ok
           THEN /\ phase' = "sent" /\ sent' = Request(provider, call).value
                /\ UNCHANGED <<left, st, first, got, received, usage, error>>
           ELSE Fail(result.error)
        /\ UNCHANGED <<provider, call, turn>>

\* The reply to a request that is not streamed.
Respond ==
    /\ phase = "sent" /\ ~call.stream /\ turn = 1
    /\ \E answer \in Answers(provider, sent, call), status \in {200, 400, 403, 413, 500}, choices \in 0..2 :
          LET result == Infer(provider, [call EXCEPT !.status = status, !.choices = choices, !.answer = answer])
          IN  /\ call' = Answered(answer)
              /\ IF result.ok
                 THEN /\ phase' = "answered" /\ got' = result.value /\ usage' = <<1, 1>> /\ sent' = NothingSent
                      /\ UNCHANGED <<left, st, first, received, error>>
                 ELSE Fail(result.error)
    /\ UNCHANGED <<provider, turn>>

\* A stream is opened.  The error of its status is the first thing peek_first_chunk finds in it.
OpenStream ==
    /\ phase = "sent" /\ call.stream /\ turn = 1
    /\ \/ \E answer \in Answers(provider, sent, call), atOnce \in {b \in BOOLEAN : b \/ provider \in SplitCalls} :
             /\ phase' = "streaming" /\ left' = Threads(provider, sent, answer, atOnce)
             /\ call' = Answered(answer)
             /\ sent' = NothingSent
             /\ UNCHANGED <<st, first, got, received, usage, error>>
       \/ Fail("InferenceServer") /\ UNCHANGED call
    /\ UNCHANGED <<provider, turn>>

\* How many deltas the next event of a thread may hold: Gemini's parts, Mistral's calls (of a JSON
\* function one: of two texts in a chunk only the last is kept).
MostDeltas(thread) ==
    IF /\ Len(thread) > 1 /\ call.function # "json"
       /\ provider \in Gemini \/ (provider = "mistral" /\ Head(thread).type = "tool_call")
    THEN 2 ELSE 1

\* The next event of a stream, with one delta or two, becomes a chunk, which is collected.
\* An error is passed on in the place of a chunk; as the first chunk it fails the call.
Event ==
    /\ phase = "streaming"
    /\ \E i \in DOMAIN left : \E n \in 1..MostDeltas(left[i]) :
          /\ MayCome(i)
          /\ LET deltas == SubSeq(left[i], 1, n)
                 rest == [left EXCEPT ![i] = SubSeq(@, n + 1, Len(@))]
                 last == \A j \in DOMAIN rest : rest[j] = <<>>
                 chunk == StreamEvent(provider, st, deltas, call.discard)
                 quiet == Quiet(provider, deltas[1], call.discard)
                 content == IF first /\ ~quiet /\ PrefillsStream(provider, call)
                            THEN PrefillChunk(chunk.content) ELSE chunk.content
             IN  IF ~chunk.ok /\ first THEN Fail("InferenceServer")
                 ELSE /\ left' = IF last THEN <<>> ELSE rest
                      /\ phase' = IF last THEN "answered" ELSE "streaming"
                      /\ st' = IF last THEN Start ELSE chunk.st
                      /\ first' = (first /\ quiet)
                      /\ got' = IF ~chunk.ok THEN got
                                ELSE IF call.function = "json" THEN CollectJson(got, JsonChunk(content))
                                ELSE CollectAll(got, content)
                      /\ received' = IF call.endpoint = "openai" THEN PrepareEvents(received, call, chunk, content) ELSE received
                      /\ usage' = IF chunk.ok
                                  THEN AddUsage(usage, ChunkUsage(provider,
                                           [usage |-> EventUsage(provider, deltas, last), last |-> last]))
                                  ELSE usage
                      /\ error' = IF chunk.ok \/ error # "none" THEN error ELSE "InferenceServer"
                      /\ UNCHANGED sent
    /\ UNCHANGED <<provider, call, turn>>

\* An event that cannot be parsed is an error (told apart from those of the adapter), and lost.
Garbled ==
    /\ phase = "streaming" /\ error = "none"
    /\ IF first THEN Fail("Garbled")
       ELSE /\ \E i \in DOMAIN left :
                  /\ MayCome(i) /\ Head(left[i]).type \notin {"usage", "end"} /\ Len(left[i]) > 1
                  /\ left' = [left EXCEPT ![i] = Tail(@)]
            /\ error' = "Garbled"
            /\ UNCHANGED <<phase, sent, st, first, got, received, usage>>
    /\ UNCHANGED <<provider, call, turn>>

\* The messages of the next turn: the answer as the client has it, with the results of its calls.
NativeTurn ==
    LET calls == OfType(got, {"tool_call"})
        results == [i \in DOMAIN calls |-> [calls[i] EXCEPT !.type = "tool_result", !.body = <<"result">>]]
    IN  <<Hello, Assistant(NativeOutput(call, got)),
          IF call.function = "json" \/ calls = <<>> THEN Bye ELSE User(results)>>
OpenAITurn ==
    LET answer == OpenAIAnswer(IF call.stream THEN received ELSE OpenAICompatibleResponse(call, got))
        bye == IF Len(answer) = 1 THEN <<OpenAIMessage("user", Bye.content, <<>>, 0)>> ELSE <<>>
    IN  <<OpenAIMessage("user", Hello.content, <<>>, 0)>> \o answer \o bye

\* A client goes on with an answer; one of the OpenAI-compatible endpoint is not told of errors.
GoesOn ==
    phase = "answered" /\ turn = 1
        /\ IF call.endpoint = "openai" THEN OpenAITurn[2].content # <<>> \/ OpenAITurn[2].calls # <<>>
           ELSE error = "none" /\ NativeOutput(call, got) # <<>>

\* The client sends the answer back.
SendBack ==
    /\ GoesOn
    /\ call' = [Asked EXCEPT !.endpoint = call.endpoint, !.messages = IF call.endpoint = "openai" THEN OpenAITurn ELSE NativeTurn,
                             !.function = call.function,
                             !.json = IF call.tools = {"respond"} THEN "absent" ELSE call.json,
                             !.format = IF call.tools = {"respond"} THEN "absent"
                                        ELSE CASE call.json = "on" -> "json_object"
                                               [] call.json = "strict" -> "json_schema" [] OTHER -> "text",
                             !.base = IF call.tools = {"respond"} THEN "implicit_tool" ELSE "absent",
                             !.schema = call.schema, !.model = call.model, !.stream = call.stream, !.before = got, !.whole = (error = "none")]
    /\ phase' = "asked" /\ turn' = 2 /\ got' = <<>> /\ received' = NothingReceived
    /\ usage' = NoUsage /\ first' = TRUE /\ error' = "none"
    /\ UNCHANGED <<provider, sent, left, st>>

Ended ==
    /\ phase \in {"failed", "answered"} \/ (phase = "sent" /\ turn = 2)
    /\ ~GoesOn
    /\ UNCHANGED vars

Next == Ask \/ Prepare \/ Respond \/ OpenStream \/ Event \/ Garbled \/ SendBack \/ Ended

Spec == Init /\ [][Next]_vars

-----------------------------------------------------------------------------
(***************************************************************************)
(* What a stream shows                                                      *)
(***************************************************************************)
\* What the same answer comes to when it is not streamed.
Whole == Infer(provider, [call EXCEPT !.stream = FALSE])

\* An adapter has no streamed form of some blocks: an error, unless they are discarded.
NotStreamed(p) ==
    CASE p = "tgi" -> {"tool_call"} [] p = "vertex_anthropic" -> {"thought", "unknown"}
      [] p \in Gemini \cup {"anthropic"} -> {"unknown"} [] OTHER -> {}

Signatures(content) == Flatten([i \in DOMAIN content |-> content[i].sig])
CallsIn(content) ==
    LET calls == OfType(content, {"tool_call"})
    IN  [i \in DOMAIN calls |-> [calls[i] EXCEPT !.id = IF provider \in Gemini THEN 0 ELSE @]]
WithoutIds(content) == [i \in DOMAIN content |-> IF content[i].type = "tool_call" THEN content[i] ELSE [content[i] EXCEPT !.id = 0]]
SameContent(a, b) ==
    /\ Pieces(a, "text") = Pieces(b, "text") /\ Pieces(a, "thought") = Pieces(b, "thought")
    /\ Signatures(a) = Signatures(b) /\ CallsIn(a) = CallsIn(b)

\* A streamed answer has the texts, thoughts, signatures and calls (ids, names, arguments) of the
\* same answer when it is not streamed, however the events of its calls interleave, and no error
\* but that of a garbled event.  Anthropic's blocks come out one by one as they are.  Its usage
\* is reported once and in full, not added up twice or lost between the events (Azure and
\* Hyperbolic are not asked for it).
StreamedIsWhole ==
    /\ (turn = 1 /\ call.stream /\ call.answer # <<>> /\ Whole.ok /\ ~Has(call.answer, NotStreamed(provider))) =>
          /\ error \in {"none", "Garbled"}
          /\ (phase = "answered" /\ error = "none") =>
                /\ IF call.function = "json" THEN JsonOutput(got) = JsonOutput(Whole.value)
                   ELSE SameContent(got, Whole.value)
                /\ (call.function = "chat" /\ provider \notin OpenAILike \cup Gemini) => WithoutIds(got) = Whole.value
    /\ (phase = "answered" /\ error = "none") =>
          usage = IF call.stream /\ provider \in {"azure", "hyperbolic"} THEN NoUsage ELSE <<1, 1>>

-----------------------------------------------------------------------------
(***************************************************************************)
(* What a provider is sent                                                  *)
(***************************************************************************)
Speaker(role) == IF role = "tool" THEN "user" ELSE role
Injected(c) == {<<"listening">>, <<"json">>, c.system, <<"json">> \o c.system}

\* The blocks of a role and a type in a conversation, in order, without what the gateway adds
\* and thoughts without anything in them.
Sayings(content, type, c) ==
    {b \in ToSet(content) : /\ b.type = type
                            /\ type = "text" => b.body \notin Injected(c)
                            /\ type = "thought" => b.body # <<>> \/ b.sig # <<>>}
SaidIn(m, role, type, c) == IF Speaker(m.role) = role THEN Filter(m.content, Sayings(m.content, type, c)) ELSE <<>>
Said(messages, role, type, c) == Flatten([i \in DOMAIN messages |-> SaidIn(messages[i], role, type, c)])
Unsigned(blocks) == [i \in DOMAIN blocks |-> [blocks[i] EXCEPT !.sig = <<>>]]

\* A signature that is not part of a thought's text goes with the block after it.
SignedBlocks(messages) ==
    LET content == Flatten([i \in DOMAIN messages |-> messages[i].content])
    IN  {[content[i] EXCEPT !.sig = content[i - 1].sig] :
            i \in {j \in 2..Len(content) : /\ content[j - 1].type = "thought"
                                           /\ content[j - 1].body = <<>> /\ content[j - 1].sig # <<>>}}

\* The choice of a tool survives the conversion: nothing may be called with "none", nothing but
\* the tool with "specific", something with "required".  (Azure and some of Vertex AI's models
\* take "required" for "auto"; Hyperbolic is sent no tools.)
ChoiceIsKept ==
    provider # "hyperbolic" =>
        CASE call.choice \in {"no_tools", "none"} -> sent.tools = {} \/ sent.choice = "none"
          [] call.choice = "auto" -> sent.tools = call.tools /\ sent.choice = "auto"
          [] call.choice = "required" ->
                sent.tools = call.tools /\ (sent.choice = "required" \/ provider = "azure" \/ call.model = "no_any")
          [] call.choice = "specific" ->
                \/ sent.choice = "specific" \/ call.model = "no_any"
                \/ sent.tools = {call.specific} /\ sent.choice = "required"

\* What is sent holds every block of the conversation once, under its role and in its order among
\* those of its type; the system message; Anthropic's thoughts and AI Studio's signatures; and
\* the tools and the choice among them.
InputIsCarried ==
    phase = "sent" =>
        /\ ChoiceIsKept
        /\ \A role \in {"user", "assistant"}, type \in {"text", "image", "file", "unknown", "tool_call", "tool_result"} :
              Unsigned(Said(sent.messages, role, type, call)) = Unsigned(Said(call.messages, role, type, call))
        /\ call.system # <<>> => \/ sent.system = call.system
                                 \/ IsSuffix(call.system, Head(sent.messages).content[1].body)
        /\ provider = "anthropic" =>
              Said(sent.messages, "assistant", "thought", call) = Said(call.messages, "assistant", "thought", call)
        /\ provider = "studio" =>
              SignedBlocks(call.messages) =
                  UNION {{b \in ToSet(sent.messages[i].content) : b.sig # <<>>} : i \in DOMAIN sent.messages}

HintsJson == OpenAILike \ {"vllm", "together", "fireworks", "mistral"}
Alternates(messages, except) ==
    \A i \in 1..(Len(messages) - 1) : messages[i].role = messages[i + 1].role => messages[i].role \in except

\* A request keeps the rules of the API it is sent to: the result of a call directly follows the
\* message with the call; JSON mode mentions JSON; DeepSeek's and Vertex AI's roles alternate;
\* Anthropic's first message is the user's and its last the user's or the start of the JSON; no
\* message is empty where that is refused.
RequestIsAccepted ==
    phase = "sent" =>
        LET m == sent.messages IN
        /\ provider \in OpenAILike =>
              \A i \in DOMAIN m : m[i].role = "tool" =>
                  i > 1 /\ (m[i - 1].role = "tool" \/ Has(m[i - 1].content, {"tool_call"}))
        /\ (provider \in HintsJson /\ call.model # "reasoner" /\ call.json = "on") => MentionsJson(m)
        /\ provider = "deepseek" => Alternates(m, {"tool"})
        /\ provider = "vertex_anthropic" => Alternates(m, {})
        /\ provider \in {"anthropic", "vertex_anthropic"} =>
              Head(m).role = "user" /\ (Last(m).role = "user" \/ Last(m) = Prefill)
        /\ provider \in Gemini \cup {"vertex_anthropic"} => \A i \in DOMAIN m : m[i].content # <<>>

-----------------------------------------------------------------------------
(***************************************************************************)
(* Two turns                                                                *)
(***************************************************************************)
Identity(blocks) == [i \in DOMAIN blocks |-> <<blocks[i].id, blocks[i].name>>]

\* Whatever a provider answered, streamed or not, the gateway and the same provider take back in
\* the next turn, from the client of either endpoint; and the model is shown its own answer: the
\* texts (of a JSON function, the output), the calls with their ids, names and arguments, and the
\* results under the ids and the names of their calls, whichever endpoint streamed the answer.
AnswerIsRemembered ==
    /\ (turn = 2 /\ call.whole) => phase # "failed"
    /\ (turn = 2 /\ phase = "sent") =>
          LET answer == IF call.function = "json" THEN JsonOutput(call.before) ELSE call.before
              calls == OfType(answer, {"tool_call"})
              Shown(role, type) == Said(sent.messages, role, type, call)
          IN  /\ Pieces(Shown("assistant", "text"), "text") = Pieces(answer, "text")
              /\ Unsigned(Shown("assistant", "tool_call")) = calls
              /\ Identity(Shown("user", "tool_result")) = Identity(calls)

=============================================================================

--------------------------- MODULE ProviderResponses ---------------------------
(***************************************************************************)
(* What the gateway makes of a provider's answer (providers/*.rs): of a     *)
(* response, its content blocks; of each event of a stream, a chunk; and of *)
(* the chunks of a stream, the content blocks again (collect_chunks).       *)
(*                                                                          *)
(* An answer is a sequence of blocks as the provider has them: "text",      *)
(* "reasoning" (in a field of its own), "thought", "tool_call" and          *)
(* "unknown".  An event holds deltas: parts of those blocks.                *)
(***************************************************************************)
EXTENDS ProviderRequests

Bodies(blocks) == Flatten([i \in DOMAIN blocks |-> blocks[i].body])
Pieces(answer, type) == Bodies(OfType(answer, {type}))
Thought(body, sig) == Block("thought", 0, <<>>, body, sig)

-----------------------------------------------------------------------------
(***************************************************************************)
(* Responses                                                                *)
(***************************************************************************)
\* One choice, its text and its calls; there is no text if the content is null.
OneChoice(c, content) == IF c.choices = 1 THEN Ok(content) ELSE Failed("InferenceServer")
TextThenCalls(answer) == OfType(answer, {"text"}) \o OfType(answer, {"tool_call"})

OpenAIResponse(c) == OneChoice(c, TextThenCalls(c.answer))
AzureResponse(c) == OneChoice(c, TextThenCalls(c.answer))
XAIResponse(c) == OneChoice(c, TextThenCalls(c.answer))
HyperbolicResponse(c) == OneChoice(c, TextThenCalls(c.answer))
VLLMResponse(c) == OneChoice(c, TextThenCalls(c.answer))
SGLangResponse(c) == OneChoice(c, TextThenCalls(c.answer))
TGIResponse(c) == OneChoice(c, TextThenCalls(c.answer))
GroqResponse(c) == OneChoice(c, TextThenCalls(c.answer))
OpenRouterResponse(c) == OneChoice(c, TextThenCalls(c.answer))
WithoutEmptyTexts(content) == Filter(content, {b \in ToSet(content) : b.type # "text" \/ b.body # <<>>})
MistralResponse(c) == OneChoice(c, WithoutEmptyTexts(TextThenCalls(c.answer)))
DeepSeekResponse(c) ==
    LET reasoning == OfType(c.answer, {"reasoning"})
    IN  OneChoice(c, [i \in DOMAIN reasoning |-> Thought(reasoning[i].body, <<>>)] \o TextThenCalls(c.answer))

Open == "<think>"
Close == "</think>"
Places(body, piece) == {i \in DOMAIN body : body[i] = piece}
Count(body, piece) == Cardinality(Places(body, piece))

\* At most one think block, properly closed; it is cut out of the text.
ProcessThinkBlocks(text) ==
    CASE Count(text, Open) > 1 \/ Count(text, Open) # Count(text, Close) -> Failed("InferenceServer")
      [] Count(text, Open) = 0 /\ Count(text, Close) = 0 -> Ok(<<Text(text)>>)
      [] OTHER ->
            LET start == Min(Places(text, Open))
                end == Min(Places(text, Close))
            IN  Ok(<<Thought(SubSeq(text, start + 1, end - 1), <<>>),
                     Text(SubSeq(text, 1, start - 1) \o SubSeq(text, end + 1, Len(text)))>>)

ThinkResponse(c) ==
    LET content == ProcessThinkBlocks(Pieces(c.answer, "text"))
    IN  IF c.choices # 1 THEN Failed("InferenceServer")
        ELSE IF ~content.ok THEN content
        ELSE Ok(WithoutEmptyTexts(content.value) \o OfType(c.answer, {"tool_call"}))
TogetherResponse(c) == ThinkResponse(c)
FireworksResponse(c) == ThinkResponse(c)

\* The answer to a prefilled request begins after the "{".
PrefillResponse(content) ==
    IF Len(content) = 1 /\ content[1].type = "text" THEN <<Text(<<"brace">> \o content[1].body)>> ELSE content

AnthropicResponse(c) == Ok(IF Prefills(c) THEN PrefillResponse(c.answer) ELSE c.answer)

\* Vertex AI's copy does not know thoughts.
VertexAnthropicOutput(b) == Ok(<<IF b.type = "thought" THEN [b EXCEPT !.type = "unknown"] ELSE b>>)
VertexAnthropicResponse(c) ==
    LET content == Each(c.answer, VertexAnthropicOutput)
    IN  IF Prefills(c) THEN Ok(PrefillResponse(content.value)) ELSE content

BedrockOutput(b) == IF b.type \in {"text", "tool_call"} THEN Ok(<<b>>) ELSE Failed("TypeConversion")
BedrockResponse(c) ==
    LET content == Each(c.answer, BedrockOutput)
    IN  IF content.ok /\ BedrockPrefills(c) THEN Ok(PrefillResponse(content.value)) ELSE content

\* The parts of the first candidate; ids are made up.
VertexGeminiOutput(b) == Ok(<<b>>)
VertexGeminiResponse(c) == IF c.choices = 0 THEN Failed("InferenceServer") ELSE Each(c.answer, VertexGeminiOutput)

\* A signature on a part that is no thought becomes a thought before it.
StudioOutput(b) ==
    IF b.type = "thought" \/ b.sig = <<>> THEN Ok(<<b>>)
    ELSE Ok(<<Thought(<<>>, b.sig), [b EXCEPT !.sig = <<>>]>>)
StudioResponse(c) == IF c.choices = 0 THEN Failed("InferenceServer") ELSE Each(c.answer, StudioOutput)

-----------------------------------------------------------------------------
(***************************************************************************)
(* Chunks.  `st` is what the adapter remembers from event to event; a chunk *)
(* function returns the next one and the content of the chunk, or an error. *)
(***************************************************************************)
Start == [ids |-> <<>>, tool |-> 0, name |-> <<>>, calls |-> 0, thoughts |-> 0, think |-> "Normal"]

Yield(st, content) == [st |-> st, ok |-> TRUE, content |-> content]
Break(st) == [st |-> st, ok |-> FALSE, content |-> <<>>]

TextChunk(id, body) == Block("text", id, <<>>, body, <<>>)
ThoughtChunk(id, body, sig) == Block("thought", id, <<>>, body, sig)
CallChunk(id, name, body) == Block("tool_call", id, name, body, <<>>)

\* Mutant: the id is looked up as that of the last call.
ToolDelta_Last(st, d, index) ==
    IF d.id # 0 THEN Yield([st EXCEPT !.ids = Append(@, d.id)], <<CallChunk(d.id, d.name, d.body)>>)
    ELSE IF index \in DOMAIN st.ids THEN Yield(st, <<CallChunk(Last(st.ids), d.name, d.body)>>)
    ELSE Break(st)

\* Only the first delta of a call carries its id; the others are found by their index.
ToolDelta(st, d, index) ==
    IF d.id # 0 THEN Yield([st EXCEPT !.ids = Append(@, d.id)], <<CallChunk(d.id, d.name, d.body)>>)
    ELSE IF index \in DOMAIN st.ids THEN Yield(st, <<CallChunk(st.ids[index], d.name, d.body)>>)
    ELSE Break(st)

OpenAIChunk(st, d) ==
    CASE d.type = "text" -> Yield(st, <<TextChunk(0, d.body)>>)
      [] d.type = "tool_call" -> ToolDelta(st, d, d.index)
      [] OTHER -> Yield(st, <<>>)
GroqChunk(st, d) == OpenAIChunk(st, d)
OpenRouterChunk(st, d) == OpenAIChunk(st, d)

\* SGLang may leave out the index.
SGLangChunk(st, d) ==
    IF d.type = "tool_call" THEN ToolDelta(st, d, IF d.index = 0 THEN 1 ELSE d.index) ELSE OpenAIChunk(st, d)

TGIChunk(st, d) == IF d.type = "tool_call" THEN Break(st) ELSE OpenAIChunk(st, d)

DeepSeekChunk(st, d) == IF d.type = "reasoning" THEN Yield(st, <<ThoughtChunk(0, d.body, <<>>)>>) ELSE OpenAIChunk(st, d)

\* The name of the tool comes with every call: it is passed on when it changes.
NewName(st, name) == IF st.name = name THEN <<>> ELSE name

MistralChunk(st, d) ==
    CASE d.type = "text" -> Yield(st, IF d.body = <<>> THEN <<>> ELSE <<TextChunk(0, d.body)>>)
      [] d.type = "tool_call" -> Yield([st EXCEPT !.name = d.name], <<CallChunk(d.id, NewName(st, d.name), d.body)>>)
      [] OTHER -> Yield(st, <<>>)

ThinkId(think) == CASE think = "Normal" -> 0 [] think = "Thinking" -> 1 [] think = "Finished" -> 2

\* ThinkingState::update, and the chunk of a text that does not change the state.
ThinkChunk(st, d) ==
    LET open == Count(d.body, Open) > 0
        close == Count(d.body, Close) > 0
        chunk == IF st.think = "Thinking" THEN ThoughtChunk(ThinkId(st.think), d.body, <<>>)
                 ELSE TextChunk(ThinkId(st.think), d.body)
    IN  CASE d.type # "text" -> OpenAIChunk(st, d)
          [] d.type = "text" /\ open = close /\ (st.think # "Finished" \/ ~open) -> Yield(st, <<chunk>>)
          [] d.type = "text" /\ st.think = "Normal" /\ open /\ ~close -> Yield([st EXCEPT !.think = "Thinking"], <<>>)
          [] d.type = "text" /\ st.think = "Thinking" /\ close /\ ~open -> Yield([st EXCEPT !.think = "Finished"], <<>>)
          [] OTHER -> Break(st)
TogetherChunk(st, d) == ThinkChunk(st, d)
FireworksChunk(st, d) == ThinkChunk(st, d)

\* A block starts: a call sets the id for the deltas of its input.
AnthropicStart(st, d) ==
    CASE d.of = "text" -> Yield(st, <<TextChunk(d.index, d.body)>>)
      [] d.of = "tool_call" -> Yield([st EXCEPT !.tool = d.id], <<CallChunk(d.id, d.name, <<>>)>>)
      [] OTHER -> Yield(st, <<ThoughtChunk(d.index, d.body, d.sig)>>)

\* A block of an unknown type is an error unless `discard_unknown_chunks` is set.
UnknownPart(st, discard) == IF discard THEN Yield(st, <<>>) ELSE Break(st)

AnthropicChunk(st, d, discard) ==
    CASE d.of = "unknown" -> UnknownPart(st, discard)
      [] d.type = "start" /\ d.of # "unknown" -> AnthropicStart(st, d)
      [] d.type = "delta" /\ d.of = "text" -> Yield(st, <<TextChunk(d.index, d.body)>>)
      [] d.type = "delta" /\ d.of = "tool_call" ->
            IF st.tool = 0 THEN Break(st) ELSE Yield(st, <<CallChunk(st.tool, <<>>, d.body)>>)
      [] d.type = "delta" /\ d.of = "thought" -> Yield(st, <<ThoughtChunk(d.index, d.body, d.sig)>>)
      [] OTHER -> Yield(st, <<>>)

VertexAnthropicChunk(st, d, discard) ==
    IF d.of = "thought" THEN UnknownPart(st, discard) ELSE AnthropicChunk(st, d, discard)

\* Bedrock starts no text block.
BedrockChunk(st, d) ==
    CASE d.type = "start" /\ d.of = "tool_call" -> Yield([st EXCEPT !.tool = d.id], <<CallChunk(d.id, d.name, <<>>)>>)
      [] d.type = "delta" /\ d.of = "text" -> Yield(st, <<TextChunk(d.index, d.body)>>)
      [] d.type = "delta" /\ d.of = "tool_call" ->
            IF st.tool = 0 THEN Break(st) ELSE Yield(st, <<CallChunk(st.tool, <<>>, d.body)>>)
      [] d.type \in {"start", "delta"} /\ d.of \in {"thought", "unknown"} -> Break(st)
      [] OTHER -> Yield(st, <<>>)

\* Gemini has no ids: a call is numbered when the name changes.
GeminiCall(st, d) ==
    LET calls == IF NewName(st, d.name) = <<>> THEN st.calls ELSE st.calls + 1
    IN  Yield([st EXCEPT !.name = d.name, !.calls = calls], <<CallChunk(calls, NewName(st, d.name), d.body)>>)

\* Spurious empty texts are left out.
GeminiText(st, d) == Yield(st, IF d.body = <<>> THEN <<>> ELSE <<TextChunk(0, d.body)>>)

VertexGeminiChunk(st, d, discard) ==
    CASE d.type = "thought" -> Yield(st, <<ThoughtChunk(0, d.body, d.sig)>>)
      [] d.type = "text" -> GeminiText(st, d)
      [] d.type = "tool_call" -> GeminiCall(st, d)
      [] OTHER -> UnknownPart(st, discard)

\* Every thought has an id of its own, so that no two are merged; the signature of another
\* part is a thought before it.
StudioChunk(st, d, discard) ==
    LET counted == [st EXCEPT !.thoughts = @ + 1]
    IN  CASE d.type = "thought" -> Yield(counted, <<ThoughtChunk(counted.thoughts, d.body, d.sig)>>)
          [] d.type = "unknown" -> UnknownPart(IF d.sig = <<>> THEN st ELSE counted, discard)
          [] OTHER ->
                LET before == IF d.sig = <<>> THEN st ELSE counted
                    part == IF d.type = "text" THEN GeminiText(before, d) ELSE GeminiCall(before, d)
                IN  IF d.sig = <<>> THEN part
                    ELSE Yield(part.st, <<ThoughtChunk(counted.thoughts, <<>>, d.sig)>> \o part.content)

-----------------------------------------------------------------------------
(***************************************************************************)
(* The chunk of an event, and what the chunks add up to                     *)
(***************************************************************************)
\* The deltas of an event, one or two, in order, up to the first error.
Deltas(st, deltas, Chunk(_, _)) ==
    LET one == Chunk(st, deltas[1])
        two == Chunk(one.st, deltas[2])
    IN  IF Len(deltas) = 1 \/ ~one.ok THEN one
        ELSE IF two.ok THEN Yield(two.st, one.content \o two.content) ELSE Break(two.st)

StreamOpenAI(st, deltas) == Deltas(st, deltas, OpenAIChunk)
StreamGroq(st, deltas) == Deltas(st, deltas, GroqChunk)
StreamOpenRouter(st, deltas) == Deltas(st, deltas, OpenRouterChunk)
StreamSGLang(st, deltas) == Deltas(st, deltas, SGLangChunk)
StreamTGI(st, deltas) == Deltas(st, deltas, TGIChunk)
StreamDeepSeek(st, deltas) == Deltas(st, deltas, DeepSeekChunk)
\* Mistral's last name is forgotten at every event.
StreamMistral(st, deltas) == Deltas([st EXCEPT !.name = <<>>], deltas, MistralChunk)
StreamTogether(st, deltas) == Deltas(st, deltas, TogetherChunk)
StreamFireworks(st, deltas) == Deltas(st, deltas, FireworksChunk)
StreamBedrock(st, deltas) == Deltas(st, deltas, BedrockChunk)
StreamAnthropic(st, deltas, discard) == Deltas(st, deltas, LAMBDA s, d : AnthropicChunk(s, d, discard))
StreamVertexAnthropic(st, deltas, discard) == Deltas(st, deltas, LAMBDA s, d : VertexAnthropicChunk(s, d, discard))
StreamVertexGemini(st, deltas, discard) == Deltas(st, deltas, LAMBDA s, d : VertexGeminiChunk(s, d, discard))
StreamStudio(st, deltas, discard) == Deltas(st, deltas, LAMBDA s, d : StudioChunk(s, d, discard))

\* The first chunk of a prefilled stream begins with the "{".
PrefillChunk(content) ==
    CASE content = <<>> -> <<TextChunk(0, <<"brace">>)>>
      [] Len(content) = 1 /\ content[1].type = "text" -> <<TextChunk(0, <<"brace">> \o content[1].body)>>
      [] OTHER -> content

\* A block with more of its name, body and signature.
Extended(b, name, body, sig) == [b EXCEPT !.name = @ \o name, !.body = @ \o body, !.sig = @ \o sig]

\* collect_chunks: one block for each type and id, at the place where it first appears.
Collect(blocks, chunk) ==
    LET at == {i \in DOMAIN blocks : blocks[i].type = chunk.type /\ blocks[i].id = chunk.id}
    IN  CASE at # {} -> [blocks EXCEPT ![Min(at)] = Extended(@, chunk.name, chunk.body, chunk.sig)]
          [] at = {} /\ chunk.type # "tool_call" /\ chunk.body = <<>> /\ chunk.sig = <<>> -> blocks
          [] OTHER -> Append(blocks, chunk)
CollectRounds(blocks, content) ==
    LET done[n \in 0 .. Len(content)] == IF n = 0 THEN blocks ELSE Collect(done[n - 1], content[n]) IN done
CollectAll(blocks, content) == CollectRounds(blocks, content)[Len(content)]

=============================================================================

---------------------------- MODULE ProviderTerms ----------------------------
(***************************************************************************)
(* The terms in which ProviderProofs speaks of lists, conversations,        *)
(* requests and streams: nothing here is code.                              *)
(***************************************************************************)
EXTENDS ProviderCall

-----------------------------------------------------------------------------
(***************************************************************************)
(* Loops over sequences                                                     *)
(***************************************************************************)
\* The rounds of the loop that extends a list.
AreConcatenations(f, s, n) == f = [i \in 0 .. n |-> IF i = 0 THEN << >> ELSE f[i - 1] \o s[i]]

\* h takes lists to lists, one element after another.
IsHom(h, X, Y) ==
    /\ h \in [Seq(X) -> Seq(Y)] /\ h[<< >>] = << >>
    /\ \A a, b \in Seq(X) : h[a \o b] = h[a] \o h[b]

\* The images of the elements are those of the elements as lists.
SeenAlike(h, s, g, r) == DOMAIN s = DOMAIN r /\ \A i \in DOMAIN r : h[s[i]] = g[<<r[i]>>]

\* A list is two lists, one after the other.
IsConcat(r, p, q) ==
    /\ Len(r) = Len(p) + Len(q)
    /\ \A i \in 1 .. Len(p) : r[i] = p[i]
    /\ \A i \in 1 .. Len(q) : r[Len(p) + i] = q[i]

\* What a loop makes of each element, put together.
Mapped(F, s) == Flatten([i \in DOMAIN s |-> F[s[i]]])
MapOf(F, X) == [s \in Seq(X) |-> Mapped(F, s)]

\* The element, if it is in the set.
One(S, x) == IF x \in S THEN <<x>> ELSE << >>
FilterOf(S, X) == [s \in Seq(X) |-> Filter(s, S)]

\* The sets agree on the elements of the list.
Agree(s, S, T) == \A i \in DOMAIN s : s[i] \in S <=> s[i] \in T

-----------------------------------------------------------------------------
(***************************************************************************)
(* What is said in a conversation                                           *)
(***************************************************************************)
\* The roles of a conversation, and the messages with some roles.
Speakers == {"user", "assistant"}
Messages(roles) == [role : roles, content : Seq(Blocks)]
WireMessages == Messages({"user", "assistant", "tool", "system"})
Carried == {"text", "image", "file", "unknown", "tool_call", "tool_result"}

\* What counts as said: what the gateway adds does not.
Sayable(type, c) ==
    {b \in Blocks : /\ b.type = type
                    /\ type = "text" => b.body \notin Injected(c)
                    /\ type = "thought" => b.body # <<>> \/ b.sig # <<>>}
Say(content, type, c) == Filter(content, Sayable(type, c))

\* What is said, as a function of the conversation.
SaidOf(role, type, c) == [ms \in Seq(WireMessages) |-> Said(ms, role, type, c)]

-----------------------------------------------------------------------------
(***************************************************************************)
(* The conversion of a message for the providers that speak OpenAI's API    *)
(***************************************************************************)
\* The messages of a chat request, and conversations that carry the same blocks.
ChatMessages == Messages({"user", "assistant", "tool"})
SaidAlike(v, s, role, type, c) == Said(v, role, type, c) = Said(s, role, type, c)
Carries(v, s, c) == \A role \in Speakers, type \in Carried : SaidAlike(v, s, role, type, c)

\* A message that a result may follow, before and after the conversion.
Expects(m) ==
    \/ Has(m.content, {"tool_call"})
    \/ m.role = "user" /\ m.content # <<>> /\ \A j \in DOMAIN m.content : m.content[j].type = "tool_result"
Answerable(m) == m.role = "tool" \/ Has(m.content, {"tool_call"})

\* The converted messages are in an order in which results follow.
Orderly(m, v) ==
    /\ \A i \in DOMAIN v : i > 1 /\ v[i].role = "tool" => Answerable(v[i - 1])
    /\ v # <<>> /\ v[1].role = "tool" => m.role = "user" /\ Has(m.content, {"tool_result"})
    /\ Expects(m) => v # <<>> /\ Answerable(v[Len(v)])

\* The messages made of a message: they say the same, in order.
Converted(m, v, c) == v \in Seq(ChatMessages) /\ Carries(v, <<m>>, c) /\ Orderly(m, v)

\* The texts before the calls: nothing is lost but blocks of the types that are refused.
Split(content, P) == OfType(content, P) \o OfType(content, {"tool_call"})

\* Every tool message follows one it may answer.
ToolsFollow(v) == \A i \in DOMAIN v : v[i].role = "tool" => i > 1 /\ Answerable(v[i - 1])
ToolsFollowOn(a, b) ==
    /\ ToolsFollow(a)
    /\ \A i \in DOMAIN b : i > 1 /\ b[i].role = "tool" => Answerable(b[i - 1])
    /\ b # <<>> /\ b[1].role = "tool" => a # <<>> /\ Answerable(a[Len(a)])

\* The messages made of each message.
EachConverted(ms, v, c) == DOMAIN v = DOMAIN ms /\ \A i \in DOMAIN ms : Converted(ms[i], v[i], c)

-----------------------------------------------------------------------------
(***************************************************************************)
(* The requests to the providers that speak OpenAI's API                    *)
(***************************************************************************)
\* A request that a provider may be called with.
Callable(c) ==
    /\ c.messages \in Seq(Messages(Speakers)) /\ ResultsFollow(c.messages)
    /\ c.system \in Seq(Words)
    /\ c.choice \in {"no_tools", "none", "auto", "required", "specific"}

\* A conversion that carries the conversation with every result after its call, and the
\* results of converting message by message.
Prepared(v, c) == v \in Seq(ChatMessages) /\ Carries(v, c.messages, c) /\ ToolsFollow(v)
ConvertsEach(ms, r, c) ==
    /\ DOMAIN r = DOMAIN ms
    /\ \A i \in DOMAIN ms : r[i].ok \in BOOLEAN /\ (r[i].ok => Converted(ms[i], r[i].value, c))

\* What may come in front of the conversation: the system message.
Preamble(s, c) ==
    \/ s = <<>> /\ c.system = <<>>
    \/ \E role \in {"system", "user"}, body \in Seq(Words) \cap Injected(c) :
          s = <<Message(role, <<Text(body)>>)>> /\ (c.system # <<>> => IsSuffix(c.system, body))

\* The message mentions JSON.
MentionedIn(m) ==
    \E j \in DOMAIN m.content : m.content[j].type \in {"text", "tool_result"} /\ Mentions(m.content[j].body)

\* A request opens with the system's message, continues with the conversation and, where the
\* provider asks for it, mentions JSON.
Opening(w, c, hint) ==
    \E s, v : /\ Preamble(s, c) /\ Prepared(v, c) /\ w = s \o v
              /\ hint /\ c.json = "on" => MentionsJson(w)
Opened(r, c, hint) == r.ok \in BOOLEAN /\ (r.ok => Opening(r.value, c, hint))

\* What is sent, for a provider that speaks OpenAI's API.
Kept(w, c, hint) ==
    /\ w \in Seq(WireMessages)
    /\ Carries(w, c.messages, c)
    /\ ToolsFollow(w)
    /\ c.system # << >> => IsSuffix(c.system, Head(w).content[1].body)
    /\ hint /\ c.json = "on" => MentionsJson(w)

\* What is offered: the tools and the choice.
Offers(w, tools) == w.tools = tools.tools /\ w.choice = tools.choice

\* The rounds of the loop that coalesces.
AreMerges(f, apart, split, s, n) == f = [i \in 0 .. n |-> IF i = 0 THEN << >> ELSE Merge(f[i - 1], s[i], apart, split)]

\* Two messages in one, and the two ways a message is merged.
Join(l, m, split) == Message(m.role, Joined(m.role, l.content \o m.content, split))
Appends(d, done, m, apart) == d = done \o <<m>> /\ (done = <<>> \/ Last(done).role # m.role \/ m.role \in apart)
Glues(d, done, m, apart, split, f, l) ==
    /\ done = f \o <<l>> /\ l.role = m.role /\ m.role \notin apart
    /\ d = Append(f, Join(l, m, split))

\* The messages that are coalesced: an assistant's content that is sorted has no file and no
\* result.
Tidy(split) == {m \in WireMessages : /\ split /\ m.role = "assistant" => ~Has(m.content, {"file", "tool_result"})
                                     /\ ~split => m.role \in Speakers}

\* A message says what two messages say.
SaysBoth(x, l, m, role, type, c) == Said(<<x>>, role, type, c) = Said(<<l>>, role, type, c) \o Said(<<m>>, role, type, c)

\* The last message is extended by the next one.
Extends(d, done, m, apart, split, f, l, x) ==
    /\ f \in Seq(Tidy(split)) /\ l \in Tidy(split) /\ x \in Tidy(split) /\ x = Join(l, m, split)
    /\ done = f \o <<l>> /\ d = f \o <<x>> /\ l.role = m.role /\ x.role = m.role /\ m.role \notin apart

\* No message is empty.
Full(s) == \A x \in ToSet(s) : x.content # << >>
Opens(x, b) == x.role # "assistant" /\ x.content # << >> /\ x.content[1] = b

\* What holds of the messages coalesced so far.
Coalesced(d, w, apart, split, c) ==
    /\ d \in Seq(Tidy(split)) /\ w \in Seq(Tidy(split)) /\ (w # << >> => d # << >>) /\ (w = << >> => d = << >>)
    /\ Carries(d, w, c)
    /\ Alternates(d, apart)
    /\ "tool" \in apart /\ ToolsFollow(w) => ToolsFollow(d)
    /\ w # << >> /\ Answerable(Last(w)) => Answerable(Last(d))
    /\ MentionsJson(w) => MentionsJson(d)
    /\ ~split /\ Full(w) => Full(d)
    /\ \A b : w # << >> /\ Opens(Head(w), b) => Opens(Head(d), b)

\* The assistant sends no file and no result.
TidySeq(s) == \A x \in ToSet(s) : x.role = "assistant" => ~Has(x.content, {"file", "tool_result"})

-----------------------------------------------------------------------------
(***************************************************************************)
(* Conversions block by block                                               *)
(***************************************************************************)
\* A block that says nothing of the types.
Dropped(b, T, c) == \A type \in T : b \notin Sayable(type, c)
Blockwise(content, r, T, c) ==
    /\ DOMAIN r = DOMAIN content
    /\ \A i \in DOMAIN content : /\ r[i].ok \in BOOLEAN
                                 /\ r[i].ok => r[i].value = <<content[i]>> \/ (r[i].value = << >> /\ Dropped(content[i], T, c))

\* A message converted block by block.
Rewrites(m, r, T, c) ==
    /\ r.ok \in BOOLEAN
    /\ r.ok => \E content \in Seq(Blocks) : /\ r.value = <<Message(m.role, content)>>
                                            /\ \A type \in T : Say(content, type, c) = Say(m.content, type, c)

\* What is told in a conversation, for providers with a user and an assistant only.
Talk == Messages(Speakers)
Tells(w, c, T) == w \in Seq(Talk) /\ \A role \in Speakers, type \in T : SaidAlike(w, c.messages, role, type, c)
RewritesEach(ms, r, T, c) == DOMAIN r = DOMAIN ms /\ \A i \in DOMAIN ms : Rewrites(ms[i], r[i], T, c)

\* What Listen makes of a conversation: it begins and ends with the user's message.
Listens(x) == x # << >> /\ Head(x).role = "user" /\ Last(x).role = "user"

\* A block is kept as it is, dropped if it says nothing, or refused.
Keeps(b, r, T, c) == r.ok \in BOOLEAN /\ (r.ok => r.value = <<b>> \/ (r.value = << >> /\ Dropped(b, T, c)))

-----------------------------------------------------------------------------
(***************************************************************************)
(* Google AI Studio, which moves signatures                                 *)
(***************************************************************************)
\* A block with another signature.
Signed(b, sig) == [b EXCEPT !.sig = sig]

\* The blocks of a type that a message says, without their signatures.
UnsignedSay(type, c) == [s \in Seq(Blocks) |-> Unsigned(Say(s, type, c))]
UnsignedSaid(role, type, c) == [ms \in Seq(WireMessages) |-> Unsigned(Said(ms, role, type, c))]

\* What a part becomes: the block with the signature of the thought before it, if that is one
\* of a signature only; a thought becomes nothing.
Mark(b) == b.type = "thought" /\ b.body = << >> /\ b.sig # << >>
SignatureOf(content, i) ==
    IF i > 1 /\ content[i - 1].type = "thought" /\ content[i - 1].body = << >> THEN content[i - 1].sig ELSE << >>
Becomes(content, i, part) ==
    /\ part.ok \in BOOLEAN
    /\ part.ok /\ content[i].type # "thought" => part.value = <<Signed(content[i], SignatureOf(content, i))>>
    /\ part.ok /\ content[i].type = "thought" => part.value = << >>
    /\ part.ok /\ Mark(content[i]) => i < Len(content) /\ content[i + 1].type # "thought"

\* The blocks that a conversation's signatures go with.
SignedIn(content) == {Signed(content[i], content[i - 1].sig) : i \in {j \in 2 .. Len(content) : Mark(content[j - 1])}}
SignedOf(content) == {b \in ToSet(content) : b.sig # << >>}
Closed(content) == content = << >> \/ ~Mark(content[Len(content)])

\* No list ends with a signature that waits for its block.
AllClosed(s) == \A i \in DOMAIN s : Closed(s[i])

\* The blocks that are sent with a signature.
SignedSent(w) == UNION {{b \in ToSet(w[i].content) : b.sig # <<>>} : i \in DOMAIN w}

-----------------------------------------------------------------------------
(***************************************************************************)
(* What a provider is sent, provider by provider                            *)
(***************************************************************************)
\* The choice of a tool is kept.
Chosen(p, c, t) ==
    CASE c.choice \in {"no_tools", "none"} -> t.tools = {} \/ t.choice = "none"
      [] c.choice = "auto" -> t.tools = c.tools /\ t.choice = "auto"
      [] c.choice = "required" -> t.tools = c.tools /\ (t.choice = "required" \/ p = "azure" \/ c.model = "no_any")
      [] c.choice = "specific" -> \/ t.choice = "specific" \/ c.model = "no_any"
                                  \/ t.tools = {c.specific} /\ t.choice = "required"

\* The properties of a request, as a predicate of the provider, the call and what is sent.
IsCarried(p, c, w) ==
    /\ p # "hyperbolic" => Chosen(p, c, w)
    /\ \A role \in Speakers, type \in Carried :
          Unsigned(Said(w.messages, role, type, c)) = Unsigned(Said(c.messages, role, type, c))
    /\ c.system # <<>> => w.system = c.system \/ IsSuffix(c.system, Head(w.messages).content[1].body)
    /\ p = "anthropic" => Said(w.messages, "assistant", "thought", c) = Said(c.messages, "assistant", "thought", c)
    /\ p = "studio" => SignedBlocks(c.messages) = SignedSent(w.messages)
IsAccepted(p, c, w) ==
    /\ p \in OpenAILike => ToolsFollow(w.messages)
    /\ (p \in HintsJson /\ c.model # "reasoner" /\ c.json = "on") => MentionsJson(w.messages)
    /\ p = "deepseek" => Alternates(w.messages, {"tool"})
    /\ p = "vertex_anthropic" => Alternates(w.messages, {})
    /\ p \in {"anthropic", "vertex_anthropic"} =>
          Head(w.messages).role = "user" /\ (Last(w.messages).role = "user" \/ Last(w.messages) = Prefill)
    /\ p \in Gemini \cup {"vertex_anthropic"} => Full(w.messages)

-----------------------------------------------------------------------------
(***************************************************************************)
(* The response of a provider                                               *)
(***************************************************************************)
\* The response of a provider, by its name.
Response(p, c) ==
    CASE p = "openai" -> OpenAIResponse(c)
      [] p = "azure" -> AzureResponse(c)
      [] p = "deepseek" -> DeepSeekResponse(c)
      [] p = "fireworks" -> FireworksResponse(c)
      [] p = "together" -> TogetherResponse(c)
      [] p = "groq" -> GroqResponse(c)
      [] p = "openrouter" -> OpenRouterResponse(c)
      [] p = "xai" -> XAIResponse(c)
      [] p = "hyperbolic" -> HyperbolicResponse(c)
      [] p = "sglang" -> SGLangResponse(c)
      [] p = "tgi" -> TGIResponse(c)
      [] p = "vllm" -> VLLMResponse(c)
      [] p = "mistral" -> MistralResponse(c)
      [] p = "anthropic" -> AnthropicResponse(c)
      [] p = "vertex_anthropic" -> VertexAnthropicResponse(c)
      [] p = "vertex_gemini" -> VertexGeminiResponse(c)
      [] p = "studio" -> StudioResponse(c)
      [] p = "bedrock" -> BedrockResponse(c)
      [] p = "sagemaker" -> OpenAIResponse(c)
AllProviders == OpenAILike \cup Gemini \cup {"anthropic", "vertex_anthropic", "bedrock"}

-----------------------------------------------------------------------------
(***************************************************************************)
(* From the request at the gateway to the model's                           *)
(***************************************************************************)
\* A result that, if it is a success, has a list of blocks.
Yields(x, X) == x.ok \in BOOLEAN /\ (x.ok => x.value \in Seq(X))
YieldsOne(x, X) == x.ok \in BOOLEAN /\ (x.ok => \E y \in X : x.value = <<y>>)

\* Results of one value each: theirs, in order.
Singles(r, s) == DOMAIN s = DOMAIN r /\ \A i \in DOMAIN r : r[i].ok /\ r[i].value = <<s[i]>>

\* A message that holds results where another one does, and calls wherever that one does.
Like(a, b) ==
    /\ b.role = a.role /\ (a.content # << >> => b.content # << >>) /\ DOMAIN b.content = DOMAIN a.content
    /\ \A j \in DOMAIN a.content :
          /\ a.content[j].type = "tool_result" <=> b.content[j].type = "tool_result"
          /\ a.content[j].type \in {"tool_call", "tool_call_input"} => b.content[j].type = "tool_call"
Alike(s, t) == DOMAIN t = DOMAIN s /\ \A i \in DOMAIN s : Like(s[i], t[i])

\* A block becomes one block, a result a result and a call a call; so does a message.
Turns(b, x) ==
    x.ok \in BOOLEAN /\ (x.ok => \E y \in Blocks : /\ x.value = <<y>> /\ (b.type = "tool_result" <=> y.type = "tool_result")
                                                   /\ b.type \in {"tool_call", "tool_call_input"} => y.type = "tool_call")
TurnsInto(m, x) == x.ok \in BOOLEAN /\ (x.ok => \E y \in Talk : x.value = <<y>> /\ Like(m, y))
TurnEach(ms, r) == DOMAIN r = DOMAIN ms /\ \A i \in DOMAIN ms : TurnsInto(ms[i], r[i])

\* The choices a provider may be given.
ToolChoices == {"no_tools", "none", "auto", "required", "specific"}

\* The fields of a call, and what a client may ask.
CallFields == {"messages", "system", "function", "json", "schema", "tools", "choice", "specific", "endpoint", "key", "model",
               "stream", "discard", "before", "whole", "status", "choices", "answer"}
Askable(a) ==
    /\ {"messages", "system", "dynamic", "json", "schema"} \subseteq DOMAIN a
    /\ {"allowed", "choice"} \subseteq DOMAIN a.dynamic
    /\ a.dynamic.choice \in {"absent", "none", "auto", "required", "specific"}
    /\ a.system \in Seq(Blocks)
    /\ IF a.endpoint = "openai" THEN a.messages \in Seq(OpenAIInputs) /\ OpenAIResultsFollow(a.messages)
       ELSE a.messages \in Seq(Inputs) /\ ResultsFollow(a.messages)

\* An inference request that the function can prepare.
Preparable(a) ==
    /\ a.messages \in Seq(Inputs) /\ ResultsFollow(a.messages) /\ a.system \in Seq(Blocks)
    /\ a.dynamic.choice \in {"absent", "none", "auto", "required", "specific"}

\* A conversation goes on with a message: its results, if any, answer the message before it.
MayFollow(a, y) ==
    y.role = "user" /\ Has(y.content, {"tool_result"}) =>
        /\ a # << >>
        /\ \/ Has(a[Len(a)].content, {"tool_call", "tool_call_input"})
           \/ /\ a[Len(a)].role = "user" /\ a[Len(a)].content # <<>>
              /\ \A j \in DOMAIN a[Len(a)].content : a[Len(a)].content[j].type = "tool_result"
GoesOnWith(d, a, y) == d = a \o <<y>>

\* The blocks of OpenAI's API.
Calls == BlocksOf({"tool_call"})
Contents == BlocksOf(BlockTypes \ {"tool_call", "tool_result"})

\* What a message of OpenAI's API becomes: a result a message of the user with the result alone,
\* another one a message with its calls and no result; a system message none.
Matches(m, y) ==
    IF m.role = "tool"
    THEN /\ y.role = "user" /\ y.content # << >>
         /\ \A j \in DOMAIN y.content : y.content[j].type = "tool_result"
    ELSE /\ \A j \in DOMAIN y.content : y.content[j].type # "tool_result"
         /\ m.calls # << >> => Has(y.content, {"tool_call", "tool_call_input"})
Reads(ms, i, x) ==
    x.ok \in BOOLEAN /\ (x.ok => /\ ms[i].role = "system" => x.value = << >>
                                 /\ ms[i].role = "tool" => ResultName(ms, i) # << >>
                                 /\ ms[i].role # "system" => \E y \in Inputs : x.value = <<y>> /\ Matches(ms[i], y))

\* The rounds of the loop that joins texts.
AreJoinRounds(f, s, n) == f = [i \in 0 .. n |-> IF i = 0 THEN << >> ELSE ((IF i = 1 THEN << >> ELSE f[i - 1] \o <<"newline">>) \o s[i].body)]

-----------------------------------------------------------------------------
(***************************************************************************)
(* The content of an answer                                                 *)
(***************************************************************************)
\* Every block of an answer converted.
YieldEach(answer, r) == DOMAIN r = DOMAIN answer /\ \A i \in DOMAIN answer : Yields(r[i], Blocks)

-----------------------------------------------------------------------------
(***************************************************************************)
(* The chunks of a stream                                                   *)
(***************************************************************************)
\* The deltas of a stream, what an adapter remembers, and what it makes of an event.
DeltaTypes == BlockTypes \cup {"start", "delta", "stop", "usage", "end", "usage_input", "usage_output"}
DeltaSet == [type : DeltaTypes, of : BlockTypes \cup {"signal"}, index : Nat, id : Nat, name : Seq(STRING),
             body : Seq(Words), sig : Seq(STRING)]
Memories == [ids : Seq(Nat), tool : Nat, name : Seq(STRING), calls : Nat, thoughts : Nat,
             think : {"Normal", "Thinking", "Finished"}]
Streams(x) == x.ok \in BOOLEAN /\ x.st \in Memories /\ x.content \in Seq(Blocks)

\* One delta or two: what comes of them.
Fired(deltas) == deltas \in Seq(DeltaSet) /\ Len(deltas) \in {1, 2}
Comes(x, deltas, one, two) ==
    x = IF Len(deltas) = 1 \/ ~one.ok THEN one
        ELSE IF two.ok THEN Yield(two.st, one.content \o two.content) ELSE Break(two.st)

-----------------------------------------------------------------------------
(***************************************************************************)
(* What the chunks add up to                                                *)
(***************************************************************************)
\* The rounds of the loop that collects chunks.
AreCollectRounds(f, blocks, s, n) == f = [i \in 0 .. n |-> IF i = 0 THEN blocks ELSE Collect(f[i - 1], s[i])]

\* The rounds of the loop that numbers calls.
AreToolRounds(f, ids, s, n) == f = [i \in 0 .. n |-> IF i = 0 THEN [ids |-> ids, chunks |-> << >>] ELSE NextTool(f[i - 1], s[i])]

\* The rounds of the loop that receives calls.
AreReceiveRounds(f, calls, s, n) == f = [i \in 0 .. n |-> IF i = 0 THEN calls ELSE ReceiveCall(f[i - 1], s[i])]

-----------------------------------------------------------------------------
(***************************************************************************)
(* What a client of the OpenAI-compatible endpoint receives                 *)
(***************************************************************************)
\* The calls of a chunk, what a client has put together, and how far the calls are counted.
Indexed == [id : Nat, name : Seq(STRING), body : Seq(Words), index : Nat]
Receipts == [ids : Seq(Nat), text : Seq(Words), calls : Seq(Calls)]
Counted(r) == r.ids \in Seq(Nat) /\ r.chunks \in Seq(Indexed)

\* A chunk of the OpenAI-compatible endpoint.
OpenAIChunks(x) == x.ids \in Seq(Nat) /\ x.text \in Seq(Words) /\ x.calls \in Seq(Indexed)

-----------------------------------------------------------------------------
(***************************************************************************)
(* The next turn                                                            *)
(***************************************************************************)
\* The blocks a client may send.
Given == Blocks \cup InputCalls

\* The results of calls.
ResultsOf(calls) == [i \in DOMAIN calls |-> [calls[i] EXCEPT !.type = "tool_result", !.body = <<"result">>]]

\* The next turn of a client of the OpenAI-compatible endpoint.
OpenAIHello == OpenAIMessage("user", Hello.content, <<>>, 0)
OpenAIBye == OpenAIMessage("user", Bye.content, <<>>, 0)
OpenAITurnOf(r) ==
    <<OpenAIHello>> \o OpenAIAnswer(r) \o (IF Len(OpenAIAnswer(r)) = 1 THEN <<OpenAIBye>> ELSE << >>)

===============================================================================

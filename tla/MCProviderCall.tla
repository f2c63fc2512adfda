--------------------------- MODULE MCProviderCall ---------------------------
(***************************************************************************)
(* Every provider the gateway speaks to; a chat function with two of three  *)
(* tools; the conversations clients send and the answers providers give.    *)
(***************************************************************************)
EXTENDS ProviderCall

CONSTANT RepeatedNames   \* may an answer call one tool twice in a row?

MCProviders == OpenAILike \cup Gemini \cup {"anthropic", "vertex_anthropic", "bedrock"}
MCSplitCalls == MCProviders \ {"mistral"}
MCStaticTools == {"f", "g", "h"}
MCFunctionTools == <<"f", "g">>

-----------------------------------------------------------------------------
Call(k, name) == Block("tool_call", 10 + k, <<name>>, <<"open", "close">>, <<>>)
Result(k, name) == Block("tool_result", 10 + k, <<name>>, <<"result">>, <<>>)
Other(type) == Block(type, 0, <<>>, <<type>>, <<>>)

Conversations ==
    {<<>>, <<Hello>>, <<User(<<Text(<<"json", "u">>)>>)>>, <<Hello, Assistant(<<Text(<<"a">>)>>)>>,
     <<Hello, Assistant(<<Text(<<"a">>)>>), Bye>>, <<Assistant(<<Text(<<"a">>)>>), Bye>>,
     <<Hello, Assistant(<<Text(<<"a">>), Call(1, "f")>>), User(<<Result(1, "f")>>)>>,
     <<Hello, Assistant(<<Text(<<"a">>), Call(1, "f"), Call(2, "g")>>),
       User(<<Text(<<"v">>), Result(1, "f"), Result(2, "g")>>)>>,
     <<Hello, Assistant(<<Text(<<"a">>)>>), Assistant(<<Call(1, "f")>>), User(<<Result(1, "f")>>), Bye>>,
     <<Hello, Assistant(<<[Call(1, "f") EXCEPT !.body = <<"open">>]>>), User(<<Result(1, "f")>>)>>,
     <<Hello, Assistant(<<Thought(<<"t">>, <<"s">>), Text(<<"a">>)>>), Bye>>,
     <<Hello, Assistant(<<Thought(<<>>, <<"s">>), Call(1, "f")>>), User(<<Result(1, "f")>>)>>,
     <<Hello, Assistant(<<Thought(<<"t">>, <<>>)>>), Bye>>,
     <<User(<<Other("image"), Text(<<"u">>)>>)>>, <<User(<<Other("file")>>)>>, <<Hello, Assistant(<<Other("file")>>), Bye>>,
     <<User(<<Other("unknown")>>)>>, <<Hello, Assistant(<<Other("unknown")>>), Bye>>,
     <<User(<<Call(1, "f")>>)>>, <<Hello, Assistant(<<Result(1, "f")>>)>>}

Models(p) ==
    {"plain"} \cup (CASE p = "openai" -> {"gpt-3.5", "o1-mini"} [] p = "openrouter" -> {"gpt-3.5", "o1-mini"}
                      [] p = "groq" -> {"o1-mini"} [] p = "deepseek" -> {"reasoner"} [] p = "bedrock" -> {"claude"}
                      [] p = "vertex_gemini" -> {"no_any"} [] OTHER -> {})

OpenAIAsked == [Asked EXCEPT !.endpoint = "openai", !.messages = <<OpenAIMessage("user", Hello.content, <<>>, 0)>>]

InputCall(name, arguments) ==
    [type |-> "tool_call_input", id |-> 11, name |-> name, arguments |-> arguments, raw_name |-> <<>>, raw_arguments |-> <<>>]
Dynamic(allowed, additional, choice, tool) ==
    [allowed |-> allowed, additional |-> additional, choice |-> choice, tool |-> tool]

\* Requests with functions, schemas, JSON modes and tools of all kinds.
FunctionAsks ==
    {[Asked EXCEPT !.function = f, !.json = j, !.base = b, !.schema = s, !.stream = stream] :
        f \in {"chat", "json"}, j \in {"absent", "off", "on", "strict", "implicit_tool"}, b \in {"absent", "implicit_tool"},
        s \in BOOLEAN, stream \in BOOLEAN}
      \cup {[Asked EXCEPT !.function = "templated", !.system = s, !.messages = <<User(<<b>>), Assistant(<<Text(<<"a">>)>>), User(<<b>>)>>] :
              s \in {<<>>, <<Text(<<"s">>)>>, <<Arguments(<<"s">>)>>},
              b \in {Text(<<"u">>), Arguments(<<"u">>), Arguments(<<"invalid">>), RawText(<<"u">>)}}
      \cup {[Asked EXCEPT !.messages = <<Hello, Assistant(<<b>>), Bye>>] :
              b \in {Arguments(<<"a">>), RawText(<<"a">>), InputCall(<<<<"f">>>>, <<<<"open", "close">>>>),
                     InputCall(<<>>, <<<<"open", "close">>>>), InputCall(<<<<"f">>>>, <<>>), InputCall(<<<<"f">>>>, <<NoObject>>)}}
      \cup {[Asked EXCEPT !.function = f, !.dynamic = Dynamic(allowed, additional, choice[1], choice[2])] :
              f \in {"chat", "json", "default"}, allowed \in {<<>>, <<<<>>>>, <<<<"f">>>>, <<<<"h">>>>, <<<<"x">>>>},
              additional \in {<<>>, <<"d">>, <<"f">>}, choice \in {<<"absent", "none">>, <<"required", "none">>, <<"specific", "d">>}}

OpenAIConversations ==
    LET system(b) == OpenAIMessage("system", <<b>>, <<>>, 0)
        user(content) == OpenAIMessage("user", content, <<>>, 0)
        result(k) == OpenAIMessage("tool", <<Text(<<"result">>)>>, <<>>, 10 + k)
        hello == user(Hello.content)
    IN  {<<hello>>, <<system(Text(<<"s">>)), hello>>, <<hello, system(Text(<<"s">>))>>,
         <<system(Text(<<"s">>)), hello, system(Text(<<"t">>))>>, <<system(Text(<<"s">>)), system(Arguments(<<"t">>)), hello>>,
         <<system(Other("image")), hello>>, <<user(<<Text(<<"u">>), Other("image")>>)>>, <<user(<<Other("invalid")>>)>>,
         <<user(<<Arguments(<<"u">>)>>)>>, <<hello, result(1)>>,
         <<hello, OpenAIMessage("assistant", <<Text(<<"a">>)>>, <<Call(1, "f"), Call(2, "g")>>, 0), result(2), result(1), hello>>}

OpenAIAsks ==
    {[OpenAIAsked EXCEPT !.messages = m, !.stream = stream] : m \in OpenAIConversations, stream \in BOOLEAN}
      \cup {[OpenAIAsked EXCEPT !.function = f, !.format = format, !.header = header, !.stream = stream] :
              f \in {"chat", "json", "default", "unprefixed", "empty"}, stream \in BOOLEAN,
              format \in {"absent", "json_schema", "json_object", "text"}, header \in {"absent", "bad", "denied"}}
      \cup {[OpenAIAsked EXCEPT !.function = "default", !.dynamic = Dynamic(<<>>, <<"f", "g">>, choice, "f"), !.stream = stream] :
              choice \in {"absent", "none", "specific"}, stream \in BOOLEAN}

MCAsks(p) ==
    {[Asked EXCEPT !.messages = m, !.system = s, !.function = f[1], !.json = f[2], !.model = model, !.stream = stream] :
        m \in Conversations, s \in {<<>>, <<Text(<<"s">>)>>, <<Text(<<"json">>)>>}, stream \in BOOLEAN,
        f \in {<<"chat", "absent">>, <<"json", "on">>, <<"json", "absent">>}, model \in Models(p)}
      \cup {[Asked EXCEPT !.function = f, !.dynamic = Dynamic(<<>>, <<>>, choice, "f"), !.key = key, !.model = model, !.stream = stream,
                          !.discard = discard] :
              f \in {"chat", "default"}, choice \in {"none", "auto", "required", "specific"},
              key \in {"static", "dynamic", "dynamic_missing", "none"}, model \in Models(p),
              stream \in BOOLEAN, discard \in BOOLEAN}
      \cup FunctionAsks \cup OpenAIAsks

Says == Text(<<"a", "b">>)

\* The calls of an answer; Gemini has no ids and Mistral's second one may share an event, where a
\* repeated name is not passed on.
AnswerCalls(p) ==
    {<<Call(1, "f")>>, <<Call(1, "f"), Call(2, "g")>>}
      \cup (IF RepeatedNames \/ p \notin Gemini \cup {"mistral"} THEN {<<Call(1, "f"), Call(2, "f")>>} ELSE {})

Thinks(p) ==
    CASE p \in {"together", "fireworks"} ->
            {<<Text(<<Open, "t", Close, "a">>)>>, <<Text(<<"a", Open, "t", Close, "b">>)>>, <<Text(<<Open, "t">>)>>,
             <<Text(<<"t", Close, "a">>)>>}
      [] p = "deepseek" -> {<<Block("reasoning", 0, <<>>, <<"t", "u">>, <<>>), Says>>}
      [] p \in {"anthropic", "vertex_anthropic", "bedrock"} ->
            {<<Thought(<<"t", "u">>, <<"s">>), Says>>, <<Thought(<<>>, <<"s">>), Says>>, <<Says, Other("unknown")>>}
      [] p = "vertex_gemini" -> {<<Thought(<<"t", "u">>, <<"s">>), Says>>, <<Says, Other("unknown")>>}
      [] p = "studio" ->
            {<<Thought(<<"t", "u">>, <<"s">>), Says>>, <<[Says EXCEPT !.sig = <<"s">>]>>,
             <<Thought(<<"t">>, <<>>), [Call(1, "f") EXCEPT !.sig = <<"s">>]>>,
             <<[Call(1, "f") EXCEPT !.sig = <<"s">>], [Call(2, "g") EXCEPT !.sig = <<"s2">>]>>,
             <<Says, Other("unknown")>>}
      [] OTHER -> {}

MCReplies(p, function) ==
    {<<Says>>} \cup
    (IF function = "json" THEN {<<Call(1, "respond")>>}
     ELSE Thinks(p) \cup {b \o calls : b \in {<<>>, <<Says>>}, calls \in AnswerCalls(p)}
            \cup (IF p \in {"anthropic", "vertex_anthropic", "bedrock"} THEN {<<Says, Call(1, "f"), Says>>} ELSE {}))

=============================================================================

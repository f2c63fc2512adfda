--------------------------- MODULE OpenAICompatible ---------------------------
(***************************************************************************)
(* The OpenAI-compatible endpoint (endpoints/openai_compatible.rs): its     *)
(* requests, as inference requests, and the responses and chunks it makes   *)
(* of the gateway's.                                                        *)
(*                                                                          *)
(* A message of OpenAI's API has a role, a content (None is <<>>), and, of  *)
(* an assistant, calls, or, of a tool, the id of the call it answers.       *)
(***************************************************************************)
EXTENDS FunctionCalls

OpenAIMessage(role, content, calls, id) == [role |-> role, content |-> content, calls |-> calls, id |-> id]
OpenAIInputs == [role : {"system", "user", "assistant", "tool"}, calls : Seq(BlocksOf({"tool_call"})), id : Nat,
                 content : Seq(BlocksOf(BlockTypes \ {"tool_call", "tool_result"}))]

\* A block that is no block of OpenAI's API is taken for the arguments of a template, unless it
\* has a type.
ConvertOpenAIBlock(b) == IF b.type = "invalid" THEN Failed("InvalidOpenAICompatibleRequest") ELSE Ok(<<b>>)
ConvertOpenAIMessageContent(content) == Each(content, ConvertOpenAIBlock)

OpenAIToolCallInput(b) ==
    [type |-> "tool_call_input", id |-> b.id, name |-> <<>>, arguments |-> <<>>,
     raw_name |-> <<b.name>>, raw_arguments |-> <<b.body>>]

\* tool_call_id_to_name: the name of the latest call with that id before a result.
ResultName(messages, i) ==
    LET before == Flatten([j \in 1..(i - 1) |-> messages[j].calls])
        same == Filter(before, {b \in ToSet(before) : b.id = messages[i].id})
    IN  IF same = <<>> THEN <<>> ELSE <<Last(same).name>>

\* A result that is a string is written as JSON, with its quotes.
Quoted(body) == <<"quote">> \o body \o <<"quote">>

OpenAIInputMessage(messages, i) ==
    LET m == messages[i]
        content == ConvertOpenAIMessageContent(m.content)
        name == ResultName(messages, i)
    IN  CASE m.role = "system" -> Ok(<<>>)
          [] m.role = "tool" ->
                IF name = <<>> THEN Failed("InvalidOpenAICompatibleRequest")
                ELSE Ok(<<Message("user", <<Block("tool_result", m.id, name[1], Quoted(m.content[1].body), <<>>)>>)>>)
          [] OTHER ->
                IF ~content.ok THEN content
                ELSE Ok(<<Message(m.role, content.value \o [j \in DOMAIN m.calls |-> OpenAIToolCallInput(m.calls[j])])>>)

\* Texts, one a line.
JoinRounds(blocks) ==
    LET said[n \in 0 .. Len(blocks)] ==
            IF n = 0 THEN <<>> ELSE (IF n = 1 THEN <<>> ELSE said[n - 1] \o <<"newline">>) \o blocks[n].body
    IN  said
JoinTexts(blocks) == JoinRounds(blocks)[Len(blocks)]

\* The system messages, wherever they are, become one: several must be strings.
OpenAISystemInput(messages) ==
    LET systems == Filter(messages, {m \in ToSet(messages) : m.role = "system"})
        blocks == Each([i \in DOMAIN systems |-> systems[i].content], ConvertOpenAIMessageContent)
    IN  IF ~blocks.ok THEN blocks
        ELSE IF Has(blocks.value, {"image", "file"}) THEN Failed("InvalidOpenAICompatibleRequest")
        ELSE IF Len(blocks.value) <= 1 THEN blocks
        ELSE IF Has(blocks.value, {"arguments"}) THEN Failed("InvalidOpenAICompatibleRequest")
        ELSE Ok(<<Text(JoinTexts(blocks.value))>>)

\* The function is named by the model; a header that cannot be read, or an unknown field that the
\* request denies, is refused (the episode, the
\* variant, the dryrun flag and the sampling parameters are passed on); the response format gives
\* the JSON mode and the schema.
OpenAIParams(ask) ==
    LET messages == All([i \in DOMAIN ask.messages |-> OpenAIInputMessage(ask.messages, i)])
        system == OpenAISystemInput(ask.messages)
        input == First(<<messages, system>>)
    IN  IF ask.function \in {"unprefixed", "empty"} \/ ask.header \in {"bad", "denied"} THEN Failed("InvalidOpenAICompatibleRequest")
        ELSE IF ~input.ok THEN input
        ELSE Ok([ask EXCEPT !.messages = messages.value, !.system = system.value, !.dynamic.allowed = <<>>,
                            !.json = CASE ask.format = "json_schema" -> "strict" [] ask.format = "json_object" -> "on"
                                       [] ask.format = "text" -> "off" [] OTHER -> "absent",
                            !.schema = ask.format = "json_schema"])

-----------------------------------------------------------------------------
\* The texts are joined, the calls come with their raw names and arguments; the other blocks are
\* left out.
ProcessChatContent(content) == [text |-> Pieces(content, "text"), calls |-> OfType(content, {"tool_call"})]

OpenAICompatibleResponse(r, content) ==
    IF r.function = "json" THEN [text |-> Pieces(JsonOutput(content), "text"), calls |-> <<>>]
    ELSE ProcessChatContent(content)

IndexedCall(id, name, body, index) == [id |-> id, name |-> name, body |-> body, index |-> index]

\* Mutant: the index of a call is its place in its chunk.
ToolChunk_Place(ids, chunks, b) ==
    [ids |-> IF b.id \in ToSet(ids) THEN ids ELSE Append(ids, b.id),
     chunks |-> Append(chunks, IndexedCall(IF b.id \in ToSet(ids) THEN 0 ELSE b.id, b.name, b.body, Len(chunks) + 1))]

\* A call gets the next index and sends its id when it is new (tool_id_to_index: `ids`).
ToolChunk(ids, chunks, b) ==
    LET known == b.id \in ToSet(ids)
        next == IF known THEN ids ELSE Append(ids, b.id)
    IN  [ids |-> next,
         chunks |-> Append(chunks, IndexedCall(IF known THEN 0 ELSE b.id, b.name, b.body, Min(Places(next, b.id))))]
NextTool(r, b) == ToolChunk(r.ids, r.chunks, b)
ToolRounds(ids, calls) ==
    LET done[n \in 0 .. Len(calls)] ==
            IF n = 0 THEN [ids |-> ids, chunks |-> <<>>] ELSE NextTool(done[n - 1], calls[n])
    IN  done
ToolChunks(ids, calls) == ToolRounds(ids, calls)[Len(calls)]

ProcessChatContentChunk(ids, content) ==
    LET tools == ToolChunks(ids, OfType(content, {"tool_call"}))
    IN  [ids |-> tools.ids, text |-> Pieces(content, "text"), calls |-> tools.chunks]

OpenAICompatibleChunk(r, ids, content) ==
    IF r.function = "json"
    THEN [ids |-> ids, text |-> Flatten(JsonChunk(content).raw), calls |-> <<>>]
    ELSE ProcessChatContentChunk(ids, content)

\* What a client has put together: the text, and the calls by their index.
NothingReceived == [ids |-> <<>>, text |-> <<>>, calls |-> <<>>]
ReceiveCall(calls, c) ==
    IF c.index \in DOMAIN calls
    THEN [calls EXCEPT ![c.index] = Extended(@, c.name, c.body, <<>>)]
    ELSE Append(calls, Block("tool_call", c.id, c.name, c.body, <<>>))
ReceiveRounds(calls, chunks) ==
    LET done[n \in 0 .. Len(chunks)] == IF n = 0 THEN calls ELSE ReceiveCall(done[n - 1], chunks[n]) IN done
Receive(received, chunk) ==
    [ids |-> chunk.ids, text |-> received.text \o chunk.text,
     calls |-> ReceiveRounds(received.calls, chunk.calls)[Len(chunk.calls)]]

\* The events of a stream: an error is skipped, and the client is not told.
PrepareEvents(received, r, chunk, content) ==
    IF chunk.ok THEN Receive(received, OpenAICompatibleChunk(r, received.ids, content)) ELSE received

\* The message a client sends back, and the messages with the results of its calls.
OpenAIAnswer(received) ==
    <<OpenAIMessage("assistant", IF received.text = <<>> THEN <<>> ELSE <<Text(received.text)>>, received.calls, 0)>>
      \o [i \in DOMAIN received.calls |-> OpenAIMessage("tool", <<Text(<<"result">>)>>, <<>>, received.calls[i].id)]

=============================================================================

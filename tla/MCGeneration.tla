---------------------------- MODULE MCGeneration ----------------------------
EXTENDS Generation

\* A row of each kind the registry has, and the second dialect of the chat
\* adapter, which it has no row of.
Made(provider, engine, levels, native, images) ==
    [provider |-> provider, model |-> provider, engine |-> engine,
     target |-> provider, codec |-> provider, levels |-> levels, native |-> native,
     images |-> images, streaming |-> TRUE, tools |-> TRUE, version |-> 0]
MCRows ==
    [anthropic |-> Made("anthropic", "anthropic_messages",
                        [high |-> {"thinking", "output_config"}], TRUE, TRUE),
     openai |-> Made("openai", "openai_responses", [high |-> {"reasoning"}], TRUE, TRUE),
     deepseek |-> Made("deepseek", "openai_chat",
                       [none |-> {"thinking"}, high |-> {"thinking", "reasoning_effort"}],
                       FALSE, FALSE),
     xai |-> Made("xai", "openai_chat", [high |-> {"reasoning_effort"}], TRUE, TRUE),
     gemini |-> Made("gemini", "gemini_generate", [high |-> {"thinking_config"}], TRUE, TRUE)]

\* Requests.
Block(type) == [type |-> type, text |-> <<"q">>]
System == [role |-> "system", blocks |-> <<Block("text")>>]
User(type) == [role |-> "user", blocks |-> <<Block(type)>>]
Earlier == [role |-> "assistant", text |-> <<"q">>, tools |-> <<>>, continuation |-> Absent]
Plain == [messages |-> <<System, User("text")>>, reasoning |-> "high", tools |-> TRUE,
          choice |-> "auto", output |-> "text", options |-> {}]
MCIntents ==
    {Plain, [Plain EXCEPT !.tools = FALSE],
     [Plain EXCEPT !.tools = FALSE, !.output = "json"],
     [Plain EXCEPT !.output = "json"],
     [Plain EXCEPT !.reasoning = "none"],
     [Plain EXCEPT !.choice = "none"],
     [Plain EXCEPT !.messages = <<User("image")>>],
     [Plain EXCEPT !.messages = <<User("text"), Earlier>>],
     [Plain EXCEPT !.messages = <<System, System, User("text"), User("text"), User("text")>>]}
      \cup {[Plain EXCEPT !.tools = FALSE, !.options = o] :
              o \in {{"temperature"}, {"thinking"}, {"reasoning"}, {"max_tokens"},
                     {"thinkingConfig"}, {"output_config"}, {"reasoning_effort"}}}

\* Answers. Only the items of the Responses protocol all have an id.
Text(text) == [type |-> "text", text |-> text]
Call(id, arguments) == [type |-> "tool", id |-> id, name |-> "f", arguments |-> arguments]
Thought == [type |-> "thinking", signature |-> <<"s">>]
Answered(blocks, finish) == [blocks |-> blocks, finish |-> finish, output |-> 1, late |-> FALSE]
Item(block) == block @@ [id |-> "m"]
Object == <<"{", "}">>

\* What every protocol can say: the reasons to stop are the vendor's.
Common(stop, calls_, length) ==
    {Answered(<<Text(<<"a", "b">>)>>, stop),
     Answered(<<Text(Object)>>, stop),
     Answered(<<Text(<<"a">>)>>, length),
     Answered(<<>>, stop),
     Answered(<<Text(<<"a">>), Thought, Call("c1", Object), Call("c2", Object)>>, calls_),
     Answered(<<Call("c1", <<>>)>>, calls_),
     Answered(<<Call("c1", Object), Call("c2", <<"{">>)>>, calls_),
     Answered(<<Call("c1", <<"{">>)>>, length)}

ChatAnswers ==
    Common("stop", "tool_calls", "length")
      \cup {[a EXCEPT !.late = TRUE] : a \in Common("stop", "tool_calls", "length")}
      \cup {Answered(<<Text(<<"a">>)>>, "content_filter"), Answered(<<>>, "error"),
            Answered(<<Call("c1", Object)>>, "unknown")}
MCAnswers ==
    [anthropic |->
        Common("end_turn", "tool_use", "max_tokens")
          \cup {Answered(<<Text(<<"a">>)>>, "refusal"),
                [Answered(<<>>, "refusal") EXCEPT !.output = 0],
                Answered(<<>>, "model_context_window_exceeded"), Answered(<<>>, "unknown"),
                Answered(<<Thought, Text(<<"a">>), Thought>>, "end_turn"),
                Answered(<<[type |-> "unknown"]>>, "end_turn"),
                Answered(<<[type |-> "unknown"]>>, "max_tokens")},
     openai |->
        {[a EXCEPT !.blocks = [i \in DOMAIN @ |-> Item(@[i])]] :
           a \in Common("stop", "stop", "max_tokens")
                   \cup {Answered(<<Text(<<"a">>), [type |-> "refusal"]>>, "refusal"),
                         Answered(<<[type |-> "refusal"]>>, "max_tokens"),
                         Answered(<<Text(<<"a">>)>>, "content_filter"),
                         Answered(<<>>, "unknown")}},
     deepseek |-> ChatAnswers,
     xai |-> ChatAnswers,
     gemini |->
        Common("STOP", "STOP", "MAX_TOKENS")
          \cup {Answered(<<Text(<<"a">>)>>, "SAFETY"), Answered(<<>>, "blocked"),
                Answered(<<>>, "MALFORMED_FUNCTION_CALL"), Answered(<<>>, "OTHER"),
                Answered(<<Call("", Object)>>, "STOP")}]

MCHttps ==
    [status : {400, 401, 402, 413, 429, 500, 529}, type : {"none"}, retryAfter : {Absent, 2}]
      \cup [status : {400}, type : {"overflow", "quota", "overloaded", "empty", "bad_key"},
            retryAfter : {Absent}]
MCCodes ==
    [anthropic_messages |-> {"overloaded_error", "other"},
     openai_responses |-> {"rate_limit_exceeded", "server_error", "other"},
     openai_chat |-> {Absent, 400, 429, 500},
     gemini_generate |-> {Absent, 400, 429, 500}]
=============================================================================

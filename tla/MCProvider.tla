----------------------------- MODULE MCProvider -----------------------------
(* A few models, requests and responses, and every stream that can be made  *)
(* of a handful of events, at the limits of one response.                   *)
EXTENDS Provider

W(w) == [word |-> w, number |-> None]
N(n) == [word |-> "", number |-> n]
Id(tokens) == [claude |-> TRUE, tokens |-> tokens]
Plain(name) == [claude |-> FALSE, tokens |-> <<W(name)>>]
ClaudeIds ==
    {Id(<<W("opus"), N(4), N(5), N(20251101)>>), Id(<<N(3), N(5), W("haiku")>>), Id(<<W("opus"), N(4), N(6)>>),
     Id(<<W("sonnet"), N(5), W("@"), N(1)>>), Id(<<W("sonnet"), N(5), N(5)>>), Id(<<W("fable"), N(5)>>),
     Id(<<W("sonnet")>>), Plain("proxy")}
OpenAiIds == {Plain("gpt-6-sol"), Plain("gpt-4o"), Plain("local")}
Bound == [claude |-> Id(<<W("opus"), N(4), N(5), N(20251101)>>), openai |-> Plain("gpt-4o")]
Ids == [claude |-> ClaudeIds, openai |-> OpenAiIds]

Part(kind) == [kind |-> kind, source |-> "base64"]
Use(id) == [kind |-> "tool_use", id |-> id]
Result(id) == [kind |-> "result", id |-> id]
User(parts) == [role |-> "user", parts |-> parts]
Assistant(parts) == [role |-> "assistant", parts |-> parts]
Hello == <<User(<<Part("text")>>)>>
Conversations ==
    {Hello, Hello \o <<Assistant(<<Part("thinking"), Use(1), Use(2)>>),
                       User(<<Part("text"), Result(2), Part("image"), Result(1)>>)>>,
     <<User(<<[kind |-> "document", source |-> "url"], [kind |-> "image", source |-> "file_id"]>>),
       Assistant(<<Part("text"), Use(1)>>), User(<<Result(1)>>), Assistant(<<Part("text")>>), User(<<>>)>>}

Req == [new(None) EXCEPT !.messages = Hello, !.extra = NoFields]
Tool(cache) == [name |-> <<"t">>, cache |-> cache]
Fields ==
    {[Req EXCEPT !.model = m, !.tools = ts, !.tool_choice = c, !.temperature = t, !.thinking = th,
                 !.max_tokens = n, !.extra = x, !.parallel = FALSE] :
        m \in {None} \cup ClaudeIds \cup OpenAiIds, ts \in {<<>>, <<Tool(FALSE)>>},
        c \in {"auto", "any", "tool"}, t \in {None, 1},
        th \in {[mode |-> "off", budget |-> None], [mode |-> "adaptive", budget |-> None],
                [mode |-> "budget", budget |-> 2]},
        n \in {1, 9}, x \in {NoFields, [effort |-> "max"], [max_tokens |-> 9], [reasoning_effort |-> "high"]}}
Points == {[at |-> "tools", index |-> 0], [at |-> "system", index |-> 0], [at |-> "last_user", index |-> 0]}
          \cup {[at |-> "message", index |-> i] : i \in {1, 2, 5}}
Caches ==
    {[mode |-> "off"], [mode |-> "auto"]}
    \cup {[mode |-> "breakpoints", ttl |-> t, points |-> ps] :
             t \in {"5m", "1h"}, ps \in {{}, {[at |-> "tools", index |-> 0], [at |-> "message", index |-> 2]}, Points}}
Cached ==
    {[Req EXCEPT !.system = s, !.tools = ts, !.messages = ms, !.cache = c, !.cache_key = 1] :
        s \in {None, [cache |-> TRUE], [cache |-> FALSE]},
        ts \in {<<>>, <<Tool(TRUE), Tool(FALSE)>>, [i \in 1..5 |-> Tool(TRUE)]},
        ms \in Conversations, c \in Caches}
Llms ==
    {[model |-> m, system |-> s, max_tokens |-> n, temperature |-> 1, cache |-> c, user |-> u] :
        m \in {None} \cup ClaudeIds \cup OpenAiIds, s \in {None, [cache |-> TRUE]}, n \in {1, 9},
        c \in {[mode |-> "auto"], [mode |-> "breakpoints", ttl |-> "1h", points |-> Points]}, u \in BOOLEAN}
For(v, req) == req.model \in {None} \cup Ids[v]
MCJobs ==
    UNION {{[vendor |-> v, via |-> "stream", bound |-> Bound[v], request |-> r] :
               r \in {q \in Fields \cup Cached : For(v, q)}}
           \cup {[vendor |-> v, via |-> w, bound |-> Bound[v], request |-> r] :
               w \in {"text", "extract", "extract_with_usage"}, r \in {q \in Llms : For(v, q)}}
           \cup {[vendor |-> v, via |-> "complete", bound |-> Bound[v], request |-> Req]} :
              v \in {"claude", "openai"}}

-----------------------------------------------------------------------------
(* The wire.                                                                *)

Cnt(S, f) == [x \in S |-> f[x]]
One == Cnt({"output"}, [output |-> 1])
StartUsages ==
    {Cnt({"input", "output"}, [input |-> 1, output |-> 0]), One,
     Cnt({"input", "output", "create", "hour", "read"}, [input |-> 1, output |-> 1, create |-> 1, hour |-> 1, read |-> 0])}
Usages ==
    StartUsages \cup
    {Cnt({"output", "input", "create"}, [output |-> 2, input |-> 0, create |-> Null]),
     Cnt({"output", "read", "reasoning"}, [output |-> 2, read |-> 2, reasoning |-> 1]),
     Cnt({"output", "input"}, [output |-> Bad, input |-> 1]),
     Cnt({"output", "input", "read"}, [output |-> 1, input |-> 1, read |-> 3])}
Block(kind, text, signature, input) ==
    [kind |-> kind, text |-> text, signature |-> signature, id |-> <<"i">>, name |-> <<"n">>,
     input |-> input, args |-> None]
Empty0 == <<"{", "}">>
Blocks ==
    {Block("text", <<>>, None, None), Block("text", <<"t">>, None, None), Block("thinking", <<>>, None, None),
     Block("thinking", <<"t">>, <<"s">>, None), Block("redacted_thinking", <<"d", "d">>, None, None),
     Block("tool_use", <<>>, None, Empty0), Block("tool_use", <<>>, None, <<"{", "a", "}">>),
     Block("other", <<>>, None, None), Block("text", Bad, None, None), Block("thinking", <<>>, Bad, None)}
D(kind, part) == [kind |-> kind, part |-> part]
Deltas ==
    {D("text_delta", <<"t", "t">>), D("thinking_delta", <<"t", "t">>), D("signature_delta", <<"s", "s">>),
     D("input_json_delta", <<>>), D("input_json_delta", <<"{">>), D("input_json_delta", <<"_", "a">>),
     D("input_json_delta", <<"}">>), D("other_delta", <<>>)}
ClaudeWire ==
    {[type |-> "message_start", usage |-> u] : u \in StartUsages}
    \cup {[type |-> "content_block_start", index |-> 0, block |-> b] : b \in Blocks}
    \cup {[type |-> "content_block_start", index |-> 1, block |-> b] :
             b \in {Block("text", <<"t">>, None, None), Block("tool_use", <<>>, None, Empty0)}}
    \cup {[type |-> "content_block_delta", index |-> 0, delta |-> d] : d \in Deltas}
    \cup {[type |-> "content_block_delta", index |-> 1, delta |-> D("input_json_delta", p)] : p \in {<<"{">>, <<"_", "a", "}">>}}
    \cup {[type |-> "content_block_stop", index |-> i] : i \in {0, 1, Bad}}
    \cup {[type |-> "message_delta", usage |-> u, stop |-> "end_turn"] : u \in Usages}
    \cup {[type |-> "message_delta", usage |-> One, stop |-> s] : s \in {None, "pause_turn", Bad}}
    \cup {[type |-> "message_stop"], [type |-> "ping"],
          [type |-> "error", error |-> "overloaded_error"], [type |-> "error", error |-> "new_error"]}

Say(content, refusal, calls, finish) ==
    <<[index |-> 0, content |-> content, refusal |-> refusal, calls |-> calls, finish |-> finish]>>
Fn(index, id, name, args) == [index |-> index, id |-> id, name |-> name, args |-> args, function |-> TRUE]
Says ==
    {<<>>, Bad, Say(<<"t">>, None, <<>>, None), Say(None, <<"r">>, <<>>, None),
     Say(None, None, <<Fn(0, <<"i">>, <<"n">>, <<>>)>>, None), Say(None, None, <<Fn(1, <<"j">>, <<>>, <<>>)>>, None),
     Say(None, None, <<Fn(1, <<"i">>, <<"n">>, Empty0)>>, None),
     Say(None, None, <<Fn(0, None, <<>>, <<"{">>), Fn(1, None, <<"n">>, <<>>)>>, None),
     Say(None, None, <<Fn(0, None, <<>>, <<"_", "}">>)>>, None)}
    \cup {Say(None, None, <<>>, f) : f \in {"stop", "length", "tool_calls", "content_filter"}}
    \cup {Say(None, None, <<>>, "stop") \o Say(None, None, <<>>, None)}
RawUsages ==
    {None, Null, Cnt({"prompt", "completion"}, [prompt |-> 2, completion |-> 1]),
     Cnt({"completion", "total"}, [completion |-> 2, total |-> 4]),
     Cnt({"cached"}, [cached |-> 3]), Cnt({"prompt", "cached"}, [prompt |-> 2, cached |-> 1]),
     Cnt({"prompt", "completion", "cached", "written"}, [prompt |-> 3, completion |-> 1, cached |-> 1, written |-> 1])}
OpenAiWire ==
    {[type |-> "chunk", error |-> FALSE, choices |-> c, usage |-> None] : c \in Says}
    \cup {[type |-> "chunk", error |-> FALSE, choices |-> c, usage |-> u] :
             c \in {<<>>} \cup {Say(None, None, <<>>, f) : f \in {None, "tool_calls"}}, u \in RawUsages}
    \cup {[type |-> "chunk", error |-> TRUE, choices |-> Bad, usage |-> None],
          [type |-> "done", error |-> FALSE, choices |-> <<>>, usage |-> None]}
MCWire == [claude |-> ClaudeWire, openai |-> OpenAiWire]

Line(size, ends, field, value) == [size |-> size, ends |-> ends, field |-> field, value |-> value]
Blank == Line(0, TRUE, "", None)
Data(size, value) == Line(size, TRUE, "data", value)
Name(type) == Line(1, TRUE, "event", type)
Whole1(type) == <<Name(type), Data(2, "whole"), Blank>>
MCLines(e) ==
    {Whole1(e.type)} \cup
    IF e.type \notin {"content_block_stop", "done", "ping"} THEN {}
    ELSE {<<Data(2, "whole"), Blank>>, <<Line(1, FALSE, "", None), Data(1, "whole"), Blank>>,
          <<Line(1, TRUE, ":", None), Data(1, "first"), Data(1, "second"), Blank>>,
          <<Name("other"), Data(2, "whole"), Blank>>, <<Data(2, "torn"), Blank>>,
          <<Line(1, TRUE, "not utf-8", None)>>, <<Data(2, "whole"), Data(2, "whole"), Blank>>,
          <<Line(3, FALSE, "", None), Data(2, "whole"), Blank>>}

Answer(content, stop, usage) == [content |-> content, stop |-> stop, usage |-> usage]
Extracted(name, input) == [Block("tool_use", <<>>, None, input) EXCEPT !.name = name]
ClaudeResponses ==
    {Answer(c, s, u) :
        c \in {<<>>, <<Block("text", <<"t">>, None, None)>>, <<Extracted(<<"x">>, <<"{", "a", "}">>)>>,
               <<Extracted(<<"n">>, Empty0), Extracted(<<"x">>, <<"{", "a", "}">>)>>, <<Extracted(<<"x">>, Bad)>>},
        s \in {None, "tool_use", "max_tokens", "refusal"}, u \in Usages \cup {None}}
OpenAiResponses ==
    {[content |-> c, refusal |-> r, calls |-> ts, finish |-> f, usage |-> u] :
        c \in {None, <<"t">>}, r \in {None, <<"r">>},
        ts \in {<<>>, <<Fn(0, <<"i">>, <<"x">>, <<"{", "_", "a", "}">>)>>,
                <<Fn(0, <<"i">>, <<"x">>, Empty0), Fn(1, <<"i">>, <<"x">>, Empty0)>>,
                <<Fn(0, <<"i">>, <<"x">>, <<"{">>)>>},
        f \in {None, "stop", "tool_calls", "length"}, u \in RawUsages \ {Null}}
MCResponses == [claude |-> ClaudeResponses, openai |-> OpenAiResponses]

(* Bound on a stream: the bytes of its text on OpenAI, which counts none,   *)
(* and of a name put together from pieces.                                  *)
MCSayable(t) == t.text < 2 /\ \A i \in DOMAIN t.blocks : Len(t.blocks[i].name) < 2
=============================================================================

--------------------------- MODULE ProviderStream --------------------------
(* Reading a provider's answer (ai-sdk/src/provider/sse.rs, claude/sse.rs   *)
(* with sse/frame.rs and sse/validation.rs, claude/accum.rs, claude/block.rs*)
(* and claude/usage.rs; openai/sse.rs, openai/accum.rs, openai/usage.rs and *)
(* openai/response.rs): server-sent events are framed, validated and        *)
(* accumulated into the normalized events of a response.                    *)
(*                                                                          *)
(* A text is a sequence of bytes, JSON text included; a field that is       *)
(* absent is None, null is Null, and one of the wrong type is Bad.          *)
EXTENDS ProviderRequest, Functions

CONSTANTS
    Null, Bad,            \* model values
    MaxFrameBytes,        \* MAX_FRAME_BYTES
    MaxBlockBytes,        \* MAX_STREAM_BLOCK_BYTES
    MaxResponseBytes,     \* MAX_STREAM_RESPONSE_BYTES
    MaxOpenBlocks,        \* MAX_STREAM_OPEN_BLOCKS
    MaxResponseBlocks,    \* MAX_STREAM_RESPONSE_BLOCKS
    MaxCount              \* u64::MAX

NoFields == [x \in {} |-> 0]
With(f, k, v) == [x \in DOMAIN f \cup {k} |-> IF x = k THEN v ELSE f[x]]
Without(f, k) == [x \in DOMAIN f \ {k} |-> f[x]]
Ascending(S) == SetToSortSeq(S, <)

(* What a decoder returns: its next state and the events, or an error.      *)
Ok(state, events) == [ok |-> TRUE, state |-> state, events |-> events]
Failed(error) == [ok |-> FALSE, error |-> error]
decode_error == Failed("decode")

(* serde_json: "_" is a blank.                                              *)
Objects == {<<"{", "}">>, <<"{", "a", "}">>}
from_str(text) ==
    LET dense == SelectSeq(text, LAMBDA b : b # "_") IN IF dense \in Objects THEN dense ELSE Bad

-----------------------------------------------------------------------------
(* Framer.  A line arrives in segments; the last one ends in a newline.     *)
(* Sizes leave out the few bytes of a field's name.                         *)

NoFrame == [line |-> 0, data |-> <<>>, bytes |-> 0, event |-> None]
accept(f, part) ==
    LET line == f.line + part.size
        separator == IF f.data = <<>> THEN 0 ELSE 1
    IN  CASE line > MaxFrameBytes -> decode_error
          [] line <= MaxFrameBytes /\ ~part.ends -> Ok([f EXCEPT !.line = line], <<>>)
          [] OTHER ->
              CASE part.field = "not utf-8" -> decode_error
                [] part.field = "" ->
                     Ok(NoFrame, IF f.data = <<>> THEN <<>> ELSE <<[event |-> f.event, data |-> f.data]>>)
                [] part.field = "event" -> Ok([f EXCEPT !.line = 0, !.event = part.value], <<>>)
                [] part.field = "data" ->
                     IF f.bytes + separator + line > MaxFrameBytes THEN decode_error
                     ELSE Ok([f EXCEPT !.line = 0, !.data = Append(@, part.value),
                                       !.bytes = @ + separator + line], <<>>)
                [] OTHER -> Ok([f EXCEPT !.line = 0], <<>>)

(* The frames of one event's lines, from the state an event starts in.      *)
framed(parts) ==
    FoldLeft(LAMBDA r, part :
                IF ~r.ok THEN r
                ELSE LET next == accept(r.state, part)
                     IN  IF next.ok THEN Ok(next.state, r.events \o next.events) ELSE next,
             Ok(NoFrame, <<>>), parts)

(* The JSON of a frame: whole, or over two data lines.                      *)
json(frame) == frame.data \in {<<"whole">>, <<"first", "second">>}

-----------------------------------------------------------------------------
(* Claude usage.  An update names the counters it reports.                  *)

Known(u, f) == f \in DOMAIN u /\ u[f] # Null
Count(u, f) == IF Known(u, f) THEN u[f] ELSE 0
ZeroUsage == [input |-> 0, output |-> 0, create |-> 0, hour |-> 0, read |-> 0, reasoning |-> 0]
total_input(u) == Min({u.input + u.create + u.read, MaxCount})

claude_usage(u) ==
    [input |-> Count(u, "input"), output |-> Count(u, "output"), create |-> Count(u, "create"),
     hour |-> Count(u, "hour"), read |-> Count(u, "read"), reasoning |-> Count(u, "reasoning")]
validate_usage(u) ==
    /\ u # Bad
    /\ \A f \in DOMAIN u : u[f] # Bad /\ (u[f] = Null => f \in {"create", "read"})
    /\ "output" \in DOMAIN u => Count(u, "reasoning") <= u.output
    /\ Known(u, "create") => Count(u, "five") + Count(u, "hour") <= u.create
validate_totals(u) ==
    /\ u.hour <= u.create /\ u.reasoning <= u.output
    /\ u.input + u.create + u.read <= MaxCount
require_complete(u) ==
    /\ validate_usage(u) /\ Known(u, "input") /\ Known(u, "output")
    /\ validate_totals(claude_usage(u))

(* Counters an update leaves out keep their values.                         *)
Updated(usage, u) ==
    [f \in DOMAIN usage |-> IF Known(u, f) THEN u[f] ELSE usage[f]]

-----------------------------------------------------------------------------
(* Claude blocks.                                                           *)

Delivers == [text_delta |-> "text", thinking_delta |-> "thinking",
             signature_delta |-> "thinking", input_json_delta |-> "tool_use"]

(* Block::start, from the wire block b.                                     *)
start_block(b) ==
    [kind |-> b.kind, text |-> b.text, signature |-> b.signature, id |-> b.id, name |-> b.name,
     initial |-> IF b.kind = "tool_use" THEN b.input ELSE None, json |-> None]
kept(b) == b.kind \in {"text", "thinking", "redacted_thinking", "tool_use"}
Size(text) == IF text = None THEN 0 ELSE Len(text)
bytes(b) ==
    IF b.kind = "tool_use"
    THEN Len(b.id) + Len(b.name) + (IF b.json = None THEN Size(b.initial) ELSE Len(b.json))
    ELSE Len(b.text) + Size(b.signature)
initial_events(b) ==
    CASE b.kind = "text" -> IF b.text = <<>> THEN <<>> ELSE <<[type |-> "text", part |-> b.text]>>
      [] b.kind = "thinking" ->
            (IF b.text = <<>> THEN <<>> ELSE <<[type |-> "reasoning", part |-> b.text]>>)
            \o (IF b.signature \in {None, <<>>} THEN <<>>
                ELSE <<[type |-> "signature", part |-> b.signature]>>)
      [] OTHER -> <<>>

(* reserve: the response's bytes with this change, or Bad over a limit.     *)
reserve(current, removed, added, total) ==
    IF current - removed + added > MaxBlockBytes \/ total - removed + added > MaxResponseBytes
    THEN Bad ELSE total - removed + added

(* Block::delta, for the block of an open index.                            *)
delta_block(b, delta, total) ==
    LET added == Len(delta.part)
        removed == IF delta.kind = "input_json_delta" /\ b.json = None THEN Size(b.initial) ELSE 0
        next == reserve(bytes(b), removed, added, total)
        Put(block, events) == IF next = Bad THEN decode_error
                              ELSE Ok([block |-> block, total |-> next], events)
    IN  CASE b.kind = "text" /\ delta.kind = "text_delta" ->
               Put([b EXCEPT !.text = @ \o delta.part], <<[type |-> "text", part |-> delta.part]>>)
          [] b.kind = "thinking" /\ delta.kind = "thinking_delta" ->
               Put([b EXCEPT !.text = @ \o delta.part], <<[type |-> "reasoning", part |-> delta.part]>>)
          [] b.kind = "thinking" /\ delta.kind = "signature_delta" ->
               Put([b EXCEPT !.signature = (IF @ = None THEN <<>> ELSE @) \o delta.part],
                   <<[type |-> "signature", part |-> delta.part]>>)
          [] b.kind = "tool_use" /\ delta.kind = "input_json_delta" /\ added > 0 ->
               IF b.json = None /\ b.initial # <<"{", "}">> THEN decode_error
               ELSE Put([b EXCEPT !.initial = None, !.json = (IF @ = None THEN <<>> ELSE @) \o delta.part],
                        <<>>)
          [] OTHER -> Ok([block |-> b, total |-> total], <<>>)

(* Block::finish: the replayable content, and the call of a tool block.     *)
Content(b, input) ==
    IF b.kind = "tool_use" THEN [kind |-> "tool_use", id |-> b.id, name |-> b.name, input |-> input]
    ELSE [kind |-> b.kind, text |-> b.text, signature |-> b.signature]
content_bytes(c) ==
    IF c.kind = "tool_use" THEN Len(c.id) + Len(c.name) + Len(c.input)
    ELSE Len(c.text) + Size(c.signature)
Call(b, arguments) == [type |-> "call", id |-> b.id, name |-> b.name, arguments |-> arguments]
finish_block(b) ==
    LET arguments == IF b.json = None THEN b.initial ELSE b.json
        input == IF b.kind = "tool_use" THEN from_str(arguments) ELSE None
    IN  IF input = Bad THEN decode_error
        ELSE Ok(Content(b, input), IF b.kind = "tool_use" THEN <<Call(b, arguments)>> ELSE <<>>)

-----------------------------------------------------------------------------
(* Claude accumulator.                                                      *)

map_stop_reason(reason) ==
    CASE reason \in {"end_turn", "max_tokens", "stop_sequence", "tool_use", "refusal"} -> reason
      [] reason = "pause_turn" -> "pause"
      [] OTHER -> "other"

Empty == [usage |-> ZeroUsage, has_input |-> FALSE, has_output |-> FALSE, blocks |-> NoFields,
          seen |-> {}, bytes |-> 0, stop |-> None]

accum_start(a, e) ==
    LET b == start_block(e.block)
        size == IF kept(b) THEN bytes(b) ELSE 0
    IN  IF \/ e.index \in a.seen \/ Cardinality(a.seen) >= MaxResponseBlocks
           \/ Cardinality(DOMAIN a.blocks) >= MaxOpenBlocks
           \/ (b.kind = "thinking" /\ b.signature = Bad) \/ (b.kind = "redacted_thinking" /\ b.text = Bad)
        THEN decode_error
        ELSE IF size > MaxBlockBytes \/ a.bytes + size > MaxResponseBytes THEN decode_error
        ELSE Ok([a EXCEPT !.seen = @ \cup {e.index}, !.bytes = @ + size,
                          !.blocks = With(@, e.index, IF kept(b) THEN b ELSE None)],
                IF kept(b) THEN initial_events(b) ELSE <<>>)
accum_delta(a, e) ==
    IF a.blocks[e.index] = None THEN Ok(a, <<>>)
    ELSE LET r == delta_block(a.blocks[e.index], e.delta, a.bytes)
         IN  IF ~r.ok THEN r
             ELSE Ok([a EXCEPT !.blocks[e.index] = r.state.block, !.bytes = r.state.total], r.events)
FinishedUncounted(a, e) ==   \* a slip: the parsed input is kept at its wire size
    LET b == a.blocks[e.index]
        rest == [a EXCEPT !.blocks = Without(@, e.index)]
        r == finish_block(b)
    IN  IF b = None THEN Ok(rest, <<>>)
        ELSE IF ~r.ok THEN r
        ELSE Ok(rest, <<[type |-> "block", index |-> e.index, content |-> r.state]>> \o r.events)
accum_finish(a, e) ==
    LET b == a.blocks[e.index]
        rest == [a EXCEPT !.blocks = Without(@, e.index)]
        r == finish_block(b)
        total == a.bytes - bytes(b) + content_bytes(r.state)
    IN  IF b = None THEN Ok(rest, <<>>)
        ELSE IF ~r.ok THEN r
        ELSE IF content_bytes(r.state) > MaxBlockBytes \/ total > MaxResponseBytes THEN decode_error
        ELSE Ok([rest EXCEPT !.bytes = total],
                <<[type |-> "block", index |-> e.index, content |-> r.state]>> \o r.events)
AnyUsage(a, e) ==   \* a slip: a tally that shrank is believed
    LET next == Updated(a.usage, e.usage)
    IN  IF a.blocks # NoFields \/ ~validate_totals(next) THEN decode_error
        ELSE Ok([a EXCEPT !.usage = next, !.has_output = TRUE,
                          !.stop = IF e.stop \in {None, Null} THEN @ ELSE map_stop_reason(e.stop)],
                <<[type |-> "usage", usage |-> next]>>)
message_delta(a, e) ==
    LET next == Updated(a.usage, e.usage)
    IN  IF \/ a.blocks # NoFields
           \/ e.usage.output < a.usage.output
           \/ ~validate_totals(next)
           \/ total_input(next) < total_input(a.usage)
        THEN decode_error
        ELSE Ok([a EXCEPT !.usage = next, !.has_output = TRUE,
                          !.stop = IF e.stop \in {None, Null} THEN @ ELSE map_stop_reason(e.stop)],
                <<[type |-> "usage", usage |-> next]>>)
message_start(a, e) ==
    LET usage == claude_usage(e.usage)
    IN  IF ~validate_totals(usage) THEN decode_error
        ELSE Ok([a EXCEPT !.usage = usage, !.has_input = TRUE], <<[type |-> "start", usage |-> usage]>>)
message_stop(a) ==
    IF a.has_input /\ a.has_output /\ a.blocks = NoFields /\ a.stop # None
    THEN Ok(a, <<[type |-> "end", stop |-> a.stop, usage |-> a.usage]>>) ELSE decode_error

push(a, e) ==
    IF a.stop # None /\ e.type \in {"content_block_start", "content_block_delta", "content_block_stop"}
    THEN decode_error
    ELSE CASE e.type = "message_start" -> message_start(a, e)
           [] e.type = "content_block_start" -> accum_start(a, e)
           [] e.type = "content_block_delta" -> accum_delta(a, e)
           [] e.type = "content_block_stop" -> accum_finish(a, e)
           [] e.type = "message_delta" -> message_delta(a, e)
           [] e.type = "message_stop" -> message_stop(a)

-----------------------------------------------------------------------------
(* Claude decoder: the wire's own order of events.                          *)

(* Fields of the known events; other types are not looked at.               *)
validate(e) ==
    CASE e.type = "message_start" -> validate_usage(e.usage) /\ Known(e.usage, "input") /\ Known(e.usage, "output")
      [] e.type = "content_block_start" ->
            /\ e.index # Bad
            /\ e.block.kind = "tool_use" => e.block.id # <<>> /\ e.block.name # <<>> /\ e.block.input # Bad
            /\ e.block.kind \in {"text", "thinking"} => e.block.text # Bad
      [] e.type = "content_block_delta" ->
            e.index # Bad /\ (e.delta.kind \in DOMAIN Delivers => e.delta.part # Bad)
      [] e.type = "content_block_stop" -> e.index # Bad
      [] e.type = "message_delta" -> validate_usage(e.usage) /\ Known(e.usage, "output") /\ e.stop # Bad
      [] OTHER -> TRUE

Statuses ==
    [invalid_request_error |-> 400, authentication_error |-> 401, permission_error |-> 403,
     not_found_error |-> 404, request_too_large |-> 413, rate_limit_error |-> 429, overloaded_error |-> 529]
stream_error(e) ==
    Failed(IF e.error \in DOMAIN Statuses THEN Statuses[e.error] ELSE 500)

ClaudeDecoder == [started |-> FALSE, open |-> NoFields, accum |-> Empty]

(* Decoder::event's own checks: the blocks open afterwards, or Bad.         *)
ordered(d, e) ==
    CASE e.type = "content_block_start" ->
            IF e.index \in DOMAIN d.open \/ Cardinality(DOMAIN d.open) >= MaxOpenBlocks THEN Bad
            ELSE With(d.open, e.index, IF e.block.kind \in Range(Delivers) THEN e.block.kind ELSE "other")
      [] e.type = "content_block_delta" ->
            IF \/ e.index \notin DOMAIN d.open
               \/ e.delta.kind \in DOMAIN Delivers /\ Delivers[e.delta.kind] # d.open[e.index]
            THEN Bad ELSE d.open
      [] e.type = "content_block_stop" ->
            IF e.index \notin DOMAIN d.open THEN Bad ELSE Without(d.open, e.index)
      [] e.type = "message_stop" ->
            IF d.open # NoFields \/ d.accum.blocks # NoFields \/ d.accum.stop = None THEN Bad ELSE d.open
      [] OTHER -> d.open

claude_event(d, e) ==
    LET known == e.type \in {"message_start", "content_block_start", "content_block_delta",
                             "content_block_stop", "message_delta", "message_stop"}
        open == ordered(d, e)
        r == push(d.accum, e)
    IN  CASE ~validate(e) -> decode_error
          [] validate(e) /\ e.type = "error" -> stream_error(e)
          [] validate(e) /\ e.type # "error" /\ ~known -> Ok(d, <<>>)
          [] OTHER ->
               IF d.started = (e.type = "message_start") \/ open = Bad THEN decode_error
               ELSE IF ~r.ok THEN r
               ELSE Ok([started |-> TRUE, open |-> open, accum |-> r.state], r.events)

claude_accept(d, e, parts) ==
    LET f == framed(parts)
    IN  CASE ~f.ok -> f
          [] f.ok /\ f.events = <<>> -> Ok(d, <<>>)
          [] OTHER -> IF ~json(f.events[1]) \/ f.events[1].event \notin {None, e.type} THEN decode_error
                      ELSE claude_event(d, e)

-----------------------------------------------------------------------------
(* OpenAI usage: the raw counters seen so far.                              *)

Present(u, f) == f \in DOMAIN u /\ u[f] \notin {Null, Bad}
validate_subsets(u) ==
    /\ Known(u, "prompt") => Count(u, "cached") + Count(u, "written") <= u.prompt
    /\ Known(u, "completion") => Count(u, "reasoning") <= u.completion
validate_reported_total(u) ==
    Known(u, "total") /\ Known(u, "prompt") /\ Known(u, "completion") => u.prompt + u.completion = u.total
merge_usage(raw, u) ==
    LET complete == Known(raw, "prompt") /\ Known(raw, "completion")
        counts == Present(u, "prompt") \/ Present(u, "completion")
        kept_raw == IF complete /\ counts /\ "total" \notin DOMAIN u THEN Without(raw, "total") ELSE raw
        seen == {f \in DOMAIN u : u[f] # Null}
        next == [f \in DOMAIN kept_raw \cup seen |-> IF f \in seen THEN u[f] ELSE kept_raw[f]]
    IN  IF \/ u = Bad \/ \E f \in DOMAIN u : u[f] = Bad \/ (f = "total" /\ u[f] = Null)
           \/ \E f \in {"prompt", "completion"} \cap seen : Known(raw, f) /\ u[f] < raw[f]
        THEN Bad
        ELSE IF validate_subsets(next) /\ validate_reported_total(next) THEN next ELSE Bad
openai_usage(raw) ==
    [input |-> LET rest == Count(raw, "prompt") - Count(raw, "cached") - Count(raw, "written")
               IN  IF Count(raw, "prompt") < Count(raw, "cached") + Count(raw, "written") THEN 0 ELSE rest,
     output |-> Count(raw, "completion"), create |-> Count(raw, "written"), hour |-> 0,
     read |-> Count(raw, "cached"), reasoning |-> Count(raw, "reasoning")]
openai_complete(raw) ==
    Known(raw, "prompt") /\ Known(raw, "completion") /\ validate_subsets(raw) /\ validate_reported_total(raw)

-----------------------------------------------------------------------------
(* OpenAI accumulator.                                                      *)

OpenAiDecoder == [started |-> FALSE, usage |-> ZeroUsage, raw |-> NoFields, has_output |-> FALSE,
                  bytes |-> 0, tools |-> NoFields, stop |-> None, refused |-> FALSE]

map_finish_reason(reason) ==
    CASE reason = "stop" -> "end_turn"
      [] reason = "length" -> "max_tokens"
      [] reason \in {"tool_calls", "function_call"} -> "tool_use"
      [] reason = "content_filter" -> "refusal"
      [] OTHER -> "other"

ToolSize(t) == Len(t.id) + Len(t.name) + Len(t.args)
tool(a, call) ==
    LET buf == IF call.index \in DOMAIN a.tools THEN a.tools[call.index]
               ELSE [id |-> <<>>, name |-> <<>>, args |-> <<>>]
        next == [id |-> IF call.id = None THEN buf.id ELSE call.id,
                 name |-> buf.name \o call.name, args |-> buf.args \o call.args]
        total == a.bytes - ToolSize(buf) + ToolSize(next)
    IN  IF \/ call.index = Bad \/ call.id \in {Bad, <<>>} \/ call.function = Bad
           \/ call.index \notin DOMAIN a.tools /\ Cardinality(DOMAIN a.tools) >= MaxOpenBlocks
           \/ call.id # None /\ buf.id # <<>> /\ buf.id # call.id
           \/ ToolSize(next) > MaxBlockBytes \/ total > MaxResponseBytes
        THEN Bad
        ELSE [a EXCEPT !.tools = With(@, call.index, next), !.bytes = total]

(* The usage of a chunk.                                                    *)
counted(a, c) ==
    LET raw == merge_usage(a.raw, c.usage)
    IN  IF c.usage \in {None, Null} THEN a
        ELSE IF raw = Bad THEN Bad
        ELSE [a EXCEPT !.raw = raw, !.usage = openai_usage(raw),
                       !.has_output = @ \/ (a.stop # None /\ Present(c.usage, "completion"))]
UsageEvent(a, c) ==
    IF c.usage \in {None, Null} THEN <<>> ELSE <<[type |-> "usage", usage |-> a.usage]>>
TextEvents(choice) ==
    LET Said(t) == IF t \in {None, <<>>} THEN <<>> ELSE <<[type |-> "text", part |-> t]>>
    IN  Said(choice.content) \o Said(choice.refusal)
(* The choice of a chunk, after its usage.                                  *)
chosen(a, c) ==
    LET choice == c.choices[1]
        tools == FoldLeft(LAMBDA acc, call : IF acc = Bad THEN Bad ELSE tool(acc, call), a, choice.calls)
    IN  IF \/ a.stop # None \/ choice.index \notin {None, 0} \/ Bad \in {choice.content, choice.refusal, choice.finish}
           \/ tools = Bad
        THEN Bad
        ELSE [tools EXCEPT
                !.refused = @ \/ choice.refusal \notin {None, <<>>},
                !.stop = IF choice.finish = None THEN @ ELSE map_finish_reason(choice.finish),
                !.has_output = @ \/ (choice.finish # None /\ c.usage \notin {None, Null}
                                     /\ Present(c.usage, "completion"))]
openai_push(a, c) ==
    LET counted_a == counted(a, c)
    IN  CASE c.error -> Failed(500)
          [] ~c.error /\ (c.choices = Bad \/ (c.choices # Bad /\ Len(c.choices) > 1)) -> decode_error
          [] OTHER ->
               IF counted_a = Bad THEN decode_error
               ELSE IF c.choices = <<>>
               THEN IF c.usage \in {None, Null} THEN decode_error ELSE Ok(counted_a, UsageEvent(counted_a, c))
               ELSE LET next == chosen(counted_a, c)
                    IN  IF next = Bad THEN decode_error
                        ELSE Ok(next, UsageEvent(counted_a, c) \o TextEvents(c.choices[1]))

Bytes(tools, f) == {tools[i][f] : i \in DOMAIN tools}
ReleasedEarly(a) ==   \* a slip: any stop releases the calls
    Ok([a EXCEPT !.tools = NoFields],
       [i \in 1..Cardinality(DOMAIN a.tools) |->
            LET t == a.tools[Ascending(DOMAIN a.tools)[i]] IN Call(t, t.args)]
       \o <<[type |-> "end", stop |-> a.stop, usage |-> a.usage]>>)
openai_finish(a) ==
    LET stop == IF a.refused THEN "refusal" ELSE a.stop
        n == Cardinality(DOMAIN a.tools)
        calls == [i \in 1..n |-> LET t == a.tools[i - 1] IN Call(t, t.args)]
        end == <<[type |-> "end", stop |-> stop, usage |-> a.usage]>>
    IN  CASE ~openai_complete(a.raw) \/ ~a.has_output \/ a.stop = None -> decode_error
          [] openai_complete(a.raw) /\ a.has_output /\ a.stop # None /\ stop = "tool_use" ->
               IF \/ n = 0 \/ DOMAIN a.tools # 0..(n - 1)
                  \/ <<>> \in Bytes(a.tools, "id") \cup Bytes(a.tools, "name")
                  \/ Cardinality(Bytes(a.tools, "id")) < n
               THEN decode_error ELSE Ok([a EXCEPT !.tools = NoFields], calls \o end)
          [] OTHER -> IF stop = "end_turn" /\ n > 0 THEN decode_error ELSE Ok(a, end)

openai_accept(a, c, parts) ==
    LET f == framed(parts)
        r == openai_push(a, c)
    IN  CASE ~f.ok -> f
          [] f.ok /\ f.events = <<>> -> Ok(a, <<>>)
          [] OTHER ->
               IF c.type = "done" /\ f.events[1].data = <<"whole">> THEN openai_finish(a)
               ELSE IF c.type = "done" \/ ~json(f.events[1]) THEN decode_error
               ELSE IF ~r.ok THEN r
               ELSE Ok([r.state EXCEPT !.started = TRUE],
                       (IF a.started THEN <<>> ELSE <<[type |-> "start", usage |-> ZeroUsage]>>) \o r.events)

-----------------------------------------------------------------------------
(* Whole responses: what complete() makes of one.                           *)

(* Claude skips a block it cannot read.                                     *)
parse_assistant_block(b) ==
    CASE b.kind = "text" -> IF b.text = Bad THEN <<>> ELSE <<Content(start_block(b), None)>>
      [] b.kind \in {"thinking", "redacted_thinking"} ->
            <<Content([start_block(b) EXCEPT !.text = IF @ = Bad THEN <<>> ELSE @,
                                             !.signature = IF @ = Bad THEN None ELSE @], None)>>
      [] b.kind = "tool_use" /\ Bad \in {b.id, b.name} -> <<>>
      [] b.kind = "tool_use" /\ Bad \notin {b.id, b.name} ->
            <<Content(start_block(b), IF b.input = Bad THEN <<"{", "}">> ELSE b.input)>>
      [] OTHER -> <<>>
claude_response(v) ==
    IF v.usage = None \/ ~require_complete(v.usage) THEN decode_error
    ELSE Ok([content |-> FlattenSeq([i \in DOMAIN v.content |-> parse_assistant_block(v.content[i])]),
             stop |-> IF v.stop = None THEN "end_turn" ELSE map_stop_reason(v.stop),
             usage |-> claude_usage(v.usage)], <<>>)

openai_response(v) ==
    LET Text(t) == IF t \in {None, <<>>} THEN <<>>
                   ELSE <<[kind |-> "text", text |-> t, signature |-> None]>>
        stop == IF v.refusal \notin {None, <<>>} THEN "refusal" ELSE map_finish_reason(v.finish)
        raw == IF v.usage = None THEN NoFields ELSE merge_usage(NoFields, v.usage)
        broken == \E i \in DOMAIN v.calls :
                     LET c == v.calls[i]
                     IN  c.id = <<>> \/ c.name = <<>> \/ from_str(c.args) = Bad
                         \/ \E j \in DOMAIN v.calls : j # i /\ v.calls[j].id = c.id
        uses == [i \in DOMAIN v.calls |-> [kind |-> "tool_use", id |-> v.calls[i].id, name |-> v.calls[i].name,
                                           input |-> from_str(v.calls[i].args)]]
    IN  IF v.finish = None THEN decode_error
        ELSE IF (v.calls # <<>>) # (stop = "tool_use") \/ broken \/ raw = Bad THEN decode_error
        ELSE IF ~openai_complete(raw) THEN decode_error
        ELSE Ok([content |-> Text(v.content) \o Text(v.refusal) \o uses, stop |-> stop,
                 usage |-> openai_usage(raw)], <<>>)
=============================================================================

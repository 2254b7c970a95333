------------------------------ MODULE Provider ------------------------------
(* One call of a provider, from the request to its answer: a stream, a      *)
(* whole completion, or one of the LLM's extractions.  The network loses    *)
(* the request, answers with an error, or cuts the stream anywhere; the     *)
(* server's events come in any order and with any fields.                   *)
(*                                                                          *)
(* `told` is what the server has said, put together with no checks, and     *)
(* `given` what a reader of the stream has been handed.                     *)
EXTENDS ProviderStream

CONSTANTS
    Jobs,        \* calls: vendor, bound model, entry point, request
    Wire,        \* the events and chunks a server may send, by vendor
    Lines(_),    \* the ways an event may be laid out on lines and segments
    Responses,   \* whole responses, by vendor
    Sayable(_)   \* bound: the server goes on from this `told`

VARIABLES vendor, via, bound, request, body, phase, dec, told, given, answer
vars == <<vendor, via, bound, request, body, phase, dec, told, given, answer>>

Nothing == [text |-> 0, blocks |-> NoFields, calls |-> <<>>, usage |-> ZeroUsage]
Silence == [blocks |-> NoFields, text |-> 0, open |-> {}, usage |-> NoFields, stop |-> None,
            refused |-> FALSE, covered |-> FALSE, stray |-> FALSE]
Fresh(v) == IF v = "claude" THEN ClaudeDecoder ELSE OpenAiDecoder
Error(kind) == [type |-> "error", error |-> kind]

Init ==
    /\ \E job \in Jobs : /\ vendor = job.vendor /\ via = job.via
                         /\ bound = job.bound /\ request = job.request
    /\ body = None /\ phase = "new"
    /\ dec = Fresh(vendor)
    /\ told = Silence /\ given = Nothing /\ answer = None

(* complete and stream up to the POST; LLM::text and the extractions build  *)
(* their request first.                                                     *)
Asked ==
    CASE via = "text" -> build_request(vendor, bound, request, <<>>, "none")
      [] via \in {"extract", "extract_with_usage"} -> extraction_request(vendor, bound, request)
      [] OTHER -> request
Prepare ==
    /\ phase = "new"
    /\ \E asked \in {Asked} : body' = IF asked = Refused THEN Refused ELSE prepare(vendor, bound, asked)
    /\ phase' = IF body' = Refused THEN "over" ELSE "prepared"
    /\ answer' = IF body' = Refused THEN Error("invalid") ELSE None
    /\ UNCHANGED <<vendor, via, bound, request, dec, told, given>>

(* send and ensure_success: the body is gone once it is sent.               *)
Send(status) ==
    /\ phase = "prepared"
    /\ phase' = IF status = 200 THEN (IF via = "stream" THEN "streaming" ELSE "waiting") ELSE "over"
    /\ answer' = CASE status = 200 -> None
                   [] status = 0 -> Error("transport")
                   [] OTHER -> Error(status)
    /\ body' = None /\ request' = None /\ bound' = None
    /\ UNCHANGED <<vendor, via, dec, told, given>>

(* A whole response; the extractions look for their tool's input in it.     *)
Respond(v, valid) ==
    LET r == IF vendor = "claude" THEN claude_response(v) ELSE openai_response(v)
        single == via = "extract_with_usage"
        found == tool_input(r.state.stop, r.state.content, single)
        payload == IF found.problem # "none" THEN found.problem
                   ELSE IF found.input # <<"{", "a", "}">> \/ (single /\ ~valid) THEN "invalid" ELSE "none"
    IN  /\ phase = "waiting" /\ phase' = "over"
        /\ answer' = IF ~r.ok THEN Error("decode")
                     ELSE [type |-> "response", said |-> v, usage |-> r.state.usage, stop |-> r.state.stop,
                           result |-> IF via \in {"extract", "extract_with_usage"} THEN payload ELSE "none"]
        /\ UNCHANGED <<vendor, via, bound, request, body, dec, told, given>>

-----------------------------------------------------------------------------
(* The stream.                                                              *)

(* What the server has said after this event of a Claude stream.            *)
ClaudeTold(t, e) ==
    CASE e.type = "message_start" -> [t EXCEPT !.usage = e.usage]
      [] e.type = "content_block_start" ->
            [t EXCEPT !.blocks = With(@, e.index, e.block), !.open = @ \cup {e.index}, !.covered = FALSE,
                      !.stray = @ \/ e.index \in DOMAIN t.blocks]
      [] e.type = "content_block_delta" ->
            LET Longer(x) == (IF x = None THEN <<>> ELSE x) \o e.delta.part
            IN  IF e.index \notin t.open THEN [t EXCEPT !.stray = TRUE]
                ELSE IF e.delta.kind = "signature_delta"
                THEN [t EXCEPT !.blocks[e.index].signature = Longer(@), !.covered = FALSE]
                ELSE IF e.delta.kind = "input_json_delta" /\ e.delta.part # <<>>
                THEN [t EXCEPT !.blocks[e.index].args = Longer(@), !.covered = FALSE]
                ELSE IF e.delta.kind \in {"text_delta", "thinking_delta"}
                THEN [t EXCEPT !.blocks[e.index].text = Longer(@), !.covered = FALSE]
                ELSE t
      [] e.type = "content_block_stop" ->
            [t EXCEPT !.open = @ \ {e.index}, !.stray = @ \/ e.index \notin t.open]
      [] e.type = "message_delta" ->
            [t EXCEPT !.usage = [f \in DOMAIN @ \cup DOMAIN e.usage |-> IF Known(e.usage, f) THEN e.usage[f] ELSE
                                                                        IF f \in DOMAIN @ THEN @[f] ELSE Null],
                      !.covered = TRUE, !.stop = IF e.stop \in {None, Null} THEN @ ELSE e.stop]
      [] OTHER -> t

(* And of an OpenAI stream, for a chunk with at most one choice.            *)
CallsTold(blocks, calls) ==
    FoldLeft(LAMBDA all, c :
                LET old == IF c.index \in DOMAIN all THEN all[c.index] ELSE [id |-> <<>>, name |-> <<>>, args |-> <<>>]
                IN  With(all, c.index, [id |-> IF c.id = None THEN old.id ELSE c.id,
                                        name |-> old.name \o c.name, args |-> old.args \o c.args]),
             blocks, calls)
OpenAiTold(t, c) ==
    LET usage == IF c.usage \in {None, Null} THEN NoFields ELSE c.usage
        counted_t == [t EXCEPT
            !.usage = [f \in DOMAIN @ \cup DOMAIN usage |-> IF Known(usage, f) THEN usage[f] ELSE
                                                            IF f \in DOMAIN @ THEN @[f] ELSE Null],
            !.covered = @ \/ Known(usage, "completion")]
        choice == c.choices[1]
        says == choice.content # None \/ choice.refusal # None \/ choice.calls # <<>>
    IN  IF c.type = "done" \/ c.choices = <<>> THEN counted_t
        ELSE [counted_t EXCEPT
                !.blocks = CallsTold(@, choice.calls),
                !.text = @ + Size(choice.content) + Size(choice.refusal),
                !.refused = @ \/ choice.refusal \notin {None, <<>>},
                !.stop = IF choice.finish = None THEN @ ELSE choice.finish,
                !.covered = IF says THEN Known(usage, "completion") ELSE @,
                !.stray = @ \/ t.stop # None]

(* What the reader holds after an event.                                    *)
Handed(g, e) ==
    CASE e.type \in {"start", "usage", "end"} -> [g EXCEPT !.usage = e.usage]
      [] e.type = "text" -> [g EXCEPT !.text = @ + Len(e.part)]
      [] e.type = "block" -> [g EXCEPT !.blocks = With(@, e.index, e.content)]
      [] e.type = "call" -> [g EXCEPT !.calls = Append(@, e)]
      [] OTHER -> g

(* drive: every segment of the chunk goes through the decoder; the stream   *)
(* is over with the first error or the end, and its decoder dropped.        *)
Accepted(e, parts) ==
    IF vendor = "claude" THEN claude_accept(dec, e, parts) ELSE openai_accept(dec, e, parts)
Ended(events) == events # <<>> /\ Last(events).type = "end"
Arrive(e, parts) ==
    /\ phase = "streaming"
    /\ \E r \in {Accepted(e, parts)} :
         IF r.ok
         THEN /\ phase' = IF Ended(r.events) THEN "over" ELSE "streaming"
              /\ answer' = IF Ended(r.events) THEN Last(r.events) ELSE None
              /\ dec' = r.state
              /\ given' = FoldLeft(Handed, given, r.events)
              /\ told' = IF vendor = "claude" THEN ClaudeTold(told, e) ELSE OpenAiTold(told, e)
         ELSE /\ phase' = "over" /\ answer' = Error(r.error)
              /\ dec' = Fresh(vendor) /\ told' = Silence /\ UNCHANGED given
    /\ UNCHANGED <<vendor, via, bound, request, body>>

(* The body ends, or the transport fails, before the end of the answer.     *)
Cut ==
    /\ phase \in {"waiting", "streaming"} /\ phase' = "over"
    /\ answer' = Error("transport")
    /\ dec' = Fresh(vendor) /\ told' = Silence
    /\ UNCHANGED <<vendor, via, bound, request, body, given>>

Next ==
    \/ Prepare
    \/ \E status \in {0, 200, 400, 429, 500} : Send(status)
    \/ \E v \in Responses[vendor], valid \in BOOLEAN : Respond(v, valid)
    \/ Sayable(told) /\ \E e \in Wire[vendor] : \E parts \in Lines(e) : Arrive(e, parts)
    \/ Cut
Spec == Init /\ [][Next]_vars

-----------------------------------------------------------------------------
(* Properties.                                                              *)

Own(f) == request = None \/ via \in {"text", "extract", "extract_with_usage"} \/ f \notin DOMAIN request.extra
Answered(messages) ==
    \A i \in DOMAIN messages : \A p \in ToSet(messages[i].parts) :
        p.kind = "tool_use" =>
            LET run == {j \in (i + 1)..Len(messages) : \A k \in (i + 1)..j :
                           messages[k].role = "tool" \/ (vendor = "claude" /\ k = i + 1)}
            IN  \E j \in run : \E n \in DOMAIN messages[j].parts :
                    /\ messages[j].parts[n].kind = "result" /\ messages[j].parts[n].id = p.id
                    /\ \A m \in 1..n : messages[j].parts[m].kind = "result"
\* The places a caller wants cached, by its strategy or by a flag on the place;
\* of the messages only those with a block to mark, among the first it names.
Cacheable ==
    LET by(at) == request.cache.mode = "auto"
                  \/ (request.cache.mode = "breakpoints" /\ \E p \in request.cache.points : p.at = at)
        last(i) == \A j \in DOMAIN request.messages : request.messages[j].role = "user" => j <= i
        named(i) == \/ by("last_user") /\ request.messages[i].role = "user" /\ last(i)
                    \/ request.cache.mode = "breakpoints" /\ [at |-> "message", index |-> i] \in request.cache.points
        tools == {i \in DOMAIN request.tools : request.tools[i].cache \/ (by("tools") /\ i = Len(request.tools))}
        messages == {i \in DOMAIN request.messages :
                        /\ named(i) /\ request.messages[i].parts # <<>>
                        /\ Cardinality({j \in 1..(i - 1) : named(j)}) < MaxBreakpoints}
    IN  IF request.cache.mode = "off" THEN {}
        ELSE [at : {"tool"}, index : tools] \cup [at : {"message"}, index : messages]
             \cup {p \in {[at |-> "system", index |-> 0]} :
                       request.system # None /\ (request.system.cache \/ by("system"))}
MarkedInPrefixOrder ==
    LET place(p) == CASE p.at = "tool" -> p.index
                      [] p.at = "system" -> Len(request.tools) + 1
                      [] p.at = "message" -> Len(request.tools) + 1 + p.index
        marked == ToSet(body.marks)
    IN  /\ marked \subseteq Cacheable
        /\ \A i, j \in DOMAIN body.marks : i < j => place(body.marks[i]) < place(body.marks[j])
        /\ \A p \in Cacheable \ marked :
              Len(body.marks) = MaxBreakpoints /\ \A q \in marked : place(q) < place(p)
\* What reaches a model is something it takes (models.rs:5-7, "a model that
\* dropped a field never receives it"), with the fields of `extra` left to the
\* caller: the rules are those of the model that is asked, not of the handle;
\* breakpoints only where the caller asked for one, in prefix order, and where
\* the API's limit leaves some out they are the ones that come last; every tool
\* result directly follows the call it answers; and an extraction either forces
\* its tool or tells the model to call it.
RequestAccepted ==
    phase = "prepared" =>
        LET takes == capabilities_for(vendor, body.model)
        IN  /\ body.tool_choice # None /\ ~takes.forced => body.tool_choice.type \notin {"any", "tool", "required"}
            /\ body.temperature # None => takes.sampling
            /\ takes.max_output # None /\ Own("max_tokens") => body.max_tokens <= takes.max_output
            /\ body.thinking = "adaptive" => takes.thinking = "adaptive"
            /\ body.thinking = "budget" => takes.thinking = "budget"
            /\ body.thinking \in {"disabled", "between_tools"} => body.thinking = takes.off
            /\ Len(body.marks) <= MaxBreakpoints
            /\ vendor = "claude" /\ via \in {"complete", "stream"} => MarkedInPrefixOrder
            /\ Answered(body.messages)
            /\ via \in {"extract", "extract_with_usage"} =>
                  body.tool_choice.type = "tool" \/ "told" \in DOMAIN body.system

\* A successful answer is certified (provider.rs:373-386): a stream ends well
\* only when the server closed every block, said nothing outside one, and
\* reported its output tokens after the last content; the reader then holds
\* exactly the blocks, calls and counters the server sent, the same as a whole
\* response with that content would give; and an extraction takes its result
\* only from a finished response.
Whole ==
    IF vendor = "claude"
    THEN [content |-> [i \in 1..Cardinality(DOMAIN told.blocks) |->
                          LET b == told.blocks[Ascending(DOMAIN told.blocks)[i]]
                          IN  [b EXCEPT !.input = IF b.args = None THEN @ ELSE from_str(b.args)]],
          usage |-> told.usage, stop |-> told.stop]
    ELSE [content |-> None, refusal |-> IF told.refused THEN <<"r">> ELSE None,
          calls |-> [i \in 1..Cardinality(DOMAIN told.blocks) |-> told.blocks[Ascending(DOMAIN told.blocks)[i]]],
          finish |-> told.stop, usage |-> told.usage]
InOrder(blocks) == [i \in 1..Cardinality(DOMAIN blocks) |-> blocks[Ascending(DOMAIN blocks)[i]]]
Spoken(b) == IF b.kind = "text" THEN Len(b.text) ELSE 0
AnswerCertified ==
    /\ answer # None /\ answer.type = "end" =>
        LET whole == IF vendor = "claude" THEN claude_response(Whole) ELSE openai_response(Whole)
            uses == SelectSeq(whole.state.content, LAMBDA c : c.kind = "tool_use")
        IN  /\ told.open = {} /\ ~told.stray /\ told.covered
            /\ vendor = "claude" =>
                  /\ Len(given.calls) = Cardinality({i \in DOMAIN told.blocks : told.blocks[i].kind = "tool_use"})
                  /\ \A i \in DOMAIN told.blocks : told.blocks[i].kind = "tool_use" =>
                        \E c \in ToSet(given.calls) :
                            /\ c.id = told.blocks[i].id
                            /\ c.arguments = IF told.blocks[i].args = None THEN told.blocks[i].input
                                             ELSE told.blocks[i].args
                  /\ given.text = MapThenSumSet(LAMBDA i : Spoken(told.blocks[i]), DOMAIN told.blocks)
            /\ vendor = "openai" =>
                  /\ given.text = told.text
                  /\ answer.stop # "tool_use" => given.calls = <<>>
            /\ whole.ok =>
                  /\ answer.stop = whole.state.stop /\ answer.usage = whole.state.usage
                  /\ vendor = "claude" => InOrder(given.blocks) = whole.state.content
                  /\ vendor = "openai" => Len(given.calls) = Len(uses)
                  /\ vendor = "openai" => \A i \in DOMAIN uses :
                        given.calls[i].id = uses[i].id /\ from_str(given.calls[i].arguments) = uses[i].input
    /\ answer # None /\ answer.type = "response" =>
        /\ answer.said.usage # None
        /\ via \in {"extract", "extract_with_usage"} /\ answer.result = "none" =>
              answer.stop \in {"tool_use", "end_turn"}

\* The tally a reader holds only grows: the output is never taken back, and
\* neither is the input the response costs, except that OpenAI's details count
\* as they come while the prompt they are part of is not known (merge_counter).
UsageCumulative ==
    [][/\ total_input(given'.usage) < total_input(given.usage) =>
             vendor = "openai" /\ ~Known(dec.raw, "prompt")
       /\ given'.usage.output >= given.usage.output]_vars

\* The bytes the decoder counts are the bytes it keeps: the limit on one
\* response holds for what is retained, complete or open.
Retained ==
    IF vendor = "claude"
    THEN MapThenSumSet(LAMBDA i : bytes(dec.accum.blocks[i]),
                       {i \in DOMAIN dec.accum.blocks : dec.accum.blocks[i] # None})
         + MapThenSumSet(LAMBDA i : content_bytes(given.blocks[i]), DOMAIN given.blocks)
    ELSE MapThenSumSet(LAMBDA i : ToolSize(dec.tools[i]), DOMAIN dec.tools)
RetainedBounded ==
    phase = "streaming" =>
        /\ Retained <= MaxResponseBytes
        /\ (IF vendor = "claude" THEN dec.accum.bytes ELSE dec.bytes) = Retained
=============================================================================

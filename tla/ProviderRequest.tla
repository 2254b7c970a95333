-------------------------- MODULE ProviderRequest --------------------------
(* What the Claude and OpenAI adapters send (ai-sdk/src/provider.rs,        *)
(* provider/capabilities.rs, claude.rs, claude/models.rs, openai.rs,        *)
(* cache.rs) and the requests of the one-shot LLM (llm.rs).  Texts, schemas *)
(* and names are reduced to what the adapters decide on; a body is a record *)
(* whose absent fields are None.                                            *)
EXTENDS Naturals, Sequences, FiniteSets, FiniteSetsExt, SequencesExt

CONSTANTS
    None, Refused,   \* model values: an absent value, an invalid argument
    DefaultBudget,   \* DEFAULT_THINKING_BUDGET
    LargeOutput,     \* LARGE_OUTPUT
    MaxBreakpoints   \* MAX_BREAKPOINTS

-----------------------------------------------------------------------------
(* What a model takes.                                                      *)

rules(forced, thinking, sampling, max_output, off) ==
    [forced |-> forced, thinking |-> thinking, sampling |-> sampling,
     max_output |-> max_output, off |-> off]

LEGACY == rules(TRUE, "budget", TRUE, None, "omit")
ADAPTIVE_WITH_SAMPLING == rules(TRUE, "adaptive", TRUE, LargeOutput, "omit")
ADAPTIVE == rules(TRUE, "adaptive", FALSE, LargeOutput, "omit")
THINKING_BY_DEFAULT == rules(TRUE, "adaptive", FALSE, LargeOutput, "disabled")
SONNET_5_5 == rules(FALSE, "adaptive", FALSE, LargeOutput, "between_tools")
ALWAYS_THINKING == rules(TRUE, "adaptive", FALSE, LargeOutput, "omit")
NEWEST == rules(FALSE, "adaptive", FALSE, LargeOutput, "omit")

(* A model id is its tokens after "claude-", and whether it has that part;  *)
(* a token is a word or a number, and "@" starts a pinned snapshot.         *)
Family == {"opus", "sonnet", "haiku", "fable", "mythos"}
version_part(token) == token.number # None /\ token.number < 100
parse(id) ==
    LET at == SelectInSeq(id.tokens, LAMBDA t : t.word = "@")
        rest == IF at = 0 THEN id.tokens ELSE SubSeq(id.tokens, 1, at - 1)
        family == SelectSeq(rest, LAMBDA t : t.word \in Family)
        numbers == SelectSeq(rest, version_part)
    IN  IF ~id.claude \/ family = <<>> \/ numbers = <<>> THEN None
        ELSE [family |-> family[1].word,
              version |-> <<numbers[1].number, IF Len(numbers) > 1 THEN numbers[2].number ELSE 0>>]

(* The rules of a family up to a version, oldest first.                     *)
Generations ==
    [opus |-> <<<<<<4, 6>>, LEGACY>>, <<<<4, 7>>, ADAPTIVE_WITH_SAMPLING>>,
                <<<<5, 0>>, ADAPTIVE>>, <<<<5, 5>>, THINKING_BY_DEFAULT>>>>,
     sonnet |-> <<<<<<4, 6>>, LEGACY>>, <<<<5, 0>>, ADAPTIVE_WITH_SAMPLING>>,
                  <<<<5, 5>>, THINKING_BY_DEFAULT>>, <<<<5, 6>>, SONNET_5_5>>>>,
     haiku |-> <<<<<<5, 0>>, LEGACY>>, <<<<5, 6>>, THINKING_BY_DEFAULT>>>>,
     fable |-> <<<<<<5, 1>>, ALWAYS_THINKING>>>>,
     mythos |-> <<<<<<5, 1>>, ALWAYS_THINKING>>>>]
Before(v, w) == v[1] < w[1] \/ (v[1] = w[1] /\ v[2] < w[2])
rules_for(id) ==
    LET p == parse(id)
        steps == IF p = None THEN <<>>
                 ELSE SelectSeq(Generations[p.family], LAMBDA g : Before(p.version, g[1]))
    IN  IF steps = <<>> THEN NEWEST ELSE steps[1][2]

is_registered_chat_model(id) == id.tokens[1].word \in {"gpt-6-sol", "gpt-6-luna"}
model_capabilities(id) ==
    IF is_registered_chat_model(id) THEN rules(TRUE, "none", FALSE, LargeOutput, "omit")
    ELSE rules(TRUE, "none", TRUE, None, "omit")

(* Cache controls: the lifetimes of explicit breakpoints, or None.          *)
cache_capabilities(vendor, id) ==
    IF vendor = "claude" THEN [known |-> TRUE, ttls |-> {"5m", "1h"}]
    ELSE [known |-> is_registered_chat_model(id) \/ id.tokens[1].word = "gpt-4o", ttls |-> {}]
validate_cache(capabilities, cache) ==
    cache.mode = "breakpoints" => capabilities.known /\ cache.ttl \in capabilities.ttls

capabilities_for(vendor, id) ==
    IF vendor = "claude" THEN rules_for(id) ELSE model_capabilities(id)

pick_model(bound, req) == IF req.model = None THEN bound ELSE req.model

-----------------------------------------------------------------------------
(* Fitting a request to the model.                                          *)

is_forced(choice) == choice \in {"any", "required", "tool"}
fit_thinking(requested, support) ==
    CASE support = "none" -> [mode |-> "off", budget |-> None]
      [] support = "adaptive" /\ requested.mode = "budget" -> [mode |-> "adaptive", budget |-> None]
      [] support = "budget" /\ requested.mode = "adaptive" -> [mode |-> "budget", budget |-> DefaultBudget]
      [] OTHER -> requested

fit_to(req, capabilities) ==
    [req EXCEPT
        !.tool_choice = IF ~capabilities.forced /\ is_forced(@) THEN "auto" ELSE @,
        !.temperature = IF capabilities.sampling THEN @ ELSE None,
        !.thinking = fit_thinking(@, capabilities.thinking),
        !.max_tokens = IF capabilities.max_output = None THEN @ ELSE Min({@, capabilities.max_output})]

-----------------------------------------------------------------------------
(* Messages.  A user part is a text, an image or a document with its source *)
(* or a tool result; an assistant part a text, a tool use or thinking.      *)

Of(parts, kinds) == SelectSeq(parts, LAMBDA p : p.kind \in kinds)
MapSeq(s, F(_)) == [i \in DOMAIN s |-> F(s[i])]

(* The messages to be marked, in prefix order.                              *)
last_user_message(messages) ==
    Max({i \in DOMAIN messages : messages[i].role = "user"} \cup {0})

(* CachePlan: the last tool, the system prompt and messages by index.       *)
auto(req) ==
    [tool |-> req.tools # <<>>, system |-> req.system # None,
     messages |-> {last_user_message(req.messages)} \ {0}]
explicit(req, points) ==
    LET wanted == ({p.index : p \in {q \in points : q.at = "message"}} \cap DOMAIN req.messages)
                  \cup (IF \E p \in points : p.at = "last_user"
                        THEN {last_user_message(req.messages)} \ {0} ELSE {})
    IN  [tool |-> req.tools # <<>> /\ \E p \in points : p.at = "tools",
         system |-> req.system # None /\ \E p \in points : p.at = "system",
         messages |-> {i \in wanted : Cardinality({j \in wanted : j < i}) < MaxBreakpoints}]
resolve(req) ==
    CASE req.cache.mode = "off" -> [tool |-> FALSE, system |-> FALSE, messages |-> {}]
      [] req.cache.mode = "auto" -> auto(req)
      [] OTHER -> explicit(req, req.cache.points)

(* Where cache_control goes: every place asks for a slot in prefix order    *)
(* (map_tools, map_system, map_messages) until `take` has none left.        *)
Places(req, plan) ==
    LET tools == SelectSeq([i \in DOMAIN req.tools |-> [at |-> "tool", index |-> i]],
                           LAMBDA p : req.tools[p.index].cache \/ (plan.tool /\ p.index = Len(req.tools)))
        system == IF req.system # None /\ (plan.system \/ req.system.cache)
                  THEN <<[at |-> "system", index |-> 0]>> ELSE <<>>
        messages == SelectSeq([i \in DOMAIN req.messages |-> [at |-> "message", index |-> i]],
                              LAMBDA p : p.index \in plan.messages /\ req.messages[p.index].parts # <<>>)
    IN  tools \o system \o messages
cache_marks(req) ==
    LET places == Places(req, resolve(req))
    IN  IF req.cache.mode = "off" THEN <<>>
        ELSE SubSeq(places, 1, Min({Len(places), MaxBreakpoints}))

(* Claude: a user turn starts with its tool results.                        *)
map_message(m) ==
    IF m.role = "user"
    THEN [m EXCEPT !.parts = Of(@, {"result"}) \o Of(@, {"text", "image", "document"})]
    ELSE m

(* OpenAI: tool results are messages of their own, in front of what else    *)
(* the turn says; reasoning is not sent back.                               *)
map_document_part(part) ==
    IF part.source = "url" THEN [kind |-> "text", source |-> "url"] ELSE [kind |-> "file", source |-> part.source]
map_image_block(part) ==
    IF part.source = "file_id" THEN [kind |-> "input_image", source |-> "file_id"]
    ELSE [kind |-> "image_url", source |-> part.source]
content_part(part) ==
    CASE part.kind = "image" -> map_image_block(part)
      [] part.kind = "document" -> map_document_part(part)
      [] OTHER -> part
map_user_parts(parts) ==
    LET rest == Of(parts, {"text", "image", "document"})
        multipart == Of(parts, {"image", "document"}) # <<>>
        said == IF multipart THEN MapSeq(rest, content_part) ELSE Of(rest, {"text"})
    IN  MapSeq(Of(parts, {"result"}), LAMBDA p : [role |-> "tool", parts |-> <<p>>])
        \o (IF said = <<>> THEN <<>> ELSE <<[role |-> "user", parts |-> said]>>)
map_assistant(parts) == [role |-> "assistant", parts |-> Of(parts, {"text", "tool_use"})]
map_messages(messages) ==
    FlattenSeq(MapSeq(messages, LAMBDA m : IF m.role = "user" THEN map_user_parts(m.parts)
                                           ELSE <<map_assistant(m.parts)>>))

-----------------------------------------------------------------------------
(* Bodies.                                                                  *)

Merged(body, extra) ==
    [f \in DOMAIN body \cup DOMAIN extra |-> IF f \in DOMAIN extra THEN extra[f] ELSE body[f]]

thinking_field(thinking, off, extra) ==
    CASE thinking.mode # "off" -> thinking.mode
      [] "effort" \in DOMAIN extra /\ extra.effort \in {"xhigh", "max"} -> None
      [] OTHER -> IF off = "omit" THEN None ELSE off

claude_tool_choice(choice, parallel) ==
    [type |-> CASE choice \in {"any", "required"} -> "any" [] OTHER -> choice,
     one_at_a_time |-> parallel = FALSE /\ choice # "none"]
claude_body(id, req) ==
    Merged([model |-> id, max_tokens |-> req.max_tokens,
            tools |-> req.tools,
            tool_choice |-> IF req.tools = <<>> THEN None
                            ELSE claude_tool_choice(req.tool_choice, req.parallel),
            system |-> req.system, messages |-> MapSeq(req.messages, map_message),
            marks |-> cache_marks(req), temperature |-> req.temperature,
            thinking |-> thinking_field(req.thinking, rules_for(id).off, req.extra),
            reasoning_effort |-> None], req.extra)

openai_tool_choice(choice) == IF choice \in {"any", "required"} THEN "required" ELSE choice
openai_body(id, req) ==
    LET capabilities == model_capabilities(id)
    IN  Merged([model |-> id,
                max_tokens |-> IF capabilities.max_output = None THEN req.max_tokens
                               ELSE Min({req.max_tokens, capabilities.max_output}),
                reasoning_effort |-> IF is_registered_chat_model(id) THEN "none" ELSE None,
                messages |-> (IF req.system = None THEN <<>> ELSE <<[role |-> "system", parts |-> <<>>]>>)
                             \o map_messages(req.messages),
                tools |-> req.tools,
                tool_choice |-> IF req.tools = <<>> THEN None
                                ELSE [type |-> openai_tool_choice(req.tool_choice),
                                      one_at_a_time |-> req.parallel = FALSE],
                temperature |-> IF capabilities.sampling THEN req.temperature ELSE None,
                cache_key |-> req.cache_key, marks |-> <<>>, thinking |-> None], req.extra)
validate_body(body) ==
    is_registered_chat_model(body.model) /\ body.tools # <<>> => body.reasoning_effort = "none"

(* What a call of the provider sends, or Refused before anything is sent. *)
FitToBound(vendor, bound, req) ==   \* a slip: the rules of the bound model
    LET id == pick_model(bound, req)
        fitted == IF vendor = "claude" THEN fit_to(req, rules_for(bound)) ELSE req
        body == IF vendor = "claude" THEN claude_body(id, fitted) ELSE openai_body(id, req)
    IN  IF validate_cache(cache_capabilities(vendor, id), req.cache)
           /\ (vendor = "openai" => validate_body(body))
        THEN body ELSE Refused
prepare(vendor, bound, req) ==
    LET id == pick_model(bound, req)
        body == IF vendor = "claude" THEN claude_body(id, fit_to(req, rules_for(id)))
                ELSE openai_body(id, req)
    IN  IF validate_cache(cache_capabilities(vendor, id), req.cache)
           /\ (vendor = "openai" => validate_body(body))
        THEN body ELSE Refused

-----------------------------------------------------------------------------
(* The one-shot LLM: its requests, and what it reads from a response.       *)

new(id) ==
    [model |-> id, system |-> None, messages |-> <<>>, tools |-> <<>>, tool_choice |-> "auto",
     max_tokens |-> 1, temperature |-> None, thinking |-> [mode |-> "off", budget |-> None],
     cache |-> [mode |-> "auto"], cache_key |-> None, parallel |-> None, extra |-> <<>>]
build_request(vendor, bound, llm, tools, tool_choice) ==
    LET id == IF llm.model = None THEN bound ELSE llm.model
        req == [new(id) EXCEPT
                   !.system = llm.system, !.tools = tools, !.tool_choice = tool_choice,
                   !.messages = <<[role |-> "user", parts |-> <<[kind |-> "text"]>>]>>,
                   !.max_tokens = llm.max_tokens, !.temperature = llm.temperature, !.cache = llm.cache]
    IN  IF ~llm.user \/ ~validate_cache(cache_capabilities(vendor, id), llm.cache) THEN Refused
        ELSE fit_to(req, capabilities_for(vendor, id))
extract_tool == [name |-> <<"x">>, cache |-> FALSE]
extraction_request(vendor, bound, llm) ==
    LET req == build_request(vendor, bound, llm, <<extract_tool>>, "tool")
    IN  IF req # Refused /\ req.tool_choice = "auto"
        THEN [req EXCEPT !.system = [cache |-> @ # None /\ @.cache, told |-> TRUE]]
        ELSE req

tool_input(stop, content, require_single_tool) ==
    LET uses == Of(content, {"tool_use"})
        found == SelectSeq(uses, LAMBDA b : b.name = extract_tool.name)
        problem == CASE stop = "refusal" -> "refused"
                     [] stop \notin {"refusal", "tool_use", "end_turn"} -> "incomplete"
                     [] stop \in {"tool_use", "end_turn"} /\ require_single_tool /\ Len(uses) > 1 -> "invalid"
                     [] OTHER -> IF found = <<>> THEN "missing" ELSE "none"
    IN  [problem |-> problem, input |-> IF problem = "none" THEN found[1].input ELSE None]
=============================================================================

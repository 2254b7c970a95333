------------------------------- MODULE AgentLoop -------------------------------
(***************************************************************************)
(* The agent's run loop (crates/ai-sdk/src/agent.rs with retry.rs,         *)
(* cancel.rs, control.rs and middleware.rs): middleware hooks, the request *)
(* and its replay binding, acquiring the provider's stream with retries,   *)
(* folding the stream into a step, tool approval, bounded concurrent       *)
(* dispatch, the history that is kept, metering, and the ways a run ends.  *)
(*                                                                         *)
(* `pc` is where the run is suspended (an await or a yield).  The token    *)
(* may be cancelled at any moment.  Text is reduced to whether there is    *)
(* any, a tool call to its id and whether its arguments parse.             *)
(***************************************************************************)
EXTENDS Naturals, Sequences, FiniteSets, SequencesExt

CONSTANTS
    Model,          \* model ids; the first request uses InitialModel
    Provided,       \* models with a provider that accepts the cache strategy
    InitialModel,
    System,         \* system prompts
    InitialSystem,
    ToolId,         \* ids of tool calls
    Event,          \* stream events of the provider
    History,        \* conversations an on_start hook may load
    NumMw,          \* registered middlewares
    MaxRetries,     \* RetryPolicy::max_retries
    MaxSteps,       \* DEFAULT_MAX_STEPS
    MaxConcurrent,  \* MAX_CONCURRENT_TOOLS
    MaxBlocks,      \* MAX_STREAM_RESPONSE_BLOCKS
    MaxEvents,      \* bound: events of one response before its end
    MaxEdits,       \* bound: edits of the conversation by the hooks
    MaxRuns         \* bound: runs of the agent

\* What the stream carries: text or reasoning deltas, signature fragments,
\* complete blocks by index, tool calls, content over its limit, the end.
EventType ==
    [kind : {"text", "think", "sign", "huge"}]
      \cup [kind : {"block"}, index : Nat,
            content : {"text", "signed"} \cup ToolId]
      \cup [kind : {"call"}, id : ToolId, bad : BOOLEAN]
      \cup [kind : {"end"}, stop : {"tool_use", "end_turn", "other"}]

ASSUME AgentAssumption ==
    /\ Provided \subseteq Model /\ InitialModel \in Model
    /\ InitialSystem \in System
    /\ {MaxConcurrent, MaxSteps} \subseteq Nat \ {0}
    /\ {NumMw, MaxRetries, MaxBlocks, MaxEvents, MaxEdits, MaxRuns} \subseteq Nat
    /\ Event \subseteq EventType

VARIABLES
    pc,          \* where the run is
    k,           \* hooks of the current round that have run
    installed,   \* Agent::middleware holds the registered middlewares
    mw,          \* how many middlewares the run holds
    started,     \* middlewares whose on_start has run
    steps,       \* total_steps
    finish,      \* why the run ends
    messages,    \* Agent::messages
    model,       \* Agent::current_model
    system,      \* Agent::system
    skills,      \* Agent::skills has been listed
    binding,     \* Agent::replay_binding, as a set of at most one
    request,     \* the request of this step
    attempts,    \* what came of the attempts at this request
    acc,         \* StepAccum
    plans,       \* the tool calls with their approval and progress
    vote,        \* the approval of the next call so far
    toolStop,    \* an approval stopped the batch
    failed,      \* terminal_failure of this step
    cancelled,   \* the CancelToken
    runs, edits, \* bounds
    open,        \* history: middlewares started and not finished
    debt,        \* history: models of requests that are not metered yet
    mispriced,   \* history: something was metered at another model
    attested     \* history: contexts in which signed content came about

vars == <<pc, k, installed, mw, started, steps, finish, messages, model, system,
          skills, binding, request, attempts, acc, plans, vote, toolStop,
          failed, cancelled, runs, edits, open, debt, mispriced, attested>>

hookVars    == <<installed, mw, started, open>>
contextVars == <<messages, model, system, skills, edits>>
replayVars  == <<binding, attested>>
stepVars    == <<request, attempts, acc, plans, vote, toolStop, failed>>
meterVars   == <<debt, mispriced>>

-----------------------------------------------------------------------------
(* State                                                                   *)

Pc == {"idle", "skills", "no_skills", "on_start", "top", "on_step", "attempt",
       "inflight", "stream", "settle", "approve", "tools", "on_step_done",
       "on_finish"}

\* A message is the ids of its tool_use and tool_result blocks, and whether it
\* holds a signed block.
Message == [uses : Seq(ToolId), results : Seq(ToolId), signed : BOOLEAN]
Plain == [uses |-> <<>>, results |-> <<>>, signed |-> FALSE]

\* Every tool_use of the i-th message has its tool_result in the next one.
Answered(ms, i) ==
    \A id \in ToSet(ms[i].uses) : i < Len(ms) /\ id \in ToSet(ms[i + 1].results)

Complete(ms) == \A i \in DOMAIN ms : Answered(ms, i)

\* What an on_start hook loads is a conversation that a hook could save.
ASSUME HistoryAssumption ==
    \A h \in History : h \in Seq(Message) /\ Complete(h)

\* The elements of s at the positions in I, in their order.
Picked(s, I) ==
    LET Rank(i) == Cardinality({j \in I : j <= i})
    IN  [n \in 1..Cardinality(I) |-> s[CHOOSE i \in I : Rank(i) = n]]

Context == [model |-> model, system |-> system, tools |-> skills]

\* has_signed_history.
Signed(ms) == \E i \in DOMAIN ms : ms[i].signed

EmptyAccum == [n |-> 0, text |-> FALSE, think |-> FALSE, sign |-> FALSE,
               calls |-> <<>>, blocks |-> {}, stop |-> "none", broken |-> FALSE]

NoRequest ==
    [context |-> [model |-> InitialModel, system |-> InitialSystem,
                  tools |-> FALSE],
     messages |-> <<>>]

Init ==
    /\ pc = "idle" /\ k = 0
    /\ installed = TRUE /\ mw = 0 /\ started = 0 /\ open = {}
    /\ steps = 0 /\ finish = "none"
    /\ messages = <<Plain>>
    /\ model = InitialModel /\ system = InitialSystem /\ skills = FALSE
    /\ binding = {} /\ attested = {}
    /\ request = NoRequest /\ attempts = <<>>
    /\ acc = EmptyAccum /\ plans = <<>> /\ vote = <<>>
    /\ toolStop = FALSE /\ failed = FALSE
    /\ cancelled = FALSE
    /\ runs = 0 /\ edits = 0
    /\ debt = <<>> /\ mispriced = FALSE

-----------------------------------------------------------------------------
(* Starting                                                                *)

\* Agent::run, first poll: the middlewares are taken out of the agent.
Run ==
    /\ pc = "idle"
    /\ runs < MaxRuns
    /\ runs' = runs + 1
    /\ mw' = IF installed THEN NumMw ELSE 0
    /\ installed' = FALSE
    /\ started' = 0 /\ steps' = 0 /\ finish' = "none" /\ k' = 0
    /\ pc' = "skills"
    /\ UNCHANGED <<contextVars, replayVars, stepVars, meterVars,
                   cancelled, open>>

\* The skill list cannot be loaded: Done is yielded before any hook has run.
SkillsFail ==
    /\ pc = "skills"
    /\ ~ skills
    /\ finish' = "stopped"
    /\ pc' = "no_skills"
    /\ UNCHANGED <<k, hookVars, steps, contextVars, replayVars, stepVars,
                   meterVars, cancelled, runs>>

\* The middlewares go back into the agent.
Restore ==
    /\ installed' = (mw = NumMw)
    /\ mw' = 0
    /\ pc' = "idle"

\* That early return puts them back only after Done, when polled again.
SkillsRestore ==
    /\ pc = "no_skills"
    /\ Restore
    /\ UNCHANGED <<k, started, open, steps, finish, contextVars, replayVars,
                   stepVars, meterVars, cancelled, runs>>

\* The skills are listed (once), or there is no loader.
SkillsReady ==
    /\ pc = "skills"
    /\ skills' \in {skills, TRUE}
    /\ pc' = "on_start"
    /\ UNCHANGED <<k, hookVars, steps, finish, messages, model, system, edits,
                   replayVars, stepVars, meterVars, cancelled, runs>>

\* A hook with a mutable context may edit the conversation, the model or the
\* system prompt.
Edit ==
    \/ UNCHANGED <<messages, model, system, edits>>
    \/ /\ edits < MaxEdits
       /\ edits' = edits + 1
       /\ \/ /\ messages' \in {Append(messages, Plain), <<Plain>>}
             /\ UNCHANGED <<model, system>>
          \/ /\ model' \in Model \ {model}
             /\ UNCHANGED <<messages, system>>
          \/ /\ system' \in System \ {system}
             /\ UNCHANGED <<messages, model>>

\* An on_start hook may load a stored conversation too.
Load ==
    /\ edits < MaxEdits
    /\ edits' = edits + 1
    /\ messages' \in History
    /\ UNCHANGED <<model, system>>

\* The variables of a step go out of scope.
LeaveStep ==
    /\ request' = NoRequest /\ attempts' = <<>>
    /\ acc' = EmptyAccum /\ plans' = <<>> /\ vote' = <<>>
    /\ toolStop' = FALSE /\ failed' = FALSE

\* The run ends for reason `why`: the on_finish round is next.
EndRun(why) ==
    /\ finish' = why
    /\ pc' = "on_finish"
    /\ k' = 0
    /\ LeaveStep

\* A hook of the current round returns: the next one runs, or the run ends.
HookReturns ==
    \/ /\ k' = k + 1
       /\ UNCHANGED <<pc, finish, stepVars>>
    \/ EndRun("stopped")

OnStart ==
    /\ pc = "on_start"
    /\ k < mw
    /\ started' = started + 1
    /\ open' = open \cup {k + 1}
    /\ Edit \/ Load
    /\ HookReturns
    /\ UNCHANGED <<installed, mw, steps, skills, replayVars, meterVars,
                   cancelled, runs>>

\* Loading is over: signed history is bound to its context.
Bind ==
    /\ pc = "on_start"
    /\ k = mw
    /\ IF binding = {} /\ Signed(messages)
       THEN LET b == [context |-> Context, messages |-> messages]
            IN binding' = {b} /\ attested' = attested \cup {b}
       ELSE UNCHANGED replayVars
    /\ pc' = "top"
    /\ k' = 0
    /\ UNCHANGED <<hookVars, steps, finish, contextVars, stepVars,
                   meterVars, cancelled, runs>>

-----------------------------------------------------------------------------
(* A step's request                                                        *)

\* The top of the step loop looks at the token.
Top ==
    /\ pc = "top"
    /\ IF cancelled THEN EndRun("cancelled")
       ELSE /\ pc' = "on_step"
            /\ k' = 0
            /\ UNCHANGED <<finish, stepVars>>
    /\ UNCHANGED <<hookVars, steps, contextVars, replayVars, meterVars, cancelled,
                   runs>>

OnStep ==
    /\ pc = "on_step"
    /\ k < mw
    /\ Edit
    /\ HookReturns
    /\ UNCHANGED <<hookVars, steps, skills, replayVars, meterVars, cancelled, runs>>

\* Mutant: the bound prefix is not compared.
AcceptsContext(b) == b.context = Context

\* ReplayBinding::accepts.
Accepts(b) ==
    /\ b.context = Context
    /\ IsPrefix(b.messages, messages)

\* The request is built from the conversation as the hooks left it, and refused
\* without a provider or against the binding.
Prepare ==
    /\ pc = "on_step"
    /\ k = mw
    /\ IF model \in Provided /\ \A b \in binding : Accepts(b)
       THEN /\ request' = [context |-> Context, messages |-> messages]
            /\ pc' = "attempt"
            /\ UNCHANGED <<k, finish, attempts, acc, plans, vote, toolStop, failed>>
       ELSE EndRun("stopped")
    /\ UNCHANGED <<hookVars, steps, contextVars, replayVars, meterVars, cancelled,
                   runs>>

-----------------------------------------------------------------------------
(* acquire_stream                                                          *)

\* The token is looked at before each attempt and during the backoff.
Attempt ==
    /\ pc = "attempt"
    /\ IF cancelled THEN EndRun("cancelled")
       ELSE /\ pc' = "inflight"
            /\ UNCHANGED <<k, finish, stepVars>>
    /\ UNCHANGED <<hookVars, steps, contextVars, replayVars, meterVars, cancelled,
                   runs>>

\* Agent::record_usage: the request is metered at the agent's current model.
RecordUsage(owed) ==
    LET at == {i \in DOMAIN owed : owed[i] = model}
    IN IF at = {}
       THEN mispriced' = TRUE /\ debt' = owed
       ELSE LET i == CHOOSE i \in at : TRUE
            IN debt' = RemoveAt(owed, i) /\ UNCHANGED mispriced

\* Mutant: only a retry is raced against the token.
InflightDeaf ==
    /\ pc = "inflight"
    /\ cancelled
    /\ attempts # <<>>
    /\ RecordUsage(Append(debt, request.context.model))
    /\ EndRun("cancelled")
    /\ UNCHANGED <<hookVars, steps, contextVars, replayVars, cancelled, runs>>

\* Cancelled in flight: the prompt may be billed and is metered.
InflightCancelled ==
    /\ pc = "inflight"
    /\ cancelled
    /\ RecordUsage(Append(debt, request.context.model))
    /\ EndRun("cancelled")
    /\ UNCHANGED <<hookVars, steps, contextVars, replayVars, cancelled, runs>>

\* classify: a timeout, a transport error, 429 and 5xx are worth another attempt.
Failure == {"transient", "rate_limited", "fatal"}
IsRetryable(f) == f # "fatal"

LastAttempt(tried) == tried > MaxRetries

\* The attempt fails, before any event has reached the caller.
AttemptFails(f) ==
    /\ pc = "inflight"
    /\ ~ cancelled
    /\ IF IsRetryable(f) /\ ~ LastAttempt(Len(attempts) + 1)
       THEN /\ attempts' = Append(attempts, f)
            /\ pc' = "attempt"
            /\ UNCHANGED <<k, finish, request, acc, plans, vote, toolStop, failed>>
       ELSE EndRun("stopped")
    /\ UNCHANGED <<hookVars, steps, contextVars, replayVars, meterVars, cancelled,
                   runs>>

\* An accepted but empty response is an error and is not retried.
AttemptEmpty ==
    /\ pc = "inflight"
    /\ ~ cancelled
    /\ EndRun("stopped")
    /\ UNCHANGED <<hookVars, steps, contextVars, replayVars, meterVars, cancelled,
                   runs>>

-----------------------------------------------------------------------------
(* The stream                                                              *)

Indices(blocks) == {b.index : b \in blocks}

\* StepAccum::apply, for an event before the end.
Folded(a, e) ==
    LET more == [a EXCEPT !.n = @ + 1]
        broken == [more EXCEPT !.broken = TRUE]
    IN CASE e.kind = "text"  -> [more EXCEPT !.text = TRUE]
         [] e.kind = "think" -> [more EXCEPT !.think = TRUE]
         [] e.kind = "sign"  -> [more EXCEPT !.sign = TRUE]
         [] e.kind = "huge"  -> broken
         [] e.kind = "block" ->
              IF Cardinality(a.blocks) >= MaxBlocks \/ e.index \in Indices(a.blocks)
              THEN broken
              ELSE [more EXCEPT !.blocks =
                      @ \cup {[index |-> e.index, content |-> e.content]}]
         [] e.kind = "call"  ->
              IF Len(a.calls) >= MaxBlocks THEN broken
              ELSE [more EXCEPT !.calls = Append(@, [id |-> e.id, bad |-> e.bad])]

\* StepAccum::apply.
Apply(a, e) == IF e.kind = "end" THEN [a EXCEPT !.stop = e.stop] ELSE Folded(a, e)

\* An event is folded in; a terminal or a broken one ends the reading.
Take(a, e) ==
    /\ e.kind = "end" \/ a.n < MaxEvents
    /\ acc' = Apply(a, e)
    /\ pc' = IF acc'.stop # "none" \/ acc'.broken THEN "settle" ELSE "stream"

\* The stream is open and has a first event: from here on nothing is retried.
Ready(e) ==
    /\ pc = "inflight"
    /\ ~ cancelled
    /\ Take(EmptyAccum, e)
    /\ attempts' = <<>>
    /\ debt' = Append(debt, request.context.model)
    /\ UNCHANGED <<k, hookVars, steps, finish, contextVars, replayVars, request,
                   plans, vote, toolStop, failed, mispriced, cancelled, runs>>

Receive(e) ==
    /\ pc = "stream"
    /\ ~ cancelled
    /\ Take(acc, e)
    /\ UNCHANGED <<k, hookVars, steps, finish, contextVars, replayVars, request,
                   attempts, plans, vote, toolStop, failed, meterVars, cancelled,
                   runs>>

\* capture_complete_text: text of the deltas or of the complete blocks.
HasText(a) == a.text \/ \E b \in a.blocks : b.content = "text"

\* Mutant: a step that was cut short is kept but not metered.
RecordPartialFree ==
    /\ UNCHANGED meterVars
    /\ messages' = IF HasText(acc) THEN Append(messages, Plain) ELSE messages

\* Agent::record_partial: metered, its text kept, tools and thinking dropped.
RecordPartial ==
    /\ RecordUsage(debt)
    /\ messages' = IF HasText(acc) THEN Append(messages, Plain) ELSE messages

\* The stream is cut short: cancelled (the token is looked at first), failed,
\* or ended without its terminal event.
StreamCut ==
    /\ pc = "stream"
    /\ RecordPartial
    /\ EndRun(IF cancelled THEN "cancelled" ELSE "stopped")
    /\ UNCHANGED <<hookVars, steps, model, system, skills, edits, replayVars,
                   cancelled, runs>>

-----------------------------------------------------------------------------
(* The end of the stream                                                   *)

\* The ids of the tool blocks, in the order of the blocks.
BlockTools(a) ==
    LET n == Cardinality(a.blocks)
        at == [i \in 1..n |-> (CHOOSE b \in a.blocks : b.index = i - 1).content]
    IN Picked(at, {i \in 1..n : at[i] \in ToolId})

\* StepAccum::validate_blocks: complete blocks are contiguous and hold exactly
\* the tool calls of the stream, each with arguments that parse.
ValidBlocks(a) ==
    /\ ~ a.broken
    /\ a.sign => \E b \in a.blocks : b.content = "signed"
    /\ a.blocks # {} =>
          /\ Indices(a.blocks) = 0..(Cardinality(a.blocks) - 1)
          /\ IsInjective(BlockTools(a))
          /\ Len(BlockTools(a)) = Len(a.calls)
          /\ \A id \in ToSet(BlockTools(a)) :
                [id |-> id, bad |-> FALSE] \in ToSet(a.calls)

\* terminal_failure: only the stop reason that fits the calls is a success.
TerminalFailure(stop, calls) ==
    ~ \/ stop = "tool_use" /\ calls # <<>>
      \/ stop = "end_turn" /\ calls = <<>>

\* The calls in the order of the assistant turn.
Calls(a) ==
    IF a.blocks = {} THEN a.calls
    ELSE [i \in DOMAIN BlockTools(a) |-> [id |-> BlockTools(a)[i], bad |-> FALSE]]

\* The assistant turn of a step; a failed one keeps no tools and no thinking.
Turn(a, fails) ==
    LET calls == IF fails THEN <<>> ELSE Calls(a)
        signed == ~ fails /\ \E b \in a.blocks : b.content = "signed"
        some == \/ HasText(a)
                \/ ~ fails /\ (a.think \/ a.blocks # {} \/ calls # <<>>)
    IN IF some
       THEN <<[uses |-> [i \in DOMAIN calls |-> calls[i].id], results |-> <<>>,
               signed |-> signed]>>
       ELSE <<>>

\* A response that breaks its protocol ends the run like one cut short.
SettleInvalid ==
    /\ pc = "settle"
    /\ ~ ValidBlocks(acc)
    /\ RecordPartial
    /\ EndRun("stopped")
    /\ UNCHANGED <<hookVars, steps, model, system, skills, edits, replayVars,
                   cancelled, runs>>

\* The turn goes into the history, signed content is bound to the request's
\* context and the history up to it, and the request is metered.
Settle ==
    /\ pc = "settle"
    /\ ValidBlocks(acc)
    /\ failed' = TerminalFailure(acc.stop, Calls(acc))
    /\ messages' = messages \o Turn(acc, failed')
    /\ IF \E i \in DOMAIN Turn(acc, failed') : Turn(acc, failed')[i].signed
       THEN LET b == [context |-> request.context, messages |-> messages']
            IN binding' = {b} /\ attested' = attested \cup {b}
       ELSE UNCHANGED replayVars
    /\ RecordUsage(debt)
    /\ acc' = IF failed' THEN [acc EXCEPT !.calls = <<>>, !.blocks = {}]
              ELSE [acc EXCEPT !.calls = Calls(acc)]
    /\ plans' = <<>> /\ vote' = <<>> /\ toolStop' = FALSE
    /\ pc' = "approve"
    /\ request' = NoRequest
    /\ UNCHANGED <<k, hookVars, steps, finish, model, system, skills, edits,
                   attempts, cancelled, runs>>

-----------------------------------------------------------------------------
(* Tools                                                                   *)

Approvals == {"allow", "deny"}

\* Mutant: the last middleware decides.
DecideLast(votes) == votes # <<>> /\ Last(votes) = "deny"

\* resolve_approval: a deny is never taken back by a later allow.
Denied(votes) == "deny" \in ToSet(votes)

\* on_tool_approve of the next middleware for the next call.
Vote(v) ==
    /\ pc = "approve"
    /\ Len(plans) < Len(acc.calls)
    /\ Len(vote) < mw
    /\ vote' = Append(vote, v)
    /\ UNCHANGED <<pc, k, hookVars, steps, finish, contextVars, replayVars,
                   request, attempts, acc, plans, toolStop, failed, meterVars, cancelled,
                   runs>>

\* Every middleware has been asked: the call is planned.
Plan ==
    /\ pc = "approve"
    /\ Len(plans) < Len(acc.calls)
    /\ Len(vote) = mw
    /\ plans' = Append(plans, [id |-> acc.calls[Len(plans) + 1].id,
                               skip |-> \/ Denied(vote)
                                        \/ acc.calls[Len(plans) + 1].bad,
                               votes |-> vote, st |-> "waiting"])
    /\ vote' = <<>>
    /\ UNCHANGED <<pc, k, hookVars, steps, finish, contextVars, replayVars,
                   request, attempts, acc, toolStop, failed, meterVars, cancelled, runs>>

\* An on_tool_approve stops the batch, or fails: this call and the ones after
\* it are not planned.
VoteStop ==
    /\ pc = "approve"
    /\ Len(plans) < Len(acc.calls)
    /\ Len(vote) < mw
    /\ toolStop' = TRUE
    /\ pc' = "tools"
    /\ UNCHANGED <<k, hookVars, steps, finish, contextVars, replayVars, request,
                   attempts, acc, plans, vote, failed, meterVars, cancelled, runs>>

Planned ==
    /\ pc = "approve"
    /\ Len(plans) = Len(acc.calls)
    /\ pc' = "tools"
    /\ UNCHANGED <<k, hookVars, steps, finish, contextVars, replayVars, stepVars,
                   meterVars, cancelled, runs>>

\* What `buffered` has handed on: the done calls nothing before which runs.
Collected ==
    {i \in DOMAIN plans : \A j \in 1..i : plans[j].st \in {"done", "skipped"}}

\* A call gets into the window of dispatch_plans; a denied or malformed one is
\* over at once and never reaches its tool.
ToolStart(i) ==
    /\ pc = "tools"
    /\ plans[i].st = "waiting"
    /\ i <= Cardinality(Collected) + MaxConcurrent
    /\ plans' = [plans EXCEPT ![i].st = IF plans[i].skip THEN "skipped"
                                        ELSE "running"]
    /\ UNCHANGED <<pc, k, hookVars, steps, finish, contextVars, replayVars,
                   request, attempts, acc, vote, toolStop, failed, meterVars, cancelled,
                   runs>>

\* dispatch_tool returns, with a value or an error.
ToolDone(i) ==
    /\ pc = "tools"
    /\ plans[i].st = "running"
    /\ plans' = [plans EXCEPT ![i].st = "done"]
    /\ UNCHANGED <<pc, k, hookVars, steps, finish, contextVars, replayVars,
                   request, attempts, acc, vote, toolStop, failed, meterVars, cancelled,
                   runs>>

\* Mutant: a stopped batch has results only for what ran.
ResultsRan == [i \in DOMAIN plans |-> plans[i].id]

\* The tool_result ids of the step: what was planned, in order, and after a stop
\* a synthetic one for every other call.
Results ==
    LET ran == [i \in DOMAIN plans |-> plans[i].id]
        ids == [i \in DOMAIN acc.calls |-> acc.calls[i].id]
        rest == {i \in DOMAIN ids : ids[i] \notin ToSet(ran)}
    IN ran \o IF toolStop THEN Picked(ids, rest) ELSE <<>>

\* All calls are over: the results go into the history and the step counts.
Collect ==
    /\ pc = "tools"
    /\ \A i \in DOMAIN plans : plans[i].st \in {"done", "skipped"}
    /\ messages' = IF Results = <<>> THEN messages
                   ELSE Append(messages, [Plain EXCEPT !.results = Results])
    /\ steps' = steps + 1
    /\ pc' = "on_step_done"
    /\ k' = 0
    /\ UNCHANGED <<hookVars, finish, model, system, skills, edits, replayVars,
                   stepVars, meterVars, cancelled, runs>>

-----------------------------------------------------------------------------
(* The end of a step and of a run                                          *)

OnStepDone ==
    /\ pc = "on_step_done"
    /\ k < mw
    /\ Edit
    /\ HookReturns
    /\ UNCHANGED <<hookVars, steps, skills, replayVars, meterVars, cancelled, runs>>

\* Only a step that ran tools is followed by another one, up to the cap.
GoesOn == ~ toolStop /\ ~ failed /\ plans # <<>> /\ steps < MaxSteps

Decide ==
    /\ pc = "on_step_done"
    /\ k = mw
    /\ IF GoesOn
       THEN /\ pc' = "top"
            /\ LeaveStep
            /\ UNCHANGED <<k, finish>>
       ELSE EndRun(CASE toolStop \/ failed -> "stopped"
                     [] ~ (toolStop \/ failed) /\ plans = <<>> -> "end_turn"
                     [] OTHER -> "limit")
    /\ UNCHANGED <<hookVars, steps, contextVars, replayVars, meterVars, cancelled,
                   runs>>

\* run_on_finish: for every middleware whose on_start ran.
ToFinish == started

\* run_on_finish (an error changes nothing).
OnFinish ==
    /\ pc = "on_finish"
    /\ k < ToFinish
    /\ k' = k + 1
    /\ open' = open \ {k + 1}
    /\ UNCHANGED <<pc, installed, mw, started, steps, finish, contextVars,
                   replayVars, stepVars, meterVars, cancelled, runs>>

\* The middlewares go back, then Done is yielded.
Done ==
    /\ pc = "on_finish"
    /\ k >= ToFinish
    /\ Restore
    /\ k' = 0
    /\ UNCHANGED <<started, open, steps, finish, contextVars, replayVars,
                   stepVars, meterVars, cancelled, runs>>

\* CancelToken::cancel, from any task.
Cancel ==
    /\ ~ cancelled
    /\ cancelled' = TRUE
    /\ UNCHANGED <<pc, k, hookVars, steps, finish, contextVars, replayVars,
                   stepVars, meterVars, runs>>

-----------------------------------------------------------------------------
\* What the loop does without the provider.
Loop ==
    \/ SkillsFail \/ SkillsRestore \/ SkillsReady \/ OnStart \/ Bind
    \/ Top \/ OnStep \/ Prepare \/ Attempt \/ InflightCancelled
    \/ pc = "stream" /\ cancelled /\ StreamCut
    \/ SettleInvalid \/ Settle
    \/ \E v \in Approvals : Vote(v)
    \/ Plan \/ VoteStop \/ Planned
    \/ \E i \in DOMAIN plans : ToolStart(i) \/ ToolDone(i)
    \/ Collect \/ OnStepDone \/ Decide \/ OnFinish \/ Done

\* What the provider does.
Provider ==
    \/ \E f \in Failure : AttemptFails(f)
    \/ AttemptEmpty
    \/ \E e \in Event : Ready(e) \/ Receive(e)
    \/ ~ cancelled /\ StreamCut

Next == Run \/ Loop \/ Provider \/ Cancel

Spec == Init /\ [][Next]_vars

\* The runtime polls the run, and hooks and tools return.  Nothing is assumed
\* of the provider.
LiveSpec == Spec /\ WF_vars(Loop)

-----------------------------------------------------------------------------
(* Properties                                                              *)

\* The history that a hook can save, a request carries or a later run resumes
\* has a tool_result for every tool_use, in the message after it, however the
\* step ended: tools denied, malformed, stopped in the middle of the batch, a
\* response cut short, cancelled or refused.
NoDangling ==
    pc \notin {"approve", "tools"} => Complete(messages)

\* A run leaves the conversation and the agent in order: no call without its
\* result and, whatever ended it, the middlewares are back and every one whose
\* on_start ran has had its on_finish.
LeftInOrder ==
    /\ NoDangling
    /\ pc = "idle" => installed /\ open = {}

\* A tool runs only when every registered middleware has allowed the call, its
\* arguments parsed, and the response ended with the tool_use stop reason.
ToolsGated ==
    \A i \in DOMAIN plans :
        plans[i].st \in {"running", "done"} =>
            /\ plans[i].votes = [j \in 1..NumMw |-> "allow"]
            /\ ~ acc.calls[i].bad
            /\ acc.stop = "tool_use"

\* Every response that was opened is metered exactly once and at the model it
\* was asked from, also when it is cut short and when a hook switches models.
MeteredOnce ==
    /\ ~ mispriced
    /\ pc \notin {"stream", "settle"} => debt = <<>>

\* A request is tried again only after failures worth retrying, at most
\* MaxRetries of them, and before any event of it reached the caller.
RetriesBounded ==
    pc = "inflight" =>
        /\ Len(attempts) <= MaxRetries
        /\ \A i \in DOMAIN attempts : IsRetryable(attempts[i])
        /\ acc = EmptyAccum

\* The provider's bill is accounted for: what was opened is metered once, and
\* nothing is asked again that is already being paid for.
BilledOnce == MeteredOnce /\ RetriesBounded

\* Once signed content is in the history, every request repeats the model, the
\* system prompt, the tools and the whole history it came about in, over any
\* number of signed turns, edits by hooks and runs.
SignedContext ==
    pc \in {"attempt", "inflight", "stream"} =>
        \A s \in attested :
            /\ request.context = s.context
            /\ IsPrefix(s.messages, request.messages)

\* A cancelled run ends, even when the provider never answers or its stream
\* hangs.
CancelStops == cancelled /\ pc # "idle" ~> pc = "idle"

-----------------------------------------------------------------------------
(* What the proofs add to make the properties inductive                    *)

Call == [id : ToolId, bad : BOOLEAN]
Block == [index : Nat, content : {"text", "signed"} \cup ToolId]
Accum == [n : Nat, text : BOOLEAN, think : BOOLEAN, sign : BOOLEAN,
          calls : Seq(Call), blocks : SUBSET Block,
          stop : {"none", "tool_use", "end_turn", "other"}, broken : BOOLEAN]
ToolPlan == [id : ToolId, skip : BOOLEAN, votes : Seq(Approvals),
             st : {"waiting", "running", "done", "skipped"}]

\* A context with the conversation it is about: a request or a binding.
Exchange ==
    [context : [model : Model, system : System, tools : BOOLEAN],
     messages : Seq(Message)]

LoopTypes ==
    /\ pc \in Pc /\ k \in Nat /\ steps \in Nat /\ runs \in Nat
    /\ finish \in {"none", "stopped", "cancelled", "end_turn", "limit"}
    /\ installed \in BOOLEAN /\ cancelled \in BOOLEAN
    /\ mw \in Nat /\ started \in Nat /\ open \in SUBSET Nat

ContextTypes ==
    /\ messages \in Seq(Message) /\ model \in Model /\ system \in System
    /\ skills \in BOOLEAN /\ edits \in Nat

ReplayTypes == binding \in SUBSET Exchange /\ attested \in SUBSET Exchange

StepTypes ==
    /\ request \in Exchange /\ attempts \in Seq(Failure)
    /\ acc \in Accum /\ IsFiniteSet(acc.blocks)
    /\ plans \in Seq(ToolPlan) /\ vote \in Seq(Approvals)
    /\ toolStop \in BOOLEAN /\ failed \in BOOLEAN

MeterTypes == debt \in Seq(Model) /\ mispriced \in BOOLEAN

\* Every variable has its type.
TypeOK == LoopTypes /\ ContextTypes /\ ReplayTypes /\ StepTypes /\ MeterTypes

\* Where a request is asked, its response read, and its tools dealt with.
Asking  == {"attempt", "inflight"}
Reading == {"stream", "settle"}
Acting  == {"approve", "tools", "on_step_done"}

\* One response is owed exactly while it is read, at the model of its request,
\* which nothing changes meanwhile.
BillInv ==
    /\ ~ mispriced
    /\ debt = IF pc \in Reading THEN <<model>> ELSE <<>>
    /\ pc \in Asking \cup Reading => request.context.model = model
    /\ pc \notin Reading \cup Acting => acc = EmptyAccum
    /\ pc \notin Asking => attempts = <<>>
    /\ Len(attempts) <= MaxRetries
    /\ \A i \in DOMAIN attempts : IsRetryable(attempts[i])

\* The binding is the latest of the contexts in which signed content came about
\* and contains all the others, and so does a request from Prepare on.
SignInv ==
    /\ binding = {} => attested = {}
    /\ \A b \in binding : \A s \in attested :
          b.context = s.context /\ IsPrefix(s.messages, b.messages)
    /\ pc \in Asking \cup Reading =>
          /\ request = [context |-> Context, messages |-> messages]
          /\ \A s \in attested : /\ request.context = s.context
                                 /\ IsPrefix(s.messages, request.messages)

\* A run holds all the middlewares, and the plans are the first calls of a turn
\* that ended with tool_use, each with the votes of all of them.
GateInv ==
    /\ pc = "idle" => installed
    /\ pc # "idle" => mw = NumMw
    /\ pc \in Acting /\ acc.calls # <<>> => acc.stop = "tool_use"
    /\ pc \notin Acting => plans = <<>>
    /\ Len(plans) <= Len(acc.calls)
    /\ \A i \in DOMAIN plans :
          /\ plans[i].id = acc.calls[i].id
          /\ Len(plans[i].votes) = NumMw
          /\ ~ plans[i].skip => ~ Denied(plans[i].votes) /\ ~ acc.calls[i].bad
          /\ plans[i].st \in {"running", "done"} => ~ plans[i].skip

\* The middlewares to finish are those that have started.
HookInv ==
    /\ pc = "skills" => k = 0
    /\ pc \in {"skills", "no_skills"} => started = 0
    /\ pc = "on_start" => started = k
    /\ open = CASE pc = "idle" -> {}
                [] pc = "on_finish" -> (k + 1)..started
                [] OTHER -> 1..started

\* Only the last message may wait for its results, and then it uses the calls
\* that are being dealt with.
HistoryInv ==
    /\ NoDangling
    /\ pc \in {"approve", "tools"} =>
          \A i \in DOMAIN messages :
             \/ Answered(messages, i)
             \/ /\ i = Len(messages)
                /\ \A id \in ToSet(messages[i].uses) :
                      \E j \in DOMAIN acc.calls : acc.calls[j].id = id
    /\ pc = "tools" => toolStop \/ Len(plans) = Len(acc.calls)

AgentInv == TypeOK /\ BillInv /\ SignInv /\ GateInv /\ HookInv /\ HistoryInv

=============================================================================

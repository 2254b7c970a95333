# A TLA+ model of stakit

stakit is a Rust workspace: a typed action router with duplex sessions and
pub/sub (`crates/router`, `crates/pubsub-postgres`), an agent SDK
(`crates/ai-sdk`), an ORM with a migration tool (`crates/orm*`), model
validation, media helpers, and clients in Rust and TypeScript. This directory
models the parts of it in which several actors meet, or in which many inputs
combine in ways a test suite samples only.

The modules are checked with TLC on small instances; the theorems in the
`*Proofs` modules are checked by TLAPS for every instance.

## The system

| Part | State | Operations | Talks to | Module |
|---|---|---|---|---|
| Hub (`router/src/pubsub/hub.rs`, `hub/state.rs`) | connection table, per-user counts, device holders (one mutex); topic shards with subscribers and cursor (a lock each); revocation marks | register, authenticate, subscribe, unsubscribe, publish, kick, close, reset, detach | sessions, the broker | `Hub` |
| Session (`session.rs`, `session/*`, `action.rs`) | request context, flags, claim of the login, rate window, permits, outgoing queue, timers | handle a frame, authenticate, run an action, close | hub, client calls, router | `Session` |
| Client calls (`client.rs`) | table of pending calls, `closed`, outgoing queue | call, resolve, fail_pending | sessions, the adapter's writer | `ClientCalls` |
| Postgres broker (`pubsub-postgres`) | counter, outbox, seen counters, pending calls, permits | publish, call, reply, listen, reconnect | other nodes through NOTIFY, the hub as its sink | `PostgresBus` |
| Socket client (`packages/client/src/socket.ts`) | status, sockets, timers, outbox, waiters | call, stream, pause, resume, close, reconnect | the session | `Socket` |
| Socket subscriptions (`socket-subscriptions.ts`) | groups, handles, early frames | subscribe, unsubscribe, the frames | the socket, the hub | `Subscriptions`, `Feed` |
| Agent (`ai-sdk/src/agent.rs`) | conversation, model, prompt, skills, replay binding, usage, middlewares | run, the hooks, cancel | provider, tools, middlewares | `AgentLoop` |
| Providers (`ai-sdk/src/provider`, `llm.rs`) | the accumulator of one response | build a body, open a stream, decode events, whole responses, extractions | the agent, the vendor's API | `ProviderRequest`, `ProviderStream`, `Provider` |
| Query builder (`orm/src/{expr,query,insert,mutation}.rs`, `dialect`) | a builder, the writer's parameters and marks | render and dispatch a statement, decode its rows | the driver | `OrmSql`, `SqlEngine`, `Orm` |
| Values (`orm/src/{value,composite,geo,vector}.rs`, drivers) | none | encode, bind, read, decode | the driver | `OrmValues`, `Orm` |
| Transactions, in-process migrator (`orm/src/{db,exec}.rs`) | the shared transaction cell, the version table | transaction, statements in and beside it, migrate | the driver | `OrmConnections` |
| Migration tool (`orm-cli`) | snapshot, migrations directory, database | gen, up, down | the database | `SchemaDiff`, `Migrate`, `Postgres` |
| Schema readers (`orm-cli/src/parse.rs`, `orm-derive`, `orm-schema-support`) | none | read a source tree; expand a derive | rustc, the migration tool | `SchemaReaders` |

What is hard: the hub updates two indexes under several locks while publishes
go on; authorization of a subscribe is an await between reading and writing;
kicks and resets race with it; a login is three steps while calls come in; a
broker loses, repeats and reorders; a call can end in five ways at once; the
client's timers, callbacks and sockets interleave; an agent run can be
cancelled at every await and what it leaves must be resumable and billed right;
a stream may be cut or reordered anywhere; a migration must be in an order
every step of which is legal, in both directions; and one declaration is read
by two separate programs. `PROJECT.json` lists each of these under "hazards",
at its line.

## Modules

### Hub

`Hub.tla` is one node. `conn`, `perUser`, `devices` are the table behind the
`conns` mutex; `live`, `subs`, `cursor` the shards; `interest` what the broker
was told; `revocations` the marks; `task` the subscribe tasks between their
authorize and their entry.

The grain is the locks. Holding the mutex, the code still takes the shard locks
one by one, so a section is several steps: `work` holds what the section in
progress has left to do, another section starts only when it is empty, and a
fan-out (which takes only its shard's lock) may come between any two steps.
What is closed after the locks are released (`close_all`) waits in `closing`
and takes the mutex again. `try_send` may fail at every call: a slow client's
queue is full. `told` is a history variable, the cursor a client has been sent
per topic; `access` is what the application's `authorize` would say, with how
the user lost it.

- `IndexesAgree`: outside the sections a connection's topics and the topics'
  subscribers are the same relation.
- `InterestExact`: the broker's interest is the set of topics with subscribers.
- `NoSilentGap`: a client still subscribed has been sent every message of its
  topic, or its connection is on the way to being closed.
- `ToldForward`: within a subscription the cursors a client is sent never go
  back.
- `IdentityExact`: the per-user counts are exact and a device has one holder.
- `DoomedAreClosed`: every connection found slow, superseded or revoked is
  closed in the end.
- `ExplicitExact`: the subscription counter is exact.
- `RevocationsStick`: nobody is subscribed on an authorization older than the
  local kick, or than the reset that stands in for a lost kick.

### Client calls

`ClientCalls.tla` is the server's calls to one client: `Start` reads `closed`,
`Insert` enters the table under its lock, `Send` waits for a place in the
outgoing queue, and a call ends by a reply, its timeout, its future being
dropped, a closed queue or the drain of `fail_pending`, which takes the entries
out under the lock and answers them after it.

- `EntryOrAnswer`: a running call has its entry or its answer, and the table
  holds nobody else.
- `FirstReplyWins`: a call is answered by the first reply to its own id.
- `CallsEnd`: every admitted call ends.

### Session

`Session.tla` is one websocket session. The adapter hands it frames one after
the other; calls, streams, subscribes and logins run as tasks that hold a permit
each; the adapter may log the session in as well; the timer task ends the auth
window and beats; the hub may detach the connection at any moment and say why
in a later step. A login is three steps (`AuthBinds`: the hub, `Authenticates`:
request context and flag, each a step), and a task takes the request context
when it first runs. `run_unary` says how an action can end, panics included.
`told[i]` is what was queued for request `i`.

- `LoginExact`: nothing is served under another identity than the one the hub
  has bound, and the claim of the login is held exactly while a task will give
  it back.
- `AnsweredOnce`: one final answer per request and nothing after it; a request
  without one is still worked on.
- `Decided`: a request ends, or the session does, also when the client stops
  reading.

### Postgres broker

`PostgresBus.tla` is the nodes and the channel between them. A send takes its
counter and queues its envelope in two steps; the publish loop takes batches
and notifies; the channel may repeat an envelope and a node's listener may be
lost, with all that is sent until it listens again; the listener loop resets
the subscribers when it notices the loss and again when it is back, and drops
what its replay guard has seen.

- `OnceInOrder`: a node acts on another's envelopes in counter order, none
  twice, and a device call is dispatched at most once.
- `LossAnnounced`: no node reads on after a loss its subscribers were not told
  of.

### Socket and subscriptions of the TypeScript client

`Socket.tla` is `socket.ts`. JavaScript runs a handler to its end, so a handler
is an operator on the connection `c` (`ClientInit` lists its variables) and an
action applies one; what a handler awaits is a step of its own. The platform's
side (`net`, `wire`) is external: a socket opens, dies silently, closes; the
watchdog's clock is `quiet`. The application's `onStatus` runs in the middle
of a handler and may call the connection (`OnStatus`).

- `Anchored`: "connecting" has a socket or a timer and not both, "paused" and
  "closed" neither, and no other socket is left open.
- `RequestsExact`: a request is tracked until it is answered, reaches the
  server at most once and never before the login.
- `Recovers`: the connection does not stay connecting.

`Subscriptions.tla` is `socket-subscriptions.ts`, one connection, against the
hub as that connection sees it. Wires are FIFO and die with the socket; the
server authorizes a subscribe in a task of its own, queues the ack under the
hub's lock and handles an unsubscribe at once. Other connections of the node
come and go, so that a topic may be forgotten and start a new epoch. Frames
carry how many messages their topic has had; only the history fields `at` and
`told` of a group read it. Readers may unsubscribe inside the callbacks of
`Leaving`. The order of a resubscription's requests, and of the frames of a
broker reset, is any order. `Feed.tla` is the promise: between two notices of a
gap a reader is handed consecutive messages, and it never goes back. A group is
a reader; its stream is that of the topic of its key, from the moment the group
is made.

- `NoSilentLoss`: the subscriptions implement `Feed`.
- `SidesAgree`: with nothing on the way, the hub's subscriptions of the
  connection are those the client dispatches, each with a reader, and every
  reader knows of every message.
- `Survives`: a subscription its holder has not been told the end of stays.

### Agent loop

`AgentLoop.tla` is `Agent::run` as a state machine whose `pc` is the await or
yield the run is suspended at. The provider is any sequence of events of
`Event`, failing or ending at any point; a hook may edit messages, model and
system prompt; approvals are votes, one middleware at a time; tool calls run in
a window of `MaxConcurrent`; the token may be cancelled at every step. Text is
reduced to whether there is any, a message to the ids of its tool blocks and
whether it is signed. `debt`, `mispriced`, `attested` and `open` are history
variables.

- `LeftInOrder`: whenever a hook or the caller can see the history at the end
  of a step or of a run, every tool_use has its result; after a run the
  middlewares are back, and each one that was started has been finished.
- `ToolsGated`: a tool runs only if every registered middleware allowed it.
- `BilledOnce`: no request that produced output is left unmetered or metered at
  another model, or twice; and at most `MaxRetries` attempts fail before the
  last one, none of them fatally.
- `SignedContext`: a request holding signed content goes out only in the
  context the content was signed in.
- `CancelStops`: a cancelled run ends.

### Providers

`ProviderRequest.tla` holds what the two adapters send, as operators: the rules
of a model by its id (`parse`, `rules_for`), `fit_to`, cache breakpoints, the
mapping of messages, the bodies, and the requests of the one-shot `LLM`.
`ProviderStream.tla` holds how an answer is read: the framer (lines in
segments, sizes), the validation of Claude events, the accumulators with their
limits, the usage, OpenAI's chunks, and both whole-response readers. A text is
a sequence of bytes; JSON text is complete or not. `Provider.tla` runs one
call over a network that refuses, answers with an error, cuts the stream
anywhere or sends events in any order. `told` is what the server said, put
together with no checks, `given` what the reader was handed.

- `RequestAccepted`: a body is one that the model it names takes, with cache
  breakpoints on places the caller asked for, in the order of the prefix, and
  only places behind all of them left out when the limit is reached.
- `AnswerCertified`: a successful answer is exactly what the server completed
  and reported its usage for, and equals the whole response of that content.
- `UsageCumulative`: the totals a reader holds only grow, but for OpenAI's
  input while the prompt count it is checked against is not known.
- `RetainedBounded`: the bytes counted are the bytes kept, below the limit.

### ORM

`OrmSql.tla` translates builders to statements: the predicate and expression
writers, inserts with conflicts, updates, deletes, selects, `count` and
`exists`, relations, per dialect, with the writer's "unsupported" marks. A
statement is its structure (which constructs it uses, what they mean), not its
text. `SqlEngine.tla` (external) is what a backend does with one: three-valued
logic, unique keys, upserts, and which constructs it accepts. `OrmValues.tla`
is the encodings: `to_value`, the drivers' binds and reads, `from_value`, and
the text of composites and arrays. `OrmConnections.tla` holds what has steps:
the closure transaction over its shared cell, the pool's statements beside it,
and the in-process migrator. The connection is taken out of the cell in one step
(`take`) and COMMIT is decided by the database in another (`commit`): in between
the caller may drop the future (`cancel`), and a COMMIT that was done may lose
its answer. A migration's version likewise runs up to the commit in one step and
is committed, heard of or not, or rolled back in another. `Orm.tla` extends it and runs one
statement, one value, one join or relation load, two transactions with
statements beside them, or two migrators; `Init` picks the dialect and the
workload.

- `DispatchedIsValid`: what is dispatched the backend accepts, exactly but for
  the two cases the property names.
- `WritesAsPromised`, `ReadsAsAsked`: writes and reads do what the builder's
  methods say, whatever the backend's syntax, but for the named cases. A write
  that fails leaves the table alone, except an insert whose returned row cannot
  be decoded, which is stored by then.
- `ValuesSurvive`: a value the backend accepted comes back unchanged exactly
  when it is not one of the named kinds.
- `Honest`: a transaction that returned `Ok` has kept what it was told; one
  whose closure failed, or that was dropped before COMMIT was asked for, keeps
  nothing; one whose COMMIT fails, is dropped on its way or loses its answer
  keeps all of its work or none. What the pool acknowledged stays. Migrators
  that race, fail, hear nothing of their commit and run again apply every
  version once and in order. The exceptions it names are a
  Postgres closure that goes on after a failed statement, MySQL's DDL, which
  commits at once, and Turso's one connection, on which a pool statement is
  part of whatever transaction is open and a migrator reads records another has
  not committed.

The properties with exceptions state them as equivalences where they can
(`<=>`): a case that would start to work, as well as one that would break,
violates them.

### Schema and migrations

`SchemaDiff.tla` holds `diff`, `up_sql` and `down_sql`: which changes are found,
in which order they are written and what undoes them. `Postgres.tla` (external)
is the catalogue with what its DDL refuses: a referenced table or column, a
column a policy reads, a name that is taken. `Migrate.tla` is the tool: `gen`
reads the schema and the snapshot and writes up file, down file and snapshot one
after the other (and may fail in between); `up` and `down` run in transactions.
A project moves between the schemas of one of `Families`, and the answers to
the tool's rename questions are chosen freely.

- `CleanUnlessAwkward`: a transition applies cleanly and is undone exactly if
  and only if it is none of the six kinds of `Awkward`.
- `DirectoryReplays`: an empty database that runs the directory becomes the one
  the snapshot describes, torn `gen`s included where they can be repeated.
- `DbFollowsDirectory`: `up` and `down` in any alternation leave what the
  applied migrations make.

`SchemaReaders.tla` holds the two readers of a declaration side by side: the
CLI's walk over files and modules with its own parser and validation, and the
derive macros' with theirs, over the shared grammar.

- `ReadersSound`: the two accept the same sources and read the same stored
  columns, indexes and keys in them, but for the seven cases of `Parts`; and a schema the CLI reads passes the validation its
  snapshot will have to pass.

`MCSchema.tla` puts the two halves side by side: a behaviour that starts with a
source has the readers read it, any other is a project's migrations.

## Runs

| Run | Instance | Shows |
|---|---|---|
| `hub_stream` | 2 connections of one user, 1 room, 1 task, 1 kick or reset, symmetry over the connections | indexes, interest, gaps and cursors under all interleavings |
| `hub_identity` | 3 connections, 2 users, 1 device, 2 connections per user | the table's indexes; closes happen (fair) |
| `hub_access` | 1 connection, 2 rooms in one slot, cap of 1, 2 attempts, 2 kicks or resets | counter and revocation |
| `calls` | 2 calls, queue of 1, 2 replies, 2 session ends | table, replies, ends (fair) |
| `session` | 2 requests of any kind, 2 identities, queue of 1, 1 permit, 2 frames a second, 1 streamed item, client and adapter log in | login, answers, ends (fair) |
| `bus_order` | 2 nodes, a publish and a call, 2 losses, 1 repeat, batches of 2 | order, losses, no call twice |
| `socket` | 1 unary and 1 streamed call, 4 sockets, 1 trouble, any 2 of pause, resume, close, 1 client call, resume in `onStatus("closed")` | the connection, its requests, recovery (fair) |
| `subs` | 1 key, 2 groups, 2 handles, 2 publishes, any 2 of lost socket, kick, refusal, broker reset; a buffer of 1 early frame | the client's subscriptions implement `Feed` and agree with the hub |
| `agent` | 2 middlewares, 2 models, 2 prompts, 2 tools, 2 steps, 1 retry, 3 events, 1 edit | the agent's properties (fair) |
| `providers` | models of every generation and the override of one by another; conversations with tools, caching plans, extractions; streams of up to 2 blocks, 6 bytes a block, 8 a response, counters up to 4, frames of 3 | bodies, answers, usage, limits |
| `schema` | 5 families of schemas (columns, keys, references, access, indexes), 2 migrations, 1 torn `gen`; declarations in 8 families of attributes | migrations and readers |
| `orm` | 4 dialects; a table of up to 2 rows with a nullable unique key, batches of 2, every conflict action and guard, every predicate; every kind of value; 2 transactions; 2 migrators of 2 versions | statements, values, transactions |

The bounds are the smallest at which each race exists: two writers of one
index, one slot shared by two rooms so that a mark moves for another topic, a
queue that is full after one frame, a batch whose second approval stops, a
login between two frames, a second socket opened before the first one's close
is heard, a block that passes its limit when it is completed and one that
passes the response's. Epochs, kicks, repeats, losses, sockets and edits are
capped by named constants in the guards. Where deadlock checking is off it is
because a system out of its bounded inputs rightly rests.

Every property is also run against a variation of the model with a plausible
fault in one definition (the operators whose comment says "mutant" or "a slip"),
and is violated there.

## Where the code and what it says of itself differ

Seen in the models and described here; no run checks a property the code does
not have. The definitions named are in the modules, to be put in a `.cfg` by
whoever changes the code.

Hub, session, calls:

- `RemoteKickSticks` (Hub): `deliver` returns early when the node does not hold
  the topic (`state.rs:251`), so a kick from another node moves no mark, and a
  subscribe authorized before it gets in, against `hub.rs:96-101`.
- A server call that read `closed` before `fail_pending` and enters its entry
  after the drain waits out its timeout (`client.rs:127`, `:160-161`).
- `Session::subscribe` on a topic the client holds is not kept across a reset
  (`session.rs:226-227`).
- An auth frame whose task is in flight when the adapter's login succeeds ends
  with the session closed as unauthorized, where `docs/transport.md` promises a
  409 that never closes. An action that panics skips its `after`
  (`action.rs:115-121`, `middleware.rs:17-18`), and so does a stream's error
  item.

Broker:

- `OnlyReplaysRefused` (PostgresBus): counter and outbox are two steps
  (`lib.rs:227`, `:231`), so counters can be queued out of order and the guard
  (`:236`) then drops a message it never saw, against `:235` and
  `docs/pubsub.md:101-102`. A failed NOTIFY (`:159`) and an envelope older than
  the clock window (`wire.rs:159`) are lost without a reset.

TypeScript client:

- `ClosedForGood` (Socket): a `close()` in `onStatus("connecting")` is undone by
  the reconnect timer that `lost` sets after the callback (`socket.ts:114`).
  `OnStatus <- MCCloseOnLoss` shows it. With `pause` or `resume` there,
  `Anchored` fails too; `resume()` with `reconnect: false` reopens a closed
  connection.
- `ResultsGoHome` (Socket): the answer to a client call is sent on whatever
  socket there is when it is ready, so after a reconnect it reaches a session
  that did not ask (`socket.ts:49`, `docs/transport.md:98`).
- With `StaleHandles = TRUE`, `Survives` fails: unsubscribing the handle of a
  subscription the server has ended removes the newer one of the same key
  (`socket-subscriptions.ts:86`, `:204-210`, against `:24`).
- With `"reset"` in `Leaving`, `SidesAgree` fails: readers that unsubscribe in
  `onGap` leave a request for a group nobody has (`:178-182`).
- Two keys whose topics are the same make two groups of which only the last one
  acknowledged is dispatched (`:119`); a `subscribe` after `close()` is accepted
  and never answered; one made in `onStatus("open")` is requested twice.

Agent and providers:

- A run that is dropped keeps the middlewares it took out (`agent.rs:406`,
  `:940`), so the agent's next run has no approval gate, against `:377` and
  `middleware.rs:31`. So does a caller that stops at the `Done` of a failed
  skill loader (`:432-439`).
- The Claude decoder ignores a block of an unknown type, which leaves a gap in
  the indexes that ends the agent's run (`validate_blocks`); it checks neither
  duplicate tool ids nor a `tool_use` stop without a tool. One field of the
  usage may shrink while the totals do not. OpenAI's details count as the input
  while the prompt is unknown (`openai.rs:439-460`, `openai/usage.rs:118-134`),
  so that the total may go down when it comes: the usage that `provider.rs:242`
  calls cumulative then is not. OpenAI streams and whole responses
  differ for a "length" stop with partial tools. `is_error` and images of a
  tool result are not carried to OpenAI.

ORM:

- Dispatched although the backend refuses it: `matches` and `contains` on
  MySQL, an offset without a limit elsewhere than on Postgres (against
  `render.rs:12`). A mixed batch binds NULL for an omitted default
  (`orm-derive/src/lib.rs:739`). A MySQL upsert answers a clash on any key. A
  raw predicate with `or` among others is regrouped. An outer-joined table
  without a key whose columns are all NULL is taken for absent; of two equal
  parents only the first gets its children.
- Not read back: dates in composites, a Postgres geometry, an SRID elsewhere,
  what serde cannot write (stored as JSON null); in arrays kept as JSON text,
  bytes, non-finite floats, every `serde_json::Value` (read as `Text`, which it
  does not take: `value.rs:325-329`, `:207`) and JSON strings of other types.
- An insert whose returned row cannot be decoded is an error although the row is
  stored (`insert.rs:334-340`).
- A transaction whose future is dropped in `commit().await`, or whose COMMIT
  loses its answer, ends cancelled or with `Err` and its work may be kept
  (`db.rs:480`), where `db.rs:447-448` says that on `Err` it rolls back.
- A Postgres closure that goes on after a failed statement is told `Ok` though
  its commit rolled back; pool statements on Turso run inside whatever
  transaction is open, so that a migrator may take for applied what another
  one rolls back, and go on with the next version (`db.rs`, `migrate`); MySQL's
  DDL is not undone when a migration fails.

Migrations and readers:

- The six kinds of `Awkward`: changes `diff` does not follow; cyclic keys
  between created or dropped tables; a key column dropped with the table it
  points at; a key added before, or dropped after, its target's name; a column
  dropped or renamed while a policy or index uses it; an index name that moves
  to a table handled before its owner. Two `gen`s in one second share a
  version; a role that existed before is dropped by the down migration.
- The seven `Parts` of the readers: a derive written with its path, `#[path]`
  modules, two structs of one name in two modules, an index over a renamed
  field, duplicate indexes, an empty policy list, and the column of a typed
  reference. `cfg` attributes are ignored by the CLI.

## Fairness

- Hub: weak fairness of the steps of a section that has started (a thread that
  holds the mutex goes on) and strong fairness of each pending close, which must
  win the mutex from others again and again: it is what a mutex that starves
  nobody gives.
- Client calls: weak fairness of the calls' own steps (the runtime polls a
  ready future, timers fire) and of the two loops that hand answers over.
  Nothing is assumed of the client or of the writer that empties the queue.
- Session: strong fairness of each task's steps (the channel gives a freed slot
  to the sender that has waited, before a later ping) and weak fairness of the
  timer. Nothing is assumed of the client, the adapter or the hub.
- Socket: weak fairness of what moves a connection on: the timer fires, a
  socket opens or closes, credentials are answered, the watchdog runs. Troubles
  are bounded.
- Agent: weak fairness of the loop (the caller polls it, hooks and tools
  return). Nothing is assumed of the provider.

## Proofs

Every theorem is about `Spec` without its fairness (`ConnSpec` for the ORM's
connections, of which every step of `Orm` is a step or changes nothing) and
rests on the named assumptions of the constants only, but for those of
`SubscriptionsProofs` and `SocketProofs` whose hypotheses about the application
are given below. An invariant a run checks is seldom
inductive; what is added to it is defined at the end of the component's module
or where its proof begins, was checked by TLC on the run's instance, and is what the proof carries. Each
proof has one step per action, over lemmas about the helpers the actions share.

| Module | Theorem | Property |
|---|---|---|
| `HubProofs` | `TypeCorrect`, `IndexesAlwaysAgree`, `InterestAlwaysExact` | `TypeOK`, `IndexesAgree`, `InterestExact` |
| | `NeverASilentGap`, `ToldOnlyForward` | `NoSilentGap`, `ToldForward` |
| | `IdentityAlwaysExact`, `ExplicitAlwaysExact`, `RevocationsAlwaysStick` | `IdentityExact`, `ExplicitExact`, `RevocationsStick` |
| `ClientCallsProofs` | `NothingLeaks`, `FirstReplyAlwaysWins` | `EntryOrAnswer`, `FirstReplyWins` |
| `SessionProofs` | `TypeCorrect`, `LoginAlwaysExact`, `AnsweredExactlyOnce` | `TypeOK`, `LoginExact`, `AnsweredOnce` |
| `PostgresBusProofs` | `TypeCorrect`, `LossAlwaysAnnounced`, `OnceAndInOrder` | `TypeOK`, `LossAnnounced`, `OnceInOrder` |
| `AgentLoopProofs` | `TypeCorrect`, `AlwaysBilledOnce`, `SignedContextKept`, `ToolsAlwaysGated`, `AlwaysLeftInOrder` | `TypeOK`, `BilledOnce`, `SignedContext`, `ToolsGated`, `LeftInOrder` |
| `SubscriptionsProofs` | `TypeCorrect`, `SubscriptionsSurvive`, `FeedImplemented`, `SidesAlwaysAgree` | `TypeOK`, `Survives`, `NoSilentLoss`, `SidesAgree` |
| `SocketProofs` | `AlwaysAnchored`, `RequestsAlwaysExact` | `Anchored`, `RequestsExact` |
| `OrmConnectionsProofs` | `AlwaysHonest` | `Honest` |

**Hub.** In the middle of a section one index is ahead of the other. `IndexInv`
adds to the two index properties the shape of the section in progress
(`SectionShape`: what is left to drop is no longer in the connection's topics,
at most one kind of work is under way). `NoSilentGap` needs it too: a fan-out
between two steps of a section reads one index and the other decides who is
still subscribed. `ToldForward` rests on `ForwardInv`: no cursor is of an epoch
still to come and no client has been told of a place its topic has not reached,
so that a topic dropped and made again starts after everything told.
`IdentityExact` counts: `IdentityInv` adds that a connection about to be bound
still has no identity, a place in its user's count and its device free, which
the closes between check and bind must not spoil. Only the open connections are
counted, so `Conn` itself may be infinite. `RevocationsStick` needs `AccessInv`:
a task granted before a kick, and not entered yet, has a mark older than its
slot's, in whichever slot and however many kicks ago.

**Client calls.** `ReplyInv`: ids are unique, an entry taken for delivery is
taken once, and an answer under delivery is the first one to its id.

**Session.** `LoginInv` orders the three steps of a login: whoever is past the
hub has the hub's identity, the request context is that identity before the
flag is set, and one task holds the claim. `AnswerInv`: a request still worked
on has been told items only.

**Postgres broker.** `GuardInv`: the replay guard is past everything accepted
from its origin. `CallInv` adds that a call has one envelope, with a counter and
an id of its own, and runs where that was accepted. `LossInv`: only a listener
with its second reset to come has an unannounced loss while the connection is
up.

**Agent loop.** `BillInv` says what is owed at each place of the loop;
`SignInv` that the one binding the agent keeps contains every signed context
before it; `GateInv` ties a plan to its call and its votes; `HookInv` says which
middlewares are to be finished; `HistoryInv` that only the last message may wait
for results, of the calls being dealt with. Two assumptions are about what the
code does not control: a provider's events are those of `StreamEvent`
(`AgentAssumption`), and a conversation that an `on_start` hook loads was
complete when it was saved (`HistoryAssumption`).

**Subscriptions.** The refinement of `Feed` rests on `StreamInv`: types;
`LinkInv`, keys and topics name only groups of theirs, and so do the answers on
the way; and `FeedInv`, the order of the streams. The places of a topic's stream
that the client knows (where its readers are, the frames it has buffered), the
frames on the wire one after the other, and the hub's own cursor are in order:
epochs never go back, and within an epoch the distance in sequence numbers is
the distance in messages. This is why comparing (epoch, seq) with the last one
seen finds every gap. Each client handler does one of three things to each
reader (`Change`: tell it of a gap, hand it the next message, start it) and
the hub only moves on (`Moves`). The order also shows that a frame buffered
before an ack is never newer than it: the hub queues the ack under the lock it
fans out under, so on a wire in order the replay of `early` hands over nothing.
`Survives` needs in addition that a group dispatched by a topic is the one its
key names (`SurviveInv`), and holds when no handle of an ended group is
unsubscribed after its key was subscribed again (`~StaleHandles`); without that
it is false, see above. Keys and topics are finite sets, and there is a key.

`SidesAgree` speaks of the moments with nothing on the way; `SidesInv` says what
holds at all others, topic by topic (`Side`). Either nothing is requested for
the topic (`Resting`) or one group waits for it, with exactly one request on the
wire, in a task of the server, or answered on the way back (`Asking`). An
unsubscribe on the wire comes before every request for its topic, and while
there is one the client dispatches nothing for the topic and no answer is under
way (`Cleared`): this is why an unsubscribe cannot end the subscription that
replaced the one it was for. A key's group is dispatched or waits (`Named`). And
the hub has the connection as an explicit subscriber only if the client
dispatches the topic with no notice of an end on the way, an ack no such notice
follows is on the way, or an unsubscribe is; conversely the first two mean that
the hub has it, and then the reader is where the topic is or a frame on the way
tells it (`Matched`). While the connection is down everything is empty
(`Quiet`). The theorem has three hypotheses, without which the property is false
(see above) or not claimed: `KeysApart`, no two keys have one topic;
`~StaleHandles`; and no reader unsubscribes in the callback of a server reset
(`"reset" \notin Leaving`). The run's instance satisfies them.

**Socket.** `SocketInv` has three parts. Of the connection itself: a request
waits exactly while it is pending, the outbox holds waiting ones, each once:
all of them until the connection is ready, none afterwards. Of its sockets: ids
are used once, none but the current one is alive, and while that one is being
opened or its credentials are awaited nothing but answers to client calls is
on its wire. Of the wire: a connection that is ready, or whose login is under
way, has its auth frame there; a request that is new or in the outbox was never
sent, one whose frame is there was. `Anchored` alone is not inductive,
because what a late `onclose`, watchdog or credential does depends on whether
its socket is the current one, and "at most once" is not, because a request
leaves the outbox only in the step that makes the connection ready. A handler
is a chain of operators on one record, so the proof follows a record through
the chain: `Loose` says what may have happened to it before its socket is
dropped, `Ended` what holds after, and each operator has a lemma that takes one
to the other; an action then only has to relate the result to the sockets and
the wire (`RunOn`). The hypothesis `HarmlessCallback` is about the
application: its `onStatus` does nothing when told "connecting" or "paused",
does not pause or close on "open", and does not close again on "closed" (it may
resume). Callbacks outside it do break `Anchored`, see above; the run's
`OnStatus` is inside it. Requests and sockets may be any in number; `Auth` and
`Reconnect` either way.

**ORM connections.** `Held` says of each transaction that none of its work is
committed before the database decides, that this happens once and for all of it,
only after COMMIT was asked for, and that `Ok` is heard only when it was kept.
It is inductive because a statement is the work of one transaction, apart from
the others' and from what the pool committed (`Apart`, `TxInv`), and because on
Turso at most one transaction is open. What the caller hears is not part of the
decision, so that a dropped or unanswered COMMIT needs no case of its own. For the migrators `MigInv` says that the
records, and what each migrator has seen, are initial segments of the versions
(off Turso), and that at most one migrator has a version between its statements
and its commit (off MySQL): the primary key makes the others wait. The next version is a
`CHOOSE` of the least one not seen; that it exists and lies one past the
segment is proved from the well-foundedness of the natural numbers.

Only model-checked: liveness and with it `ENABLED` (`DoomedAreClosed`,
`CallsEnd`, `Decided`, `Recovers`, `CancelStops`), which the prover does not do;
the properties of `Provider`, `Migrate` and `Postgres`, which are about what
pure functions compute over bounded inputs (`RetainedBounded` and
`UsageCumulative` are about the steps of a stream, but what a step hands over
and what is retained are folds over sequences and sets, whose value for every
input needs an induction over data); and those of `Orm`, `OrmSql` and
`SchemaReaders` about statements, values and declarations, which use recursive
operators: the prover has neither that induction nor `RECURSIVE`.

## Not modelled

- Compile-time macros but for what they read and the insert companion;
  TypeScript emission; model validation: pure functions that generate or check
  code and values.
- Image and object-storage I/O, the MCP transport, the HTTP and Rust clients:
  one request and one reply each, over libraries.
- Wire formats and SQL text character by character, prices, the lengths of
  delays. Signatures of envelopes are assumed to be right.
- The HTTP side of the router (batches) and its registration.
- Single branches: an acknowledgement without a body
  (`socket-subscriptions.ts:106`), which this server does not send; tool input
  that is longer when written back than it was on the wire
  (`claude/accum.rs:96`); a migration file written in part (a crash of `gen`
  falls between files).

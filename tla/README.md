# A TLA+ model of the Claude Agent SDK nodes for n8n

The repository adds nodes to n8n that run a Claude agent, pause it when it needs
a human decision, send that question over a chat or mail channel, take the
answer, and resume the agent. This directory holds TLA+ modules for the parts
whose correctness depends on the order of things: several webhook calls at once,
redelivered messages, overlapping tool calls, late saves, retries, expiry,
failures between two statements, a process that stops. TLC checks them on small
instances; TLAPS proves the most important results for every instance.

## The system and its hard parts

| Part | State it keeps | Operations | What is hard |
|---|---|---|---|
| Channel nodes (Telegram, WhatsApp, Woztell; Slack, Discord, Email, Gmail) | none of their own | `execute()` saves a pending record, sends, saves again with the provider message id; `webhook()` and `handleTriggerInbound()` take the reply | replies race each other and the second save; providers redeliver; n8n retries a failed dispatch |
| Channel pending store (`pendingStore.ts`, `pendingStorePostgres.ts`) | a record per request: pending or consumed with its decision key | save, get, get by provider message, get latest of a recipient, consumeWithDecision | the Postgres consume is up to four statements; static data forgets records |
| Webhook verification | none | decides whether a delivery is a verified callback, an n8n-signed URL, or refused | which path may consume without a record |
| Stream store, durable sender, response registry, replay | frames with sequence numbers per stream, a terminal status, the live HTTP response per stream | ensureStream, appendFrame, markTerminal, readFramesSince; send, flush; store, retrieve, clear; replay | a reconnecting client reads a backlog while new frames are sent live |
| Streaming handler, collected messages, result | open blocks and tool calls, the author of the text, a replay bracket; the messages of the run | handle a message, finalize, collect, process, track tasks | messages of subagents and of several tool calls interleave; a resumed query repeats earlier turns; a failed query is repeated |
| SDK HITL interaction store and webhook | interactions, decision ledger | save, get, consume approval or question; visit and submit a form | two submits at once, two ledgers, what is forgotten when |
| Tool permission callback and hooks | pending interactions, approved fingerprints, queued answers | decide, ask, record | concurrent calls check and add around an await |
| Session memory (Postgres, Redis, Simple) | an entry per chat session, with the managed session it names; Postgres: an advisory lock on a pinned connection | has, getMetadata, touch, forget, acquireExecutionLock, close | errors between taking the lock and knowing how to release it; an unlock that fails; no lock at all with Redis and Simple |
| Durable session record, observability rows | an archive row and event rows per chat session, rows per invocation | update or insert, delete and insert, in a transaction over a pool | two writers; a statement or a COMMIT that fails; what is on record when an item returns |
| executeTask | phase of one execution | set up stream and approvals, resolve session, run, persist pending interactions, wait, finalise, release | failures between persisted effects |
| Run execution | attempt, session to resume, what is pending | run, retry fresh, resume after HITL | when a retry repeats effects |
| Managed-agent backend and bridge | the remote session | prompt, answer; map events to messages; inject the question it stopped for | events of several messages, files after a pause |
| Node entry | the item, the loop | run each item, Continue On Fail, Agent Plane callbacks | what an error of one item leaves for the next |
| Agent lifecycle operations, Python generator, skills and MCP tools, provider configuration, node descriptions | none | build configuration and text, one HTTP call | not protocols |

How they meet: the node runs its items one by one through executeTask; executeTask
takes the session's lock, runs the agent and reads its messages, which go frame by
frame through the durable sender to the store and to whichever HTTP response is
attached; a tool call asks the permission callback, which may record a pending
interaction; executeTask persists it, writes the session's durable record and ends
or waits; a channel node turns the request envelope into a message and a pending
record; a reply consumes the record and becomes a response envelope, or a person
answers through the SDK node's own webhook; the SDK node resumes the session with
the decision.

What makes each correct:

* channels: one request, one decision, one resumed agent; what the human is told
  is what was recorded, and the decision is one the request admits; late saves and
  retries never undo a decision;
* streams: a terminal stream gets no more frames, a client that reconnects and
  stays misses no frame while its backlog fits two reads, what it was shown is
  stored, its response is ended in the end (it may see a frame twice: live and in
  the gap fill);
* a turn: texts of different authors are kept apart, tool calls are shown once and
  with their own input, nothing of this turn is lost and nothing of an earlier turn
  is taken for it, the result tells how this turn ended, a managed pause asks its
  question;
* permissions and rounds: a tool call that needs a human runs only on an accepted
  decision about it, rules hold whatever was approved, one interaction is waited
  for, its decision is taken once and is the one the agent gets;
* sessions: with Postgres memory one execution at a time per chat session, what
  an execution read from memory stays true while its agent runs, and the lock is
  given back;
* run execution: retries end, keep the options of a query consistent, and never
  drop a question or an answer;
* executeTask: whatever fails, the stream ends in the state that tells the outcome,
  and an execution that pauses waits for a question that is stored and can be
  answered;
* items: what an item returned over Postgres memory is on record, and the turn it
  added to the chat session stays there, the archive and the event rows tell the
  same session, each outcome is told once, and a node ends.

The hazards behind these statements are listed, each at its line, in
`PROJECT.json`.

## Modules

```
PendingStore <- ChannelNodes <- CompanionHitl <- CompanionTimes <- CompanionHitl_proofs
OnceDecision (refined by CompanionHitl)
StreamReplay <- StreamReplay_proofs
SessionMemory <- QueryRetry <- TaskExecution <- TaskExecution_proofs
PermissionRules, QuestionAnswers, InteractionStore, WebhookAuth <- HitlRound <- HitlRound_proofs
MessageFold <- MessageFold_proofs
MessageFold, ManagedSession <- TurnResult <- AgentTurn <- AgentTurn_proofs
DurableRecord <- NodeItems <- NodeItems_proofs <- NodeReturns_proofs
```

Each state machine has an `MC` module with the sets its configurations use. An
operator whose comment begins with "Mutant:", or with "As" and the name of the
definition that follows, is a deliberately wrong variant of that definition. No
specification uses it; put in place of the original it must make the property
named in `PROJECT.json` fail, which shows that the property depends on the code
it is about.

### PendingStore and ChannelNodes
`PendingStore` is the record type and the store operations as operators on values:
`Record`, `RequestRecord` (`buildPendingRecordFromRequest`), expiry (`Expired`,
`CleanupExpired`), the static-data calls (`StaticSave`, `StaticVerdict`,
`StaticConsume`), the Postgres statements row by row (`UpsertRow`,
`UpdateMatches`, `InsertMatches`, `RowVerdict`) and the lookups
(`ByProviderMessageId`, `LatestByRecipient`). A record keeps what the properties
tell apart: status, kind, decision key, its two times, whether the provider
message id is known, whether it names a session. "An absent record" is status
`none`. Decision keys are model data: approve, deny and a set of answers.

`ChannelNodes` says of each of the seven nodes what an author can set (`Node`),
whether its message offers a button, a link or only the chat for a request of a
given shape (an approval, a choice, a list, an open question, a form), which
deliveries such a message can provoke, and which of them the node's verification
admits. Slack, Discord, Email and Gmail exist only over static data and never save
a provider message id.

### CompanionHitl
The state machine of a channel node; `node` is chosen from `Nodes` and kept.

| Variable | In the code |
|---|---|
| `clock` | `Date.now()` |
| `store` | static data or the Postgres table, for one workflow and node |
| `dispatch`, `retries`, `sent` | where `execute()` stands for a request, how often n8n retried it, whether the message reached the human |
| `handler` | one inbound delivery each: its place in the handler, delivery, resolved request, decision key, fallback record, outcome, whether the accepted record names a session |

`SavePending`, `SendMessage`, `SaveMessageId`, `SaveFails`, `RetryDispatch` are
`execute()`. A send that throws may or may not have delivered. `Receive` is the
arrival of a delivery, refused at once when its path is. `GetPending`,
`GetByProviderMessageId`, `GetLatestByRecipient` are the lookups; each continues,
in the same step, with the synchronous code that works out the decision key, a
definition per channel and path. With static data `ConsumeStatic` is the whole
consume. With Postgres `UpdatePending`, `SelectExisting`, `InsertFallback`,
`SelectRaced` are the four statements, and any other step may come between two of
them. `HandlerFails` is a thrown error at any statement, at closing the pool after
it, or the end of the process: what was written stays. After the write of a decision
it leaves the outcome `lost`: the decision is on record and its handler was told
nothing. `Emit` returns the envelope.

The requests in a node's `lost` set are with the human while this store has no
record of them (static data lost, another table configured): these exercise the
fallback records.

### CompanionTimes
`CompanionHitl` with one history variable, `decidedAt`: for each handler, the time
of the decision it told its human of (`consumedAt` of the record it had just read or
written). The code keeps no such thing, and needs none; but static data drops a
tombstone after `CONSUMED_MAX_AGE_MS`, and what is promised beyond that moment can
only be said against the time of the decision. `Remember` goes with every step of
`Next` and only assigns `decidedAt`, so it prevents none; that it adds none is
`TimesAreHistory` in the proofs.

### OnceDecision
What a store promises: per request a register written once; `accepted` to the
writer, `duplicate` or `conflict` to the others. `CompanionHitl` is shown to
implement it, with `decision` the key of the row, `asked` the request and the
key a handler has worked out, and `verdict` the handler's outcome (an outcome
`missing` is a refusal). A writer that fails before it is told loses its verdict,
not its decision.

### StreamReplay
One durable stream: the run that writes it, the send queue, the store, the
registry of live responses and the clients that replay and tail it.

| Variable | In the code |
|---|---|
| `row`, `events` | the stream's row (status, whether `expires_at` is set) and its frames; frame `seq` is `events[seq]` |
| `queue`, `appending` | the promise chain of `createDurableSendChunk` and how far the append at its head has come |
| `run` | the execution of `executeTask` that owns the stream: sending, flushing, marking |
| `registry` | the entry of `requestResponseStore` for this stream |
| `client` | each HTTP response, and the local variables of the `replayToResponse` that serves it |
| `unsent` | a history variable: frames whose COMMIT succeeded without an answer |

Each query is a step, and the synchronous code after it belongs to the step that
follows the query: `EnsureLive`, `AppendFrame`, `Deliver` are one append;
`GetState`, `ReadFirst`, `WriteFirst`, `ReadGap`, `WriteGap`, `GetStateAfter`,
`FinishReplay` are one replay, so frames may be appended, delivered and the
stream ended between any two of them. `CommitUnknown` is a COMMIT that succeeded
and was not answered, `AppendFails` any other error of an append, `MarkFails` an
error of `markTerminal`, `AttemptFails` an attempt of the query that sends an error
and an end before the run goes on or fails, `ReplayFails` one of the replay's
queries. `DropIdle`
stands for the idle timer, a lookup that finds the response idle, and eviction
from a full registry. `Crash` loses the queue, the registry and the connections
of the process; the store stays. A client's cursor is taken from the frames that
exist when it connects. A response that has been ended takes no more frames.

### SessionMemory and QueryRetry
Operators without state. `SessionMemory` is what the three memory nodes keep for
one chat session (`Touch`, `Forget`, and which of them has a lock, a `forget`,
an expiry). `QueryRetry` is the part of the query options that chooses a session
(`resume`, `sessionId`, the message to resume at, the managed session) and every
edit `runAgentExecution` makes of it: `BootstrapResume` after a session id
collision, `PlainResume` and `Fresh` chosen by `RecoveryAction`, `EmptyRetry`
after a stream without messages.

### TaskExecution
Executions of executeTask on one chat session, from the lock to its release; the
kind of memory is chosen at the start (`memory`).

| Variable | In the code |
|---|---|
| `holder`, `client`, `release` | the advisory lock, each execution's pinned pool connection, whether `lifecycle.state.releaseSessionExecutionLock` is set |
| `entry`, `made` | the memory's entry; the sessions whose transcript (or managed session) exists |
| `pc`, `outcome` | where the execution stands, and how it ends after the release |
| `seen`, `opts`, `stage`, `tries` | what `has` returned, the query options, the stage of the retries and the number of queries made |
| `live`, `latched`, `sess` | the session the running query works in, whether it began with a question pending, `executionSessionId` |
| `asked`, `answers`, `record`, `waiting`, `round` | the pending interaction, the answered one this round resumes from, the stored record, `putExecutionToWait`, the number of answers so far |
| `handle`, `stream`, `lost` | the handle on the durable stream store, the status of the stream's row, and (history) that the catch block could not mark it |

`Begin`, `ConnectFails`, `TryLock`, `GiveUpLock` are `acquireSessionExecutionLock`;
`Has`, `ReadMetadata`, `ForgetStale`, `ResolveFails` the rest of
`resolveSessionState`; `Setup` and `SetupFails` everything up to the first query,
with the stream and the options of a resume; `QueryStarts`, `QueryRejected`,
`QueryFails`, `QueryReturns`, `QueryEmpty` one turn of `runAgentExecution`; `Ask`
the permission callback. `SyncPending` to `Pause` are the pausing branch of
`finalizeExecution`: the session metadata, the record (`PersistPending`), the wait
(`PutToWait`, which a local run may leave to its companion), the stream's mark and
the durable copies, each a call of its own that may fail (`SyncFails`,
`PersistPendingFails`, `PutToWaitFails`, `MarkFails`, `DurableFails`).
`PutToWaitFails` is also `assertSinglePendingInteraction`, which throws once the
record is stored. `MarkCompleted` to `Complete` the completing one, and
`MarkFailed` the catch block. `ReleaseLock` and `UnlockFails` are
`releaseSessionExecutionLockIfNeeded`, `CloseMemory` the memory node's
`closeFunction`. `Answer` runs the node again after the human's answer, `Expire`
and `LoseTranscript` are the environment.

External, modelled from how the code uses it: the agent refuses to resume what
does not exist and to create an id that exists, runs a query without options in a
new session, and may fail, return, say nothing, or leave a transcript behind
after failing; the managed adapter sends an answer to the session it is given and
otherwise may replace a session it cannot open; ending a pool drops the locks of
its idle connections and waits for one that is checked out. A memory call that
fails has no effect. One tool call asks at a time here; overlapping ones are
`HitlRound`'s.

### PermissionRules, QuestionAnswers, InteractionStore, WebhookAuth
Operators without state, used by `HitlRound`. `PermissionRules` decides over a
call: blocked tools, path sandbox, tool permissions, content filter and its
presets, the governance policy, the approval settings, hooks, modes and
fingerprints. A call is a tool with one input; a pattern is the set of calls it
matches; a path is the set of places it resolves to, per directory it is resolved
against. `QuestionAnswers` follows one question form from the fields of the page
over the answer map to the answers the repeated tool call looks up; a submission
picks options of its form (`IsForm`, `IsSubmission`, assumed of the forms of an
instance by `FormsAssumption`).
`InteractionStore` is the record store and the webhook's decision ledger as
values. `WebhookAuth` admits or refuses a request.

### HitlRound
One execution of the SDK node that asks a human, over all its rounds.

| Variable | In the code |
|---|---|
| `settings` | the node's parameters, with the bounds of the instance |
| `phase`, `mode`, `round`, `waitTill` | where the execution stands, the permission mode of the round's query, the number of rounds, the deadline of `putExecutionToWait` |
| `approved`, `queuedApproval`, `queuedAnswer` | the approval handler's fingerprints, `pendingApprovalResolution`, `pendingQuestionResponse` |
| `calls`, `pending`, `asked` | the `canUseTool` callbacks in flight, `runtimePendingState`, the interactions so far |
| `sent`, `store`, `ledger` | the requests whose links went out, the interaction store, the decision ledger |
| `web`, `payload` | the webhook requests in flight, the response the next round starts with |
| `accepts`, `ran`, `granted` | history: decisions accepted, the call that ran last, what was approved |

A step is the code from one await to the next. `Setup` starts a round;
`RunUnasked`, `RunByRules`, `RunApproved`, `ResolveQueued`, `AskApproval`,
`AskQuestion`, `AnswerQuestion` are what `canUseTool` and the hooks do with a
call, `AddInteraction` what follows the awaited save, so two callbacks may meet
in between. `QueryEnds`, `QueryAborts`, `WaitForPendingInteractions`,
`SendDeferred` end the round. `Visit`, `Post`, `ConsumeRecord`,
`ConsumeUnrecorded`, `Respond`, `RespondFails`, `Preview` are the webhook, several
requests at once; `LoopbackResume` and `WhatsAppResume` an answer that reaches the
waiting node directly. `Tick` and `WaitExpires` are time. The agent, the people,
and the host, which hands a request to a waiting execution only, are external.

### ManagedSession, TurnResult and AgentTurn
`ManagedSession` maps the events of a managed session to messages
(`eventMapper.ts`), adds the messages about its files (`adapter.ts`) and finds
the interaction it stopped for (`hitlBridge.ts`). `TurnResult` folds the
collected messages into diagnostics and the item's error, and follows the task
tools. `AgentTurn` is one turn of `executeStreaming`, message by message.

| Variable | In the code |
|---|---|
| `turn` | backend, streaming options (content types, tool filter, display of tool inputs, marker template), flow, error treatment, and what the agent may send |
| `agent` | the query: its stage, open content blocks, tools used, messages to yield |
| `handler` | `StreamingHandler`: tool calls under construction by block index, the author whose bracket is open, the replayed prefix |
| `frames`, `messages` | what `sendChunk` got, what was collected |
| `said` | history: what the agent sent in this query |
| `outcome` | how the turn ended, the injected interaction, the item's error, the task status its result tells |

The agent sends any message its configuration lists, in any order the protocol
of the SDK allows; an abort or a failure may come between any two of them, and a
failed query may be repeated with a new handler.

What the client can know of the author of a frame is what the code tells it. An
opening marker carries the subagent's id only where the template has `{id}`
(`names`); `{name}` is always `unknown`, because `streamSubagentLifecycle`, which
would register the subagents, has no caller. A tool call tells its tool and as much
of its input as `toolInputDisplay` shows (`Shown`), and not whose it is. The field
`by` of a text frame is kept for the properties, which compare it with what the
markers say.

### DurableRecord and NodeItems
`DurableRecord` is what Postgres keeps of one chat session: the archive row, the
event rows, the observability rows, the tables that exist, and the transaction
each writer has open; its operators are the statements. A COMMIT makes the writes
visible, and the writer of the archive row holds the row's lock until then.
`NodeItems` runs the items of several nodes, each a worker process, one after the
other over that session.

| Variable | In the code |
|---|---|
| `node` | per worker: the step it is at, its item, whether the process runs |
| `run` | the locals of `executeTaskOperation` for the item: memory connected, lock to release, run id known, content read, error, observability flushed |
| `lock`, `transcript` | the advisory lock, the transcript file of the chat session |
| `plane`, `ended` | what the Agent Plane was told of an item, how it ended in the node |
| `schema`, `db`, `txn` | `DurableRecord` |

`BeginItem` to `RunAgent` start an item, `PersistMetadata` to `CommitRecord` write
the record statement by statement, `Flush` to `CommitObservability` the
observability rows, `ReleaseLock`, `RecordCompleted` and `RecordFailed` end the
execution, `ReturnItem`, `CatchItem`, `FinishNode` and `CloseNode` are the loop of
`execute.ts`. `RecordFails`, `ObservabilityFails` and the failing alternatives of
the others are exceptions; a failed COMMIT may have taken effect. `Crash` stops a
process, whose connections `ReapLock` and `ReapTransaction` end later.

## Runs

| Run | Instance | Shows |
|---|---|---|
| `channels_consume` | over Postgres: Telegram with a retry and a lost record, WhatsApp with buttons, WhatsApp with links and a form; over static data: Discord, clock to 2, tombstones kept for 2; 2 requests, 2 handlers; fair handlers | a decision fits its request and is final; the consume refines `OnceDecision`; answering decides; whoever is told that a request is decided can leave it there, since its decider resumes the agent or failed after its write |
| `channels_static` | 9 nodes of all seven channels, 2 requests, 2 handlers, clock to 2, tombstones kept for 1 | a request is accepted again only when its first decision is older than a tombstone lives; what a person was told stays true until then; a trigger reply knows its session even if the record expires in between |
| `whatsapp_quoted_reply` (violation) | 2 approvals to one recipient, 2 handlers | a redelivered quoted reply to a decided request decides the sender's other request |
| `stream_replay` | 1 client, 2 runs with 1 frame or failed attempt between them and their ends, reads of 1 frame; fair replay and timer | a client that tails has no hole, nothing is shown that is not stored, a terminal row is quiet, the response is ended |
| `stream_forgotten_response` (violation) | 2 clients, a run without frames; fair replay and timer | the replay of a failed stream unregisters the other client's open response, which nothing then ends |
| `task_local` | 2 executions, local agent, all three memories, stream on, every call may fail, 1 answer each | one agent at a time; a connection is lost only by session resolution; answers are kept, questions never complete; the stream row tells the outcome |
| `task_managed_postgres` | 2 executions, managed agent, Postgres memory; memory, unlock, the interaction store and the wait may fail; fair | memory names the session the running agent was given; an execution that pauses is waiting, and one that waits can be answered; a held lock comes free |
| `task_managed_answer` (violation) | 2 executions, managed agent | an answer is sent to a session that did not ask |
| `hitl_round` | 7 workflows, 2 tool callbacks and 2 webhook requests at once, at most 3 interactions, clock to 2 | one interaction, with its record, is waited for; a call that needs a human runs on an accepted decision about it; rules hold for what runs, a reviewer's input included; what was approved in an earlier round is not asked again; a request is decided once while its decision is remembered; an old link does not end a wait; the answers of a form are the ones the agent gets |
| `agent_turn` | turns that each send one family of messages, 2 subagents, 2 tool calls, 4 to 6 messages, up to 2 queries | the text of each author can be told from the next one's, the turn is collected whole, a tool call is shown once and with its own input unless another block interrupts it, a managed pause asks, the outcome is this turn's, tasks match the agent |
| `managed_pause_with_files` (violation) | a managed turn with files | a pause behind which file messages follow is not asked |
| `node_items` | 2 workers, one of 2 items with Continue On Fail and the Agent Plane, one of 1 item; 1 fault or stop; fair | archive and events match; the turn a returned item added to the chat session stays archived; one outcome per item; the Agent Plane is told the truth; every node ends |

The bounds. Two handlers, callbacks, executions, workers or clients are what it
takes for a race, and every property relates at most two; two requests are what it
takes for a lookup to find the wrong one. 
Time matters only to static data: over Postgres the clock is kept at 0 (its rows
never expire). `channels_consume` keeps tombstones for as long as the clock runs,
where static data too decides once; `channels_static` lets pending records expire,
and is one tick longer than a tombstone lives, so that requests are decided again:
with a bound of that length instead, one acceptance per request would hold and the
case of interest never come. Two
to four frames with reads of one give a backlog below, at and above the limit. One answer
per execution (`MaxRounds`) gives a second round that resumes; one session besides
the chat's is what it takes for a drift, two for a managed session to be replaced
while its question is open; when all ids are used up, a query without options can
only be rejected. In `HitlRound` each workflow is about one family of rules and has
bounds of its own (`Bounds`): three interactions where approvals are to be
remembered over rounds, two ticks where records expire, two webhook requests at
once where they race. In `AgentTurn` each configuration lets the agent send
one family of messages, long enough for an interleaving of two subagents, of two
tool calls, or of a replay and a new turn. In `NodeItems` the second item of a node
meets what its first left, and the second worker writes the same session; one
exception or stop may come anywhere, and the theorems cover any number of them. Symmetry is used in runs without
liveness only. `CHECK_DEADLOCK` is off because these systems come to rest: all
deliveries handled, all runs and replays over, all items done.

Each violation run states what the repository says and shows where the code does
otherwise; the lines are quoted in `PROJECT.json`. The quoted reply:
`docs/troubleshooting.md` promises duplicate or conflict for a repeated decision.
The forgotten response: `ResponseStore.ts` promises that an idle response is
cleaned up, but `replayToResponse` clears the registry by stream key, whoever is
registered, and the timer sees registered responses only. The managed answer:
`hitlResponseApplication.ts` promises to keep the session of the answered
question, but memory, which another execution may have changed, is preferred. The
managed pause: `hitlBridge.ts` promises to scan the messages of a turn, but looks
at the last one.

### Fairness
`CompanionHitl!FairSpec` assumes only that a handler that was started is run to
its next statement (weak fairness of `HandlerStep`): the event loop resumes a
function whose awaited query has returned, and a query that never returns is a
`HandlerFails` by timeout. No fairness is assumed for humans, sends, retries,
the clock or failures.

`StreamReplay!FairSpec` assumes that a replay in progress is resumed when its
query returns (weak fairness of `ServeStep`) and that the timer, which runs every
30 seconds while a response is registered, finds a response idle in the end
(weak fairness of `DropIdle`). Nothing is assumed of the run, the queue or the
store; in particular a run need not end.

`TaskExecution!FairSpec` assumes that an execution goes on once the call it awaits
has settled (weak fairness of `Step`) and that n8n closes the memory of an
execution that ended (weak fairness of `CloseMemory`). Nothing says that a query
of the agent ends, that a human answers, or that a call fails or does not.

`NodeItems!FairSpec` assumes that a running process goes on (weak fairness of
`Step`): every statement, callback and agent run is answered or fails. For the
callbacks of the catch block this is an assumption about the network, since
`fetch` is given no timeout there. Postgres notices in the end that a process is
gone (weak fairness of `ReapLock` and `ReapTransaction`).

## Proofs

The theorems hold for every value of the constants; what they assume are the named
ASSUMEs of the modules, which TLC evaluates on every run.

`CompanionHitl_proofs`, for every set of nodes, requests, handlers and deliveries,
with either store:

* `TypeCorrect`: `Spec => []TypeOK`;
* `TriggersResume` (`TriggerRepliesResume`), from `ReplyInv`: a pending record names
  its session, and a handler that came from a trigger carries no fallback record at
  any of its statements;
* `DecisionsFit` (`DecisionFitsRequest`), from `FitInv`: pending records have the
  kind of their request and, per handler, the key it has worked out fits the
  request its lookup found (`DecideFits` for all channels and paths);

and for a node over Postgres (`node.backend = "postgres"`):

* `AcceptedOnce`, `VerdictsTrue`, `ResumableUnlessOrphan`;
* `DecisionsAreFinal` (`DecisionIsFinal`) and `PostgresImplementsOnce`: the four
  statements of the consume implement `OnceDecision`. `RegisterStep` takes every
  action to a write of the register, to a verdict about it, to the loss of one
  (`LoseStep`), or to a stutter.

The results for Postgres follow from one inductive invariant, `ConsumeInv`. None of
the properties is inductive alone: that a handler at its INSERT will not overwrite a
decision depends on what it saw at its SELECT, and that a handler which is told
`conflict` is told the truth depends on no row being pending when it reads it.
`ConsumeInv` therefore adds, per row, that an unconsumed row has no key and a
session unless absent (`RowShape`); per request, that its row exists from the
first save on and that a lost request is never dispatched (`DispatchShape`); and
per handler, what it knows at each statement (`HandlerShape`): at `select`,
`insert` and `raced` the row is consumed unless the request's record was lost, and
so on. `DecideCases` and `SendCases` say what the synchronous code of a channel can
make of a delivery. A step either leaves the winners alone (`MoveKeepsInv`,
`QuietHandlers`) or makes one new winner of an unconsumed row (`WinningStep`).

And for a node over static data (`node.backend # "postgres"`):

* `TombstonesStay`: a consumed record stays as it is until it is older than
  `CONSUMED_MAX_AGE_MS` (`Young`), at any time: a save, a retry or another decision
  does not replace it (`SaveKeepsYoung`, `ConsumeCases`), and no cleanup drops it;
* `StaticAcceptedOnce` (`AtMostOneAccepted`) and `StaticVerdictsTrue`
  (`VerdictsMatchStore`), while `clock <= ConsumedMaxAge`, that is until the first
  tombstone may be dropped. Beyond it both are false in the code (see below), so the
  bound on the clock is part of the statement. Each needs the other (`InWindow`): a
  handler that wins found no tombstone, and an earlier winner's verdict says there
  would be one. `StaticSteps` says for every step of a handler what it can become
  and that no young tombstone was touched; `StaticInv` adds that the statements of
  the Postgres consume are never reached.
* `StaticImplementsOnce` (`ImplementsOnceDecision`) and `StaticDecisionsAreFinal`
  (`DecisionIsFinal`), under `[](clock <= ConsumedMaxAge)`: within that time static
  data implements the register that Postgres implements. `StaticRegisterStep` is
  `RegisterStep` for it, from `KeyedRecords` (a record has a key if and only if it is
  consumed): the cleanup in every lookup and save rewrites the store, but the keys do
  not show it (`CleanupKeys`).

With either store and without a bound on the clock, for `TimedSpec`:

* `TimesAreHistory`: `TimedSpec => Spec`, so every theorem above holds of it too;
* `AcceptedOncePerTombstone` (`AcceptancesApart`): over Postgres a request is
  accepted once; over static data two acceptances are decisions more than
  `CONSUMED_MAX_AGE_MS` apart;
* `VerdictsStayTrue` (`VerdictsLast`): `accepted`, `duplicate` or `conflict` is true
  of the record, over static data for `CONSUMED_MAX_AGE_MS` after the decision.

Both follow from `TimedInv`. Over Postgres and over static data the handlers differ,
and the argument is the same: the store keeps what it still owes (`KeptRecord`,
`RecordsKept`), and a handler that answers does so from the record it leaves, whose
time it remembers (`Learns`, `Remembered`). A new winner found no kept record
(`NewWinnerApart`), whereas `VerdictsLast` says that an earlier winner's decision, if
it is not old enough, is still there; so neither invariant is inductive without the
other.

`StreamReplay_proofs`, for every set of clients, read limit and number of frames
and runs:

* `StreamTypeCorrect` and `NoLateFrame` (`TerminalIsQuiet`), from `QuietInv`: the
  queue is empty unless a run is sending or flushing, and a terminal row implies
  that no run is sending. Types need it too: the head of the queue is taken only
  while an append is under way, which `QuietInv` says means a non-empty queue;
* `ReplayHasNoHole` (`TailComplete`), from `ReplayInv`. The property speaks of
  clients that tail; it is inductive only with what holds while they replay:
  `RegistryShape` (who can be registered), `ReplayShape` (what cursor and batch
  mean at each step) and `OwedShape`: a registered client has every frame since
  its cursor except those in flight, those whose COMMIT was not answered and
  those its replay still owes it (`Owed`: before the second read everything
  after the cursor, after it the batch that was read). `QueueShape` shows that an
  append or a delivery, `ServeShape` that a step of the replay keeps this, and
  `OtherClient` and `Displaced` that a client loses nothing to another's step;
* `ShownIsOnRecord` (`DeliveredIsPersisted`), from `ReplayInv` and the fact that
  a committed append left a frame.

`TaskExecution_proofs`, for every set of executions and sessions, either backend,
every memory and every set of faults:

* `OneAgentAtATime` (`Exclusive`) and `OnlyResolutionLeaks`
  (`LeakIsResolveFailure`), from `LockInv`. Mutual exclusion alone is not
  inductive: a release must be by the holder. `LockOk` says that whoever can
  release holds the lock, that nobody can before its resolution returned or after
  it ended, and for whom a connection is pinned. Most actions are `Within` the
  critical section and touch neither (`WithinSteps`). `LeakIsResolveFailure` is
  the exact extent of a leak the code has: the release function is a local
  variable until `resolveSessionState` returns, so a memory call that throws after
  the lock was taken leaves it to the connection;
* `RetriesAreBounded` and `AnswersAreKept` (`AnswerNeverDropped`), from `RunInv`:
  each stage of the retries has a budget of queries that is not used up when a
  query starts, and `Attempt` shows what one recovery does to stage and options;
* `QuestionsNeverComplete` (`AskedNeverDone`), from `AskInv`: no place of the
  completing branch is reached with a question pending;
* `TaskTypeCorrect`, from these: that only sessions are ever made rests on a query
  running in one, which for a managed resume rests on its answer being kept;
* `ReadsStayCurrent` (`ReadIsCurrent`), from `ReadInv`: with a memory that has a
  lock, what an execution read between its lock and its query is still what the
  memory holds, because whoever writes the memory has the lock;
* `PausesAreAnswerable` (`PausedIsAnswerable`), from `WaitInv`: question, record and
  wait come in this order over three awaited calls, a failure between two of them
  leaves the pausing branch, and no later failure drops the record of a wait that
  was entered;
* `StreamsTellTheOutcome` (`StreamTellsOutcome`), from `StatusInv`: what the row says
  at each place from its marking to the end of the execution.

`HitlRound_proofs`, for every set of workflows, forms, submissions, calls and patterns,
any number of callbacks, webhook requests and interactions, and ages of any size:

* `TypesHold`, `OneDecision` (`DecidedOnce`) and `OneWait` (`WaitsForOne`), from
  `DecisionInv`, which has four parts. `TypeOK`. `RoundInv`: whatever is in flight,
  pending, sent or decided belongs to this round or an earlier one and fits its
  request. `MemoryInv`: while the store or the ledger remembers a decision, nothing
  else of that request can be accepted; a step either drops what has expired or
  takes one decision (`MemoryKept`, `TakenMemory`). `WaitInv`: a round that waits
  has one interaction pending, answerable unless answered or expired;
* `RulesAlwaysHold` (`RulesHold`): `RunFacts` lists what each way to run a call has
  checked, and `HooksFollowRules` and `RulesAdmit` compare the hooks with the rules;
* `ApprovedRuns` (`ApprovedBeforeRun`), from `ApprovalInv`, which follows an approval
  from the decision over the webhook request and the payload (`ResponseInv`), the
  records' fingerprints and the handler's (`CarriedInv`), the queued resolution
  (`QueuedInv`) and the mode (`ModeInv`) to the call;
* `KeptApprovals` (`ApprovalsAreKept`), from `KeptInv`: wherever the round stands,
  the fingerprints granted so far are in the handler, in the record waited for, in
  the request that consumed it, or in the payload. It showed that the premise must
  exclude decisions on an earlier request too: its link, accepted through the ledger
  after `AnsweredMaxAge`, resumes with the fingerprints of its own time, which no
  instance within the bounds of the run reaches (`Granted`);
* `OwnDecisionEnds` (`EndsOwnWait`), from `FreshInv`: while all decisions are
  remembered, every request of an earlier round was decided, so its link is refused;
* `FormAnswersAreUsed` (`FormAnswerIsUsed`): the answer that waits for its form was
  parsed from a submission of it (`AnsweredForm`), and what is parsed is found again
  (`FormAnswered`): `AnswerKept` for the map, `AnswerFound` for the order of the
  lookup keys, `ParsedFits` with `Joined` for labels joined by commas.

`MessageFold_proofs` proves induction over the natural numbers in the form the provers
accept, for a set instead of a predicate (`NatSet`), and from it what a loop over a
list computes, one element after the other (`FoldLaw`, `LoopLaw`), for a step given
as a function. `MessageFold` has such loops as recursive functions; the community
modules define their folds by a RECURSIVE operator, which no prover expands.

`AgentTurn_proofs`, for every set of tools, results, files and turns, and queries of
any length and interleaving:

* `TextsAttributed` (`TextAttributed`), from `TextInv`: a client that has read the
  frames is where the handler is (`ReadsAs`), for every way a text is framed. By
  default markers it knows that a subagent speaks, not which, until the first text
  of the block; that no second one speaks in it is what the theorem says;
* `PausesBridged` (`PauseIsBridged`), from `PauseInv`: what a managed session sent
  and still has to yield ends in its pause, which names what it waits for, followed
  by files only; `Steps` says who may do what at each stage;
* `OutcomeIsTold` (`OutcomeIsThisTurns`), from `OutcomeInv`, `ConcludedInv` and
  `ResultInv`: a local agent that has not concluded sent results of earlier turns
  only, so the last collected one is this turn's;
* `TurnsAreKept` (`TurnIsKept`), from `EarlyInv`, `SightInv` (the bracket hides as long
  as a query that repeats has not echoed the prompt, and no longer) and `KeptInv`
  (what is collected and framed is what is new). The loops of the property meet
  the steps of the model in `KeepingFresh`, `FramesFound` and the lemmas beside them;
* `TasksAreTold` (`TasksMatchAgent`), from `TaskInv`: the tracked calls are the calls
  made, and once the tools are settled, the tracked status is the one they left.
  Like `TurnsAreKept` it needs the echo, which the property therefore requires;
* `CallsAreIntact` (`CallsIntact`), from `BlockInv` (the agent's open blocks are
  those the sent messages leave open), `GatherInv` (the handler's entry of an index
  is the open block's, unless another author used the index in between), `ShownInv`
  (a block nobody interrupted is streamed as it was sent), `OneInv` (a tool is
  gathered or streamed, once) and `SourceInv` (what is gathered or shown was sent
  under that index since the call started). The last two hold however blocks overlap.

`NodeItems_proofs`, for every set of workers, numbers of items and bound on faults:

* `RecordStaysWhole` (`RecordMatches`) and `ItemsTypeCorrect`, from `RecordInv`.
  That archive and events match after a COMMIT depends on what the transaction has
  gathered: `ShapeOf` says for each place of a writer what its open transaction
  holds (`events` is the part of the content inserted so far, every committed
  event row was deleted), and `OneRow` that only one transaction has written the
  archive row, so that nobody else's COMMIT changes the event rows it deleted.
  Most actions are quiet (`QuietActions`); `CommitStep` is the one that uses it all;
* `OutcomeToldOnce` (`OneOutcome`), from `OutcomeInv`: the rows of an item are
  written by its own flush only (`OutcomeOf`), which happens once, and none is
  there while the item has not been told (`NotYetTold`);
* `PlaneToldTrue` (`PlaneAgrees`), from `PlaneInv`: nothing is told of an item
  before its end except, from the catch block on, a failure, and from there no way
  leads to `tell` or `return` (`ToldOf`, `ErrorOf`; `Moves` classifies the steps).

`NodeReturns_proofs`, for the same constants: `ReturnedIsOnRecord` (`ReturnsAreDurable`)
has two halves. That an item's observability row is there when it returns follows its
own flush (`RowOf`, `RowsInv`). That the archive keeps its turn while other nodes
overwrite the archive row needs mutual exclusion: whoever has read the transcript
holds the lock until its COMMIT (`HeldBy`), so what it is about to write contains
every turn owed so far (`FileOf`), and the turns already archived are never lost
(`Archived`, `KeptPreserved`). The statement is of items whose memory connected
(`durable`) and of turns that went into the transcript of the chat session (`inChat`,
which a drift to another session does not); and no step loses the transcript file,
after which the code would archive what is left.

Invariants of which it was in doubt that a step preserves them were checked with TLC
before they were proved.

Only model-checked: liveness (`AnsweringDecides`, `AlreadyDecidedResumes`, `ResponsesEnd`, `LockComesFree`,
`NodesEnd`) and the four violations, since fairness and `ENABLED` are out of the
prover's reach, and so are RECURSIVE operators, which no module uses that a theorem
is about.

## Seen while modelling

Behaviour that the modules keep as it is and no run is about:

* Channels. A decision whose handler fails after the write, at closing the pool or
  with its process, resumes no agent: every later delivery is told `duplicate` or
  `conflict`. A static-data tombstone is dropped after `CONSUMED_MAX_AGE_MS`, after
  which the same Telegram tap is accepted again through the fallback record. The
  WhatsApp webhook takes text as an approval whatever was asked.
* Sessions. An entry cleared after a drift does not prevent the old transcript
  from being resumed, since the next bootstrap collides with it; Redis and Simple
  memory have no `forget`, so a stale entry stays.
* Streams. A live `end` frame or another client's registration ends a response
  whose replay is between two reads. A failed streaming attempt is not finalized
  and sends an error and an end frame before the retry, which ends the client's
  response although the run goes on. A backlog of more than twice the limit of a read
  leaves a hole: a replay reads twice and then relies on live frames.
* Turns. A `session.error` of a managed session gives an error result that a later
  idle overwrites with success. A replayed prefix never ends if the agent does not
  echo the prompt. Tool calls are keyed by block index alone: of two calls whose
  blocks overlap under one index the first is never shown, and the second with the
  input of both, or before its own has ended. Subagents have no name in the stream:
  with the default markers their blocks all open as `unknown`, only a template with
  `{id}` tells them apart, and a streamed tool call never says whose it is.
* executeTask. An execution that fails on entering the wait leaves its stored record
  behind.
* Items. A paused run is never reported ended to the Agent Plane and its resumed
  round starts a new one; the start of a run is posted twice when the first request
  broke. A `NodeOperationError` ends the node even under Continue On Fail, and the
  earlier items' results with it. An item with an agent error is reported completed
  although the node fails it.

## Not modelled

Signature checks, HTTP transport, message text and HTML, the parsing of provider
payloads beyond what a delivery identifies its request by, n8n itself. Of the
streams: the direct writer of `setupStreamTransport` for runs without a store,
`purgeExpired` (nothing calls it, so a row past its `expires_at` stays), the text
of frames, their redaction and the client-side parser. Of executeTask: building
the query (tools, prompts, sandbox, policies) is one step that may fail; working
directory, forked sessions and result formatting are left out. Of the rules: the
syntax of globs, regular expressions and conditions, and the external governance
engine behind its call. `PostgresHitlInteractionStore`, which the nodes never
select. Of the managed backend: its API requests, resources and file contents. The
parts without protocol state (agent lifecycle operations, Python generator, skills
and MCP tools, provider configuration, node descriptions, Skill tool and Woztell
Send) would only restate their code. What each partly modelled component leaves
out is in its note in `PROJECT.json`.

## Plan

1. Channels, streams, executeTask, rounds, turns, items: the modules above. Done.
2. Proofs: every safety property of the runs is now a theorem. Liveness stays with TLC.
3. Left to model: the direct stream writer, `PostgresHitlInteractionStore` if a
   node comes to use it, resources and files of managed agents.

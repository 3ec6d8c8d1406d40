# Project Trishula in TLA+

This directory is a verification development of Project Trishula: TLA+ modules of its
stateful core, the TLC instances that check them, and proofs checked by TLAPS. Paths
below are relative to the repository (`apps/...`, `docs/...`); a file without a directory
is in `apps/convex/convex`. Four subsystems are covered:

- **Discord**: the state Convex keeps of a guild's conversation, the gateway's worker that
  carries a turn from its trigger to its answer, the dispatcher of the outbox, and the
  compaction of long conversations;
- **thread runs** of the web chat: commands, runs, result batches and reconciliation in
  Convex, and the execution service of `apps/pi` that carries a run out;
- **trade proposals**: their documents, the owner's decisions, and the broker service of
  `apps/pi` that executes an order;
- **market research**: the schedule of the newspaper, the research of an edition by Pi,
  and its publication as a forum thread.

## 1. Inventory

| Component | State | Operations | Modelled by |
|---|---|---|---|
| Discord loop, outbox, conversation (`discord.ts`, `lib/discord_state.ts`, `lib/discord_conversation.ts`) | per channel: cursors, generation, lease, run; per guild: conversation with epoch, generation, routing version, lease token, next ordinal; runs; turns with their stages and research artifacts; outbox rows with a reserved canonical event; human events | ingest, claim/recover, stages, newest context, enqueue, list/begin/acknowledge delivery, complete/fail, roles, routing, reset, privacy deletion | `DiscordState`, `DiscordLoop`; stages: `DurableTurn` |
| Gateway orchestrator (`apps/discord/src/orchestrator/channel-loop.ts`, `service.ts`) | one task per channel, its heartbeat and abort signal | claim, plan, acknowledge, research, draft, queue, failure closure, complete | `DurableTurn` |
| Outbox dispatcher (`apps/discord/src/outbox`) | rows being delivered | list, begin, send to Discord, acknowledge | delivery actions of `DiscordLoop` |
| Compaction (`discord.ts`, `lib/discord_conversation.ts`, `apps/discord/src/orchestrator/portable-checkpoints.ts`) | checkpoint documents; the conversation's active and staged pointers; the coordinator's request | request, answer, store, restore, stage, expire, invalidate, reset | `Checkpoints` |
| Thread commands, runs, batches (`commands.ts`, `dispatch.ts`, `results.ts`, `reconciliation.ts`) | runs, commands, assistant messages, stored batches, deadlines, leases | prompt, retry, stop, startRun/stopRun actions, batches, heartbeat, reconciliation, cleanup | `ThreadRuns` |
| Pi execution service (`apps/pi/src/execution`, `results`, `app.ts`) | run registry, one controller and publisher per run, hot sessions | reserve/start, emit, flush, send with retries, cancel, shutdown | `ThreadService` |
| Discord jobs (`apps/pi/src/discord`) | table of jobs by request id | submit, poll, cancel, expire | `DurableTurn` |
| Trade proposals (`trading.ts`, `apps/pi/src/broker/trading-broker.ts`) | documents; Pi's maps of proposals and results | propose, record, approve, execute, finish, reject, expire, disconnect | `TradeProposals` |
| Broker connection, portfolio, vault (`trading.ts`) | one document each | set, refresh, put with a revision | not modelled |
| Market research schedule (`market_research.ts`, `lib/market_research.ts`) | preferences, editions per guild and date, page cursors | save, check due editions page by page, manual trigger, retry, cancel | `ResearchSchedule` |
| Market research jobs (`market_research.ts`, `market_research_dispatch.ts`, `lib/market_research_theses.ts`, `apps/pi/src/market-research`) | rows with status, generation and lease; evidence; cost ledger; thesis revisions; Pi's attempts and queue of callbacks | claim, dispatch, search, store, compose, fail, recover | `ResearchJobs` |
| Forum publisher (`market_research.ts`, `apps/discord/src/market-research`) | edition and delivery rows with leases; attempts; the forum | claim, heartbeat, reconcile, send, acknowledge, adopt, recover | `ForumPublication` |
| HTTP edges, schema, web application, threads/messages queries | none of their own, or single-document edits | - | not modelled |
| `archive/`, `infra/`, `tools/`, `scripts/` | - | - | not part of the running program |

**How they interact.** Convex mutations are serializable transactions; everything else
reaches them over HTTP and may lose, repeat or delay a call. The gateway claims a channel
of a guild (`claimLoop`), and under the fence it was given asks Pi for a plan, for research
and for a draft, recording each result before it goes on; it queues a reply, which the
dispatcher delivers; Discord's echo of the message comes back through ingestion and confirms
the same row. On the web side, `commands.ts` reserves a run and schedules `startRun`, a
Convex action that is not retried; it posts the run to Pi, which answers, executes, and
streams batches back through `results.ts`. A cron every minute fails runs whose deadline or
lease has passed. An order starts as a tool call in Pi, which records a proposal in Convex
and keeps it in memory; the owner's approval is a Convex action that marks the proposal,
asks Pi to execute it and records the answer. A cron creates the editions of the newspaper
that are due; an action posts each to Pi, which reports evidence, costs and the paper
through callbacks; publishers poll Convex for composed editions and post them, part by part.

**What is hard.** Claims of two channels racing for one conversation; a lease that runs
out while its holder still works; a crash with rows pending, begun or confirmed, or between
two stages of a turn; a reset between any two steps of a delivery; answers that are lost or
late; a terminal batch that arrives before the answer that accepted the run; a run given up
for lost while its terminal batch is under way; an attempt that times out and arrives later;
a flush that fails while other events wait behind it; cancellation and shutdown racing an
execution's end; hot sessions that survive the run they were built for; an order placed
whose answer is lost; a thread that Discord creates after its request was given up; a failure
report that overtakes the costs of the attempt; clocks that skip or repeat an hour; a summary
that comes back to a conversation which has changed meanwhile.
`PROJECT.json` lists the hazards at their lines with the properties that cover them.

**What makes each part correct.** Discord: one open turn per guild; windows consumed in
order and once; no explicit mention skipped or, in a turn, left unanswered; recorded research
kept; what is sent is what was recorded; visible history is what Discord confirmed; a
superseded epoch cannot speak; a turn comes to rest.
Compaction: whatever checkpoint is used tells of every visible message up to its end; making
one active loses nothing; a backlog is worked off.
Threads: one active run per thread; run, message and commands settle together; contiguous
streams; what has ended never changes; every run ends; one payload per sequence number;
what Pi takes for delivered is what Convex recorded.
Proposals: a record says nothing false of the broker's orders, of which there is at most one;
what was turned down stays so; stale proposals close.
Newspaper: one paper per date, every date recorded; nothing paid twice that was stored, all
reports of payments over before a failure is reported; no row left to a dead attempt; results
final; a thread complete, in order, once.

## 2. Modules

    DiscordState              pure decisions of lib/discord_state.ts
      DiscordLoop             the guild's state machine      -- implements --> GuildTurns
        MCDiscordLoop         TLC instances
        DiscordLoopProofs     proofs: TypeOK, all safety properties of its runs,
                              refinement of GuildTurns
      DurableTurn             one turn: gateway worker, stages, Pi's jobs
        MCDurableTurn         TLC instance
        DurableTurnProofs     proofs: TypeOK, ReplyIsCommitted, CompletedResearchIsKept,
                              ExplicitTurnsAreAnswered
    Checkpoints               compaction of a guild's conversation
      MCCheckpoints           TLC instance
      CheckpointsProofs       proofs: TypeOK, CheckpointsAreComplete,
                              ActivationLosesNothing, NativeLineageIsWhole
    ThreadRuns                Convex side of runs            -- implements --> ThreadLedger
      MCThreadRuns            TLC instance
      ThreadService           ThreadRuns closed with apps/pi -- implements --> ThreadRuns
        MCThreadService       TLC instance
        ThreadRunsProofs      proofs about both: TypeOK, OneActiveRunPerThread,
                              TerminalRunsNeverChange, SettledTogether, StreamIsContiguous,
                              NeverChangedRetry, AcknowledgedOutcome, both refinements
    TradeProposals            proposals in Convex and Pi
      MCTradeProposals        TLC instance
      TradeProposalsProofs    proofs: TypeOK, RecordsAreTrue, TurnedDownForGood
    ResearchSchedule          preferences, checks and editions of every date
      MCResearchSchedule      TLC instance
      ResearchScheduleProofs  proofs: TypeOK, OnePaperPerDate, StartsOnItsDate,
                              DatesRecorded
    ResearchJobs              research of one edition: Convex, Pi, callbacks
      MCResearchJobs          TLC instance
      ResearchJobsProofs      proofs: TypeOK, PaymentsBeforeFailure, PacketIsStored,
                              ThesisUpdatesFollowMemory, PaidOnlyMissing, AcceptedIsFinal
    ForumPublication          publication of one edition: Convex, publishers, the forum
      MCForumPublication      TLC instance
      ForumPublicationProofs  proofs: TypeOK, PublishedInFull, RepliesOnceInOrder,
                              NoBlindSecondThread

An operator named `Definition_whatIsWrong` just before a definition is a plausible bug in
it; nothing uses it but the mutants of `PROJECT.json`, which show that each property fails
when the code it is about is wrong.

### DiscordLoop

Every Convex mutation is one action, named after it. The callers are left open: a fence
that `claimLoop` has handed out may be presented at any later time, so a worker that lost
its lease, a retry and a delayed request are all covered; a call that the mutation rejects
changes nothing and is no action. A run id, its turn id and the claim id that made it are
one value, as in the code; the lease token of the conversation is the claim id.

Decisions worth knowing when reading it against `discord.ts`:

- The channel's lease and the conversation's are set by the claim and renewed together by
  `heartbeat`, so they run out in one action (`LeaseExpires`), at any time. Debounce and the
  30 s retry delay are delays every later action may have waited for.
- The stages of a turn between claim and end are "open", but for one: a draft that suppresses
  the reply (`recordFrontmanResume`) writes the terminal stage `suppressed` while the run goes
  on, a claim does not recover such a turn (`RecoverableExpiredTurn`), and whatever `heartbeat`,
  `getNewestContext` or `enqueueReply` record afterwards under the turn's fence puts it back
  among the others ("reopened"). Plan, research and other drafts have the same effect as
  `heartbeat` and are not actions of their own here.
- `recheckPending` is never stored `true`, so the recheck window of `discordWindowBounds`
  is unreachable and left out; so is the `catching_up` status, which is `idle` here.
- `begun` is not stored by the code: it says that `beginReplyDelivery` was answered, so that
  Discord may hold the message. Only such a row can be echoed or acknowledged as sent.
- A row that is already uncertain may be begun again under the same nonce. That Discord
  removes duplicates by nonce is outside the model.
- A role change, a routing change, a reset and a privacy deletion do exactly what the code
  does to runs, turns and rows, also where that is less than one expects: a channel that
  becomes monitored forgets its run without ending it.
- Reply text, hashes and delivery attempts are identity; the acknowledgement of a trigger
  keeps the key `<<channel, trigger, epoch>>` that makes it unique in the code.

### DurableTurn

Where `DiscordLoop` allows any caller, this module has the caller there is: `worker` is
`ChannelLoopOrchestrator.run` with `runDurable`, `worker.pc` names the await it is at, and each
call (`recordFrontmanPlan`, `recordResearchStarted`, ..., `completeLoop`) is one action with
its effect in Convex. `Call` gives the four ways a call can go: accepted; accepted with the
answer lost; refused (HTTP 409, or 400 when the mutation throws: neither may be retried);
not arrived. `OnError` is the chain of catch blocks: a failure closure for an explicit
turn, a quiet completion for an ambient one, and `completeLoop("error")` when that fails.

What models write is open. A text is its source (plan, draft, apology, closure) and the
last message it was written from, which is what staleness is about; an eligible context is
the last message of it and the next explicit trigger, of which revision and hash are
functions. `durableTurnRecoveryPayload` is what a claim recovers; its worker starts behind
the last recorded stage (`Started`, `EnterPass`, `RecoveredResumeIsCurrent`).

Pi's job table keeps the generation of the request a job was made for: the fingerprint
covers the whole request, so a recovered worker's job may be refused as a conflict while an
older one is kept, or find it gone. A job and its result are one step of the poll that sees it.

One channel, one window: several windows, uncertain and failed deliveries, routing, epochs
and the research log are `DiscordLoop`'s. Only what the heartbeats rule out counts as a
fault: a lease that runs out while its worker, or a reply the dispatcher polls, attends to it.

### Checkpoints

An event is its ordinal in the epoch; a summary is the set of events it was made from, through
earlier summaries too; a native artifact is the set of events it has seen as such; a context
hash is the set of events hashed. `generation` stands for `generation` and
`routingGeneration`, which the code only compares together, and a summary has size 1. Turns
and deliveries appear by what they do to events: a reply reserves an ordinal that may become
visible much later, after a checkpoint that ends behind it was made. `nextPortableCheckpoint`
and `storePortableCheckpoint` are one action each, with the pointers and documents that loading
a checkpoint rewrites when it cannot be used; between them Pi may answer, fail, or be given
up, and anything may happen to the conversation. A gateway speaks the native protocol or the
old one. The byte limits of a request are `BatchEvents`. Time is the order in which
checkpoints pass their retention (`RetentionEnds`); a request as old as a checkpoint that
expired is taken to have ended.

### ThreadRuns

A mutation is one action. `startRun` and `stopRun` are Convex *actions*: each transaction they
run and the HTTP call between them is a step (`dispatch` says where the action stands), and
the action may die between any two. Time is abstract: a deadline may pass and a lease may
run out at any moment. A batch is its sequence number and the kind of its last event, a
changed payload being another kind. `take(limit)` returns any set of the right size. Which
ordinals messages get does not matter, only their order. The execution service is open: for
a run it was asked to execute it may send any batch, in any order, any number of times.

### ThreadService

Closes `ThreadRuns` with Pi. Pi is one Node process, so the code between two `await`s is one
action. Two consequences of its microtask order are kept: an idle operation chain takes its
next operation before a controller can return (`Taking`), and an executor awaits each event
it emits. Faults are explicit and counted against `MaxFaults`: an attempt that times out
(its request stays in `late` and may arrive any time), a lost request or answer, a lease
that is lost, a Convex action that dies, a crash of Pi. A deadline or lease that runs out
while Pi or an action is still at work on the run is a fault too, otherwise time is free.
`cleanupRunBatches` happens a day later and is left to `ThreadRuns`.

`StaysWithinThreadRuns` says that the closed system takes no step the open one does not, so
what holds of `ThreadRuns` holds of it.

### TradeProposals

A mutation is one action; `executeOrder` has no `await` and is one too. `approveProposal` is a
Convex action: `call` says where it stands, and it may die anywhere. Its request may reach Pi
after it gave up, or never, and its catch block records `failed` whatever has happened; both
the loss of an answer and the loss of the answer of the recording mutation are steps.
`recordProposal` is idempotent, so its request may be delivered any number of times. Convex
and Pi have clocks of their own, and a proposal may be past its expiry on one of them only.
A restart empties Pi's maps; a disconnection empties the map of proposals and leaves the
results, and a proposal whose recording is still unanswered enters the map afterwards, as in
the code. A Convex mutation that throws leaves no trace, so the `expired` that
`markProposalApproved` writes before it throws again does not appear.

The fingerprint of a proposal is fixed with its id; a call with another one throws and is no
action. Live trading is a refusal, as in the code: in Robinhood mode `executeOrder` never
places an order.

### ResearchSchedule

Time is a clock of ticks, a zone its offset at each tick, a date a number. `checkDueEditions`
is one action per page, and between two pages preferences may be saved, which moves them
behind the cursor. `dueScheduleDecision`, `localToInstant`, `scheduleDayEnabled`,
`manualEditionDisposition` and `shouldSkipUnstartedEdition` are the operators of the library.
What research and publication make of an edition is one step.

### ResearchJobs

The row, its evidence, its cost events and the thesis are Convex; a `job` is an attempt in
Pi with the evidence it holds and what it has used of its budget. All callbacks about an
edition go through one `queue`: the next is sent when the last was answered or given up, and
one given up may still arrive (`delayed`). Restarts, deaths of the dispatching action and lost
callbacks are not bounded. The generation of a claim is the fence of everything it reports.

### ForumPublication

A publisher's attempt (`attempt`) takes one step per answer it waits for; any call may throw,
its process may die, and its lease may run out while it goes on. `forum` tells apart
requests Discord has not executed yet, messages that exist and messages its listings show,
which is what reconciliation depends on. A failure code decides what the next attempt may do.
That Discord creates one message per nonce is assumed of it (`Arrives`); the once of
`RepliesOnceInOrder` rests on it.

## 3. Runs

All bounds are constants set in the `.cfg` files; states are distinct states found by TLC.

| Run | Instance | States | What it shows |
|---|---|---|---|
| `loop_core` | 1 channel, 2 messages, windows of 1, 2 claims, both final keys, error limit 2 | 1,231,567 | windows are consumed in order, pending replies survive a recovery, one final per run, no explicit trigger is skipped |
| `loop_routing` | 2 channels, 1 message each, one acknowledged trigger, 2 claims, 1 routing change, 1 reset or privacy deletion, drafts that suppress | 932,936 | one open turn, held by the current route; a turn that was let go stays over (`GuildTurns` is implemented) |
| `loop_controls` | 1 channel, an acknowledged trigger and a final, role changes, 1 reset or privacy deletion | 986,099 | a superseded epoch is silent; what is visible is what was confirmed |
| `durable_turn` | 1 turn, 1 later message, 2 faults, error limit 2 | 1,066,394 | recorded research is kept, what is sent was recorded, explicit turns are answered, the turn comes to rest |
| `runs` | 2 threads, a prompt, a retry, a stop, a batch each, a reconciliation batch of 1 | 445,297 | documents agree, ended runs stay, runs end, `ThreadLedger` is implemented |
| `service_stream` | 1 run, up to 2 output events, 1 stop, 2 faults, 2 attempts | 319,839 | the stream has no hole, one payload per sequence, acknowledged outcomes are recorded, `ThreadRuns` is implemented, the run ends |
| `trade_proposals` | 2 proposals, a cron batch of 1, mock mode, any number of faults | 252,776 | records are true of the orders, what was turned down stays so, stale proposals close |
| `publication` | 2 publishers, a starter and 2 replies, 2 attempts a part, 4 claims | 359,304 | complete, in order, once; no blind second thread; work settles |
| `research` | 1 search to make, a budget of 2, 2 claims, 1 revision by another edition, 1 callback that arrives late | 946,664 | reports of payments are over before failures are reported, nothing stored is paid again, results are final, dead attempts are let go |
| `schedule` | 2 guilds, 1 preference per page, 2 zones whose clocks go forward or back, 2 changes, 1 missed check | 988,001 | one paper per date, every date recorded, begun on its date |
| `compaction` | a native and an old gateway, 4 events, stages of 1 event, 2 epochs, 2 generations, 2 expiries | 854,977 | what is restored or staged is complete, an artifact has seen what its summary tells of, activation loses nothing |
| `awaiting_wedge` | 2 channels, 1 message each, 2 claims | stops at the violation | see Findings |

*Why the bounds are enough.* Two claims give a first holder and one that recovers or overtakes
it; a third only repeats the second. A window of one message with two messages gives two
consecutive windows and an edge between them. One reset gives an old and a new epoch, and no
code compares more than "this epoch or not". Two channels are all that can race for a
conversation. `loop_routing` has no finals, whose deliveries add nothing to the turns: a
suppressed turn is brought back by a heartbeat, a context or the acknowledgement, and the
refinement is proved with finals too. In `durable_turn` two faults reach a failure within a
recovery, and one later message makes a draft stale, ends a context or starts a second pass with
another input. For runs, a retry needs a second run, reconciliation with a batch of one and two
overdue runs is its limit exceeded, and one batch number with its kinds gives a repetition, a
changed payload and a batch after the end. In `service_stream`, three numbers allow a hole (a
later batch before the first), and two faults exhaust the attempts of a batch, or let one
attempt time out and arrive late after another loss. Proposals meet only in the cron's batch, of
which two exceed the limit; nothing else of `trade_proposals` is bounded. Two publishers are an
old attempt and its successor, two replies a first and a last one, and two attempts the last
that may be retried. A budget of two with one search to make leaves a second payment possible
and no third. A page of one preference with two guilds makes every check continue on another
page, and both clocks change in the middle of the run, on a date with a schedule. With a
threshold of two and a tail of one, two events make a checkpoint due, which becomes active with
its artifact, and a third makes one that extends it, or that meets an active one without an
artifact; four events in stages of one give a first stage, one that extends it, and a last one
that becomes active. The second epoch and generation give what a fence compares; two expiries
reach an active checkpoint and its successor. What the proofs cover does not depend on these
bounds.

*Deadlock* is checked in `trade_proposals` only: elsewhere ids are used up in a bounded
instance, and the real system may be idle.

*Symmetry* (claims, channels) is used in the runs of `DiscordLoop`, which check no liveness.

*Fairness* is weak throughout. `runs` assumes that the reconciliation cron keeps running
(`crons.ts`, every minute) and that clocks advance past a deadline, nothing of Pi.
`service_stream` assumes, for `EveryRunEnds`, that Convex runs the actions it scheduled unless
they die (a fault), that the cron runs, that Pi answers a request and its event loop handles
what is queued, that an execution comes to an end, and that a lease or deadline nobody works on
runs out; neither that Pi restarts after a crash nor that a run whose response was lost ever
starts. `trade_proposals` assumes that the cron of proposals keeps running, nothing of Pi or the
owner. `durable_turn` assumes that the gateway goes on: it polls for work (`service.ts`,
`pollWork`) and delivers what it finds, that its worker's awaits are answered or time out, and
that a lease nobody renews runs out; not that a crash, loss or restart stays away, which only
their number bounds. `publication` assumes that each publisher polls and its calls are answered,
that leases run out and that the recovery cron runs; nothing of Discord, whose requests may stay
unexecuted for ever. `research` assumes that the recovery cron runs and that leases run out (an
attempt renews its lease only until its own timeout aborts it); nothing of Pi, whose attempts
may all be lost, and nothing of dispatches, which Convex runs at most once: that a queued row is
ever claimed is not claimed. `DiscordLoop`, `ResearchSchedule` and `Checkpoints` state no
fairness: nothing is claimed there of what must happen.

## 4. Proofs

Every invariant and every safety property that a passing run checks, the three refinements
included, is also a theorem that TLAPS checks for every value of the constants. A run comes
first: an invariant was checked on its instance before it was proved, and several were
strengthened until they were inductive.

*Assumptions.* They are named in the modules that declare the constants, and TLC evaluates
them in the runs. Bounds and limits are naturals, and positive where the code has a first
element (a window, a page, the batches of a run); ids of different kinds are disjoint; `None`
is no id, no instant and no decision (`NoneAssumption`, `ScheduleAssumption`); `Runs`,
`Slots`, `Proposals` and `Guilds` are finite, because the code counts or sorts them.
`ZonesAssumption` is about the time zones: an offset is less than a day, and no change of the
clocks leads back to a date that was over. One theorem, `DatesRecordedHolds`, has hypotheses
besides, given below.

- `DiscordLoopProofs!TypeCorrect`. `TypeOK` is not inductive: an action under a fence, or on a
  row, must know that these name a channel and a run. `TypeInv` adds the shape of rows (a row
  that exists names its run and channel and has reserved an event; only sendable rows are
  leased) and of issued fences.
- `VisibleIffConfirmedHolds`, `OldEpochQuietHolds`. Both speak of one row and the current epoch,
  so the invariant `OutboxInv` is a predicate of a row, kept by each of the few ways in which a
  mutation rewrites a row (one lemma each).
- `OpenTurnIsCurrentHolds`, `LoopImplementsGuildTurns`. A turn is in progress from its claim
  until the conversation lets it go (`TurnInProgress`), a suppressed draft and what is recorded
  over it included, and over when it was let go at a terminal stage (`TurnOver`). The refinement
  needs that whatever lets a turn go leaves it at such a stage, that only a fence of the turn
  the conversation names writes a stage, so that a turn that is over stays so, and that no turn
  has the name of a claim nobody made, so that claiming it is a `Begin`.
- `WindowsInOrderHolds`, `ActiveRunsSpeakOnceHolds`, `PendingRepliesDeliverableHolds`,
  `ExplicitTriggersGetTurnsHolds`. They follow from `LoopInv`, whose four parts are inductive
  only together: whose names documents hold (`NamesInv`), how cursors and windows line up
  (`WindowsInv`), that no cutoff reaches past the next explicit trigger (`CutoffsInv`), and that
  what may still be sent carries the present fence of a run at work (`RepliesInv`). Most steps
  only take claims to be current away, which `LoopKept` states once; a claim, an enqueued reply
  and a privacy deletion are taken one by one. Two facts of the code carry the rest. A recovery
  keeps the fence of what is pending, because a claim is refused while a delivery of the epoch
  is unresolved; and a completion without suppression has nothing left to send, because its
  check for pending rows sees every row of the run.
- `DurableTurnProofs!TypeCorrect`, `ReplyIsCommittedHolds`, `CompletedResearchIsKeptHolds`,
  `ExplicitTurnsAreAnsweredHolds`, for any number of messages and faults. The worker and the
  recorded turn never drift apart: at every await, what the worker will do next follows from
  what was recorded, since only this worker records and a claim starts it from the record; after
  a failure it looks at neither. A queued final carries the generation of the channel, so a
  second one is refused, and one that was sent ends the run. Before the first fault the lease of
  an attended run is live, so a closure is never refused.
- `CheckpointsProofs!TypeCorrect`, `CheckpointsAreCompleteHolds`, `ActivationLosesNothingHolds`,
  for any gateways, budgets, events, epochs and generations. The invariant says of every
  document, and of every request whose fence still holds, that its summary covers the visible
  part of the slice its hash stands for. It holds of a request because tail and batch are cut
  without gaps from the visible events behind a base of which it holds; it stays because an
  event never changes its kind; and a document is only used while the hash still matches, so
  that the slice is what there is now. Activation adds that the tail stored with the answer is
  what is visible behind its end.
- `CheckpointsProofs!NativeLineageIsWholeHolds`. An artifact that is kept with a checkpoint has
  seen all that the summary beside it tells of (`Whole`). A request either passes on an artifact
  that covers its base (`Lineal`), or, as long as its fence holds, something is in the way of an
  artifact: a staged checkpoint, or an active one that can be used and has none (`Blocked`).
  What is in the way stays there while the conversation keeps its version, and a new version
  takes the fence away. The property speaks of the time until a checkpoint reaches its
  retention; section 5 says why.
- `ThreadRunsProofs!TypeCorrect`, `OneActiveRun`, `TerminalRunsStay`, `LedgerRefinement`. The
  types are inductive as they stand. The others follow from one lemma about a step
  (`StepOfRuns`): it creates a run in a thread without an active one, or ends a set of active
  runs with one outcome and keeps every other run.
- `ThreadRunsProofs!RunsSettleTogether`. `SettledTogether` is not inductive: an operation that
  ends a run finds its commands by the run they name, and a stop is marked after a query read
  it. `Linked` adds that an existing command names an existing run, that a run's prompt or retry
  exists with it and names it, and that only existing commands are dispatched.
- `ThreadRunsProofs!StreamContiguous` (of `ThreadRuns`). A run that has not ended has the
  batches `1..last`, each once, and only output; a terminal batch is stored by the step that
  ends its run (`StreamOf`).
- `ThreadRunsProofs!ServiceStaysWithin`: every step of the closed system is a step of
  `ThreadRuns` or leaves it alone, so all of the above holds of the closed system.
  `NeverChangedRetryHolds`, `AcknowledgedOutcomeHolds`. `ServiceInv` relates each publisher to
  its run (`RunWorks`) and to what was sent of it (`SentOnce`): every batch stored or under way
  has a number below the publisher's next or is the one in flight, a run of which anything was
  sent is never started again, and a publisher owes no more batches than its executor emitted
  events, which also keeps its numbers within those `ThreadRuns` allows.
- `TradeProposalsProofs!TypeCorrect`, `RecordsAreTrueHolds`, `TurnedDownForGoodHolds`, for any
  set of proposals, batch size and broker mode. Whether a record is true after a step depends on
  the request still under way and the answer the action holds: `Sound` relates the document, the
  action, the request, Pi's results and the orders of one proposal, so a step of a proposal need
  only be examined for that proposal.
- `ResearchJobsProofs!TypeCorrect`, `PaymentsBeforeFailureHolds`, `PacketIsStoredHolds`,
  `ThesisUpdatesFollowMemoryHolds`, `PaidOnlyMissingHolds`, `AcceptedIsFinalHolds`, for any
  searches, budget and number of attempts. What is stored is never replaced, so what an attempt
  was told stays true; the calls of an attempt are answered or given up in their order, and one
  it waits for is its last, so when it has ended none is left; a row has a lease only while it
  is at work, so an old attempt or a late failure finds none on a row that is done.
- `ResearchScheduleProofs!TypeCorrect`, `OnePaperPerDateHolds`, `StartsOnItsDateHolds`, for any
  guilds, zones and dates. An edition is appended as the first of its date, or by hand after one
  that was published or skipped; what happens to an edition later is only possible in other
  states, so to the last one. An edition keeps the cutoff computed when it was created, which is
  an instant of its own date, and dates never go back.
- `ResearchScheduleProofs!DatesRecordedHolds`, under two hypotheses that no code ensures:
  `ClocksShowTheTimes` (on every date the clocks show the cutoff and the chosen times; where
  they do not, the check of a whole page throws, see section 5) and `DatesLeaveTime` (from the
  first tick in which a date is due, it goes on for longer than `MaxMissed` complete checks may
  be missed). TLC evaluates both on the instance (`MCResearchSchedule!ClocksAdmitSchedules`). A
  check begun in this tick has made the edition that is due, or has a page to go whose cursor
  lies before the preference (`Reaching`), because a page goes on from the last preference it
  served; so what was due by the last complete check is made (`Reached`).
- `ForumPublicationProofs!TypeCorrect`, `PublishedInFullHolds`, `RepliesOnceInOrderHolds`,
  `NoBlindSecondThreadHolds`, for any number of publishers, parts, attempts and claims. None of
  the four is inductive. `CoreInv` joins four relations: the lease of an edition is that of a
  claim whose part is being sent (`TypeInv`); an attempt that still holds the edition is the
  only one and its part is the first missing, and an attempt takes for sent only what it saw in
  the forum (`AttemptInv`: `Fenced`, `Honest`); the parts recorded as sent are the first
  `sentPartCount`, unless two starters were found (`RowsInv`); and what the forum holds or will
  hold of a part comes from claims of it made when every earlier part was sent (`ForumInv`). A
  step is examined for the attempt that takes it; `ThreadInv` adds, for the action property, how
  early an attempt at the starter must be when no thread can exist yet.

*Model-checked only.* Liveness under fairness, and `ENABLED`, which fairness is made of, are
out of the prover's reach. `RunsSettle`, `EveryRunEnds`, `StaleProposalsClose`,
`TurnComesToRest`, `WorkSettles` and `AttemptsLetGo` are therefore checked on the instances
above and not proved.

*Proved and not part of a run.* `OneActiveRunPerThread` and `TerminalRunsNeverChange` of
`ThreadRuns`, and `TypeOK` of `ThreadRuns`, `DiscordLoop`, `DurableTurn`, `Checkpoints`,
`TradeProposals`, `ResearchSchedule` and `ForumPublication`.

## 5. Findings

- `awaiting_wedge` (`discord.ts:3255`; `docs/personality.md:894`): while the expired run of a
  channel has a sent final, `claimLoop` answers `awaiting_finalization` and leaves it to
  `completeLoop`. If another channel claims the conversation meanwhile, the fence that
  `completeLoop` asks for is gone and the channel can never be claimed again.

*Beyond the runs.* Seen while modelling; reachable in the modules, and not in the way of a
checked property.

Compaction: whether an artifact extends a portable predecessor is decided from the pointers at
the time of the store. A predecessor that expired while Pi worked has left no pointer and no
new revision, so an artifact that knows only the delta becomes active beside the full summary
(`discord.ts:2417`; `docs/personality.md:608`); `NativeLineageIsWhole` ends there. A stage ends
with its generation, but its id does not name the generation: made again, it has an id that is
taken, and each pass pays for a summary that cannot be stored, until an event changes the
revision (`discord.ts:2430`; `docs/personality.md:606`).

Discord: when the answer to the queued final is lost, the failure path enqueues a closure,
Convex refuses it (`final_reply_already_enqueued`), and the worker records a failure that may
not be retried: `completeLoop` withdraws the reply that was waiting and the channel is parked
until the next human message (`channel-loop.ts:728`; `docs/personality.md:254`). A closure that
is refused for a lost lease, or because the acknowledgement conflicts with that of an earlier
run, ends in the same way. The raw tail given to a claim skips an event that does not fit and
goes on with older ones, so it has gaps (`lib/discord_conversation.ts:317`;
`apps/pi/README.md:83`). A recovered draft is compared with the context of the last claim, which
`getNewestContext` already overwrote, so after two crashes it may be sent for messages it was
not written from (`docs/personality.md:851`). A recovered stage submits its request id with
the conversation's new generation, so Pi answers 409 while it keeps the first job
(`docs/personality.md`, section 11.2). A pass recovered after newer messages starts research
with another context hash and is refused. A mutation that throws is HTTP 400 and parks the
channel, also when the cause is transient. A reset stores the conversation channel's
sequence as the guild's watermark (`discord.ts:1326`), and ingestion compares it with the
sequence of any channel, so that a mention elsewhere may never become canonical. The
dispatcher reports every error of its delivery step as uncertain, also before anything was
sent, and an uncertain row blocks every claim of the guild.

Threads: a shutdown while a timer flush is in flight loses `backend_restarting`; a retry that
finds a hot session executes in it, with the original prompt and its answer in context
(`lib/invariants.ts:128`); a stop whose request is lost cannot be repeated; a run whose `202`
response never finishes keeps its slot until Pi restarts.

Proposals: an approval whose action dies leaves its proposal `submitting` until the broker is
disconnected (`trading.ts:939`); a lost answer is recorded as `failed` with
`submission_failed` although the order may have been placed, and an answer that comes after a
disconnection replaces `expired` by `submitted`.

Newspaper: a time of day that the clocks skip makes `localToInstant` throw, and the check of a
whole page fails until the date is over, other guilds included (`market_research.ts:1438`;
`docs/marketresearch.md:1873`). A schedule at noon or later is always skipped as late
(`lib/market_research.ts:290`); an outage past local midnight records nothing for the date
(`docs/marketresearch.md:1095`). Cancelling a scheduled edition makes the manual trigger of its
date answer with a duplicate. Recovery sends up to 25 claimed editions one after the other, 15
seconds each when Pi does not answer, under leases of two minutes
(`market_research_dispatch.ts:139`). A row is queued with one scheduled dispatch, which Convex
runs at most once; the recovery scans leases and due retries only, so a row whose dispatch is
lost stays queued (`market_research.ts:3003`, `:3055`, `:3105`). A manual start then answers
that the date has its edition, and the owner's retry of a waiting edition takes it from where
the recovery would find it to the queue; nothing marks it `skipped_late`
(`docs/marketresearch.md:1095`). A cost report that is lost or late lets a recovery's claim
start with an open budget (`docs/MARKET_RESEARCH_OPERATIONS.md:49`). A starter that is adopted
after its edition failed leaves the edition `publishing_replies` with nothing to publish
(`market_research.ts:2935`; `docs/MARKET_RESEARCH_OPERATIONS.md:185`). After a rate limit a
starter is sent again although an earlier attempt may have created the thread, and one that was
refused for a permission is never sent again (`forum-publisher.ts:288`).

## 6. Not modelled

- Of compaction: corrupt artifacts and stored sizes, the evidence quoted by a summary, the
  limit of 2,000 loaded events, more than one guild per owner.
- Ownership transfer, `syncGuilds`, migrations, the activity feed; the triage path of
  `channel-loop.ts` that the durable one replaced; typing indicators.
- Market sessions and calendars, overrides, the validation of a composed report, test
  editions, the expiry of previews and evidence, chart rendering.
- Broker connection, portfolio and vault: single documents written by one mutation each;
  OAuth and encryption are external.
- The accumulator that folds a stream into the final message; model calls; scoring; text.
- HTTP parsing and authentication, queries, the web application: no state of their own.
- Archived code, deployment and lint tooling.

## 7. Plan

Done, in this order: `DiscordState`, `DiscordLoop`, `GuildTurns`; `ThreadRuns`, `ThreadLedger`,
`ThreadService`; `TradeProposals`; `ForumPublication`; `ResearchJobs`; `ResearchSchedule`;
`DurableTurn`; `Checkpoints`; and the proofs of all their safety properties.

What would add most next: `DiscordLoop` closed with the worker of `DurableTurn`, so that what is
proved of one turn holds across windows and channels; that a `DurableTurn` step is a
`DiscordLoop` step or leaves it alone, which would connect the two proofs; the calendar of market
sessions behind `scheduleDayEnabled`; the broker connection and its disconnection as seen by the
portfolio. Liveness stays with TLC.

# corlinman: a TLA+ verification of its stateful core

corlinman is a self-hosted agent platform: a Rust gateway (HTTP, WebSocket and
gRPC), Python packages (the agent loop, model providers, the evolution engine,
persona and user model) and a Next.js console, all on SQLite files in one data
directory.  This directory models the parts of it whose correctness depends on
the order in which things happen, checks the models with TLC on small
instances, and proves the main results with TLAPS for every instance.

Paths below are relative to the repository's `src/`; `gateway/` stands for
`rust/crates/corlinman-gateway/src/`, and `engine/` for
`python/packages/corlinman-evolution-engine/src/corlinman_evolution_engine/`.

Contents: [1 The system](#1-the-system) ·
[2 Modules](#2-modules) ·
[3 Runs](#3-runs) ·
[4 Proofs](#4-proofs) ·
[5 Where the code and its documentation disagree](#5-where-the-code-and-its-documentation-disagree) ·
[6 What is not modelled](#6-what-is-not-modelled) ·
[7 Plan](#7-plan)

To run something, from this directory:

    tlc -workers 2 -config Services.cfg MCServices.tla
    tlapm MCServices_proofs.tla

## 1 The system

### 1.1 Components

| component | state it keeps | operations | talks to |
|---|---|---|---|
| Proposal lifecycle `gateway/routes/admin/evolution.rs`, `gateway/evolution_applier.rs`, `corlinman-evolution`, `corlinman-shadow-tester`, `corlinman-auto-rollback` | `evolution_proposals`, `evolution_history`, `apply_intent_log` (evolution.sqlite); `chunks`, `tag_nodes`, `chunk_tags` (kb.sqlite); skill files | approve, deny, apply, revert; claim and finish a shadow test; scan the intent log | three processes that share databases and files and nothing else |
| Proposal filing `engine/`, `gateway/routes/admin/memory.rs` | rows of `evolution_proposals`, `evolution_signals` | evolution run, consolidation run, manual decay reset | database only; started by the scheduler, a cron job or an operator |
| Tool-approval gate `gateway/middleware/approval.rs` | `pending_approvals`; a map id → oneshot sender; rules behind an ArcSwap | `check`, `resolve`, rule reload | chat route (caller), admin route (operators), hook bus |
| Tool bus `corlinman-wstool` | maps runner id → connection and tool → runner id; a gauge; per connection an outbox, a map of waiters, a miss count | register, ping/pong, invoke, cancel, cleanup | remote runners over WebSocket, the plugin runtime |
| NodeBridge `corlinman-nodebridge` | map of sessions, capability index, one map of jobs | register, heartbeat, dispatch, cleanup | mobile and desktop nodes |
| Hook bus, evolution observer `corlinman-hooks`, `gateway/evolution_observer.rs` | three broadcast channels by priority, a cancel token; a bounded queue of signals | emit, subscribe; adapt, evict, write | everything that emits events; `evolution_signals` |
| Plugins `corlinman-plugins` | registry of manifests, map of children, map of async tasks | discover, reload; spawn, watchdog, stop; call over stdio, container or gRPC; register, complete, cancel; parse calls from text | subprocesses, Docker, gRPC, plugin callbacks over HTTP |
| Configuration `gateway/config_watcher.rs`, `gateway/routes/admin/`, `gateway/py_config.rs` | config.toml, an ArcSwap snapshot, py-config.json | reload on signal, file event or request; admin writes; the Python side reloads by mtime | every reader of the configuration |
| Chat route, sessions `gateway/routes/chat.rs`, `gateway/services/chat_service.rs`, `corlinman-core` | sessions by key, the frames of a stream | request, tool call, tool result, append, trim, cancel | agent over gRPC, approval gate, plugins |
| Python agent and providers `corlinman-agent`, `corlinman-server`, `corlinman-providers` | messages of a turn, pending results, chunks of a stream | rounds, tool results, cancellation; adapt a vendor's stream | gateway over gRPC, model vendors |
| Prompts `corlinman-agent`, `rust/crates/corlinman-core/src/placeholder.rs` | agent cards, variables, skills, files and their mtimes | expand, substitute, mute, render, hot reload | gateway's placeholder service |
| Channels `corlinman-channels` | token buckets, queues, the Telegram offset | route, limit, sweep, connect, poll, reply | QQ, Telegram, chat service |
| Scheduler, end of main `corlinman-scheduler`, `gateway/main.rs` | one loop per job, a shutdown token, task handles | tick, dispatch, cancel, drain | subprocesses, hook bus |
| Canvas `gateway/routes/canvas.rs` | sessions with expiry, frame streams | create, post, stream, reap | browsers |
| Knowledge base `corlinman-vector`, `corlinman-memory-host`, `corlinman-cli` | kb.sqlite, index files, a cache of indexes, schema version | search, insert, rebuild, backfill, decay, migrate, evict, federate | chat, evolution |
| Persona, user model `corlinman-persona`, `corlinman-user-model` | persona rows, trait rows | update, decay, seed, reset; distil, prune | agent |
| Gateway shell, CLI, embedding, UI | cookies, log fan-out | pure I/O or adapters | — |

`PROJECT.json` has the same inventory by source file, with the status of each
part, and under `hazards` the places where this code is hard to test.

### 1.2 Which behaviours are hard

* **Check in one statement, write in another.**  Every handler of the
  evolution queue reads a row, decides, and writes later by id.  Some writes
  repeat the condition in their `WHERE` (`claim_for_shadow`,
  `mark_auto_rolled_back`, `decide_approval`), some do not (`set_decision`,
  `mark_shadow_done`, the status flip of `commit_evolution_tx`).  Sessions,
  personas, traits, migrations and admin handlers read and write the same way.
* **Two databases and the file system in one operation.**  An apply changes
  `kb.sqlite` or a skill file first and `evolution.sqlite` second; an intent
  row written before both is all that a crash in between leaves.
* **Dropped futures.**  An HTTP client that hangs up drops its handler at the
  await it is in.  For the code, that is a crash of one handler.
* **Optimistic numbering.**  Proposal ids and session rows are numbered from a
  count read earlier; the primary key is the only arbiter.
* **Wake-ups.**  A prompt registers its sender after its row can be seen; a
  tool call inserts its waiter after it has resolved its connection, and the
  connection's cleanup drains the waiters it finds.
* **Identity by name.**  The tool bus and NodeBridge key connections by the id
  the remote chose, async tasks by the id the plugin chose, temporaries by the
  file they replace; the end of an old holder acts on the entry of a new one.
* **Bounded queues** that block (outboxes, replies), drop (broadcast) or evict
  (signals), and locks that are held across an await.
* **Reloads** that compare what was read with what is there, while both change.

## 2 Modules

Each module's header says what it models and what it leaves out.  Every
definition that models code is listed in `PROJECT.json` under `map` with the
lines it stands for.  A definition whose comment starts with "Mutant:" is a
plausible bug; put in place of the definition below it, it must make the
property named in `PROJECT.json` fail.

Conventions: an actor is one run of a handler, `pc` is where it is, and an
action is what happens between two points at which another actor can act (an
SQL statement or transaction, one operation on a concurrent map, a channel
send).  Storage errors are a second disjunct of the statement they can hit.
`Abandon`, `Drop…` and `Restart` are dropped futures and killed processes.
Bounds on what is started (`Max…`) are guards of the actions that start it.

### 2.1 Evolution

**EvolutionLifecycle** — *State*: `status`, `reasoning` (columns of
`evolution_proposals`), `hist`, `intent` (rows of `evolution_history`,
`apply_intent_log`, named by the apply that inserts them), `effect` (how often a
proposal's change is in the data); `wrote`, `claimed`, `surfaced` are history.
*Actions*: `insert`; `BeginDecision`, `AppendReason`, `set_decision` are
approve and deny; `BeginApply`, `record_intent`, `ReadTarget`, `WriteTarget`,
`commit_evolution_tx`, `mark_committed`/`mark_failed` are
`EvolutionApplier::apply` in its order (`WriteChunks` and `WriteSkill` are what it
writes to the knowledge base and to a skill file); `list_pending_for_shadow`,
`claim_for_shadow`, `mark_shadow_done`, `ShadowRunError` the shadow runner;
`list_applied_in_grace_window`, `BeginRevert`, `revert_memory_op`,
`mark_rolled_back`, `mark_auto_rolled_back`, `RevertStorageError` the monitor;
`scan_half_committed` the scan; `Abandon`, `GatewayRestart`.  A proposal mutates
one target of its own by one of four kinds, which differ in what makes them
applicable twice and whether their undo is idempotent.  `OneAtATimeSpec` is the
same `Next` where no two requests about one proposal are in flight together.

**ProposalStateMachine** — the diagram at the top of
`gateway/routes/admin/evolution.rs` with the shadow tester's and the monitor's
transitions: the abstract specification `OneAtATimeSpec` implements
(`INSTANCE … WITH state <- status`).

**ProposalFiling** — *State*: `proposals`, rows `[day, seq, target, status]`
(the id `evol-YYYY-MM-DD-NNN` is a day and a number), and the locals of each run,
because each is read in one statement and used in another.  *Actions*:
`StartEngine`, `CountForEngine`, `Propose`, `CheckTotal`, `CheckKind`, `Persist`,
`EndKind`, `_emit_budget_signal` are `EvolutionEngine.run_once`;
`StartJob`, `_existing_consolidate_targets`, `CountForJob`, `InsertBatch` are
`consolidation_run_once`; `reset_decay` the admin route; `Settle` what the
gateway does to a row; `Midnight` moves the clock under a run.  What handlers
propose is any subset of their targets.

**TagTree** — `tag_nodes` and `chunk_tags` with the statements of a
`tag_rebalance` apply and revert and of the taggers, one by one and without a
transaction, any of which may fail.  **SkillFile** — a skill file, its shared
`.tmp` and the recorded contents, under `apply_skill_update` and its revert,
file operation by file operation.  **ShadowCase** — one eval case of a shadow
run: seeding, the simulator's own SQL, the comparison, next to what the applier
does for the same proposal.

### 2.2 Buses

**WsToolBus** — *State*: `runners`, `tool_index`, `gauge`; per connection the
tasks `reader`, `writer`, `heartbeat`, `outbox`, `missed`, `pending`; per call
`call`, `found`, `owner`, `reply`; `handler` is the far end.  *Actions*:
`RegisterRunner`, `IndexTool`, `StartTasks`; `WriteFrame`, `WriteFails`;
`HandlePong`, `HandleReply`, `SocketEnds`, then `DrainPending`, `Unregister`,
`Deindex`, `Close`; `SendPing`, `PingFails`, `CountMiss`, `ExpireRunner`,
`ExpireTools`; `LookupTool`, `LookupRunner`, `InsertPending`, `SendInvoke`,
`ReceiveReply`, `Cancelled`, `Timeout`, `SendCancel`, `DropCall`.  A runner that
reconnects is the next member of `Conns` with the same id.

**NodeBridge** — the same for nodes, with the shards of its two DashMaps as
read-write locks (`Shard` of a node, `IndexShard` of a kind: two nodes, or two
kinds, may share one), because `register_session` holds its node's shard of
sessions while it indexes kind by kind, and `find_capable_node` holds its kind's
shard of the index while it looks nodes up.  The node ids of a kind are a set;
`alter_all` is one step, taken when no shard is read.

**Exchange** — what a request over a socket promises its caller.  `WsToolBus`
and `NodeBridge` both implement it (`KeepsItsPromise`, with `phase`, `result` and
`taken` mapped from the call's or job's state).

**HookBus** — `emit` tier by tier, subscriptions with lag, `cancel`.
**EvolutionObserver** — extends it by the subscriber, the queue with its
eviction under the receiver's lock, and the writer.

### 2.3 Services (composed by MCServices)

**ApprovalGate** — `row`, `pending` (sender map), `sent` (oneshots), `bus`;
`BeginCheck`, `insert_pending_approval`, `Register`, `Receive`/`Timeout`/`Cancel`,
`PersistDecision`, `Announce`; `get_pending_approval`, `ResolveRow`, `Wake`,
`EmitDecided`; `GatewayRestart`.  Rule matching is its result.
**PluginSupervisor** — boot, watchdog, stop and shutdown of one service plugin
with processes, socket and cached client.  **GatewayShutdown** — one job's loop
with its subprocess, and the drain order of `main`.  **QqChannel** — the OneBot client, its two queues, the
loop and a task per message.  **AgentTurn** — the rounds of one turn between
gateway and agent.  **PluginRegistry** — places, manifests, the watcher and its
refresh name by name.  **PluginCall** — two machines: one call on each of three
runtimes, and asynchronous calls with their callbacks.  **ConfigStore** — the
configuration file as inodes, the shared temporary, the snapshot, reloads and
editors.  A reload takes a file that can be parsed and in which `validate_report`
finds no error (`Sound`); `POST /admin/config` validates what it writes (`Posts`),
the other handlers that write do not, and an editor may save a fault (`Faulty`).
**AdminConfig** — clone, change, check, write, swap, and the Python
drop with its reloads.

### 2.4 Platform (composed by BackgroundTasks and MCPlatform)

**TelegramChannel** — long poll, offset, handlers, reply queue, restarts.
**Canvas** — sessions, janitor, streams with lag.  **TokenBucket** — group and
sender buckets and the sweeper.  **ChatSession** — load, append, trim of turns
that overlap.  **ChatRoute** — one request's whole way to a vendor and back.
**ModelStream** — one round of each vendor's stream.  **ToolCallText** — the two
notations of tool calls in text, their nesting and preference.
**PromptAssembly** — the context assembler, the placeholder engine, and the
variable files with their hot reload.  **HybridSearch** — two retrievers, fusion,
filters, rerank while rows change; federation of hosts.  **KnowledgeBase** —
rebuilds, the local host, backfills; decay.  **IndexCache** — indexes, savers,
sweeper.  **SchemaMigration** — the ladder for two migrators.
**PersonaStore** — two machines: a persona row, and distilled traits.  A writer of
the row reads the clock and the row in steps of their own and in the order of the
code (`Clock` or `Get` first, then `list_all` or `Stamp`), so a row may be stamped
with a time older than the stamp it had.

### 2.5 Composition

`MCServices`, `BackgroundTasks`, `MCPlatform` and `MCEvolution` run machines that
share no state (`BackgroundTasks` the observer, Telegram, canvas, index cache,
migrations, buckets, sessions, persona, traits, knowledge base and its decay;
`MCPlatform` composes it with prompts, variable files, searches, federation, model
streams, the chat route and tool calls): a variable `machine` chooses at the start
whose behaviour it is, and the others stay at a fixed initial state.  A property reads `machine = "m" => …`.  This
keeps one run for each group of questions; what the machines exchange in the
program (a frame, a result) is a choice of the environment in each.
Composed in one behaviour are: the observer with the bus, the scheduled job
with the end of main, both asynchronous calls with the callback route, a shadow
run's simulator with the applier, filing's three writers.

## 3 Runs

State counts are distinct states; times are for two workers.

### 3.1 Runs that pass

| run | what runs | states | properties |
|---|---|---|---|
| `lifecycle` | two decisions, applies, shadow runs and monitors on one skill proposal or one merge, with storage errors, dropped handlers, restarts | 1,500,000 (70 s) | types; `WriteAhead`: changed data without history are under an intent that is open or failed; `OneRunner`; `NothingUnapproved`; `StatusIsAudited`: a status that says applied or rolled back has the history rows to show; `ScanReportsInterrupted` |
| `one_at_a_time` | two proposals, requests about one of them never overlap | 223,000 (16 s) | `FollowsStateMachine` (refinement); `ChangedOnce`: where nothing was cut short the change is in the data exactly while the status says so |
| `evolution` | filing: two engines, a consolidation, resets over two days; or two tag merges on one branch with a tagger and reverts; or two updates of one skill file; or a shadow case | 555,000 (100 s) | types; `DayIdsDense`, `EngineFilesOnce`, `EngineWithinBudget`, `OneLivePromotion`; `TreeIsConsistent`, `ListedStayFindable`; `ChangesHold` |
| `tool_bus` | two connections of one runner id or two, one call | 1,830,000 (90 s) | types; `RegistryIsSound`; `GaugeCountsRunners` while no id was dialed twice; `WaitersMatchCalls`; `KeepsItsPromise` (refinement of `Exchange`) |
| `node_bridge` | two connections of one node id or two, two kinds in one shard of the index, one job, pings both ways | 1,410,000 (80 s) | `RegistryIsSound`; `LocksMeetOnlyInCollisions`; `WaitersMatchJobs`; `KeepsItsPromise` |
| `services` | ten machines of section 2.3 | 562,000 (90 s) | `RunsOnlyApproved`, `FirstDecisionStays`, `NoSenderLeaks`; types; `PluginsHold`, `GatewayHolds`, `ChannelsHold`, `ChatHolds`, `ConfigurationHolds`; `WaitsEnd` (liveness) |
| `platform` | the observer and the machines of section 2.4 | 1,618,000 (100 s) | `SignalsAreAccounted`, `NewestSurvives`; `FrontEndsHold`, `StorageHolds`, `AnswersHold` |

The composite properties (`…Hold`) name the properties of the machine that runs;
each of those has its own comment in its module.  `PROJECT.json` says in a
sentence what each run asks.

### 3.2 Runs that find a disagreement

`double_restore`, `tool_bus_reconnect`, `node_bridge_writer`,
`observer_eviction` and `gateway_exit` each check one sentence of the repository
and end in a counterexample; section 5 tells them.

### 3.3 Why the bounds are enough

Almost every property is about at most two actors and one object: a stale check
needs the one who checks and the one who changes the row; a lost waiter needs
one call and one cleanup; a colliding id needs two writers.  Two of each reach
every pairwise race, and a third kind of actor (an operator who settles, a
restart, the clock) is always there beside them.  Where two objects of a kind
matter they are there: two targets under a cap of one, two days, two proposals
of different kinds, a group bucket and two senders.

* Queues of one are full as soon as they are used, which makes blocking, lag and
  eviction more frequent than with 64 or 256 places, not rarer; `MaxMissed` 1
  makes an expiry reachable in one tick.
* Clocks run to 2 or 3 ticks, beyond the longest period that is compared
  (`Minute` 2, `StaleAfter` 2, lifetimes 1 and 2, `Day` 2).
* `evolution`: three chunk ids are enough for a merge to name a first, a last
  and an absent one; the tag branch has three nodes so that a merged node has a
  parent and a child; one tag failure and two reverts reach the interrupted
  apply and the repeated revert.  The engines propose skill targets only, and
  `memory_op` rows come from consolidation and resets, which the weekly total
  counts as well.
* `services`: three restarts and five spawns reach the fourth crash, at which
  the supervisor gives up; three slots reach a slot skipped by a long run; two
  rounds reuse the call ids once; two claims of one plugin name in two roots,
  two edits; four writers of the configuration file: a post, of a section the
  watcher does not compare; a handler that does not validate, with a fault; and two
  saves of an editor, one with a fault.
* `platform`: three instances of an index reach the instance that is loaded while
  another is being evicted; three updates and two lives reach the update that is
  given twice; two searches over four rows reach every overlap of retrieval and
  deletion; four writes of a persona row reach a seeded row that is changed, stamped
  back in time and decayed again; prompts and texts are fixed sets of inputs that nest, repeat and
  cut off references and calls (`Inputs`, `Pieces` in `MCPlatform`), up to
  depth 2 and four pieces.

The theorems of section 4 hold without these bounds.

`CHECK_DEADLOCK FALSE` is set everywhere: each request of a small instance runs
once, so every behaviour ends in a state without work left.  Symmetry is used
only in runs without liveness; the permuted sets are interchangeable in the
specification and in the properties.

### 3.4 Fairness

* ApprovalGate: weak fairness of the steps of a check taken together and of an
  operator's request once it is made: tokio polls every task that is ready, SQLite
  statements return or fail, and the timer of a prompt fires.
* PluginSupervisor: weak fairness of the watchdog and of the teardown, which are
  tasks that nothing else blocks.
* GatewayShutdown: weak fairness of the job's steps (`JobRuns`; a
  command ends or its timeout fires), of each task's end after the token is
  cancelled, and of main's next await.
* QqChannel: weak fairness of the client and the dispatch loop, strong fairness
  of a reply task: it waits for room in a queue others fill too, and tokio's
  channel serves its senders in order.
* AgentTurn: weak fairness of the agent's loop (its wait has a timeout) and of
  the gateway's.
* NodeBridge, EvolutionObserver (only the two runs that refute a sentence): weak
  fairness of every task's own steps, so that what is stuck is stuck for good.

No fairness is assumed of operators, callers, cancellations, drops, restarts,
reconnects or new calls.

## 4 Proofs

All theorems are for arbitrary sets of actors and arbitrary bounds unless said
otherwise; the assumptions are the `ASSUME`s of the modules, which TLC evaluates
in the runs: kinds of actors are disjoint, `None` is outside the sets it is
added to, bounds are natural numbers, queues have room for one, and a
consolidation batch, the chunks of a case and the updates of a file are finite.

**EvolutionLifecycle_proofs.**  `TypeCorrect` is inductive.
`IntentLogIsWriteAhead` needs `WriteAheadInv`: `WriteAhead` alone does not say
where an apply *is* while its intent is open, so the invariant ties `pc[a]` to
`intent[a]`, `hist[a]` and membership in `wrote`, step by step of `apply`.
`ScanIsComplete` is the action property: an apply that is `gone` with data and
no history was never stamped, because stamping comes last.  `AtMostOneRunner`
(`ClaimInv`) rests on the claim being guarded and on nothing ever making a
status `pending` again.  `OnlyApprovedIsApplied` (`GateInv`): a status of
`approved`, and any apply past its gate, points at an approve that finished.
`HistoryBacksStatus` (`AuditInv`, `CountInv`): the transaction of commit, and a
counting of history rows against rolled-back stamps.  `StateMachineHolds`: every
step of `OneAtATimeSpec` is a step of `ProposalStateMachine` or leaves the
statuses alone; `Fresh` says what a request in flight may still believe.
`ChangesOnce` adds `DataInv`, `CommitInv` and `OnceInv`, which follow the change
through the data, the history row and the status.

**MCEvolution_proofs: filing.**  Two counts that are stale when used, and no lock.
The argument is that *the primary key works as an optimistic lock*.

1. `AllDense`: numbers of a day are 1 to n without a double.
2. `Counted`: what a run counted plus what it wrote is at most the rows of its
   day.  So the number a run mints is free only if nobody filed on that day
   since the run counted: an insert that succeeds proves that what the run read
   is not stale.  `IdsAreDense` follows.
3. `Seen`: as long as nobody filed on its day since, no candidate a run has left
   and has not seen as existing is in a row of that day.  With 2, `FiledOnce`.
4. `Room`, `KindRoom`: the same for both budget counts, which gives
   `WithinBudget` however many engines overlap.
5. No row becomes blocking again, so what one job read still covers what blocks;
   `OneLive` holds where one job consolidates (`OneJob`).

**MCEvolution_proofs: tag trees.**  `TreeStaysConsistent`: one node per path, whose parent is the node
of the path above, and no tag of a node that is gone.  `ListedChunksKeepATag`
(`KeptInv`): up to the first revert, and with no other request on a path above,
below or beside it, a chunk that an apply listed has the node's or the parent's
tag.  The proof
uncovered the sibling counterexample of section 5, and the property was
restated.

**MCEvolution_proofs: skills and shadow cases.**  `ChangesAreKept`.  Skill files: a file cut short was
written by two requests in progress together (`~collided => TurnsInv`), and
where requests take turns a hunk leaves the file only with a revert of its own
or of an update applied before it, and comes back only by a revert out of order
or a double write (`LogInv` reads the file off the log of applies and reverts;
`LengthInv` bounds it).  Shadow cases: by cases of the kind, what passes in the
simulator is what the applier does to the same rows (`ShadowInv`).

**WsToolBus_proofs, NodeBridge_proofs.**  Types with `Lookups`/`Known` (what a
lookup holds) and `Pulse` (a miss count at its threshold has left `ticking`).
`RegistryHolds` by `RegistryInv`: an entry is made by a connection that serves,
which stops serving in the step that removes whatever its id maps to.
`NoWaiterLeaksOrIsLost` by `WaiterInv`: a waiter leaves the map in the step in
which its call is told, gives up, or fails to send.  `GaugeIsRight` counts
connections between registration and the one step that counts them off.
`LocksHold`: a dispatch and a registration lock each other out only where another
node of the entry shares the registering node's shard of sessions, where another
kind to be indexed shares the entry's shard of the index, or where the node
registers again before its old session is pruned; for every assignment of nodes
and kinds to shards.  `BusKeepsItsPromise`, `BridgeKeepsItsPromise`: every step maps
to a step of `Exchange` or a stutter, under `PromiseInv`, which says what the
far end may have while the caller is where it is.

**BackgroundTasks_proofs.**  The observer: `BusInv` (`TiersInv`: a tier is a part of the one
above; `SubInv`: what a subscriber has been told and what it missed add up) and
`PipeInv` (`StageInv` for the lock and the eviction, `OrderInv` for the order of
rows, `LossInv` for the drop counter) give `SignalsStayAccounted`, for any number
of overlapping emissions, and `NewestIsKept`.  The same module holds the
invariants of the front ends: `TelegramInv` (`PollInv` for the offset and the
batch, `ReplyInv` for what waits to be sent), `CanvasInv` (what a stream was
sent, what waits for it and what its task holds account for the frames since it
joined, one after another) and `BucketInv`, a potential argument: what was admitted
since any admission, and what is still in the bucket, were filled in since
(`SpentInv`).

**StorageTasks_proofs.**  One invariant for each machine that keeps rows:

* `IndexInv`: where an instance is (`PlaceInv`), who will save it if it is dirty
  (`FlagInv`), and which keys are on disk or will be (`KeptInv`);
* `MigrationInv`: what a migrator believes of the schema is there unless another
  crossed it;
* `SessionInv`: the rows are the end of what was appended, in its order (`RowInv`), and
  a number that was read is above theirs until another turn commits;
* `PersonaInv`: what a writer knows that was not overtaken *since the first thing it
  read*.  The clock counts: `decay-once` reads it before the rows, so "since it read
  the row" would be false (section 5).  The ideal, in which fatigue fades hour by
  hour, is never above what the row recovers to from its stamp until now;
* `TraitsInv`: a row lies between two readings of its value that were taken, and keeps
  its sessions unless distillations raced;
* `StoreInv`: what is derived of a chunk is derived of its own text (`DerivedInv`), and
  what a rebuild has put into the index mirrors the rows unless it was disturbed.

**MCPlatform_proofs.**  `FilesInv` (a cached copy that has not slipped is what
the file says, or is about to be evicted) and frames: the machine that runs is the only one that moves.  `FrontEndsAlwaysHold`
and `StorageAlwaysHolds` join the invariants above, and `PlatformObserves` says that
the composition does what the observer's own specification allows.

**MCServices_proofs.**  `GateFailsClosed` (`GateInv`: an `approved` in a oneshot
or a result comes from an operator who decided this id, or from a rule),
`DecisionIsFinal` (from `WHERE decided_at IS NULL`), `SendersAreCleanedUp`.
`PluginsStaySound` joins four machines:

* the supervisor (`SupervisorInv`: a process that runs is held by exactly one of
  map, watchdog, `stop_service`);
* the registry (`RegistryInv`: what the walk has found is what was at a place
  when it was passed (`WalkInv`); an event is pending for whatever changed since
  (`ToldInv`); the plan covers the names (`PlanInv`); outside all that the
  registry agrees with the disk (`AgreeInv`).  `WinnerExists` finds the highest
  claim by well-foundedness of the ranks);
* one call (`CallInv`: per runtime, what may still run is what someone will kill
  or remove; an outcome is what this call read);
* asynchronous calls (`AsyncInv`: a parked entry is held by a waiting call; a
  delivery was made by the callback that took the entry).

`ConfigurationIsKept`: `ConfigInv` (the reload lock, which writer's content a
snapshot follows, whose inode the temporary is, and that a torn inode was opened
by two; `FaultInv`: whatever is in the file, what a
reload or a post is about to store has no fault but one of a writer that does not
validate, or of boot) and `AdminInv` (`FineIf`: a clone that was changed stays fine against
whatever is live, since providers are only deleted where nothing refers to them
in the clone; `TimeInv`: an mtime names a content; `TurnsInv`: requests that took
turns).  Proving it showed that `TornByTwoWriters` needs three requests counted
(section 5).
`RunsAreAccounted` (`JobInv`, `GatewayInv`), `RepliesAreKept` (`QqInv`: where a
reply is, it is once) and `ResultsMeetTheirCalls` (`TurnInv`: a result that is
under way carries the round it is of) complete the composition, and
`ServicesTypeCorrect` its types.

*Model-checked only.*  Liveness (`WaitsEnd`) and the runs that refute a sentence:
fairness and ENABLED are out of the prover's reach.  `AnswersHold`, whose machines
compute over sequences: the prompt engine and the tool calls in a text recurse over
their input, searches and federation fuse ranks by folds, a stream and the chat
route rebuild a message from its pieces, and decay is a power of two.  What they
compute for every input takes induction over data, which the installed provers
cannot instantiate.

## 5 Where the code and its documentation disagree

### 5.1 Found by runs

* `double_restore` — a revert of a deletion restores the chunk, then marks the
  history, then flips the status.  Cut short before the last step, or run by two
  monitors, it restores the chunk twice.  The comment at the restore says the
  flip prevents that.
* `tool_bus_reconnect` — the cleanup and the heartbeat of a connection remove
  whatever its runner id maps to.  A runner that reconnected before the gateway
  noticed its dead socket is unregistered by the old connection's end; it stays
  connected and answers pings, and its tools are unsupported until it dials
  again.
* `node_bridge_writer` — the connection task awaits its writer while its own
  `session` still holds a sender of the outbox: task and socket half stay after
  every clean disconnect.
* `observer_eviction` — a subscriber that finds the queue full and then waits for
  the receiver's lock waits for ever when the writer has meanwhile emptied the
  queue and sleeps in `recv` with that lock.
* `gateway_exit` — on a signal main awaits the observer's writer, which ends when
  the hook bus closes, and main itself keeps the hook bus.

### 5.2 Found by proofs

* *Configuration file, three writers.*  Two requests share `<path>.new`; one renames
  it, a third opens a fresh one (truncated), the other renames that: the live
  file is empty though only one request had opened it.
* *Tag trees, siblings.*  Two merges into the same parent that both listed a chunk
  share the parent's tag; reverting one moves the tag from the parent to its
  node and takes it from the other, whose chunk then has neither its node's nor
  the parent's tag.  `ListedStayFindable` leaves requests on sibling paths out.

### 5.3 Met while modelling

**Evolution.**
Overlapping applies of one approved proposal both pass the gate and can both
commit.  `set_decision` writes by id alone, against the 409 the route documents
(`evolution.rs:26`); `mark_shadow_done` takes a decided proposal back.  Rows in
`shadow_running` whose runner died are reaped by nothing.  The start-up scan
that `EvolutionApplier::apply` describes has no caller outside tests, and an
intent stamped failed after the data changed is hidden from it.  A denial's
reason is appended in a statement of its own.  The weekly budget counts rows,
whatever they cost (`docs/design/auto-evolution.md:278`).  Runs that straddle
midnight number different days, so no collision tells them that they file the
same target.  `reset_decay` may leave its audit row out.
*Tag trees*: a second or re-run partial revert loses both tags, against "INSERT
OR IGNORE everywhere … no-ops cleanly"; a path re-created by a tagger makes the
revert fail for ever; cascaded descendants are never restored; a retry after a
partial apply records no moved ids.  *Skill files*: overlapping updates lose
hunks, a retry after a failed commit writes a hunk twice, reverts out of order
drop or bring back hunks, the shared `.tmp` can tear the file.  *Shadow runs*
test the eval cases' own `proposal`, merge more than two chunks (which
`MemoryOp::parse` refuses), never check `latency_ms_max`, and copy `kb.sqlite`
without its WAL.

**Approval gate.**  The row keeps the first decision *written*, the call gets the
first *sent*.  Undecided rows of calls that died stay: `cleanup_stale_approvals`
is not called.  An approval may take five minutes while the agent gives up after
thirty seconds.

**Buses.**  A call that inserts its waiter after the cleanup has drained the map is
told nothing until its timeout.  A full outbox blocks Invoke, Cancel and Ping
outside the call's timeout.  NodeBridge: lookup and registration take the two
maps' shards in opposite orders, so that a dispatch for one kind and a node that registers,
for the first time, for it and another block each other for good when the two kinds
share a shard of the index (and likewise nodes that share a shard of sessions); two registrations
that index their kinds in opposite orders and two dispatches make such a circle
without any shared shard, which `LocksMeetOnlyInCollisions`, about one of each, does
not speak of; a session registered again between the removal
and the pruning loses its index entries; the end of an old connection removes
the new session of its id; a dropped dispatch leaves its entry in the jobs map;
a guard is held across the await for a Pong.

**Plugins.**  Supervisor: after a failed spawn "backing off …" the watchdog ends;
"after three crashes give up" is the fourth; `shutdown()` is not called by the
gateway.  Async tasks: `cancel` is not called on disconnect despite its doc;
`start_sweep` is never started; a callback before the register gets a 404; a
timeout's cancel may remove another call's entry when ids are reused.  Registry:
when the higher manifest stops parsing while a lower one claims the name, the
reload replaces the entry, against "a manifest that merely failed to parse
should NOT evict the previous good entry"; edits between boot and the watcher go
unseen, and a root that is missing when the watcher is installed is skipped, without
polling for it.  Calls: one line is read and its id ignored, against "until one parses …
matching our `id`"; a service deadline covers only opening the stream; a call
dropped while its container is created leaks it.

**Scheduler.**  An in-flight subprocess is not killed on cancel (header,
`main.rs:283`): dispatch is not selected with the token.

**Configuration.**  `SECTIONS` omits sections though it "matches every top-level
field"; a reload never swaps the gate's rules nor the Python drop; the shared
`.new` lets a partial file be renamed, against "never a partial mix"; concurrent
read-modify-writes lose edits.  Bulk alias replaces are shorthand Python is never
told of; `patch_provider` panics if a concurrent delete won; the provider,
alias and embedding handlers store without `validate_report` what the next reload
will refuse, and a file that fails it leaves snapshot and file apart until someone
mends it.

**Chat, agent, models.**  "can rely on history being durable" though an append
failure is only a warning; "can't both observe the same MAX(seq)": both can, and
the second insert fails and is only warned away.  "On drop the sender is closed,
which cooperatively ends the Python side": only the pump ends.  The retryable
flags of Python and Rust disagree on billing, auth and format; Google errors are
always "unknown"; a call cut by the token limit is handed on with truncated
arguments; `tools_json` is dropped by the agent; a client disconnect persists
nothing though tools ran; channel turns keep no session rows.  *Tool calls in
text*: appending text can take away a call that stood.

**Channels.**  Telegram: "on cancel we let the in-flight poll time out" and "drains
pending outbound messages" are not what happens; the offset lives in memory
only.  QQ: "don't block the WS reader" and `send().await` blocks; a popped action
is lost with a failed send.  Rate limits: a message its sender's bucket denies
has taken the group's token.  Webhook: no dedupe, no reply.

**Canvas.**  Expiry comes before frames that were accepted; the event log grows
without a bound.

**Knowledge base.**  `promote_to_consolidated` moves a chunk to a namespace the
default search never looks in; namespace and tag filters read at different
moments; stored decay scores never decay; two overlapping rebuilds can both
report success while the index names only deleted chunks; the local host's
upsert may leave a file row alone; backfill stops at the first deleted chunk.
Migrations: "safe to re-run against an existing DB" fails on legacy files;
`V4ToV5.down` cascades away the tags; a slow migrator writes an older version.
Index cache (no production caller): a failed save drops the dirty flag; a get
during an eviction leaves an orphan.

**Prompts.**  A file loaded before it was in a snapshot and edited before the next
tick is served stale until it is edited again (`hot_reload.py:13,74-75`);
production serves the empty engine; a card that names itself raises the cycle
error or is expanded once more, depending on the gate.

**Persona, user model.**  Topics drop floor(hours/24) and every run stamps
`updated_at`, so an hourly job never drops one (`config.example.toml:250`);
`decay-once` writes back the row it read, stamped with a clock it read before:
a row written in between is stamped back in time, and the next decay recovers hours
that never passed (`RecoversInTime` fails if it asks only that nobody wrote since the row
was read); overlapping distillations duplicate a
trait; prune's floor is below distill's, so it never deletes.

## 6 What is not modelled

* *Text and arithmetic*: inverse diffs, skill text, clustering, floating point,
  approximate neighbours (an exact order here), regular expressions.
* *Adapters and pure I/O*: embedding, webhook and media formats, file fetcher, CLI
  output, the gateway's routing, cookies and log fan-out, the UI, generated gRPC
  stubs.
* *SQLite itself*: a statement or transaction is atomic and durable; `BUSY`
  and full disks are the error branch of the statement.
* *Time*: a timeout may fire at any moment it is armed, a heartbeat may tick at
  any moment; where a comparison of times is the point (buckets, canvas, cron,
  decay) there is a clock.
* *What machines of a composite send each other* (section 2.5).
* Reasons and status per component are in `PROJECT.json`.

## 7 Plan

1. *Proofs of what only the platform run checks*: what is left is `AnswersHold`
   (section 4 says what stands in the way); its type invariants and the parts that
   hold step by step could be proved apart from what the machines compute.
2. *More of the shell*: log broadcast and retention, admin sessions, the file
   fetcher over a tool call, channel messages beyond the bucket.
3. *Configuration to its readers*: gate rules and restart flags after a store.
4. *Clustering and the proposal handlers* as operators against reference
   definitions.

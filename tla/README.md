# Formal model of sagent

sagent is a local agent runtime: a TUI or another client talks JSON-RPC to
`sagent-rpc`, which runs one actor per session; the actor calls a model
provider, executes tools under an approval policy, and keeps everything in a
SQLite store. This directory holds TLA+ modules of that program, TLC
configurations that check them, and TLAPS proofs. Paths below are relative to
`src/crates/` unless they begin with `src/`.

## 1. Inventory

Sizes are lines of source with their tests.

| component | lines | state | operations | hard behaviour |
|---|---|---|---|---|
| `sagent-store` (SQLite) | 7200 | `turns`, `messages`, `daemon_events`, `session_generations`, `sessions`, compaction and rewind tables, full-text index | one transaction per operation: `begin_turn`, `commit_*`, `complete_turn`, `finish_without_message`, `append_event`, rewind, restore, compaction, retry, queries | every order of legal calls; a crash between two transactions; duplicates |
| `sagent-runtime` actor | 3400 | active turn, cursor in a tool batch, mailbox, approval manager, generation | commands (submit, interrupt, resume, resolve, close), events of provider task, tool task, approval waiter; startup recovery | tasks that report late, full mailbox, failing writes, restarts |
| `sagent-runtime` approvals | 900 | pending and finished maps, rules, one-shot channels, deadlines | register, resolve, cancel_for_turn, expire; waiter with `select!` | answer, timeout and cancellation race |
| `sagent-runtime` supervisor | 900 | map from session to actor, handles | get_or_start, get_running, remove, reap; dispatch and reply | an actor that is ending while it is looked up |
| `sagent-rpc` | 2200 | per connection: outbound queue, dispatcher, bridges, cancellation tree; readiness gate | stdio and WebSocket loops, `prompt.submit`, control requests | response before events, lagging subscribers, end of input |
| `sagent-tui` | 2700 | reducer state, pending requests of the client | actions, RPC frames, rendering | responses and events in any order, connection lost |
| `sagent-provider` | 1600 | SSE buffer, tool-call accumulators | streaming chat completions | chunks cut anywhere, early end |
| `sagent-tools` | 3200 | the workspace; table of running child processes | read, write, terminal, session search; risk policy | cancellation and deadline of a process |
| `sagent-agent` | 1000 | none | prompt assembly, message validation, value types | - |
| `sagent-config` | 2600 | profile directories, the active-profile marker, configuration files | create, select, resolve profiles; layered configuration, secrets | two processes create one profile |
| `sagent-protocol`, `sagent-types`, `sagent-contracts` | 3200 | none | DTOs, method table, error codes, identifiers, fixtures | - |
| `sagent-cli` | 1700 | none | profile and session commands over the same files and databases | a command beside a running daemon |
| `sagent-benchmarks` | 400 | none | measurements | - |

How they interact:

- A connection's dispatcher calls the **supervisor** (`get_or_start`), gets a
  handle and sends commands into the **actor**'s bounded mailbox; every command
  carries a one-shot reply channel. A full mailbox refuses at once.
- The **actor** is the only writer of its session's rows inside the daemon (the
  command line writes to the same database). It spawns a provider
  task, a tool task and an approval waiter for the active turn; each reports by
  a message to the same mailbox and waits when it is full.
- The actor publishes runtime events on a broadcast channel; publishing never
  waits. An **event bridge** per submission copies them into the connection's
  bounded outbound queue, from which one writer task writes frames.
- At its start an actor reads the session's event log and settles the turn a
  previous process left running (**recovery**).

What makes each part correct:

- store: one running turn per session; whole turns; one result per call id;
  ended turns never change; the event log repeats the transcript.
- approvals: a request is settled once; nothing is granted that a user did not
  grant; rules come from users; waiters return.
- actor: memory and store agree on the running turn; tools run authorised and
  once; the transcript says what happened; nothing is published about a turn
  after its end; an interrupt and a Close take effect; no turn hangs for
  another reason than its provider.
- supervisor: one actor per session as long as nobody uses remove, none
  orphaned; callers get answers.
- rpc: one reply per request, in order, judged by the hello before it; a
  response comes before the turn's events; the end of a turn or a lag is shown; a
  slow client delays nobody else; queues drain and connections end.
- terminal: the screen shows what was published; no dialogue or turn outlives its
  end there; no request waits for ever.
- provider: a report is what the body says, however it was cut; a cancelled call
  ends.
- tools: writes are all or nothing; what was asked for does not vanish from a result
  unmarked, the end of a long line excepted; nothing is left behind that could be
  removed or signalled; calls end.
- profiles: commands act on the selected profile; a created one stays; a storage
  in use has the current schema; no two processes wait for each other.

The hazards, each at its line, with the properties aimed at it, are in
`PROJECT.json`.

## 2. Modules

| module | models | composition |
|---|---|---|
| `RuntimeIds` | the identifiers (`sagent-types/src/ids.rs`) and their "none" values | |
| `TurnStore` | `sagent-store/src/sqlite/session/turns.rs`, `events.rs` | EXTENDS RuntimeIds |
| `ApprovalManager` | `sagent-runtime/src/approval.rs` | EXTENDS RuntimeIds |
| `SessionActor` | `sagent-runtime/src/actor`, `actor_support`, what the workers may send | EXTENDS TurnStore and ApprovalManager and calls their operators |
| `TurnContract` | abstract specification of a session's turns | implemented by SessionActor |
| `ProviderStream` | one model call: `sagent-provider/src/openai.rs`, `sse.rs`, `openai_event.rs`, `sagent-runtime/src/worker/provider.rs`, `tooling/call.rs` | its worker is the provider task of SessionActor |
| `ToolExecution` | `sagent-tools`, `sagent-runtime/src/worker/tool.rs`, `tooling/dispatch.rs` | EXTENDS ToolOutput; several sessions on one workspace |
| `ToolOutput` | limits and marks of tool output: `result.rs`, `registry.rs`, paging of `read_file.rs`, pipes of `process.rs` | pure operators |
| `Supervisor` | `sagent-runtime/src/supervisor.rs`, `supervisor_dependencies.rs` | actor reduced to take, answer, end |
| `EventBridge` | `sagent-rpc/src/transport/event_bridge.rs`, `prompt.submit` in `stdio.rs`, subscriptions of `event.rs` | actor reduced to what it publishes |
| `RpcConnection` | tasks of a connection (`stdio.rs`, `websocket.rs`, `connection.rs`), `sagent-protocol`, `sagent-rpc/src/service` | one actor as a connection sees it; EventBridge takes over where a prompt is accepted |
| `TuiClient` | `sagent-tui/src/app`, `rpc/client.rs`, `terminal.rs` | the child process as a client sees it |
| `SessionBranch` | `sagent-store/src/sqlite/session/transactions.rs`, `transactions/branch.rs`, `transactions/context.rs` | one session |
| `Profiles` | `sagent-config/src/profile.rs`, `paths.rs`, profile commands of `sagent-cli`, opening and migration in `sagent-store/src/sqlite` | processes on one disk |
| `MCSessionActor`, `MCProviderStream`, `MCToolExecution` | values for TLC | EXTEND the component |
| `MCStore` | TurnStore and SessionBranch in one run | EXTENDS both |
| `MCActorServices` | ApprovalManager and ProviderStream in one run | EXTENDS both |
| `SessionActor_proofs` | theorems about TurnStore, ApprovalManager and SessionActor | EXTENDS SessionActor and TLAPS |
| `Storage_proofs` | theorems about Profiles and SessionBranch | EXTENDS both and TLAPS |
| `*_proofs` (the other six) | theorems about Supervisor, EventBridge, RpcConnection, TuiClient, ToolExecution, ProviderStream | EXTEND the component and TLAPS |

### TurnStore

Rows become functions and sequences: `status` and `owner` are the `turns`
table, `messages` and `events` hold per session the rows in id order,
`generation` is row 0 of `session_generations`. Each operator under
"transactions" is one SQLite transaction with the whole of its effect; the
guard (`CanBegin`, `CanCommitResult`, ...) is what the transaction queries
first. Contents, timestamps, token usage, titles and the full-text index are
left out, display metadata is reduced to the kind of result. `StoreSpec` lets
any caller call anything in any order, so its properties are promises of the
store alone. `AppendEvent` is as permissive as the code: it does not look at
the turn.

### ApprovalManager

`pending` and `finished` are the two maps, `delivered` the one-shot channel of
each request, `rules` and `alwaysRules` the standing rules, `waiter` the task at
the receiving end. Time is the set `due`. `resolve` is three alternatives
(accepted, expired, refused); the entry it takes out and puts back is one step,
because the manager is called by one actor at a time. `Ready` is the set of
`select!` branches that may win.

### SessionActor

One step per handler, cut where the outside can come in between: at store
transactions (a write may fail, the process may crash) and at the one await
inside a handler (`stop_worker`). `pc` says where the actor stands; its values
are explained in the module. Handlers take the head of `mailbox`; tasks and
users append while there is room. A failing write is `Fails(can)`: it happens
when the transaction's own guard is false, or at any time within the bound
`MaxFaults`. Starting a tool is two steps, as in `start_tool_plan`: `StartTool`
commits "tool.started" and `SpawnTool` publishes and spawns, so a crash can come
between them. `Halt` is what is gone when the actor is dropped (Close or crash);
`StartActor` and `RecoverTool`/`RecoverEnd` are the startup recovery, which
plans from the event log only (`PlanRecovery`). `Stop`, `Drain`, `Finish` end
the active turn: cancel, stop the tasks, write the outcome, publish.

History variables, which no guard reads: `executed` and `subject` (what ran,
what an approval was asked for), `heard` and `told` (last event published about
a turn, an approval), `lost` (turns whose recovery was given up).

`TurnContract` states what a client may rely on: turns one at a time, one
outcome each, announcements that repeat the outcome on record. `SessionActor`
implements it with `outcome <- status` and `announced` computed from `heard`;
turns in `lost` count as not announced (see section 6, `actor/session.rs:177`).

### ProviderStream

A body is a sequence of lines, each carried as three units (two halves of its
text and the line feed). `Chunk` delivers any number of units, so that the
network cuts inside a line, between a line and its line feed, or not at all;
`EndOfStream` and `Break` end the body anywhere. `decoder` is `SseDecoder` with
its limit, `ids` the parser's table from index to call id, `calls` the
accumulator, `mailbox` the bounded queue of the actor. `Respond` chooses a
refused request or one that streams. Arguments are sequences of pieces whose
balance says whether they parse; tokens of usage are left out.

`Meaning` reads lines at once and is the reference the incremental reader is
compared with. Its `Readings` are the whole lines delivered, and behind them what
a torn line may say: once all its bytes came, what it says; of half a line,
nothing or something that does not parse. `TooBig`, `TwoInOne`, `IdAt`, `Args`
and `Ids` are stated over the whole of the lines or deltas: by quantifiers, and by
joining what every delta adds.

### ToolExecution and ToolOutput

Every session runs one call; all work on one file of one workspace. A file is an
inode: `write_file` fills its temporary sibling and then gives it the name
(`Commit` for a rename that overwrites, a link that fails if the name is taken
otherwise), a reader keeps the inode it opened, the user replaces or removes the
name at any time. What removing a temporary file that fails leaves is in `unremoved`
(`write` ignores that error). A command is a shell and a descendant (`tree`), which
may redirect its output, be deaf to the first signal, or have left the process group
(`detached`): signals go to the group only, so such a descendant stays with the pipes
it holds (`Reached`, `Survivors`). `active` is the supervisor's table. A cancellation is looked at where the code looks at it. Contents are
sequences of line lengths, so that the limits of `ToolOutput` (characters of a
result, lines of a page, bytes read, the heading of combined output) are
computed and not assumed. The verdicts of the workspace and of the command
policy are fields of the call.

### Supervisor

Operations on the map are one step, since the lock is held for their length
and never across an await. `remove` is `RemoveEntry` (under the lock),
`RemoveSend`, `Return`, `Join`. The actor's task ends in the steps the
multi-threaded runtime has: Close answered (`leaving`), receiver dropped with
the commands in it (`dropped`), task finished (`finished`), which is the only
one `reap_stale` sees. `Abort` is a connection that breaks while it awaits a
reply; the transports do not use `remove`, so a remove is not aborted.

### EventBridge

A submission goes through the steps of `dispatch_prompt_request`: get_or_start
and subscribe, spawn the bridge behind its gate, resume, submit, response, open
the gate, or drop it when refused. `feed` is everything ever published; a
bridge holds the position it reads next, and one that is behind by more than
`Window` gets `Lagged` instead. `wire` and `written` are a connection's outbound
queue and what its writer has written. `LeftOver` says whether a restart left a
turn behind, whose failure the starting actor publishes.

### RpcConnection

Four tasks per connection: the reader puts frames into `inbox`, those it
cannot parse included, the dispatcher `disp` takes them one at a time, answers
what the gate refuses in its place in the queue and awaits what a handler
awaits, the writer empties `outbox`, and the joining task `main` reacts to the first of them that ends, on
stdio and on a WebSocket differently. `access` is `ConnectionAccess`: what the
last good `client.hello` entitles to. `Refusal` is the order of the checks in
the protocol's dispatch, and each action below it what a method does to the
store and to the actor. A handler that awaits the actor may find it stopped or its
mailbox full (`ActorRefuses`), or the actor may be unable to write
(`ActorCannotWrite`). `attentive` are the clients that go on reading while they keep
their end open; for another one the writer may stand in `write_all` for ever. A frame carries as history what it was entitled to when
it was sent (`due`, `standing`); `owed` and `misplaced` record which reply was
next. The actor is what a connection sees of it: down or up, a turn or none, its
approval capability.

### TuiClient

The terminal task is one task (`ui`): while it awaits a response it takes no
event and no key, hence one waiter and one request. `incoming` is the bounded
queue of notifications, `reader` and `writer` the tasks of the RPC client with
the sweep each makes over the pending table when it ends, `session`,
`transcript`, `active`, `stream`, `overlay` the reducer's state. The child
answers in order, publishes, asks for an approval, refuses and dies; what its
store holds survives. `late` marks the request whose waiter was registered
after both sweeps (section 6).

### SessionBranch

`role` has one entry per row of the session in id order; `active` and
`compacted` are the rows with that flag, `messageCount` the counter in the
session's row. Each action is one transaction; a refused one changes nothing.
Where the code increments the counter the model adds, where it recounts
`Recount` counts, where it overwrites the model sets. `rewinds` and `retries`
are the checkpoints that clients hold and may use at any time, again, or never.

### Profiles

Each process runs one command at a time (`create`, `use`, commands on a profile,
a daemon that opens its storage) in steps of one system call or SQL statement:
index, resolve, mkdir, configuration, open, migrate, upgrade, commit, register,
and the roll-back `UndoFiles`, `UndoDirectory`. SQLite's locks are derived from
where the processes are (`HoldsShared`, `HoldsReserved`): the code sets neither
`journal_mode` nor `busy_timeout`, so the database has a rollback journal and
rusqlite's five seconds of waiting; the transaction is deferred; an upgrade from
SHARED to RESERVED while another process holds RESERVED fails at once; a commit
waits for readers; `CREATE TABLE IF NOT EXISTS` of an existing table only
reads; a write to a file that was unlinked meanwhile may or may not be noticed.
`Fault` is a call that fails, `Crash` ends the process anywhere, `EditConfig` is
the user's editor.

## 3. Runs

| run | question | instance | distinct states |
|---|---|---|---|
| `store` | what the store promises to any caller; counter and ends of the branch under checkpoints used late or again | 2 sessions, 2 turns, 2 calls, 3 messages and 1 appended note in all; a branch of 5 rows, 2 checkpoints of each kind | 412 k |
| `actor_services` | decisions, withdrawals and deadlines in any order; a model's answer is what its body says and what was shown | 2 sessions, 2 turns, 2 requests; 17 bodies, frame limit 10, mailbox of 1 | 44 k |
| `actor_faults` | memory, store, transcript and events tell one story; the actor implements TurnContract | 2 turns, batches of an allowed and an askable call or a denied one, 2 rounds, 2 failing writes, 2 crashes, 3 commands, 1 delta, mailbox of 2 | 1.57 M |
| `actor_turns` | nothing runs unauthorised or twice, no task outlives its turn, completed turns are answered, an interrupt takes effect, a turn waits only for its provider | batches with two askable calls under one key, an allowed and a denied call; 2 rounds, 3 commands, 1 failing write | 317 k |
| `supervisor` | no task lost, none orphaned, callers return | 2 sessions, 3 actors, 2 callers, mailbox of 1, 5 operations | 486 k |
| `event_bridge` | response first, every submit answered, a client that never reads, the end is shown | 2 connections with 1 submission each, window and queue of 1, a turn left by a restart, 1 delta | 827 k |
| `rpc_connection` | one reply per request in order, the gate in the order of the stream, one task's end ends the connection | 1 connection on either transport, with a client that goes on reading or not; 3 frames of 7 methods, hellos, notifications and garbage, 1 failure, 1 closed pipe, queues of 2 and 1 | 506 k |
| `tui_client` | the screen is true, no dead dialogue, ended turns leave the screen, waiters are woken | 2 turns, 1 delta, 1 refusal, 1 death of the child, 1 interrupt, queue of 2 | 600 k |
| `tool_execution` | writes all or nothing and never clobbering, nothing vanishes from a result unmarked, nothing left behind, calls end | 2 sessions, of which one writes, 14 calls of all four tools and an unknown one, 1 edit by the user | 158 k |
| `profiles` | the selection obeyed, creations durable, migrations exact, commands return | 2 processes, the default and a named profile, databases found at version 1 or 4, 3 commands, 1 row, 1 failing call or crash | 772 k |
| `recovery_stuck`, `long_line` | disagreements 1 and 2 of section 6 | smallest that show them | |

Why the bounds are enough. Two turns are needed for everything that is about
"the next turn" (late deltas, carried approvals, interleaved messages), and a
third adds only another next turn. Two failing writes and two crashes allow a
failure inside the handling of a failure and a crash during recovery. Two calls
in a batch and two rounds show whether the cursor or an approval leaks into the
next call or round. Five rows hold a branch, its rewind, a second branch, its
rewind and what comes after. A mailbox, queue and window of one or two make
"full" and "lagging" frequent; a larger one only postpones them. Three actors
allow a restart while the previous one is ending and a third beside them. Three
frames are a hello, a request, and another hello or the request after it; what
one connection does is independent of the others except through the actor, whose
state `rpc_connection` therefore also changes on its own, and the theorem covers
any number of connections. In `event_bridge` turn identifiers are taken in order,
and the delta is published only if no restart left a turn behind: the two make
the feed overrun the window in the same way. Two processes, one mishap and three
commands allow a creation that fails while another process creates, selects or
migrates, and one more command that sees the result; the databases of one
behaviour start at one version. `tool_execution` has two writers, or a writer
beside any other call, and the user as a third hand on the same name. Only writers and
the user change the name and sessions meet nowhere else, so that two calls of which
neither writes run as each does alone (`WriterSpec`). A client's `attentive` is chosen at the start of a
behaviour; the writer may write any number of frames to a client that is not before
it stands still, so that a client that reads for a while and then no more is covered.

`MCActorServices` and `MCStore` put two components each into one run and let a
behaviour run one of the two; interleaving them would add states and no
behaviour of either. The seventeen bodies are two regular answers, calls with
repeated, missing and reused ids, malformed, oversized, unfinished and empty
frames, one of them oversized by a comment that may be torn; each is cut, ended and broken at every place.

Bounds are CONSTANTS named Max... (or `Attempts`, `Found`, `Used`, `LeftOver`),
or the constraint of `MCStore`; symmetry is used only in runs without
liveness properties. `CHECK_DEADLOCK FALSE` is set because all bounded models
really stop: the bounds are used up, or the session waits for a user or a
provider.

Every property of a passing run has a mutant in `PROJECT.json`: a changed
definition, as a plausible bug would change it, under which TLC finds the
property violated.

## 4. Fairness

- `RuntimeFairness` (SessionActor): the actor's loop goes on while it has
  input (a tokio task that is woken is polled; it owns its receiver); timers
  fire; a waiter with a ready branch returns; a tool that was started returns or
  is cancelled, because tools run under a deadline (`EveryCallEnds`). Nothing is
  assumed of providers (the stream has no timeout) and of users.
- `FairSpec` of ProviderStream: the worker and the actor's receiver run; the
  server and the user owe nothing.
- `Fairness` of ToolExecution: the daemon runs and its timers fire; commands,
  users and disks owe nothing.
- `SupervisorFairSpec`: callers that can go on and actors that can go on do;
  nobody has to begin an operation.
- `BridgeFairSpec`: tasks of the connection and of the actor go on; a client
  reads only if it is in `Reading`; turns may run for ever.
- `Fairness` of RpcConnection: the end of input, the dispatcher and the joining task
  go on when they can; the writer does if the client is one that goes on reading, has
  closed its end, or has nothing to read (`WriterRuns`). A client that keeps its end
  open and stops reading holds the writer in `write_all` (`stdio.rs:534`), and with it
  the end of the connection: `ConnectionEnds` excepts exactly that (`Stuck`, for ever).
- `Fairness` of TuiClient: the tasks of the client and a child that lives go on.
  Taking an event and reconnecting are strongly fair, because the loop empties
  the queue before it looks at a key (`terminal.rs`), while keys may take the
  terminal task away from them between two of their chances.
- `FairSpec` of Profiles: the operating system runs every process; users begin
  what they like.

`TurnAwaitsOnlyItsProvider` is stated without provider fairness on purpose: a
running turn is ended or has a provider call out. With bounded rounds it
gives that every turn ends if the provider always answers; and
`CancelEndsTheCall` gives that a cancelled one does whatever the server does.

## 5. Proofs

Checked by TLAPS for every value of the constants that satisfies the named
assumptions of the module.

`SessionActor_proofs`, about the store whoever calls it, from `StoreAssumption` and the
distinctness of the "none" values in `RuntimeIds`:

- `StoreTyped`: `[]StoreTypeOK`.
- `OneRunningTurn`: `[]AtMostOneRunning`.
- `TurnsAreBlocks`: `[](TurnBlocks /\ TurnsDoNotInterleave)`.
  `TurnsDoNotInterleave` is not inductive: a message may be appended only if the
  last one is of the same turn. The strengthening `StoreInv` adds that every
  message is of a begun turn and that the last message of a session is of its
  running turn (`TurnBlocks`), with one running turn per session.
- `LogIsTheTranscript`: `[]LogMirrorsTranscript`. The property says by numbers
  of events, not by filtering the log, that the nth "message.committed" is the
  nth message; a transaction appends to both tables or to neither.
- `ResultsAreUnique`: `[]OneResultPerCall`.
- `EndedTurnsStaySealed`: the action property `EndedTurnIsSealed`, from the type
  invariant.

and about the approvals:

- `NoRequestIsLost`: `[](ApprovalTypeOK /\ EveryRequestIsAccountedFor)`. The
  invariant `ApprovalInv` says of each request on its own (`Tracked`) in which
  map it is and what its channel and waiter may hold; every operation settles
  requests one by one (`SettleTracks`) and leaves the others alone.
- `SettlementIsFinal`: the action property `SettledOnce`.
- `NothingIsGrantedUnasked`: `[]OnlyUsersGrant`, with one lemma for the grants and
  one for the rules, over the answers users gave.

and about the actor, from the assumptions of `RuntimeIds`, `TurnStore` and
`SessionActor`. The invariant is built in layers, each of which needs only those before it, so that a handler is looked at once per
layer and not once per property:

- `ActorUsesTheStore`: `ActorSpec => StoreSpec`. Whatever the actor writes, in
  handlers, recovery and crashes, is a transaction of `TurnStore` (`TypedStep`),
  so every theorem about the store holds of a running actor.
- `ActorStaysConsistent`: `[]ActorIsConsistent`. `RegistersAgree` says that the
  active turn of memory is the running one of the database; lemma `TurnSteps` sorts
  all steps into seven kinds by what they do to both (`TurnStep`).
- `TasksEndWithTheirTurn`: `[]NoTaskOutlivesItsTurn`. `Work` is about one token
  that goes round a running turn: exactly one of a provider task, a tool task, an
  unanswered approval, their report in the mailbox, or the actor's own next step
  carries the turn on (`Token`), and everything else in the mailbox is ignored.
  For approvals this needs that a waiter's report is of a request that was
  settled (`Entries`, `Reports`, `OwnApproval`). The property is about tool tasks,
  waiters and pending approvals. A provider task that was aborted may outlive its
  turn; what it still sends is ignored (`ActorKeepsTheContract`).
- `EveryToolWasAuthorised`: the action property `ToolsRunAuthorised`, from the part
  `Authorised` of the same invariant.
- `ActorKeepsTheContract`: `ActorSpec => KeepsTheContract`, the refinement of
  TurnContract, each step mapped to one of the contract or to a stutter
  (`ContractStep`); `LastWord` says what a published end stands on.
- `TranscriptsTellTheTruth`: `[]TranscriptTellsTheTruth`. What a result says "executed"
  of has run, what it refuses has not, and "unknown" stands for a start that is on
  record: a crash comes before the spawn as well as after it, so nobody can tell
  more. `Truth` ties the tools that ran to the "tool.started" events, the results in
  the transcript to their calls, and the plan of a recovery to both; `StoryStep` lists what a step may add
  to the log and the transcript.
- `CompletedTurnsAreAnswered`: `[]CompletedTurnIsAnswered`. `AskedFor` says that a
  call of the running turn has its result or is still ahead in the batch.

`Supervisor_proofs`, from `SupervisorAssumption`:

- `SupervisorTyped`: `[]SupervisorTypeOK`, mailbox capacity included.
- `NoTaskIsLost`: `[]ActorsAreAccountedFor`. The inductive invariant
  `Registered` adds that unfinished actors have a session and that only an
  actor in its loop works on a command; without the latter the answer to a
  Close could bring back a finished task. Each step either abandons no awaited
  task (`KeepsWaiting`) or starts one in a free entry.
- `LiveActorsStayReachable`: `[]LiveActorsAreReachable`. A remove stops counting
  as one that will close its actor when it has heard an answer, so the invariant
  `LiveInv` has to know what the answer was about: a caller has at most one
  command out, at the actor it awaits it from, and a remove's is a Close
  (`CommandsAreAwaited`); a remove that has heard has a stopped actor
  (`ClosingIsHeard`); entries and removes name actors that were started
  (`TargetsExist`), so a start revives no old target.
- `OneWriterPerSession`: without remove (`~CanRemove`, the way the transports
  use it) `[]OneActorPerSession`; remove violates it (disagreement 3).

`EventBridge_proofs`, from `BridgeAssumption`:

- `BridgeTyped`: `[]BridgeTypeOK`, bounded queues included.
- `ResponsesComeFirst`: `[]ResponseFirst`. `GateInv` has at most one command of a
  connection in the mailbox (`MailboxInv`), and per submission: the gate is shut
  until the response is queued, nothing of it is on the wire while it is shut, a
  bridge reads on only after its submission was granted a turn, a granted turn
  is answered with ok, and so its events follow the response.

`RpcConnection_proofs`, from `RpcAssumption`:

- `GateIsInOrder`: `[]GateFollowsTheStream`. `StreamInv` says that the frames in
  the queue are linked: the first one is due what `access` grants, each next one
  what the one before it was due unless that was a good hello, and behind the
  last one is what the client counts on; a closed connection takes nothing more,
  and whoever is in a handler has passed the gate as of its place.
- `RepliesAreOwed`: `[]RepliesFollowRequests`. `ReplyInv` says that the replies made
  and not yet read are the next ones owed, in order, and that behind them the
  frames not yet answered, the one in the handler first, are owed theirs: the nth
  with an id is owed the nth. Counting is by cardinality (`Wanted`), so that
  taking a frame and appending one are facts about finite sets.

`TuiClient_proofs`, from `TuiAssumption`:

- `ScreenTellsTheTruth`: `[]ScreenIsTrue`. `Pipe` puts the three places a frame can
  be in on its way to the terminal loop into one sequence; the connection moves
  frames within it and takes only responses out (`PipeStays`, `ReaderStory`).
  `Heard` counts the fragments of the turn on the screen: those shown and those in
  the pipe are those the child said. It is not inductive alone: when a turn is
  granted, all it has said has to be in the pipe still, which needs that its
  grant is there too or is the answer just delivered (`Granted`), that a grant
  comes only while a submission is awaited (`Wire`, `GrantsAreSought`), and that
  nothing in the pipe is of a turn not yet begun (`Flow`).
- `DialoguesAreLive`: `[]DialogueIsLive`. `Flow` says that questions under way are of
  turns that own the screen or are about to (`Owners`), and that a turn's end
  comes behind its questions, so an end that is taken leaves no question behind
  for a dialogue to open on; `Screen` says what each request under way implies
  for the screen, through lost connections and reconnects.

`ToolExecution_proofs`, from `InodeAssumption`:

- `WritesAreWhole`, `WritesNeverClobber`, `CallsCleanUp`:
  `[]WritesAreAllOrNothing`, the action property `NeverClobbers`,
  `[]NothingIsLeftBehind` (no entry in the table; a temporary file only where removing
  it failed; of the holders of its pipes only those the group's signal does not
  reach). `ToolInv` ties the phase of a call to its temporary
  file, its inode, its processes and whether it reached the name
  (`WriterInv`, `CommandInv`); a step of one session leaves the inode, the
  temporary file and the processes of the others untouched.
- `AnswersAreComplete`: `[]NothingVanishes`, from `RequestAssumption` as well: a
  page that is not marked has every line that was asked for, each whole if it is no
  longer than the limit of a line; an output that is not marked is all there was.
  That longer lines lose their end unmarked is disagreement 2. `HonestInv` says that
  a reader holds an inode that is a user's or a committed one, hence complete and
  never written again, and has read no more of it than it may. That what is shown
  fits its limit and marks its cuts is a fact about the operators of `ToolOutput`
  (`ReadPageHonest`, `BoundedHonest`, `ShownHonest`). `Joined` is recursive; what it
  gives for every length is shown by a least counterexample, which exists because
  `<` is well-founded on Nat (`LengthsExist`).

`Storage_proofs`, about profiles, from `ProfilesAssumption`:

- `MigrationIsApplied`: `[]StorageIsCurrent`, and `CreationIsDurable`:
  the action property `CreatedStays`. `ProfilesInv` says that a creation owns the
  directory it made until it is registered or undone, nobody else owns it, one
  process writes a database, a transaction's version is the database's, and a
  created profile is complete and nobody's to take back (`Stands`).
- `CommandsActOnTheSelected`: `[]ActsOnTheSelected`. `Chosen` says of a command
  without `--profile` that the profile it has was selected in its time; a step
  chooses, keeps what was chosen, or belongs to another process, which can only
  add to what was selected meanwhile (`ChosenStep`).

and about the branch of a session, from `BranchAssumption`:

- `CounterIsRight`: `[]CountIsActive`.
- `NewInputStaysLast` and `BranchLosesItsTail`: the action properties
  `NewInputIsNeverMerged` and `LosesOnlyItsTail`. The invariant `BranchInv`
  (types, counter, `TicketsStartBehindTheirHead`) is inductive; the argument is
  that the head is the largest active row (`HeadIsLast`), so comparing heads
  bounds the whole branch, and that a checkpoint starts behind its own head.

`ProviderStream_proofs`, from `StreamAssumption`: `AnswersAreTrue`, which is
`[]AnswerIsWhatWasSaid`, of two parts.

- `ReportIsTheMeaning`: `[]ReportIsWhatWasSaid`, for every body, every place it is
  cut at and every limit. The invariant `StreamInv` (`ReaderInvariant`) names the
  deltas P the parser has taken. The lines delivered so far say P and what the
  decoder still holds (`Content`), and its size and failure are those of the open
  frame (`Reads`); the table of ids is what P appoints (`Known`); the events not
  yet emitted are the end of P with the ids of the reference, and the sink holds
  the meaning of the rest (`Emits`). After the end of the body P is all that some
  reading says (`Flushing`). A report is made in the step that knows it true
  (`Truthful`): a size, a second document or junk seen now stays in every reading
  of the body (`WrongStays`, `WrongReading`), and a fragment the accumulator
  refuses makes its call bad in everything that begins with it (`Hopeless`).
- The reader is a loop over units, the parser a loop over deltas, and the
  reference joins sequences with FlattenSeq. All are recursive functions on
  intervals: that they exist (`LoopExists`, `FlattenExists`) and what holds along
  them (`UpTo`) is shown by a least counterexample. A lemma each says what one
  more delta, line or unit does to every operator of the reference.
- `AnswersAreShown`: `[]ShownIsTheAnswer`. The invariant `ShownInv` follows what was
  heard with what waits behind it: as long as the actor receives, the two together
  hold the fragments of the sink's text and no answer, and once the report is sent
  the report behind them. Sending adds to the end of the two, taking moves the
  boundary (`SendAny`, `TakeAny`), and only a fragment adds to the text (`WordsAny`).

Stating the property for every limit corrected its reference: the bytes of a torn
comment count towards the frame as well, and with three comments behind
`[DONE]` the decoder refuses a body whose whole lines are in order.

Only model-checked: everything about liveness and fairness, which is out of the
prover's reach. Every invariant and every action property of a passing run has a
theorem.

## 6. Where code and documentation disagree

Shown by a run:

1. `recovery_stuck`: recovery gives up at the first verdict the store refuses,
   which it does when the model used the call id before; the turn stays running
   and the session never begins another, in this and later processes.
2. `long_line`: `truncate_line` (`read_file.rs:259`) drops the end of a line that is
   longer than `max_line_chars` and nobody sets `truncated`;
   `sagent-runtime/src/worker/tool.rs:31` says of that flag "是否丢弃了超出上限的输出".

Met while modelling, described by the model and not given a run. Runtime and
store:

3. `supervisor.rs:102-107`: `remove` takes the entry out before the actor ends,
   so a second actor of the session can start beside it; the comment there, and
   `supervisor.rs:4`, say there is one (`OneActorPerSession`, proved for
   programs that do not use remove).
4. `branch.rs:176`, `:219`: rewind to a message, write, rewind to the new
   message, restore the first: both branches come back, one after the other,
   because only the active head is compared. The same happens with checkpoints
   (`restore_rewound`, :136), whose head can be the expected one again. A
   restore is therefore not the inverse of a rewind (`branch.rs:106`).
5. `actor/session.rs:177`: the startup recovery publishes `TurnFailed` when its
   own write failed; `turn.rs:3` promises events after persistence only.
6. `actor/tools.rs:409`: a resolution is published before it is recorded and an
   error is ignored; `session.rs:280` says the opposite order.
7. `approval.rs:241`: a late resolve is answered with the recorded reason, not
   with NotFound. `approval.rs:230`: Always rules live as long as one actor, not
   as the process.
8. `recovery.rs:126`: a turn that waits for an approval is ended by a restart;
   `src/docs/design/rust-fourth-phase-4.5-tool-behavior.md:299` wants it asked
   again.
9. `actor/prompt.rs:137`: without a provider a prompt begins a turn that nobody
   works on; `supervisor_dependencies.rs:120` says the submit is refused.
10. `actor/session.rs:222`: Close is answered before the task has finished, so
    `get_or_start` may give out the actor that is ending.

Connections and terminal:

11. `event_bridge.rs:68`: a subscriber that lags past the terminal event keeps
    its bridge, which shows the next turn a second time. The TUI cannot meet it:
    it does not submit while it knows of a running turn.
12. `event_bridge.rs:78`: the failure event of the startup recovery ends the
    bridge of the submission that started the actor, which then shows nothing of
    its own turn. `event_bridge.rs:53`: the bridge of a refused submission may
    forward events until it notices the cancellation.
13. `websocket.rs:35-37`: the approval capability belongs to the actor, so the
    Resume of another client overwrites it.
14. `stdio.rs:582`: whether a failing writer is reported depends on which task
    the joining task sees first.
15. `sagent-tui/src/rpc/client.rs:4` says every waiter ends when the connection
    fails ("连接故障时所有 waiter 都能同时结束"). A waiter put into the table after the
    sweep waits for ever (`late`), and so does one whose response stands behind
    a full queue of notifications that only the waiting task empties (`Flooded`).
16. `sagent-tui/src/app/action.rs:49` speaks of a snapshot of all visible
    messages ("完整可见消息快照"); the page asked for has 200.
17. The key `q` closes the terminal also while a prompt is being composed.

Provider and tools:

18. `openai.rs:257`: the request has no time limit. Events after `[DONE]` are
    accepted. A call whose id comes only with a later fragment is split in two.
19. `process.rs:40` says of the guard of a process tree
    "保证执行结束时不会遗留子进程树", and
    `src/docs/design/rust-fourth-phase-4.5-tool-behavior.md:177` counts on it. On
    POSIX it does nothing, and when the shell ends by itself nobody is signalled
    (`terminal.rs:222`): a descendant that redirected its output, or that left the
    process group, outlives the call.
20. `write_file.rs:85` promises that a cancellation before the commit always removes
    the temporary file ("取消在 commit 前必定删除临时文件"); `:132` ignores an error of
    `remove_file`, and the file stays (`unremoved`).
21. `timeout_ms` of the dispatch plan is not enforced for `read_file` and
    `session_search`; its output limit is not applied to successful results.

Profiles and storage:

22. A marker that names a profile that is gone makes every profile command fail,
    `profile use default` included, because `handler.rs:43` builds the index
    first. A crash in the middle of a creation leaves a directory that `create`
    refuses for ever. A creation may have succeeded and still report an error,
    when registering meets a stale index. Sessions written into a profile that is
    being rolled back are lost. `open_readonly` does not check the schema.

## 7. Not modelled

In modelled components: a call id of white space alone, which `tooling/call.rs:70`
refuses as empty (an id without a character counts as not given,
`openai_event.rs:102`); `ActiveTurn.terminal` (set only after the active turn
has left the actor), re-checks at the entry of handlers that no caller can fail,
the input `ApprovalRequired`, which no code sends, a panicking tool (nobody
monitors the tool task), and the closing of an actor while a bridge listens.
The abort of a tool task three seconds after its cancellation is a step of
SessionActor, where its late result may still arrive; inside ToolExecution a
cancelled call runs to its own end. Resolving paths inside the workspace and the
words the command policy looks for are verdicts of a call; Windows job objects
are left out. Drawing, scrolling and notices of the terminal, the accept loop of
the WebSocket server and the assembly of the service at its start are left out.

Whole components: listing, search and paging of the store (single queries
without state of their own); provider configuration (sequential parsing of one
file); contract types, identifiers and benchmarks (no state); argument parsing
and printing of the command line. The statuses and reasons per component are in
`PROJECT.json`.

What a command line does to a session whose turn runs in the daemon is checked
only table by table: SessionBranch and TurnStore share rows but no transaction
of one looks at the other's, so the code makes no promise about both.

## 8. Plan

Done: the modules, runs and theorems above. What is left: a panic in a tool body,
and the composition of SessionBranch with TurnStore, once the code says what
either should lead to.

# Xiaoguai in TLA+

TLA+ specifications of Xiaoguai's core: the parts of the server where tasks,
operators, clocks, clients and crashes meet over shared state. Each module is
translated from the Rust source; `PROJECT.json` maps every definition to the
lines it stands for. TLC checks the modules on small instances; TLAPS proves the
safety properties, and the refinements, for every value of the constants.

    tlc -workers 2 -config MCHotlLive.cfg MCHotlEscalation
    tlapm HotlEscalationProofs.tla

## 1. The system

Xiaoguai is a self-hosted agent server, one process over one SQLite file. A
client posts a message to a session; the server runs an agent (a loop of model
calls and tool calls) as a Tokio task and streams its events back. Around that
core stand components that start turns on their own (loops, schedules, watches,
incidents) and components that stop or delay them (human-on-the-loop budgets,
cancellation, breakers).

Everything in memory (locks, channels, task handles, cancellation tokens) dies
with the process. The release build sets `panic = "abort"` (`Cargo.toml:228`),
so a panic anywhere is a crash of the whole process and not the end of one task;
the models have crashes and no panics.

### Components

| Component | State | Operations | Hard because | Correct when |
|---|---|---|---|---|
| HotL escalation gate and decision registry (`agent/hotl_gate.rs`, `api/hotl/decision_registry.rs`, `api/routes/hotl_decisions.rs`) | rows `hotl_pending` and `hotl_decisions`; the map of waiters, a gauge, one sleeper and one one-shot channel per escalation | escalate and park, decide, time out, cancel, boot replay | a decision is five awaited steps; the deadline lives in three places; a crash loses the channels | nothing runs without a recorded allow; rows are final; a parked call ends; no slot leaks |
| HotL policy enforcer (`core/hotl_bridge.rs`, `api/hotl/policy.rs`) | policies, usage rows in a rolling window | check a call, edit policies | parallel calls race the window; several policies are counted one by one; the window's edge is compared as text | calls that pass stay within the budget; the strictest policy wins |
| Loop controller (`api/loops.rs`, `api/routes/loops.rs`, `storage/.../loops.rs`) | rows `loops`; the map of drivers; one driver task per active loop with its own copy of the counters | create, cancel, resume, tick, bookkeeping, boot replay | the row moves before the driver starts or stops; the driver outlives its map entry | one driver ticks a loop; budgets hold; an active loop has a driver |
| Turn pipeline and cancel registry (`api/turn.rs`, `api/state.rs`, `api/routes/sessions.rs`) | rows `messages`; the session's lock and token (one map entry); the bounded event channel | start, stream, cancel, finalize | handler, agent task and finalize task share the lock; early returns; a client that leaves or stalls | turns never overlap; what a turn stores is its own and whole; the lock is released |
| ReAct loop (`agent/react.rs`, `agent/history.rs`, `runtime/outcome.rs`) | the conversation, the iteration | ask the model, fan out tools, trim the history | the window counts messages; the run's own part is found by content; a cancel lands amid a fan-out | calls and results stay paired; a cancelled run starts nothing but what was on its way |
| Loop pacing and tool directives (`api/loop_tools.rs`) | per-tick directive | set delay, pause, done | precedence and clamps | delays stay in bounds |
| Scheduler (`xiaoguai-scheduler`, `core/scheduler_bridge.rs`) | jobs, runs; the runner's batch; the bounded event channel; the route table | tick, fire, retry, advance, run now, webhook, CLI and pack writes | the runner fires copies; everyone writes whole rows behind it; an error ends the batch; "run now" runs in a handler its client may drop | a paused job stops; a due time runs once; attempts are audited; nothing due or queued is passed over for ever |
| Audit hash chain (`xiaoguai-audit`) | rows linked by hashes | append, verify, prune | two appenders read one head | the chain verifies; a removed row is noticed |
| LLM router and breakers (`xiaoguai-llm`) | breaker state per provider | pick, report, probe | late answers of calls sent before the breaker opened | an open breaker admits one probe |
| Runtime resilience (`xiaoguai-runtime/src/resilience.rs`) | attempts | retry, time out | retry of a call that went through | attempts are bounded |
| Incident pipeline (`api/incident_pipeline.rs`, `api/incident_store/sqlite.rs`, `api/routes/incidents.rs`) | incident rows, RCAs, repairs, audit entries | ingest, analyse, approve, dismiss, boot reconciliation | an agent's turn inside a request; handlers interleave at every await; a crash or disconnect in the middle | one live incident an alert; one repair; the latest RCA is the one repaired; the audit chain tells the end |
| MCP supervisor and clients (`xiaoguai-mcp`) | child processes, pending replies | start, call, restart | late replies; restart back-off | a reply reaches its own request |
| Orchestrator (`xiaoguai-orchestrator`) | budget shared by the workers, review rounds | plan, dispatch, review | workers spend between check and charge | the rounds and the overspending are bounded |
| Skill authoring (`xiaoguai-tasks`, `core/skill_author_bridge.rs`) | proposal rows, YAML files, audit entries | propose, approve, reject | the status is checked on a row read earlier; file, row and audit are three writes | nothing gets in behind the gate; an installed skill has its file; decisions stand |
| Watch runner (`xiaoguai-watch`) | cooldowns, dedup keys | poll, alert | restart inside a cooldown | one alert per window |
| IM gateway, memory, RAG, personas, anomaly, eval, coding servers, auth, observability, CLI, ACP, desktop, frontend, packs, recipes, SDK | see `PROJECT.json` | | data and I/O more than control | |

### How they interact

A turn takes the session's entry in the cancel registry, stores the prompt, asks
the enforcer, and spawns the agent task. A tool call that trips a budget parks
the agent inside its fan-out, so the turn keeps the lock while it waits for an
operator (`HotlEscalation`). When the agent ends, a detached task stores its
messages, appends the audit entry and releases the lock (`TurnPipeline`). A loop
driver is one more caller of the turn: it waits for the completion, counts, and
sleeps (`LoopController`); its closing notes go into the session without the
lock. The scheduler's runner fires jobs from copies of their rows, while HTTP
handlers, the command line and packs write those rows (`Scheduler`). Incident
handlers run their agents' turns inside the request (`IncidentPipeline`). A
skill proposal is one more caller of the enforcer (`SkillProposals` over
`HotlBudget`). At boot the server replays pending escalations and active loops,
reconciles interrupted incidents and starts the runner.

## 2. What is modelled

Ten modules specify, eight prove, seven instantiate for TLC. Each state is
split as the process splits it: what is durable (a crash keeps it), what is in
memory (a crash loses it), what belongs to the environment, and history
variables, which no guard reads.

### `OperatorVerdict` (abstract) and `HotlEscalation`

`OperatorVerdict` is the promise: a tool that was escalated runs only on a
recorded *allow*, the loop hears *denied* only on a recorded *deny*, a decision is
recorded once, an ended call stays ended. `HotlEscalation` is the code, one
action for each stretch between two awaits: the gate (`CheckWithArgs`,
`InsertPending`, `InstallWaiter`), the ticket's biased select (`AwaitCancelled`,
`AwaitVerdict`, `AwaitDeadline`), the sleeper (`SleeperTerminalise`,
`SleeperFire`), the operator's request (`Preflight`, `RecordLedger`,
`PersistVerdict`, `FireOneshot`, `PostFails`), `Crash`, the replay, the clock.
The refinement mapping keeps the ledger and reads the outcome off the call.

### `HotlBudget`

`SqliteHotlEnforcer::check` for the calls of one scope: `FetchPolicies`,
`InsertUsage`, one `CountWindow` for each fetched policy, each an await. The
operator edits policies between them (`Edit`), the store fails, the process
crashes, the clock runs. `InWindow` compares cutoff and timestamp the way the
SQL does, as text in two formats (see the findings). Every tool call weighs 1.0,
so a sum of amounts is a count.

### `SkillProposals`, composed with `HotlBudget`

A proposal is one of the calls of `HotlBudget` for the scope `skill_author`:
`RecordPropose`, then `Gate` (the steps of the check), `RecordVerdict`,
`InsertProposal`. `ReadProposal`, `LookForFile`, `WriteFile`, `SetStatus` and
`RecordDecision` are the awaits of approve and reject; handlers of one proposal
interleave at each. The manifest's file may be there in part after a crash.

### `LoopController`

Rows, drivers, requests and the session's turn lock. `DriverStep` follows
`drive`: the budget gates, the sleep, the tick, the completion, the bookkeeping,
the way out. Create, cancel and resume are split where they await, and
`DropRequest` drops a handler there (a client that disconnects). Time is
abstracted to its events: a sleep may end and a ttl may pass at any point.
`fired` and `late` are history: turns started for a loop, and those started after
its row was terminal.

### `ChatSession` (abstract) and `TurnPipeline`

`ChatSession` is what a session promises: one turn at a time has it, writes its
prompt first and once, then answers under its own name, and writes nothing once
it is over; only notes of the loop controller and deletions go on beside it.

`TurnPipeline` is the code. `Handler` is `run_turn` (or `orchestrate_session` for a
team), `Agent` the ReAct loop, `Finalize` the detached task. A message is its
author, role and call number; `said` tells whether it has a text (or, for a
result, whether the tool ran and was not rejected by the cap). All prompts have
the same content, the hardest case for `new_messages`, which finds the run's own
part by the content of the prompt; a loop does repeat its prompt. `Slide`,
`Inbound`, `Reply` and `ToPersist` are `slide`, `new_messages`, `reply_text` and
`messages_to_persist`. The event channel has a capacity, a reader, and a client
that may leave; a step that emits several events emits one in the model. The
transcript is ordered by insertion, not by the clock.

A fan-out is not one step. `fan` counts its calls by where they are, which is all
that tells them apart: before or in the HotL gate, parked on a ticket, released
from it, in their tool. `Announce`, `GateAllows`, `GateDenies`, `GateSuspends`,
`TicketEnds`, `GrantedStarts` and `ToolEnds` are the awaits of the per-call
futures of `dispatch_tools`, `JoinCalls` the end of the `join_all`. The
cancellation token is looked at before each request (`react.rs:322`), before the
fan-out (`react.rs:388`) and where a call is parked (`hotl_gate.rs:280`), nowhere
else; a cancel may land between any
two of these steps. `quota` is history: how many calls were past the last look at
the token when it fired, less what the turn has begun since.

The mapping to `ChatSession` keeps the lock, reads each row as who wrote it and
whether it is a prompt, and a turn's stage off its `pc`. A step of the agent task
is a stutter, a crash ends every turn under way at once.

### `Scheduler`

Rows of `scheduled_jobs`, `JobRunner` and everyone who writes the rows. `Tick`
reads a batch of due rows and `FireNext` fires them one by one from that copy;
`TakeEvent` fires the job of a webhook's event, or loses the event when the read
of the job's row fails. `FireNow` is "run now", which the HTTP handler awaits, so
`DropHand` may end its fire at any await: the client disconnects. `debt` counts
the finished attempts of each firer that have no audit row. A fire is the awaits
of `fire`: the budget gate, `InsertRun`, `Execute`, `AuditRun`, the retry,
`Advance`. `CliRead` and `CliWrite` are the command line's pause and resume, which
read a row and write it back whole; `Upsert` the HTTP route; `Boot` the packs'
upserts. Triggers are kinds of jobs: cron, interval, proactive, webhook, and cron
expressions that do not parse.

### `IncidentLifecycle` (abstract) and `IncidentPipeline`

`IncidentLifecycle` promises one live incident for one alert, a status that moves
along the documented arrows, and agents that work one at a time.
`IncidentPipeline` has the four handlers, one action for each await on the store
(`FindLive`, `InsertRow`, `FindAgain`, `BumpDuplicate`; `Check` and `Move` of a
status change; `ReadDetails`, `Turn`, `InsertRca`, `InsertRepair`, `Audit`), a
store that fails, a client that disconnects (`Drop`), a crash, and the boot's
reconciliation. All incidents of the model are rows of one alert: rows of
different alerts share nothing.

### Bounds in the guards

`MaxTime`, `MaxFaults`, `MaxCrashes`, `MaxMishaps`, `MaxDrops`, `MaxExpired`,
`MaxNotes`, `MaxDeletes`, `MaxCalls`, `MaxWrites`, `MaxPushes`, `MaxEdits` and `MaxRequests`
bound what the environment may do; `Saturation` caps the history counters of
`LoopController` above every value the properties tell apart. The other constants
are the code's own (`HistoryWindow`, `MaxIterations`, `ToolCap`, `EventBuffer`,
`MaxTicks`, `FailureLimit`, `Window`, `MaxJobsPerTick`, `MaxAttempts`, `Budget`,
`Channel`), made small. The proofs take all of them as any natural number.

## 3. What the runs show

Deadlock checking is off in every run: all the systems come to rest when every
call is decided, every loop ended, every turn over and the bounds are used up.
Invariants are symmetric in the ids, so safety runs with several ids of a kind
use symmetry; runs with liveness do not.

| Run | Instance | Shows |
|---|---|---|
| `hotl_live` | 1 escalation, 2 requests, 2 faults, 2 crashes, a window of 2, time to 4 | verdicts are durable before they act, no ticket is orphaned, the gauge is exact, *resumed* is told once and truly, deadlines are honoured, `OperatorVerdict` is implemented, parked calls end, slots are released |
| `loop_live` | 1 loop, 2 drivers, 1 request at a time, 2 ticks, fault, drop, expiry, crash | the driver's counters are the row's, breaker and tick budget hold, a cancel reaches the driver, one late tick at most, a loop is stranded in three ways only, otherwise it ends or pauses |
| `loop_overlap` | 2 loops, 2 drivers, 2 overlapping requests | one live loop a session, one driver ticks a loop |
| `turn_live` | 2 turns, of an operator or a team, 2 iterations, a window of 2, a fault or crash | `ChatSession` is implemented, the lock is always released, a turn stores only its own, its audit entry counts what it stored |
| `turn_pairs` | 2 ticks or team turns, 2 calls an answer, a window of 5, note, a deletion, fault or crash | later turns see a run whole, calls and results stay paired, a cancelled turn starts nothing but the calls that were on their way |
| `schedule` | an interval job of a pack, a webhook job, 2 attempts, run now and its drop, command line, fault, crash | a paused job fires at most once more, a due time runs once, attempts are audited |
| `schedule_live` | cron, proactive and webhook jobs in batches of 2, a write, a fault, a tick of the clock | a due job runs, an accepted event fires |
| `incident` | 2 incidents, 2 handlers, 4 requests, fault, drop, crash | one live incident, one repair, stranded by a break-off only, the audit chain tells the end, `IncidentLifecycle` is implemented, work ends |
| `skill_gate` | 2 proposals of a skill, 2 policies, 2 decisions, 2 days, a failure or crash | the budget is kept, the strictest verdict wins, nothing gets in behind the gate, an installed skill has its file, decisions are audited |
| `hotl_window`, `incident_stale`, `skill_reversed` | | the three findings below |

Two of each kind of actor suffice for the races looked for: each is between one
party that has read or written and one that acts before it goes on, and the
crash or the fault is a third party of its own. Two driver slots let a late
driver and its successor meet.

The window slides at the top of each iteration, so what it does to a turn's own
messages takes more than one iteration to show. `turn_live` has two, and a window
of two messages: the second request has lost the prompt. Its runs store a reply by
the fallback (an audit entry of none beside one stored row), have nothing left to
store, or keep their prompt when the first answer ends them. It has no ticks,
notes and deletions, which would multiply its states for one stutter each of the
turns (a tick is an operator's turn whose client left at once); the proofs cover
them. `turn_pairs` has one iteration and a window of five, which keeps whole pairs
of an earlier turn and cuts them; of two calls, one can be at the gate while the
other is parked, released or in its tool, so a cancel meets every mixture. What
the window does to a run's own pairs in a later iteration, and calls that the cap
turns away, are left to the theorem `Pairs`. Both runs have one mishap (a deletion, a
failed append or a crash); each leaves a broken record of its own kind, and the
other turn is there to read it.

Two attempts tell a retry from a first and a last one. `schedule_live` has three
selected jobs for a batch of two, so the cut passes one over, and the clock moves
while it waits. It has neither of the rows that starve a batch, so its `DueJobRuns`
holds without the exception; no run has a job whose cron expression does not parse,
and such a job's part is in the theorems alone (a row that is gone ends the batch
in the same way, and does in the runs). In `skill_gate` a day is one tick of the
clock and policies' windows are as short, so rows leave them within the two ticks
of the run; it shares one failure or crash between the budget and the handlers.
`schedule` bounds drops by the requests there are to drop.

### Fairness

Weak fairness of each task: Tokio runs every ready task, model calls, tool calls
and tickets end (they have time-outs), a supervisor restarts the process, time
passes. The runner's `select!` chooses at random among the ready branches, so its
timer and its channel have strong fairness; a fire under way, the rest of a batch,
a push that was begun and the boot have weak fairness. Incident handlers are
polled until they answer. In `turn_live` clients read or leave. Nobody must send a
request, decide, cancel, crash or fail.

### Findings

Three runs each violate one statement of the repository:

1. `hotl_window`: the window's cutoff and the usage rows' timestamps are texts in
   two formats; compared as text, every row of the cutoff's UTC day counts. An
   hour's budget is charged for up to a day more.
2. `incident_stale`: an approval reads the RCAs before it moves the incident, and
   the incident may be in a second analysis by then; the Executor runs on an RCA
   that is no longer the latest.
3. `skill_reversed`: an approval checks the status on a row it read earlier and
   updates by id alone; a rejection in between is overwritten.

More of what the models do that a comment or a document does not expect. These
have no run of their own; the properties that hold are worded around them.

HotL:

- A verdict recorded just before the deadline and the ticket's own time-out can
  both win (`decision_registry.rs:54` says exactly one does): the row is
  resolved, the loop timed out. The refinement calls it a withdrawn call.
- A cancel polled after the verdict was sent discards it, though the operator was
  told `resumed: true`. `ResumedIsTrue` admits *cancelled* for that reason.
- The boot replay lists unexpired rows only, so a row that expired while the
  process was down stays pending for ever (no sleeper is left for it).
- `hotl_bridge.rs:275` recommends a policy with `max_count = 0` for approval of
  every call; the validator (`policy.rs:69`) refuses it.
- Denied calls have usage rows too and count against the window; no row is ever
  pruned. `EnforcerGate` maps *escalate* to *allow*; only `SuspendingHotlGate`
  parks.

Loops:

- A resume during the tail of the pausing driver finds its map entry and arms
  nothing; the row is active and nobody ticks it until a restart. It is the third
  way in `StrandedOnlyBy` (`Overtaken`).
- A cancel between a create's insert and its arm stops nothing; the cancelled
  loop ticks once more. `LateTickBounded` bounds the damage.
- A slow resume arms a driver with the tick count it read before another resume
  (`loops.rs:444`); the loop then ticks past `max_ticks`, though `loops.rs:506` says
  that an exhausted row never fires another tick. It takes two requests on one
  loop; with requests kept apart `BudgetHolds` is a theorem.

Turns:

- The history is loaded after the prompt was stored, and the prompt is appended
  to it again (`turn.rs:169`): the first request of a turn shows it twice.
- A cancel that lands once the fan-out has begun does not keep its calls from
  starting, unless they are parked: those that wait for the client to take their
  announcement, for the gate's answer, or for the client to hear of their
  release, start all the same. `CancelStopsWork` bounds them.
- A client that holds its connection and reads nothing fills the event channel; a
  cancelled turn then waits in a send (`react.rs:761`) and keeps the lock, so its
  latency is not "bounded by the slowest in-flight tool call"
  (`docs/runbooks/operator.md:182`). `LockReleased` assumes clients that read or
  leave.
- An answer with at least `history_window` calls leaves a window of results only;
  all are stripped, and the message that rejects the excess calls with them.
- When the window has dropped the prompt, the fallback stores the reply and the
  audit entry counts none: the second disjunct of `AuditCounts`.
- A closing note of the loop controller stored between a turn's calls and results
  makes a later window that starts at the note keep results without their calls.
  `Split` exempts exactly the turns with a note before what is left of them. An
  earlier, weaker form looked for the note between two rows of the turn in the
  transcript. It was false when the note is deleted after the history was
  loaded; the proof of `PairsIntact` met that case.

Scheduler:

- A job whose cron expression does not parse is stored by the HTTP route, runs at
  every tick and ends every batch (`runner.rs:174`, `364`), though the bound on a
  batch is there so that "a single misconfigured job can't starve the scheduler"
  (`runner.rs:63`). As many enabled reactive jobs as fit in a batch starve the
  scheduled ones, for the query cuts before it drops them. Both are the
  exceptions of `DueJobRuns` (`Starving`).
- A second upsert of a webhook job registers its route twice; a route created at
  run time is lost by a restart (`scheduler_bridge.rs:296` against
  `core/lib.rs:740`).
- Packs upsert their jobs enabled at every boot and undo an operator's pause. The
  command line's pause writes back a whole row (`schedule.rs:258`) and brings a
  deleted job back.
- An event whose job cannot be read is lost (`runner.rs:193`); `EventFires` exempts
  exactly the events consumed by a failed read (`missed`).
- A "run now" request that overlaps the runner's fire writes `next_fire_at` too, so
  a due time may be run twice; `DueTimeRunsOnce` takes it for a write by someone
  else.
- "Run now" is awaited in its HTTP handler (`admin.rs:514`), whose comment says
  that the run completes asynchronously (`admin.rs:499`). A client that disconnects
  between the attempt's result and its audit entry leaves the attempt out of the
  chain, though the code means to audit every attempt (`runner.rs:320`).
  `AttemptsAudited` says that nothing else does, failures and crashes aside.
- A crash leaves rows of runs on `running`; a failed `update_status` leaves an
  attempt without its audit entry (`runner.rs:320`).

Incidents and skills:

- An approval can find no RCA when it races the first analysis. An incident
  dismissed in repair has no repair entry in the audit chain. An alert that fires
  again can be absorbed by a row that ended between the look-up and the bump.
- No backend for proposing skills is installed by the server, and the default of
  five proposals a day is seeded nowhere. When `set_status` fails after the file
  was written, every later approval stops at the file that exists.

## 4. What is proved

The eight `*Proofs` modules prove, for every value of the constants and under the
`ConstantsAssumption` of their module only (unless stated below), every safety
invariant and every action property that a passing run checks, the type
invariants, and the refinements of the three abstract specifications. They also
prove facts that no run lists: `LockCoversTurn`, `SlotIsTrue`, `Manned`,
`NoPhantomDecision` and the two `TerminalIsFinal`.

- **HotL** (`HotlEscalationProofs`). The ids are assumed finite, which the gauge
  needs. None of the invariants is inductive. `Provenance` ties rows and ledger
  to the requests that wrote them; `SlotsFresh` says that a slot in the map has
  not been sent to, so a send cannot be the second; `DownIsEmpty` says that
  nothing in memory survives a crash, so that the replay may start from an empty
  map; `ResumedWaits` carries a resumed verdict from the send to the await. The
  protocol implements `OperatorVerdict`.
- **Budget** (`HotlBudgetProofs`). `WindowKept` is inductive once it is known
  that whoever counts has its own row in for good (`CountedInv`): the last of the
  counts that let calls pass saw the rows of all of them. `BreachInv` and
  `CoverInv` relate the verdict so far to the policies counted so far, from which
  `StrictestWins` follows. The lemmas take steps and not the next-state
  relation, so that the next module can use them.
- **Skills** (`SkillProposalsProofs`). A skill step takes a step of the budget or
  leaves it alone, so the budget's invariant holds in the composition.
  `StageInv`, `DecisionInv` and `FileInv` keep rows, files and trail together.
- **Loops** (`LoopControllerProofs`). One live loop, no stale entry in the map of
  drivers (the converse fails: a leaving driver may remove its successor's), one
  ticking driver, the bound on late ticks, the breaker, finality, and the three
  ways of being stranded hold whatever requests overlap. The argument is
  `Ownership`: a driver is armed only by who just made the row active or at
  boot, a row becomes active only from paused or from nothing, and a paused row
  has no driver that still drives. `Attached`, `NewIsUnknown`, `StoppedIsOver`
  and `BootIsEmpty` carry it through requests, cancels and crashes.

  `CopyIsFresh`, `BudgetHolds` and `CancelStopsDriver` do not hold of all
  behaviours: two requests on *one* loop break each of them (see the findings).
  They are proved of the behaviours in which no two requests are at work on the
  same loop, `Spec /\ []Apart => [](...)`, any number of requests on different
  loops overlapping. `Alone` says what such a request may still rely on at its
  next await: the row it read does not become active under a resume, and stays
  active for an arming one. `Manned` says that a loop has one driver at most, in
  the map unless it was told to stop; `Fresh` and `Budget` follow the counters
  from the row into the copy and back. With `SlotIsTrue` it makes the map of drivers
  exact in these behaviours (`MapExact`). `loop_live`, with its one request,
  satisfies `Apart` in every state.
- **Turns** (`TurnPipelineProofs`). Types and bounds of the counters, the lock
  covers the turn, a turn stores only its own messages, its audit entry counts
  them, a fired token stops all but the calls on their way. The lock does not give
  the third, since the loop controller writes without it: `OwnTail` does. Every
  message that neither is a user message nor is followed by one is the turn's own;
  the window keeps a suffix (`SlideKeepsSuffix`), so it keeps `OwnTail`, and both
  the slice after the prompt and the fallback reply lie in that tail. `Counted`
  links the output being stored to the conversation the entry counts. `Min` and
  `Max` of a set of indices are shown to be members of it from the library's
  theorem that strict inclusion on the subsets of a finite set is well founded.

  `CancelStopsWork` is not inductive: it does not say where the calls are. `FanInv`
  does. The calls at the gate and released from it never exceed the quota of a
  turn whose token has fired (`Within`); a call leaves them for its tool, which
  costs the quota one, or for the ticket or its end, which costs nothing; and no
  call comes to them again, since a parked one is released only while the token
  is quiet and the next fan-out is behind the check. `Counts` keeps the numbers
  natural ones, and none outside a fan-out.
- **Histories** (`TurnHistoryProofs`). What later turns see. `Rows` places the
  rows of a turn in the transcript by an increasing function of its block, prompt
  first: a note or a deletion of another's message moves the places, an append by
  the turn adds one, and the lock lets nobody else append before the turn is
  over. Nothing is induced over the data; the places are built step by step. So a
  history loaded under the lock holds every earlier block, which is
  `FollowUpSees`. As a block pairs its calls with its results (`Outputs`), so
  does the history, notes aside (`Linked`: before a result stand results, back to
  its call or to a note). The window keeps `Linked` because what it keeps does
  not begin with a result, and `PairsIntact` follows.

  The same view of the steps gives the refinement of `ChatSession`. Two facts are
  needed beyond the invariants: an output holds no prompt (`Answering`), and who
  has the lock follows from where the turns are (`LockSame`, `LockTaken`,
  `LockLeft`), so that the lock need not be followed through each action again.
- **Scheduler** (`SchedulerProofs`). A due time goes from the row into the tick's
  copy, from the copy into the runner's fire, and is spent when the row moves
  past it: `RunInv`, `BatchInv` and `SlotInv` say of each of the three that the
  job has not been run for it yet. Everyone else either leaves the three alone or
  disturbs the row, which makes its due time a new one (`Meddle`): one lemma
  covers all their steps. `PauseInv` bounds the fires of a paused job. An attempt
  goes out of account only with a fault, a crash or, for a request, its drop, one
  at a time (`Accounted`).
- **Incidents** (`IncidentPipelineProofs`). Who may move a row out of analysis or
  repair is the request that moved it in, and only it (`HeldInv`, `HolderInv`):
  the conditional update lets one request in, and nothing but a dismissal, which
  is final, takes the row from under it. So a row is repaired once
  (`ExecutedInv`), an agent works alone, a row nobody holds was hurt by an error,
  a disconnect or a crash, and the audit entries tell the end (`TellingInv`). The
  handlers implement `IncidentLifecycle`.

Only model-checked: the liveness properties (`ParkedCallEnds`, `SlotReleased`,
`ActiveLoopEnds`, `LockReleased`, `DueJobRuns`, `EventFires`, `WorkEnds`), since
liveness under fairness is out of this prover's reach; and the three findings,
whose properties are false.

## 5. What is not modelled

- Turn: usage rows, telemetry and titles (nothing reads them back in a turn);
  history compaction (`core/src/lib.rs:566` leaves it off); consult mode and
  coding worktrees, which choose a toolbox and change no state here; what decides
  the ticket of a parked call, which is `HotlEscalation`'s: here it ends some way
  (`TicketEnds`); timestamps of messages (rows are read back by
  `created_at`, `message.rs:127`, so a clock that steps back could reorder them);
  the fork of a session in the middle of a turn (`sessions.rs:426`).
- Loops: pacing of the sleep (any length), the text of the notes, and the token
  query, which is reduced to whether the session has overspent.
- Scheduler: the file-watch source, the compiler of cron expressions, what an
  executor does; the server installs neither the checker of proactive jobs nor
  the budget ledger, the model has the ledger as the code would use it.
- LLM breakers and the runtime's resilience layer are not wired into the server
  at this commit.
- The components marked `not_modelled` in `PROJECT.json`, each with its reason:
  those in the plan below, and those that are data, presentation or I/O.

## 6. Plan

Modules, in this order:

1. A turn over a parked call: `TurnPipeline` over `HotlEscalation`, to state that
   a session locked by a parked call is released by the escalation's deadline.
2. `AuditChain`: appenders over one head, verification, pruning. Abstract: an
   append-only log. Theorem: a chain that verifies is a prefix of what was
   appended, hashes taken as injective.
3. `McpSupervisor`: restart back-off, pending replies.
4. `TeamBudget`: the orchestrator's shared budget, convergence of review rounds;
   composed with `TurnPipeline`'s team turns.
5. `LoopPacing`: the clamps and back-off as functions over bounded inputs, checked
   against a reference definition.
6. Session fork and compaction as extensions of `TurnPipeline`.
7. `ProviderBreaker` with the router, the watch runner's cooldowns.

Theorems: an abstract budget that `HotlBudget` implements, an abstract schedule
for `Scheduler`, and what each abstract specification entails (in `ChatSession`,
that the rows of two turns never alternate).

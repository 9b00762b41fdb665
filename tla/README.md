# TLA+ verification of the durable-agents demo

The demo credits bank accounts $1 at a time through LLM-driven agents, while pods,
zones, network calls and the server itself are made to fail. Its promise: *every
account still finishes at exactly its target, with every transaction and none lost or
doubled* (`README.md:3`, `README.md:39`). This directory models the code that is meant
to keep the promise, checks it with TLC and proves parts of it with TLAPS.

All paths are relative to the repository (`src/`). `PROJECT.json` maps each definition
to the lines it models.

## 1. The system

| Component | Code | State | Operations |
|---|---|---|---|
| Orchestrator | `services/mcp/mcp_server/orchestrator.py` | queues per customer, claims in flight with owner and age, claim per requester, reported ids, run id, stop flag | `next_task`, `report_done`, `release_for_retry`, `sweep`, `reconcile`, `reset`, `bootstrap`, `set_stopped`, `status` |
| Ledger | `db.py`, `local/init.sql` | `execution_runs`, `accounts`, `transactions` | `credit_account` (idempotent on `(run, tx_id)`), `start_execution_run`, `get_balance`, `get_transaction_ids` |
| MCP tools | `server.py`, `chaos.py` | calls in progress, armed drops and latency | `credit_next`, `list_customers`, `get_customer`, `/chaos/*`, `/orch/*` |
| Replenisher | `replenisher.py` | instance ids, the background loop | `start`, `stop`, `_loop`, `_terminate_all`, `_schedule_one` |
| Agents | `services/agent-langgraph`, `agent-dapr-agents`, `agent-plain` | a workflow instance per account | call `credit_next` until it answers `done`, replayed by Dapr (not in `agent-plain`) |
| Transaction feed | `db.py` `listen_transactions`, `server.py` `_tx_queue`, `TxBroadcaster` | notification queue, websocket clients | NOTIFY -> queue -> broadcast |
| Pod chaos, slot tracker | `pod_chaos.py`, `slot_tracker.py` | pods of the cluster; which slots a pod was seen to serve | `kill_random`, `kill_zone`, `kill_named`, `slots_for_pod` |
| UI telemetry | `ui-prototype/src/telemetry.jsx` | balances, slots and counters per engine | polls `/orch/status` and `/orch/customers`, applies pushed transactions, start/stop/reset buttons |

How they interact: an agent calls `credit_next(requester, customer_id)`. The tool asks the
orchestrator for a task, reads the balance, credits the account in one database
transaction and reports the task done. The replenisher inserts a run in the database,
rebuilds the queues, schedules one instance per account with the agents and then watches
snapshots: it sweeps claims that are too old, and once nothing is queued or in flight it
compares the reported ids with the database (`reconcile`). The server is one asyncio
process: control changes hands only at an `await` that suspends, i.e. on the database, on
a sleep, or on HTTP. The orchestrator's lock is never held across such a point, so it is
never contended.

What is hard about it: calls suspended on the database while sweeps, resets, stops and
other calls move on; `reset` in two halves (database first, memory after an `await`);
decisions taken from snapshots and balances read before an `await`; requests that fail or
are cancelled after their commit; replayed calls; restarts that forget everything but the
database; a background loop that can be cancelled or replaced at any suspension.
`PROJECT.json` lists these as *hazards*, each with its line and the properties aimed at it.

## 2. Modules

```
CreditDomain                customers, runs, credits
   |          \
Orchestrator   Ledger       one action per locked section / per database transaction
   \          /
  CreditService             credit_next step by step, and the chaos controls
        |
   RunControl               run start, stop, restart, the replenisher's loop; Spec, DrainedSpec
        |         \
        |          ExactlyOnce    the promise, as an abstract specification
    AgentRuns                 the agents' workflow instances, with fairness
  MCRunControl, MCAgentRuns  TLC instances

Ledger <- TxFeed <- Telemetry     the push feed and what a browser shows
   MCTxFeed, MCTelemetry          TLC instances
Fleet <- Heatmap                  pods and kills; what they do to the lights of the UI
Scheduling                        overlapping starts and stops against the agents' routes
   MCHeatmap, MCScheduling        TLC instances

OrchestratorProofs <- RunControlProofs <- DrainedProofs <- AgentProofs     TLAPS proofs
TxFeedProofs <- TelemetryProofs      HeatmapProofs      SchedulingProofs
```

**Orchestrator** keeps `State` field by field. `next_task` is `NextTaskClaim` (the replay
and `done` answers change nothing; `CreditService` uses `Replays` and `Exhausted` for
them). `release_for_retry` and `sweep` share `Release`, which returns the tasks to the
front of their queues in any order (the code iterates over a Python dict). `reconcile` is
three steps around its database read, with its locals in `recon`. Claim ages are
abstracted: a sweep may find any set of claims old enough. `OrchNext` lets callers do
anything in any order, `release_for_retry` included, which nothing in the repository
calls; the proofs are about it, and the runs check the module's properties under `Spec`
and `DrainedSpec`.

**Ledger** keeps the three tables as far as any query reads them. `CreditAccount` is the
transaction of `credit_account`: insert-if-absent as the gate, then the capped update,
which like the code does not look at the run. `StartExecutionRun` also resets every
balance.

**CreditService** is the tool. A call goes `query -> decide -> commit -> report`, one
step per stretch of code between two suspensions; it may fail or be cancelled at each of
them, before or after the commit. A requester may start a call at any time, which covers
the workflow's loop and a replay that runs beside the original call.

**RunControl** adds the two halves of a reset, the loop, stop and process restarts. `Spec`
lets resets overtake each other and any call in progress, as the program does with
`/orch/reset` and spawns. It has one loop with one reconciliation, the one that
`Replenisher._task` names; two starts that overlap and leave a loop each are in
Scheduling. `DrainedSpec` restricts `Spec` to the order in which replenisher and UI mean
to use it: a run is replaced when no `credit_next` is in progress, and a bare
`/orch/reset` comes after the loop was stopped or had finished.

**ExactlyOnce** is what an outsider sees: a set of applied credits and the balances, one
credit at a time, each at most once per run.

**AgentRuns** puts the agents' instances on top: the graph of two nodes (`Decide`, then
`Attempt`, `TellDone` or `TakeAnswer`), its step limit, and what a dying pod, a broken
call or a restart of the server leaves of an instance (`Interrupted`): a durable one is
at its node again, a plain one (`agent-plain`) is gone. Which of the three agents is
deployed is chosen at the start (`agent`). They differ in that, in their limit
(`StepLimit`; `agent-plain` has the limit of its library, `PlainSteps`, which the
repository does not set), in whether a terminate reaches them, and in the name they claim
under: `agent-dapr-agents` names the account, the others the instance (`NameOf`).

Runs may be spawned any number of times, also over instances that still run. `start()`
first asks them to terminate (`Respawn`, `leaving`), which takes effect late or never
(`Terminated`), and then replaces the run in two halves (`Spawn`). Every instance belongs
to the run that scheduled it (`RunOf`), one per account and run. The history `overlapped`
notes that a run was replaced before the previous one had come to rest (`AtRest`): with a
call in progress, an instance running, or another start or reset half done. From then on
stragglers may do what the run `readme_claim` shows, and the properties and theorems that
need it say `~overlapped` in their own text. The workflow engine is not in the repository;
the head of the module says what is assumed of it and where the repository says so.

**TxFeed** extends Ledger: a commit notifies the listener's connection, the event loop
moves the payload to the bounded queue or loses it, the drain task broadcasts one payload
at a time to the clients of a snapshot and is suspended in each send. A send ends with the
client's taking the frame or with the end of its connection; the frames of the chaos
panel, which other handlers broadcast meanwhile, share nothing with these but the client
set. The histories `log`, `got` and `missed` serve the properties only.

**Telemetry** extends TxFeed with one browser: balances shown, expected run, the poll with
its two reads that matter, pause and reconnection. The run id it compares frames with is
that of the server (`serverRun`), which `reset()` installs some time after the database
created the run, two overlapping resets in either order (`installing`). `shownIn` and the run in `readShown`
are histories as well.

**Fleet** is `pod_chaos.py` over a Deployment that replaces pods; a new pod waits for its
node, then for its containers, and then runs. The Kubernetes client
blocks the event loop, so that a kill is one step for the server, but not for the cluster:
any delete of a kill may fail because its pod is gone, or take effect unanswered.

**Heatmap** adds the slot tracker, the frames of the kill endpoints, and the lights of one
browser with their timers (`restartingUntil`). An entry of the tracker older than 60
seconds is no entry, since every query skips it. A frame of a kill arrives with the kill
or is lost with the connection; frames of credits are pending for any time (`pushed`), so
that a credit from before a kill can relight a slot after it. `announced` is a history.

**Scheduling** is `start()` and `stop()` request by request, for each of the three agents
(`kind`): the swap of the id list, one step per id to terminate (the pods are asked one
after the other; `Ends` covers that one of them acts earlier), the reset, one step per
schedule request and per answer, the creation of the loop. A schedule request may
fail, be served, or be served with the answer late or lost. What instances credit is left
to AgentRuns; here they differ in where they live and in who knows of them. A durable
instance goes on for a while when terminated, as the docstring of `replenisher.py` says of
the engine; a plain one is cancelled where its pod's registry has it, and the registry
loses it to a purge or to a second task of the same id. `agent-dapr-agents` has no
terminate route at all. Start's guard against the previous run, and all the id
bookkeeping, are steps of RunControl's `ResetLedger`, `InstallRun` and `StartLoop` in more
detail. The flags of Exec and `asked`, `overlapped` are histories, except `known`.

A definition marked `Fault:` is a plausible mistake in the definition below it; no
specification uses it. Substituting it makes the property listed under "mutants" fail.

## 3. What TLC checks

| Run | Specification | Properties | States |
|---|---|---|---|
| `overlap` | `Spec`, 2 customers x 1 credit, 3 requesters (2 on one account), 2 calls, 2 runs, 1 drop | `TypeOK`, `NoTaskLost`, `NoCreditLost`, `CreditsOwnAccount`, `StopDrains` | 881k |
| `drained` | `DrainedSpec`, 1 customer x 2 credits, 2 requesters, 2 calls, 2 runs, 1 drop | `ExactBalance`, `NoGhosts`, `NoDuplicateTask`, `ReplayFindsClaim`, `DoneMeansComplete`, `ImplementsExactlyOnce` | 306k |
| `agents` | `FairAgentSpec`, 1 account x 3 credits, each of the three agents, 2 spawned runs with an instance each, 2 calls, 10 steps or 4 rounds, 1 fault | `AgentTypeOK`, `ClosingMeansComplete`, `DurableRunsFinish`, `LoopEnds` | 350k |
| `feed` | `FairFeedSpec`, 2 clients, 1 customer x 2 credits, 2 runs, queue of 2 | `FeedTypeOK`, `InCommitOrder`, `GapsWereMissed`, `FramesArrive` | 196k |
| `telemetry` | `FairTelemetrySpec`, 1 browser, 1 customer x 2 credits, 3 runs, 2 commits, queue of 1, 1 failed poll | `TelemetryTypeOK`, `ShowsTruth` | 2.24M |
| `heatmap` | `HeatmapSpec`, 1 slot, 3 pod names, 2 replicas, 2 zones, 2 kills, 1 failed poll | `HeatmapTypeOK`, `NoTheater`, `Settles` | 468k |
| `scheduling` | `FairSchedulingSpec`, 1 account, 2 pods, 3 requests, 2 seconds, 1 fault | `SchedulingTypeOK`, `NoneForgotten`, `OnePerAccount`, `OneWatcher`, `StopDrainsAll` | 1.74M |
| `stop_wins` | `SchedulingSpec`, 2 accounts, 2 requests, no faults | `StopWins` is **violated** | - |
| `headroom` | `FairAgentSpec`, 1 account x 4 credits, 1 spawned run, 16 steps or 6 rounds, 2 faults | `HeadroomAlike` is **violated** | - |
| `reconnects` | `FairFeedSpec`, bounds of `feed` | `Reconnects` is **violated** | - |
| `stragglers` | `FairTelemetrySpec`, 2 credits, 2 runs, queue of 1, 1 failed poll | `StragglersIgnored` is **violated** | - |
| `readme_claim` | `Spec`, bounds of `drained`, no drops | `TargetMeansAllCredits` is **violated** | - |

Why the bounds are enough to be interesting: two credits in one queue distinguish its
ends and let one credit be reported while the other is in flight; two calls and two
instances on the same account give the replay that races its original, the swept claim
that is claimed again, and the straggler of an earlier run; two runs give a reset under
calls in progress and its two halves. The bounds are `MaxRun` (`execution_runs.id`),
`Calls` (calls in progress at a time) and `MaxDrops` (armed drops); no other counter
grows. `TypeOK` and the properties are symmetric in calls and requesters.

In AgentRuns the failures are bounded too, by `MaxFaults`: pods dying, calls failing,
drops, sweeps of a claim that is still served, requests that fail, restarts of the
server. `MaxSteps` (node executions) is the code's `max_steps`, `MaxIterations` its
`MAX_ITERATIONS` of two nodes each. The limits do not cover everything that may fail, and
the properties say what they cover: a claim takes two node executions, a restart of the
server forgets what was reported and makes an instance claim its credits again, any other
fault makes it claim one of them again. That is `StepsNeeded`; beyond it (`StepsNeeded >
StepLimit`) nothing is promised. For the repository's 100 credits it means that 400 steps
cover one restart and another fault but not two restarts, and 150 iterations fifty faults
but no restart. In `agents` the limits are 10 steps and 4 rounds for 3 credits, so that the first
covers a restart and the second a sweep but no restart. Before the bounds of the run were
settled, `DurableRunsFinish` was also checked with 4 credits, 16 steps or 6 rounds and one
spawn for three faults, any of them restarts (815k states), where the limit of either agent
is met and exceeded. `CONSTRAINT NotOverlapped` stops at states in which a run has been
replaced too early: past them the liveness properties and `ClosingMeansComplete` hold by
their own premise, and the type invariant is proved. One account is enough because
instances of different accounts share only the loop and the stop flag.

The feed needs few frames: two in sequence to be reordered, a third for a gap, two clients
for one that is passed over or fails while the other is served, and a queue of two
payloads has an order and overflows like one of 10,000. The browser needs two credits:
a frame that a poll has already counted then shows, since it does not take the account to
its target, and a capped one is told from an uncapped. Three runs let the answers of two
resets overtake each other. `CONSTRAINT FewCommits` stops at two commits, one once there
are three runs, and `MaxPollFaults` bounds the polls that fail.

The heatmap's slots share nothing but the pods, so one is enough for `NoTheater` and
`Settles`; a third pod name is a replacement, and a third listed pod does not occur with
two replicas. `MaxKills` bounds
the kill requests: two darken a slot again while its timer runs. In Scheduling three
requests (`MaxRequests`) are a run, its successor and a stop, in any order and overlap;
two seconds (`MaxClock`) give both ids that collide and ids that do not; `MaxFaults`
bounds deaths of pods, triggers, purges and restarts together. The system may really stop
there (no request in progress, none to come), so its runs do not ask for deadlocks.
With two accounts and two requests (a start that schedules only one of them, a stop
between the two) the same properties hold on 2.16M states; that instance takes over three
minutes and is not one of the runs.

The runs of AgentRuns, of the feed, of the telemetry, of the heatmap and of the scheduling
assume fairness, and only weak
fairness of what a scheduler must do. AgentRuns: the engine executes a node that is ready
(`README.md:27`: an activity of a lost pod is handed to another; the comment at `server.py:492`: a
failed one is retried), uvicorn serves a call it accepted, `start()` and the loop's
coroutine are resumed. TxFeed: the listener connects, callbacks and the drain task run, a
send comes to an end. Telemetry: the poll's timer goes off and its requests are answered;
nothing at all is assumed of the feed below it. Heatmap: time passes, the poll's timer
goes off and `/agent/status` is answered. Scheduling: a running instance calls
`credit_next` again as long as there are pods (that is how the flag reaches it); not even
that requests are answered. Each of these is continuously enabled
until it happens: there is one asyncio loop and the lock is never held across a
suspension, not even in a broadcast. Nothing is assumed of failures, stops, kills, commits that
answer to nobody, or the user. `DurableRunsFinish` therefore says that an account is
finished once the failures stop, if the step limit covers them; for an agent without durability only
`ClosingMeansComplete` remains: it never believes a partial account to be complete.

`stop_wins`: `stop()` cancels the loop's task if there is one and sets the flag
(`replenisher.py:114-122`); `start()` clears the flag at its reset and creates the loop
only after the last `_schedule_one` has returned (line 107). A stop in between is answered,
and then undone or left with a loop that polls a stopped run for ever, against the
docstring at lines 12-19. This is why `OnePerAccount`, `OneWatcher` and `StopDrainsAll`
speak of requests that do not overlap; `NoneForgotten` holds for all.

`headroom`: the comment at `agent-dapr-agents/agent_worker/agent.py:30-31` calls 150
iterations a headroom like that of `max_steps=400`, but they are one and a half passes over
an account, not two. After a restart of the server the whole account is claimed again, and
an instance interrupted late ends before its last credits (`README.md:3`: "every account
still finishes"). TLC finds this with one restart as the only fault; with
`agent-langgraph` alone the property holds on the same bounds (122k states).

A pod that is alone is not spared by a random kill (`max(1, ...)` at `pod_chaos.py:209`),
so "Always leave at least one survivor" (line 208) holds of two candidates or more. It is
the bound of one expression, in any state, and no run is spent on it.

`reconnects`: after a drop the listener sits in `stop_event.wait()` (`db.py:142`), so only
a restart brings the feed back, against the docstring at `db.py:129-130`. The UI survives
that: `ShowsTruth` holds for a feed that delivers nothing.

`stragglers`: the run filter of pushed frames compares with the run id of the last poll,
but that poll's balances come from another request. With a reset in between, the old
run's frames are added to the new balances until the next poll.

`readme_claim` shows a disagreement between the code and `README.md:3`. `credit_account`
raises the balance whatever the run of the transaction is (`db.py:106-116`) and
`start_execution_run` resets the balances without waiting for calls in progress, so a
credit of the previous run that commits after the reset counts in the new run. The
account then reaches its target with transactions of the run missing, because later
credits are skipped as "already at target" (`server.py:196-204`). `drained` shows that
without such an overlap the promise holds exactly.

## 4. What is proved

All theorems hold for every value of the constants: any number of customers, credits,
runs, calls, instances, clients, pods, requests and faults. They rest on the named
assumptions of the modules, which TLC evaluates on its runs: `SizesAssumption` (finite
set of customers, positive sizes), `TargetAssumption` (the target is an integer),
`ServiceAssumption` (each requester is bound to a customer), `InstanceAssumption` (no two
instances of a run are bound to the same account, `replenisher.py:93-104`; AgentRuns only),
`NoneAssumption` and `NoIdAssumption` (`None` is not data), and for the other modules
`AgentAssumption`, `FeedAssumption`, `TelemetryAssumption`, `FleetAssumption`,
`HeatmapAssumption` and `SchedulingAssumption`, which say that bounds are natural numbers,
finite sets finite, and stand-ins for "nothing" no data. A theorem about a specification holds for the
one with fairness as well, which is the same with a conjunct more. Each proof goes along an
inductive invariant, which TLC checked on the bounds of the run before it was proved.

| Module | Specification | Theorems |
|---|---|---|
| OrchestratorProofs | `OrchSpec` | `OrchTypeOK`, `NoTaskLost`, `ReplayFindsClaim` |
| RunControlProofs | `Spec` | `TypeOK`, `NoCreditLost`, `CreditsOwnAccount`, `StopDrains` |
| DrainedProofs | `DrainedSpec` | `ExactBalance`, `NoGhosts`, `NoDuplicateTask`, `DoneMeansComplete`, `TargetMeansAllCredits`; it implements `ExactlyOnce` and `Spec` |
| AgentProofs | `AgentSpec` | `AgentTypeOK`, `ClosingMeansComplete`; it implements `Spec`; until a run is replaced before it has come to rest `TargetMeansAllCredits` and `ExactBalance`; if none ever is, it implements `DrainedSpec` and `ExactlyOnce` |
| TxFeedProofs | `FeedSpec` | `FeedTypeOK`, `InCommitOrder`, `GapsWereMissed` |
| TelemetryProofs | `TelemetrySpec` | `TelemetryTypeOK`; it implements `FeedSpec` |
| HeatmapProofs | `HeatmapSpec` | `HeatmapTypeOK`, `NoTheater` |
| SchedulingProofs | `SchedulingSpec` | `SchedulingTypeOK`, `NoneForgotten`, `OnePerAccount`, `OneWatcher` |

**Orchestrator.** The inductive invariant `OrchInv` adds `QueuesOwnTasks`: each queue
holds only its own customer's credits. It is needed because a claim takes the head of the
queue of the caller's customer, and `NoTaskLost` looks for a credit in the queue of *its*
customer. Most of the work is in `ReturnToFrontKeepsTasks` and `RequeueKeepsTasks`: what a
release or a requeue leaves in a queue is what was there plus the returned tasks, in
whatever order.

**Spec.** `RunInv` has one part per component. Beyond types and `OrchInv` it says that no
run is mentioned in a queue, a claim, a call, a reconciliation or among the pending resets
before the database has created it (so a new run starts with no committed credit,
`ResetLedgerKeeps`), and that requesters are only bound to credits of their own customer
(`BindingsOwn`, for `CreditsOwnAccount` on a replay). `NoCreditLost` survives a late commit
of an earlier run because such a commit can only raise the balance, or cap it at the
target, which is never less than the start plus the committed credits.

**DrainedSpec.** `DrainedInv` adds to `RunInv` that memory and database agree (`Agrees`):
all of the queues, claims, calls and the reconciliation are about the installed run, which
is the database's latest except between the two halves of a reset, when nothing is in
progress; a call about to report finds its credit in the database, and so does one that
read the account at its target, which by `ExactBalance` means that every credit of it is
there (`TargetMeansCommitted`, the step that Spec lacks: there the target may be reached
with a straggler's dollar); the loop's snapshot, once it saw nothing queued and nothing in
flight, is still right when the count and the reconciliation answer, because what was
committed stays committed (`IdleMeansComplete`). In the refinement only two steps are
visible: the commit of a credit that is not there yet, and the first half of a reset.
`TargetIsEarned` is the counterpart of the run `readme_claim`: the claim of `README.md:3`
fails for `Spec` and is a theorem of `DrainedSpec`.

**AgentSpec.** Every step of the agents, of the faults around them and of the loop is a
step of `Spec` or leaves the server alone, with runs spawned whenever one likes
(`AgentsDriveTheServer`): what holds of `Spec` holds over stragglers too. The rest needs a
premise, because the run `readme_claim` refutes it without: `~overlapped`, that no run was
replaced before the previous one had come to rest. It is about the moment of a reset only.
That a run which starts at rest stays alone until it is replaced has to be shown
(`InStep`): between the halves of a reset no instance runs and no start is scheduling;
whatever runs belongs to the installed run, and so does every claim, whatever was swept,
restarted or retried in between. With it `AgentsStayDrained`, `AgentsCreditExactlyOnce` and
`AgentsEarnTheTarget` cover any number of runs one after the other.
`ClosingMeansComplete` then follows: an empty queue without a replay means that no credit
of the account is in flight, since its claim would belong to this very instance
(`ReplayFindsClaim`, `BindingsOwn`, `ClaimsCurrent`, `InstanceAssumption`); hence all are
reported (`NoTaskLost`) and committed (`NoGhosts`). That an instance still running has
steps left (`InstancesOK`) is only needed for the types.

**FeedSpec.** `FeedInv` orders the frames on their way: wire behind queue behind the
broadcast, all in the order of their commits (`InLine`), behind what a connected client has
already got, and what was committed after a frame on its way is on its way as well or was
missed (`NothingLost`). It speaks of positions in the log, which only grows at its end.

**TelemetrySpec.** The browser is one more client (`BrowserIsAClient`), so that the frames
it adds up come in order, once per connection, and lack only what the feed missed; it
never counts a frame that its connection did not carry. No account is shown above its
target: the database's balances are not, and an added frame is capped.

**HeatmapSpec.** `NoTheater` is inductive with the types: a deleted pod does not come
back, and whatever gives a slot another owner takes it out of the announced ones.

**SchedulingSpec.** `NoneForgotten` is inductive with the types for any overlap. For the
other two, `Alone` tells what a single handler has left of the run it replaces: while it
terminates, no id but those it took along; after the reset, only those it scheduled
itself; and no loop before it creates one.

Only model-checked: liveness, which is outside TLAPS (`DurableRunsFinish`, `LoopEnds`,
`FramesArrive`, `ShowsTruth`, `Settles`, `StopDrainsAll`). Every invariant and every action
property of the passing runs is proved.

## 5. Not modelled

Each run may choose its customers, credits and target (`start()`, `/orch/reset`); here they
are constants, the same for every run of a behaviour. A request to terminate goes to one
pod after the other; here the requests for an id are one step. Latencies (a call may take
arbitrarily long anyway), log ring and counters, names, tiers and timestamps, rendering of
the UI, the LLM (the agents' decision is "call the tool again unless it said done"),
deployment files. Of the chaos endpoints and the UI also: the pulse
of an impacted zone, the labels of the kill buttons and the lists of nodes and node pools,
which are displayed and decide nothing. Of the agents: the wait for the Dapr sidecar
before serving, the status routes, and a purge of a durable instance, whose effect on a
running workflow is the engine's. A frame of a kill that a slow client delays past a later
credit is not told from one that comes at once: the timers treat both alike.

## 6. Plan

1. *(done)* Orchestrator, ledger, tool, run control; `ExactlyOnce`.
2. *(done)* The workflow instances of the agents (`AgentRuns`): step limits, replays, what
   remains of a run after a kill; liveness of a run under the fairness that the durable
   workflow engine gives, and its absence for `agent-plain`.
3. *(done)* The replenisher's scheduling half (`Scheduling`): overlapping `start`/`stop`,
   instances scheduled or terminated partially.
4. *(done)* The transaction feed (`TxFeed`): notifications, the bounded queue, loss of the LISTEN connection.
5. *(done)* Pod chaos with the slot tracker (`Fleet`, `Heatmap`): which slots a kill is said
   to hit.
6. *(done)* The UI's merge of polled and pushed data: balances (`Telemetry`), and the lights
   that a kill darkens and a frame or a timer relights (`Heatmap`).
7. *(done)* Proofs for TxFeed, Telemetry, Heatmap and Scheduling: all their invariants.
8. *(done)* Proofs for `DrainedSpec` and `AgentSpec`: exact balances, the refinement of
   `ExactlyOnce`, and what an instance may conclude.
9. Lemmas for the liveness properties as far as they are safety: that the step budget of
   an instance covers its account (`DurableRunsFinish` needs it), and that the loop sees an
   idle orchestrator once no instance is left.

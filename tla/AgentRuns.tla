------------------------------ MODULE AgentRuns ------------------------------
(***************************************************************************)
(* The agents' workflow instances on top of the server: the two-node graph *)
(* of services/agent-*/agent_worker (decide, then call credit_next, until  *)
(* it answers done), one instance per account and spawned run.  A run may  *)
(* be spawned at any time, also over instances of the previous one that go *)
(* on for a while or for good (replenisher.py:12-19, 70-112).              *)
(*                                                                         *)
(* The engine below the graph is not in the repository.  What is assumed   *)
(* of it is what the repository says: with Diagrid an unfinished activity  *)
(* is handed to a surviving pod (README.md:27) and a failed one is retried *)
(* (the comment at server.py:492), while a node that finished is not       *)
(* executed again; without it the instance is an asyncio task that ends    *)
(* with its pod or its first exception (agent-plain/agent_worker/main.py). *)
(*                                                                         *)
(* Faults are spent from a budget, so that what must happen once they are  *)
(* over can be stated as a liveness property.                              *)
(***************************************************************************)
EXTENDS RunControl

CONSTANTS RunOf,         \* the run an instance is scheduled for
          MaxSteps,      \* max_steps of agent-langgraph: node executions
          MaxIterations, \* of agent-dapr-agents: rounds of both nodes
          PlainSteps,    \* of agent-plain: the limit of its library
          MaxFaults      \* bound on failures, restarts of the server included

ASSUME AgentAssumption ==
    /\ MaxSteps \in Nat \ {0} /\ MaxIterations \in Nat \ {0}
    /\ PlainSteps \in Nat \ {0}
    /\ MaxFaults \in Nat
    /\ None \notin Calls

\* start() schedules one instance per account (replenisher.py:93-104).
ASSUME InstanceAssumption ==
    /\ RunOf \in [Requesters -> Runs]
    /\ \A q, r \in Requesters : BoundTo[q] = BoundTo[r] /\ RunOf[q] = RunOf[r] => q = r

VARIABLES
    agent,      \* the one of the three that is deployed
    inst,       \* per instance: the node it is at, its call, its step count
    leaving,    \* instances that start() or stop() have asked to terminate
    overlapped, \* history: a run was replaced before it had come to rest
    faults,     \* failures so far
    restarts    \* restarts of the server among them

spawnVars == <<agent, leaving, overlapped>>
agentVars == <<spawnVars, inst, faults, restarts>>
allVars == <<vars, agentVars>>

Agents == {"langgraph", "dapr-agents", "plain"}
Durable == agent # "plain"

\* A round of agent-dapr-agents is a decision and the call it asks for.
StepLimit ==
    CASE agent = "langgraph"   -> MaxSteps
      [] agent = "dapr-agents" -> 2 * MaxIterations
      [] agent = "plain"       -> PlainSteps

\* The `requester` it passes: agent-dapr-agents names the account only.
NameOf(r) ==
    IF agent = "dapr-agents" THEN CHOOSE q \in Requesters : BoundTo[q] = BoundTo[r] ELSE r

Running == {"agent", "closing", "tools", "waiting", "answered"}
Over == {"absent", "ended", "exhausted", "lost"}

Scheduled == {r \in Requesters : inst[r].at # "absent"}

\* Nothing is left of the previous run but its rows.
AtRest ==
    /\ NoCalls
    /\ pending = {}
    /\ loop # "starting"
    /\ \A r \in Requesters : inst[r].at \in Over

AgentTypeOK ==
    /\ TypeOK
    /\ agent \in Agents
    /\ inst \in [Requesters -> [at : Running \cup Over, on : Calls \cup {None},
                                steps : 0..StepLimit]]
    /\ \A r \in Requesters : (inst[r].on # None) <=> (inst[r].at = "waiting")
    /\ leaving \subseteq Scheduled /\ overlapped \in BOOLEAN
    /\ faults \in 0..MaxFaults /\ restarts \in 0..faults

AgentInit ==
    /\ Init
    /\ agent \in Agents
    /\ inst = [r \in Requesters |-> [at |-> "absent", on |-> None, steps |-> 0]]
    /\ leaving = {} /\ overlapped = FALSE
    /\ faults = 0 /\ restarts = 0

Fault == faults < MaxFaults /\ faults' = faults + 1
NoFault == UNCHANGED faults

-----------------------------------------------------------------------------
(* The graph.                                                              *)

\* Fault: a budget of one step per credit, as if a node did both.
StepHalfBudget(r, next) ==
    inst' = [inst EXCEPT ![r] =
        [at    |-> IF 2 * (@.steps + 1) >= StepLimit /\ next # "ended"
                   THEN "exhausted" ELSE next,
         on    |-> None,
         steps |-> @.steps + 1]]

\* A node has finished; past the step limit no other node is entered.
Step(r, next) ==
    inst' = [inst EXCEPT ![r] =
        [at    |-> IF @.steps + 1 = StepLimit /\ next # "ended"
                   THEN "exhausted" ELSE next,
         on    |-> None,
         steps |-> @.steps + 1]]

\* The agent node: the stub LLM looks at the last result only.
Decide(r) ==
    /\ \/ inst[r].at = "agent" /\ Step(r, "tools")
       \/ inst[r].at = "closing" /\ Step(r, "ended")
    /\ UNCHANGED <<vars, spawnVars, faults, restarts>>

\* The tools node: an attempt at credit_next that gets a task.
Attempt(r, k) ==
    /\ inst[r].at = "tools"
    /\ ClaimCall(k, NameOf(r)) \/ ReplayCall(k, NameOf(r))
    /\ inst' = [inst EXCEPT ![r].at = "waiting", ![r].on = k]
    /\ UNCHANGED <<controlVars, spawnVars, faults, restarts>>

\* Fault: an empty queue is taken for a finished account.
TellDoneUnlooked(r) ==
    /\ inst[r].at = "tools"
    /\ Exhausted(BoundTo[r])
    /\ Step(r, "closing")
    /\ UNCHANGED <<vars, spawnVars, faults, restarts>>

\* An attempt that is answered {done: true}.
TellDone(r) ==
    /\ inst[r].at = "tools"
    /\ ~Replays(NameOf(r))
    /\ Exhausted(BoundTo[r])
    /\ Step(r, "closing")
    /\ UNCHANGED <<vars, spawnVars, faults, restarts>>

\* The answer of a finished call reaches the node.
TakeAnswer(r) ==
    /\ inst[r].at = "answered"
    /\ Step(r, "agent")
    /\ UNCHANGED <<vars, spawnVars, faults, restarts>>

-----------------------------------------------------------------------------
(* The server's side of the calls.  A call whose instance was moved to     *)
(* another pod goes on without anyone waiting for it.                      *)

Waiters(k) == {r \in Requesters : inst[r].on = k}

\* Fault: the answer to the interrupted call is still awaited.
InterruptedStillWaiting(R) ==
    [r \in Requesters |->
        IF r \in R THEN [inst[r] EXCEPT !.at = "tools"] ELSE inst[r]]

\* Fault: no interrupted instance is resumed.
InterruptedForGood(R) ==
    [r \in Requesters |->
        IF r \in R THEN [inst[r] EXCEPT !.at = "lost", !.on = None] ELSE inst[r]]

\* What a lost pod, a lost answer or an exception leaves of an instance.
AfterBreak(x) ==
    [x EXCEPT !.at = CASE ~Durable -> "lost"
                       [] @ \in {"waiting", "answered"} -> "tools"
                       [] OTHER -> @,
              !.on = None]

Interrupted(R) ==
    [r \in Requesters |-> IF r \in R THEN AfterBreak(inst[r]) ELSE inst[r]]

ServeCall(k) ==
    \/ /\ ReadBalance(k) \/ SendCredit(k) \/ CommitCredit(k)
       /\ UNCHANGED <<controlVars, agentVars>>
    \/ /\ SkipCall(k) \/ ReportCredit(k)
       /\ inst' = [r \in Requesters |->
                      IF r \in Waiters(k)
                      THEN [inst[r] EXCEPT !.at = "answered", !.on = None]
                      ELSE inst[r]]
       /\ UNCHANGED <<controlVars, spawnVars, faults, restarts>>
    \/ /\ DropCall(k)
       /\ inst' = Interrupted(Waiters(k))
       /\ UNCHANGED <<controlVars, spawnVars, faults, restarts>>

BreakCall(k) ==
    /\ FailCall(k)
    /\ IF Waiters(k) = {} THEN NoFault ELSE Fault
    /\ inst' = Interrupted(Waiters(k))
    /\ UNCHANGED <<controlVars, spawnVars, restarts>>

-----------------------------------------------------------------------------
(* The run around the instances.                                           *)

\* Both start() and stop() ask every instance there is to terminate.
TellAll == leaving' = leaving \cup Scheduled

\* start() before its reset.
Respawn ==
    /\ lastRun < MaxRun
    /\ TellAll
    /\ UNCHANGED <<vars, agent, inst, overlapped, faults, restarts>>

\* The two halves of its reset.
Spawn ==
    \/ /\ Scheduled \subseteq leaving
       /\ ResetLedger
       /\ overlapped' = (overlapped \/ ~AtRest)
       /\ UNCHANGED <<agent, inst, leaving, faults, restarts>>
    \/ \E run \in Runs : InstallRun(run, TRUE) /\ UNCHANGED agentVars

\* start() schedules the instance of each account, or fails to.
Schedule(r) ==
    /\ loop = "starting" /\ RunOf[r] = runId
    /\ inst[r].at = "absent"
    /\ \/ NoFault /\ inst' = [inst EXCEPT ![r].at = "agent"]
       \/ Fault /\ inst' = [inst EXCEPT ![r].at = "lost"]
    /\ UNCHANGED <<vars, spawnVars, restarts>>

StartWatching ==
    /\ \A r \in Requesters : RunOf[r] = runId => inst[r].at # "absent"
    /\ StartLoop
    /\ UNCHANGED agentVars

\* The loop's own progress; it sweeps what hung for a minute.
Watch ==
    /\ \/ NoFault /\ (LoopSnapshot \/ LoopSweep({}) \/ LoopRead \/ LoopRequeue)
       \/ Fault /\ \E S \in SUBSET InFlight \ {{}} : LoopSweep(S)
    /\ UNCHANGED <<inst, spawnVars, restarts>>

WatchFails ==
    /\ Fault
    /\ LoopStatusFails \/ LoopReadFails
    /\ UNCHANGED <<inst, spawnVars, restarts>>

StopRun ==
    /\ Stop
    /\ TellAll
    /\ UNCHANGED <<agent, inst, overlapped, faults, restarts>>

\* Their terminate requests take effect late or never, and never with
\* agent-dapr-agents, which has no such route.
Terminated(r) ==
    /\ r \in leaving /\ agent # "dapr-agents"
    /\ inst[r].at \in Running
    /\ inst' = [inst EXCEPT ![r].at = "lost", ![r].on = None]
    /\ UNCHANGED <<vars, spawnVars, faults, restarts>>

\* A pod dies under some of the instances.
HostDies(R) ==
    /\ Fault
    /\ R # {}
    /\ \A r \in R : inst[r].at \in Running
    /\ inst' = Interrupted(R)
    /\ UNCHANGED <<vars, spawnVars, restarts>>

\* The chaos panel: armed drops, and the sweep that follows a pod kill.
Chaos ==
    /\ \/ Fault /\ (ArmDrop(1) \/ PodKillSweep)
       \/ NoFault /\ ChaosReset
    /\ UNCHANGED <<controlVars, spawnVars, inst, restarts>>

\* Every call in progress breaks with the server.
ServerRestarts ==
    /\ Fault
    /\ restarts' = restarts + 1
    /\ Restart
    /\ inst' = Interrupted({r \in Requesters : inst[r].at = "waiting"})
    /\ UNCHANGED spawnVars

AgentNext ==
    \/ \E r \in Requesters :
          \/ Decide(r) \/ TellDone(r) \/ TakeAnswer(r) \/ Schedule(r) \/ Terminated(r)
          \/ \E k \in Calls : Attempt(r, k)
    \/ \E k \in Calls : ServeCall(k) \/ BreakCall(k)
    \/ \E R \in SUBSET Requesters : HostDies(R)
    \/ Respawn \/ Spawn \/ StartWatching \/ Watch \/ WatchFails \/ StopRun \/ Chaos
    \/ ServerRestarts

\* The engine executes an enabled node, the server serves a call, and the
\* loop's coroutine is resumed.  Nothing else is sure to happen.
Fairness ==
    /\ \A r \in Requesters :
          /\ WF_allVars(Decide(r))
          /\ WF_allVars(TellDone(r) \/ \E k \in Calls : Attempt(r, k))
          /\ WF_allVars(TakeAnswer(r))
          /\ WF_allVars(Schedule(r))
    /\ \A k \in Calls : WF_allVars(ServeCall(k))
    /\ WF_allVars(StartWatching)
    /\ WF_allVars(Watch)

AgentSpec == AgentInit /\ [][AgentNext]_allVars
FairAgentSpec == AgentSpec /\ Fairness
-----------------------------------------------------------------------------
(* An instance concludes that its account is complete (stub_llm.py:11-14)  *)
(* only when it is, unless the run was stopped: whatever was swept,        *)
(* retried, answered twice or repeated after a restart of the server.  An  *)
(* instance of a replaced run may hold a credit its successor has not got. *)
ClosingMeansComplete ==
    [][\A r \in Requesters :
          inst[r].at # "closing" /\ inst'[r].at = "closing" /\ ~stopped /\ ~overlapped =>
              Committed(BoundTo[r]) = 1..Credits]_allVars

\* The steps an instance may need, two for a claim: its account's credits
\* once, after a restart of the server (which forgets what was reported)
\* all but the missing one again, and one again for any other fault.
StepsNeeded == 2 * (Credits + restarts * (Credits - 1) + (faults - restarts))

\* What finishes an instance's account, or the expectation that it does.
FinishedOrReplaced(r) ==
    \/ Committed(BoundTo[r]) = 1..Credits
    \/ stopped \/ r \in leaving \/ overlapped

(* A scheduled instance that is durable gets every credit of its account   *)
(* committed once the faults are over, as long as the faults stay within   *)
(* what its step limit covers and neither stop() nor a new run interferes  *)
(* (README.md:3, 27; agent-langgraph/agent_worker/agent.py:118).  For 100  *)
(* credits, max_steps = 400 covers one restart of the server and another   *)
(* fault, MAX_ITERATIONS = 150 fifty faults but no restart.                *)
DurableRunsFinish ==
    \A r \in Requesters :
        Durable /\ inst[r].at = "agent" ~> FinishedOrReplaced(r) \/ StepsNeeded > StepLimit

(* agent-dapr-agents/agent_worker/agent.py:30-31: 150 iterations are       *)
(* "sized with headroom like the LangGraph variant's max_steps=400", which *)
(* covers any single failure.  They are one and a half passes over an      *)
(* account where those are two: when the failure is a restart of the       *)
(* server, an instance may end before its last credits.                    *)
HeadroomAlike ==
    \A r \in Requesters :
        Durable /\ inst[r].at = "agent" ~> FinishedOrReplaced(r) \/ faults > 1

(* The loop that watches a run comes to its end (replenisher.py:174-219)   *)
(* when no instance was lost or ran out of steps: nothing returns to the   *)
(* queues after the last instance that could claim it has gone.            *)
LoopEnds ==
    loop = "poll" ~> \/ loop \in {"done", "off", "starting"}
                     \/ stopped \/ overlapped
                     \/ StepsNeeded > StepLimit
                     \/ \E r \in Requesters : RunOf[r] = runId /\ inst[r].at = "lost"
=============================================================================

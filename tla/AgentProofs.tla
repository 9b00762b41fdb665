----------------------------- MODULE AgentProofs -----------------------------
(***************************************************************************)
(* Proofs about AgentRuns, for any number of accounts, credits, instances, *)
(* spawned runs and faults: the agents drive the server within Spec, and   *)
(* as long as no run was replaced before it had come to rest within        *)
(* DrainedSpec, so that all that is proved of the two holds with them; and *)
(* an instance concludes that its account is complete only when it is.     *)
(***************************************************************************)
EXTENDS AgentRuns, DrainedProofs

-----------------------------------------------------------------------------
(* The inductive invariant, on top of that of Spec.  An instance that runs *)
(* or is yet to start has steps left.  As long as no run was replaced too  *)
(* early, the invariant of DrainedSpec holds too: from the first half of a *)
(* reset to the second nothing runs, and whatever runs or has a claim is   *)
(* an instance of the installed run.                                       *)

Instance(limit) ==
    [at : Running \cup Over, on : Calls \cup {None}, steps : 0..limit]

InstanceOK(x, limit) ==
    /\ x \in Instance(limit)
    /\ (x.on # None) <=> (x.at = "waiting")
    /\ x.at \in Running \cup {"absent"} => x.steps < limit

InstancesOK ==
    /\ agent \in Agents
    /\ inst \in [Requesters -> Instance(StepLimit)]
    /\ \A r \in Requesters : InstanceOK(inst[r], StepLimit)

BudgetTypes == faults \in 0..MaxFaults /\ restarts \in 0..faults

LeavingOK == leaving \subseteq Scheduled /\ overlapped \in BOOLEAN

ClaimsCurrent ==
    \A t \in InFlight :
        \E r \in Requesters : inFlight[t].by = NameOf(r) /\ RunOf[r] = runId

InStep ==
    /\ pending # {} => loop # "starting" /\ \A r \in Requesters : inst[r].at \in Over
    /\ \A r \in Requesters : inst[r].at \in Running => RunOf[r] = runId
    /\ ClaimsCurrent

AgentSide == InstancesOK /\ BudgetTypes /\ LeavingOK

AgentInv == RunInv /\ AgentSide /\ (~overlapped => Agrees /\ InStep)

\* What a step of the agents comes to.
OnlyTold ==
    \A r \in Requesters :
        inst'[r].at = "closing" => inst[r].at = "closing" \/ TellDone(r)

Fits ==
    /\ [Next]_vars
    /\ AgentSide'
    /\ OnlyTold
    /\ ~overlapped' => [DrainedNext]_vars /\ InStep'

-----------------------------------------------------------------------------
(* Names and claims.                                                       *)

LEMMA Names ==
  ASSUME NEW r \in Requesters
  PROVE  NameOf(r) \in Requesters /\ BoundTo[NameOf(r)] = BoundTo[r]
  BY DEF NameOf

LEMMA NamesStay ==
  ASSUME UNCHANGED agent, NEW r \in Requesters
  PROVE  NameOf(r)' = NameOf(r)
  BY DEF NameOf

\* Two instances of one account and run are the same, their names included.
LEMMA NamesAreUnique ==
  ASSUME NEW r \in Requesters, NEW q \in Requesters, RunOf[q] = RunOf[r],
         BoundTo[NameOf(q)] = BoundTo[r]
  PROVE  q = r
  BY Names, InstanceAssumption

ClaimsShrink == \A t \in Tx : inFlight'[t] \in {None, inFlight[t]}

LEMMA SameClaims ==
  ASSUME RunInv, UNCHANGED inFlight
  PROVE  ClaimsShrink
  BY DEF ClaimsShrink

LEMMA ReleaseShrinks ==
  ASSUME RunInv, NEW S, Release(S)
  PROVE  ClaimsShrink
  BY DEF ClaimsShrink, Release

LEMMA ReportShrinks ==
  ASSUME RunInv, NEW t, ReportDone(t)
  PROVE  ClaimsShrink
  <1>1. inFlight \in [Tx -> Claim \cup {None}]
    BY DEF RunInv, OrchSide, OrchInv, OrchTypeOK
  <1> QED
    BY <1>1 DEF ClaimsShrink, ReportDone

LEMMA PopulateShrinks ==
  ASSUME NEW run, Populate(run)
  PROVE  InFlight' = {}
  BY DEF Populate, InFlight

LEMMA ClaimsStayCurrent ==
  ASSUME ClaimsCurrent, ClaimsShrink, UNCHANGED <<runId, agent>>
  PROVE  ClaimsCurrent'
  <1> SUFFICES ASSUME NEW t \in Tx, inFlight'[t] # None
               PROVE  \E r \in Requesters : inFlight'[t].by = NameOf(r)' /\ RunOf[r] = runId'
    BY DEF ClaimsCurrent, InFlight
  <1>1. t \in InFlight /\ inFlight'[t] = inFlight[t]
    BY DEF ClaimsShrink, InFlight
  <1>2. PICK r \in Requesters : inFlight[t].by = NameOf(r) /\ RunOf[r] = runId
    BY <1>1 DEF ClaimsCurrent
  <1> QED
    BY <1>1, <1>2, NamesStay

\* A step that lets nothing run that did not run before.
LEMMA NothingStarts ==
  ASSUME InStep, ClaimsShrink, UNCHANGED <<runId, pending, agent>>,
         loop' = "starting" => loop = "starting",
         \A r \in Requesters : inst'[r].at \in Running => inst[r].at \in Running,
         \A r \in Requesters : inst[r].at \in Over => inst'[r].at \in Over
  PROVE  InStep'
  BY ClaimsStayCurrent DEF InStep

\* One that is only taken while no run waits to be installed.
LEMMA RunGoesOn ==
  ASSUME InStep, pending = {}, ClaimsShrink, UNCHANGED <<runId, pending, agent>>,
         \A r \in Requesters : inst'[r].at \in Running => RunOf[r] = runId
  PROVE  InStep'
  BY ClaimsStayCurrent DEF InStep

LEMMA Drained == AgentInv /\ ~overlapped => DrainedInv /\ InStep
  BY DEF AgentInv, DrainedInv

-----------------------------------------------------------------------------
(* Instances.                                                              *)

LEMMA LimitType ==
  ASSUME agent \in Agents
  PROVE  StepLimit \in Nat \ {0} /\ (UNCHANGED agent => StepLimit' = StepLimit)
  <1>1. agent = "langgraph" \/ agent = "dapr-agents" \/ agent = "plain"
    BY DEF Agents
  <1>2. StepLimit \in Nat \ {0}
    <2>1. CASE agent = "langgraph"
      BY <2>1, AgentAssumption DEF StepLimit
    <2>2. CASE agent = "dapr-agents"
      BY <2>2, AgentAssumption DEF StepLimit
    <2>3. CASE agent = "plain"
      BY <2>3, AgentAssumption DEF StepLimit
    <2> QED
      BY <1>1, <2>1, <2>2, <2>3
  <1> QED
    BY <1>2 DEF StepLimit

LEMMA OneMoves ==
  ASSUME InstancesOK, NEW r \in Requesters, NEW x, InstanceOK(x, StepLimit),
         inst' = [inst EXCEPT ![r] = x], UNCHANGED agent
  PROVE  InstancesOK'
  BY LimitType DEF InstancesOK, InstanceOK

LEMMA StepOK ==
  ASSUME InstancesOK, NEW r \in Requesters, inst[r].at \in Running,
         NEW next \in {"agent", "tools", "closing", "ended"}, Step(r, next), UNCHANGED agent
  PROVE  /\ InstancesOK'
         /\ \A q \in Requesters : q # r => inst'[q] = inst[q]
         /\ inst'[r].at \in {next, "exhausted"}
  <1> DEFINE x == [at    |-> IF inst[r].steps + 1 = StepLimit /\ next # "ended"
                             THEN "exhausted" ELSE next,
                   on    |-> None,
                   steps |-> inst[r].steps + 1]
  <1>1. inst' = [inst EXCEPT ![r] = x] /\ x.at \in {next, "exhausted"}
    BY DEF Step
  <1>2. inst[r].steps \in 0..StepLimit /\ inst[r].steps < StepLimit
    BY DEF InstancesOK, InstanceOK, Instance
  <1>3. x.steps \in 0..StepLimit
    BY <1>2, LimitType DEF InstancesOK
  <1>4. x.at \in Running \cup {"absent"} => x.steps < StepLimit
    BY <1>2, LimitType DEF InstancesOK, Running
  <1>5. x \in Instance(StepLimit) /\ x.on = None /\ x.at # "waiting"
    BY <1>3 DEF Instance, Running, Over
  <1> HIDE DEF x
  <1>6. InstancesOK'
    BY <1>1, <1>4, <1>5, OneMoves DEF InstanceOK
  <1> QED
    BY <1>1, <1>6 DEF InstancesOK

\* What an interruption does: those who ran go back or are lost.
Interruption ==
    \A r \in Requesters :
        /\ inst'[r].at \in {inst[r].at, "lost", "tools"}
        /\ inst'[r].at \in Running => inst[r].at \in Running
        /\ inst[r].at \in Over => inst'[r].at = inst[r].at

LEMMA InterruptedOK ==
  ASSUME InstancesOK, NEW R \in SUBSET Requesters, \A r \in R : inst[r].at \in Running,
         inst' = Interrupted(R), UNCHANGED agent
  PROVE  InstancesOK' /\ Interruption
  <1>1. \A r \in Requesters :
           /\ InstanceOK(inst'[r], StepLimit)
           /\ inst'[r].at \in {inst[r].at, "lost", "tools"}
           /\ r \notin R => inst'[r] = inst[r]
    <2> TAKE r \in Requesters
    <2>1. inst[r] \in Instance(StepLimit) /\ InstanceOK(inst[r], StepLimit)
      BY DEF InstancesOK
    <2>2. CASE r \notin R
      BY <2>1, <2>2 DEF Interrupted
    <2>3. CASE r \in R
      <3> DEFINE at == CASE ~Durable -> "lost"
                         [] inst[r].at \in {"waiting", "answered"} -> "tools"
                         [] OTHER -> inst[r].at
      <3>1. inst'[r] = [inst[r] EXCEPT !.at = at, !.on = None]
        BY <2>3 DEF Interrupted, AfterBreak
      <3>2. at \in {"lost", "tools"} \/ (at = inst[r].at /\ at # "waiting")
        BY DEF Durable
      <3> HIDE DEF at
      <3>3. /\ inst'[r].at = at /\ inst'[r].on = None /\ inst'[r].steps = inst[r].steps
            /\ inst'[r] \in Instance(StepLimit)
        BY <2>1, <3>1, <3>2 DEF Instance, Running, Over
      <3> QED
        BY <2>1, <2>3, <3>2, <3>3 DEF InstanceOK, Running
    <2> QED
      BY <2>2, <2>3
  <1>2. DOMAIN inst' = Requesters /\ inst' = [r \in DOMAIN inst' |-> inst'[r]]
    BY DEF Interrupted
  <1>3. InstancesOK'
    BY <1>1, <1>2, LimitType DEF InstancesOK, InstanceOK
  <1>4. Interruption
    <2>1. \A r \in R : inst[r].at \in Running /\ inst[r].at \notin Over
      BY DEF Running, Over
    <2> QED
      BY <1>1, <2>1 DEF Interruption
  <1> QED
    BY <1>3, <1>4

LEMMA BudgetOK ==
  ASSUME BudgetTypes, Fault \/ NoFault, UNCHANGED restarts
  PROVE  BudgetTypes'
  BY AgentAssumption DEF BudgetTypes, Fault, NoFault

\* Who was scheduled stays so.
LEMMA LeavingKept ==
  ASSUME LeavingOK, leaving' = leaving \/ TellAll, overlapped' \in BOOLEAN,
         \A r \in Requesters : inst'[r].at = "absent" => inst[r].at = "absent"
  PROVE  LeavingOK'
  BY DEF LeavingOK, Scheduled, TellAll

LEMMA SameInstances ==
  ASSUME InstancesOK, UNCHANGED <<inst, agent>>
  PROVE  InstancesOK' /\ OnlyTold
  BY LimitType DEF InstancesOK, InstanceOK, OnlyTold

-----------------------------------------------------------------------------
(* One action at a time.                                                   *)

LEMMA GraphFits ==
  ASSUME AgentInv, NEW r \in Requesters, Decide(r) \/ TellDone(r) \/ TakeAnswer(r)
  PROVE  Fits
  <1>1. UNCHANGED <<vars, spawnVars, faults, restarts>>
    BY DEF Decide, TellDone, TakeAnswer
  <1>2. UNCHANGED <<agent, leaving, overlapped, runId, pending, loop, inFlight>>
    BY <1>1 DEF vars, spawnVars, orchVars, controlVars
  <1>3. PICK next \in {"agent", "tools", "closing", "ended"} :
           /\ Step(r, next)
           /\ inst[r].at \in {"agent", "closing", "tools", "answered"}
           /\ next = "closing" => TellDone(r)
    BY DEF Decide, TellDone, TakeAnswer
  <1>4. inst[r].at \in Running /\ inst[r].at # "absent" /\ inst[r].at \notin Over
    BY <1>3 DEF Running, Over
  <1>5. /\ InstancesOK'
        /\ \A q \in Requesters : q # r => inst'[q] = inst[q]
        /\ inst'[r].at \in {next, "exhausted"}
    BY <1>2, <1>3, <1>4, StepOK DEF AgentInv, AgentSide
  <1>6. BudgetTypes' /\ LeavingOK'
    BY <1>1, <1>2, <1>5, BudgetOK, LeavingKept DEF AgentInv, AgentSide, NoFault, LeavingOK
  <1>7. OnlyTold
    BY <1>3, <1>5 DEF OnlyTold
  <1>8. ~overlapped => InStep'
    BY <1>2, <1>4, <1>5, SameClaims, NothingStarts DEF AgentInv
  <1> QED
    BY <1>1, <1>2, <1>5, <1>6, <1>7, <1>8 DEF Fits, AgentSide

LEMMA ScheduleFits ==
  ASSUME AgentInv, NEW r \in Requesters, Schedule(r) \/ Terminated(r)
  PROVE  Fits
  <1>1. UNCHANGED <<vars, spawnVars, restarts>> /\ (Fault \/ NoFault)
    BY DEF Schedule, Terminated, NoFault
  <1>2. UNCHANGED <<agent, leaving, overlapped, runId, pending, loop, inFlight>>
    BY <1>1 DEF vars, spawnVars, orchVars, controlVars
  <1>3. inst[r] \in Instance(StepLimit) /\ InstanceOK(inst[r], StepLimit)
        /\ inst \in [Requesters -> Instance(StepLimit)]
    BY DEF AgentInv, AgentSide, InstancesOK
  <1>4. PICK x \in {[inst[r] EXCEPT !.at = "agent"],
                    [inst[r] EXCEPT !.at = "lost"],
                    [inst[r] EXCEPT !.at = "lost", !.on = None]} :
           /\ inst' = [inst EXCEPT ![r] = x]
           /\ \/ inst[r].at = "absent" /\ loop = "starting" /\ RunOf[r] = runId
              \/ x.at = "lost" /\ x.on = None
    <2>1. CASE Schedule(r)
      BY <1>3, <2>1 DEF Schedule, Instance
    <2>2. CASE Terminated(r)
      BY <1>3, <2>2 DEF Terminated, Instance
    <2> QED
      BY <2>1, <2>2
  <1>5. InstanceOK(x, StepLimit) /\ x.at \in {"agent", "lost"}
    BY <1>3, <1>4 DEF InstanceOK, Instance, Running, Over
  <1>6. InstancesOK'
    BY <1>2, <1>4, <1>5, OneMoves DEF AgentInv, AgentSide
  <1>7. inst'[r] = x /\ \A q \in Requesters : q # r => inst'[q] = inst[q]
    BY <1>3, <1>4
  <1> HIDE DEF Instance
  <1>8. OnlyTold
    BY <1>5, <1>7 DEF OnlyTold
  <1>9. BudgetTypes' /\ LeavingOK'
    BY <1>1, <1>2, <1>5, <1>7, BudgetOK, LeavingKept DEF AgentInv, AgentSide, LeavingOK
  <1>10. ASSUME ~overlapped
         PROVE  InStep'
    <2>1. InStep
      BY <1>10 DEF AgentInv
    <2>2. CASE x.at = "lost"
      <3>1. x.at \in Over /\ x.at \notin Running
        BY <2>2 DEF Over, Running
      <3> QED
        BY <1>2, <1>7, <2>1, <3>1, SameClaims, NothingStarts DEF AgentInv
    <2>3. CASE loop = "starting" /\ RunOf[r] = runId
      <3>1. pending = {}
        BY <2>1, <2>3 DEF InStep
      <3>2. \A q \in Requesters : inst'[q].at \in Running => RunOf[q] = runId
        BY <1>7, <2>1, <2>3 DEF InStep
      <3> QED
        BY <1>2, <2>1, <3>1, <3>2, SameClaims, RunGoesOn DEF AgentInv
    <2> QED
      BY <1>4, <2>2, <2>3
  <1> QED
    BY <1>1, <1>2, <1>6, <1>8, <1>9, <1>10 DEF Fits, AgentSide

LEMMA HostDiesFits ==
  ASSUME AgentInv, NEW R \in SUBSET Requesters, HostDies(R)
  PROVE  Fits
  <1>1. /\ UNCHANGED <<vars, spawnVars, restarts>> /\ Fault
        /\ \A r \in R : inst[r].at \in Running
        /\ inst' = Interrupted(R)
    BY DEF HostDies
  <1>2. UNCHANGED <<agent, leaving, overlapped, runId, pending, loop, inFlight>>
    BY <1>1 DEF vars, spawnVars, orchVars, controlVars
  <1>3. InstancesOK' /\ Interruption
    BY <1>1, <1>2, InterruptedOK DEF AgentInv, AgentSide
  <1>4. BudgetTypes' /\ LeavingOK' /\ OnlyTold
    BY <1>1, <1>2, <1>3, BudgetOK, LeavingKept
       DEF AgentInv, AgentSide, LeavingOK, Interruption, OnlyTold
  <1>5. ~overlapped => InStep'
    BY <1>2, <1>3, SameClaims, NothingStarts DEF AgentInv, Interruption
  <1> QED
    BY <1>1, <1>2, <1>3, <1>4, <1>5 DEF Fits, AgentSide

LEMMA AttemptFits ==
  ASSUME AgentInv, NEW r \in Requesters, NEW k \in Calls, Attempt(r, k)
  PROVE  Fits
  <1> DEFINE name == NameOf(r)
             x == [inst[r] EXCEPT !.at = "waiting", !.on = k]
  <1>1. /\ inst[r].at = "tools" /\ name \in Requesters
        /\ ClaimCall(k, name) \/ ReplayCall(k, name)
        /\ UNCHANGED <<controlVars, spawnVars, faults, restarts>>
    BY Names DEF Attempt
  <1>2. inst[r] \in Instance(StepLimit) /\ InstanceOK(inst[r], StepLimit)
        /\ inst \in [Requesters -> Instance(StepLimit)]
    BY DEF AgentInv, AgentSide, InstancesOK
  <1>3. inst' = [inst EXCEPT ![r] = x]
    BY <1>2 DEF Attempt, Instance
  <1>4. /\ x \in Instance(StepLimit) /\ x.at = "waiting" /\ x.on = k
        /\ x.steps = inst[r].steps
    BY <1>2 DEF Instance, Running
  <1>5. k # None /\ inst[r].at \in Running
    BY <1>1, AgentAssumption DEF Running
  <1> HIDE DEF x, name
  <1>6. InstanceOK(x, StepLimit)
    BY <1>1, <1>2, <1>4, <1>5 DEF InstanceOK, Running
  <1>7. UNCHANGED <<agent, leaving, overlapped, runId, pending, loop>>
    BY <1>1 DEF spawnVars, controlVars, ClaimCall, NextTaskClaim, Claims, ReplayCall, orchVars
  <1>8. InstancesOK'
    BY <1>3, <1>6, <1>7, OneMoves DEF AgentInv, AgentSide
  <1>9. inst'[r] = x /\ \A q \in Requesters : q # r => inst'[q] = inst[q]
    BY <1>2, <1>3
  <1> HIDE DEF Instance
  <1>10. BudgetTypes' /\ LeavingOK' /\ OnlyTold
    BY <1>1, <1>4, <1>7, <1>9, BudgetOK, LeavingKept
       DEF AgentInv, AgentSide, LeavingOK, NoFault, OnlyTold
  <1>11. ServeStep
    BY <1>1 DEF ServeStep, CallStep
  <1>12. ASSUME ~overlapped
         PROVE  pending = {} /\ InStep'
    <2>1. InStep /\ pending = {} /\ RunOf[r] = runId
      BY <1>5, <1>12 DEF AgentInv, InStep, Running, Over
    <2>2. \A q \in Requesters : inst'[q].at \in Running => RunOf[q] = runId
      BY <1>9, <2>1 DEF InStep
    <2>3. CASE ReplayCall(k, name)
      BY <1>7, <2>1, <2>2, <2>3, SameClaims, RunGoesOn DEF AgentInv, ReplayCall, orchVars
    <2>4. CASE ClaimCall(k, name)
      <3> DEFINE task == Head(queues[BoundTo[name]])
                 claim == [run |-> task.run, by |-> name]
      <3>1. inFlight' = [inFlight EXCEPT ![task.tx] = claim] /\ claim.by = name
        BY <2>4 DEF ClaimCall, NextTaskClaim, Claims
      <3>2. inFlight \in [Tx -> Claim \cup {None}]
        BY DEF AgentInv, RunInv, OrchSide, OrchInv, OrchTypeOK
      <3> HIDE DEF claim, task
      <3>3. SUFFICES ASSUME NEW t \in Tx, inFlight'[t] # None
                     PROVE  \E q \in Requesters :
                               inFlight'[t].by = NameOf(q)' /\ RunOf[q] = runId'
        BY <1>7, <2>1, <2>2 DEF InStep, ClaimsCurrent, InFlight
      <3>4. CASE inFlight'[t] = inFlight[t]
        <4>1. t \in InFlight
          BY <3>3, <3>4 DEF InFlight
        <4>2. PICK q \in Requesters : inFlight[t].by = NameOf(q) /\ RunOf[q] = runId
          BY <2>1, <4>1 DEF InStep, ClaimsCurrent
        <4> QED
          BY <1>7, <3>4, <4>2, NamesStay
      <3>5. CASE inFlight'[t] = claim
        <4>1. inFlight'[t].by = NameOf(r)'
          BY <1>7, <3>1, <3>5, NamesStay DEF name
        <4> QED
          BY <1>7, <2>1, <4>1
      <3> QED
        BY <3>1, <3>2, <3>4, <3>5
    <2> QED
      BY <1>1, <2>1, <2>3, <2>4
  <1>13. [Next]_vars /\ (~overlapped => [DrainedNext]_vars)
    BY <1>11, <1>12 DEF Next, DrainedNext
  <1> QED
    BY <1>7, <1>8, <1>10, <1>12, <1>13 DEF Fits, AgentSide

\* Those who wait for a call run.
LEMMA WaitersRun ==
  ASSUME InstancesOK, NEW k \in Calls
  PROVE  Waiters(k) \in SUBSET Requesters /\ \A r \in Waiters(k) : inst[r].at = "waiting"
  BY AgentAssumption DEF Waiters, InstancesOK, InstanceOK

\* Each is answered, or interrupted, or nothing happens to it.
LEMMA WaitersMove ==
  ASSUME InstancesOK, UNCHANGED agent, NEW k \in Calls,
         \/ UNCHANGED inst
         \/ inst' = Interrupted(Waiters(k))
         \/ inst' = [r \in Requesters |->
                        IF r \in Waiters(k)
                        THEN [inst[r] EXCEPT !.at = "answered", !.on = None]
                        ELSE inst[r]]
  PROVE  /\ InstancesOK'
         /\ \A r \in Requesters :
               /\ inst'[r].at \in {inst[r].at, "lost", "tools", "answered"}
               /\ inst'[r].at \in Running => inst[r].at \in Running
               /\ inst[r].at \in Over => inst'[r].at = inst[r].at
  <1>1. CASE UNCHANGED inst
    BY <1>1, SameInstances
  <1>2. CASE inst' = Interrupted(Waiters(k))
    <2>1. \A r \in Waiters(k) : inst[r].at \in Running
      BY WaitersRun DEF Running
    <2> QED
      BY <1>2, <2>1, WaitersRun, InterruptedOK DEF Interruption
  <1>3. CASE inst' = [r \in Requesters |->
                         IF r \in Waiters(k)
                         THEN [inst[r] EXCEPT !.at = "answered", !.on = None]
                         ELSE inst[r]]
    <2>1. \A r \in Requesters :
             /\ InstanceOK(inst'[r], StepLimit)
             /\ inst'[r].at \in {inst[r].at, "answered"}
             /\ inst'[r].at \in Running => inst[r].at \in Running
             /\ inst[r].at \in Over => inst'[r].at = inst[r].at
      <3> TAKE r \in Requesters
      <3>1. inst[r] \in Instance(StepLimit) /\ InstanceOK(inst[r], StepLimit)
        BY DEF InstancesOK
      <3>2. CASE r \notin Waiters(k)
        BY <1>3, <3>1, <3>2
      <3>3. CASE r \in Waiters(k)
        <4>1. inst'[r] = [inst[r] EXCEPT !.at = "answered", !.on = None]
          BY <1>3, <3>3
        <4>2. inst[r].at = "waiting"
          BY <3>3, WaitersRun
        <4> QED
          BY <3>1, <4>1, <4>2 DEF InstanceOK, Instance, Running, Over
      <3> QED
        BY <3>2, <3>3
    <2>2. DOMAIN inst' = Requesters /\ inst' = [r \in DOMAIN inst' |-> inst'[r]]
      BY <1>3
    <2>3. InstancesOK'
      BY <2>1, <2>2, LimitType DEF InstancesOK, InstanceOK
    <2> QED
      BY <2>1, <2>3
  <1> QED
    BY <1>1, <1>2, <1>3

LEMMA ServeFits ==
  ASSUME AgentInv, NEW k \in Calls, ServeCall(k) \/ BreakCall(k)
  PROVE  Fits
  <1>1. /\ CallStep(k) /\ call[k] # None
        /\ UNCHANGED <<controlVars, spawnVars, restarts>>
        /\ Fault \/ NoFault
    BY DEF ServeCall, BreakCall, CallStep, ReadBalance, SkipCall, DropCall, SendCredit,
           CommitCredit, ReportCredit, FailCall, At, agentVars, NoFault
  <1>2. /\ UNCHANGED runId
        /\ UNCHANGED inFlight \/ \E t : ReportDone(t)
    BY DEF ServeCall, BreakCall, ReadBalance, SkipCall, DropCall, SendCredit,
           CommitCredit, ReportCredit, FailCall, ReportDone, orchVars
  <1>3. UNCHANGED <<agent, leaving, overlapped, pending, loop>>
    BY <1>1 DEF spawnVars, controlVars
  <1>4. ClaimsShrink
    BY <1>2, SameClaims, ReportShrinks DEF AgentInv
  <1>5. /\ InstancesOK'
        /\ \A r \in Requesters :
              /\ inst'[r].at \in {inst[r].at, "lost", "tools", "answered"}
              /\ inst'[r].at \in Running => inst[r].at \in Running
              /\ inst[r].at \in Over => inst'[r].at = inst[r].at
    <2>1. \/ UNCHANGED inst
          \/ inst' = Interrupted(Waiters(k))
          \/ inst' = [r \in Requesters |->
                         IF r \in Waiters(k)
                         THEN [inst[r] EXCEPT !.at = "answered", !.on = None]
                         ELSE inst[r]]
      BY DEF ServeCall, BreakCall, agentVars
    <2> QED
      BY <1>3, <2>1, WaitersMove DEF AgentInv, AgentSide
  <1>6. BudgetTypes' /\ LeavingOK' /\ OnlyTold
    BY <1>1, <1>3, <1>5, BudgetOK, LeavingKept DEF AgentInv, AgentSide, LeavingOK, OnlyTold
  <1>7. ASSUME ~overlapped
        PROVE  pending = {} /\ InStep'
    <2>1. Agrees /\ InStep
      BY <1>7 DEF AgentInv
    <2>2. pending = {}
      BY <1>1, <2>1 DEF Agrees, ResetsDrained, NoCalls
    <2> QED
      BY <1>2, <1>3, <1>4, <1>5, <2>1, <2>2, NothingStarts
  <1>8. [Next]_vars /\ (~overlapped => [DrainedNext]_vars)
    BY <1>1, <1>7 DEF Next, DrainedNext, ServeStep
  <1> QED
    BY <1>3, <1>5, <1>6, <1>7, <1>8 DEF Fits, AgentSide

LEMMA SpawnFits ==
  ASSUME AgentInv, Respawn \/ Spawn
  PROVE  Fits
  <1>1. /\ UNCHANGED <<inst, agent, faults, restarts>>
        /\ leaving' = leaving \/ TellAll
        /\ overlapped' \in BOOLEAN
    BY DEF AgentInv, AgentSide, LeavingOK, Respawn, Spawn, agentVars, spawnVars, AtRest
  <1>2. InstancesOK' /\ OnlyTold /\ BudgetTypes' /\ LeavingOK'
    BY <1>1, SameInstances, BudgetOK, LeavingKept DEF AgentInv, AgentSide, NoFault
  <1>3. CASE Respawn
    <2>1. UNCHANGED vars /\ UNCHANGED <<agent, overlapped, runId, pending, loop, inFlight, inst>>
      BY <1>3 DEF Respawn, vars, orchVars, controlVars
    <2>2. ~overlapped => InStep'
      BY <2>1, SameClaims, NothingStarts DEF AgentInv
    <2> QED
      BY <1>2, <2>1, <2>2 DEF Fits, AgentSide
  <1>4. CASE ResetLedger /\ overlapped' = (overlapped \/ ~AtRest)
    <2>1. UNCHANGED <<agent, runId, loop, inFlight, inst>>
      BY <1>1, <1>4 DEF ResetLedger, orchVars
    <2>2. ASSUME ~overlapped'
          PROVE  DrainedNext /\ InStep'
      <3>1. AtRest /\ InStep
        BY <1>4, <2>2 DEF AgentInv
      <3>2. DrainedNext
        BY <1>4, <3>1 DEF AtRest, DrainedNext, DrainedReset
      <3>3. ClaimsCurrent'
        BY <2>1, <3>1, SameClaims, ClaimsStayCurrent DEF AgentInv, InStep
      <3> QED
        BY <2>1, <3>1, <3>2, <3>3 DEF InStep, AtRest
    <2> QED
      BY <1>2, <1>4, <2>2 DEF Fits, AgentSide, Next, ResetStep
  <1>5. CASE \E run \in Runs : InstallRun(run, TRUE) /\ UNCHANGED agentVars
    <2>1. PICK run \in Runs : InstallRun(run, TRUE) /\ UNCHANGED agentVars
      BY <1>5
    <2>2. run \in pending /\ pending' = pending \ {run} /\ Populate(run)
          /\ UNCHANGED <<overlapped, inst>>
      BY <2>1 DEF InstallRun, agentVars, spawnVars
    <2>3. ASSUME ~overlapped
          PROVE  InStep'
      <3>1. pending = {run} /\ \A r \in Requesters : inst[r].at \in Over
        BY <2>2, <2>3 DEF AgentInv, Agrees, ResetsDrained, InStep
      <3>2. pending' = {} /\ InFlight' = {}
        BY <2>2, <3>1, PopulateShrinks
      <3> QED
        BY <2>2, <3>1, <3>2 DEF InStep, ClaimsCurrent, Over, Running
    <2> QED
      BY <1>2, <2>1, <2>2, <2>3 DEF Fits, AgentSide, Next, ResetStep, DrainedNext, DrainedReset
  <1> QED
    BY <1>3, <1>4, <1>5 DEF Spawn

LEMMA WatchFits ==
  ASSUME AgentInv, StartWatching \/ Watch \/ WatchFails
  PROVE  Fits
  <1>1. /\ LoopStep /\ (Fault \/ NoFault)
        /\ loop' # "starting"
        /\ UNCHANGED <<pending, runId, inst, spawnVars, restarts>>
        /\ UNCHANGED inFlight \/ \E S : Release(S)
    <2>1. CASE StartWatching
      BY <2>1 DEF StartWatching, StartLoop, LoopStep, orchVars, agentVars, NoFault
    <2>2. CASE Watch
      <3>1. ASSUME NEW S \in SUBSET InFlight, LoopSweep(S)
            PROVE  LoopStep /\ loop' # "starting" /\ UNCHANGED <<pending, runId>> /\ Release(S)
        BY <3>1 DEF LoopStep, LoopSweep, Sweep, Release
      <3>2. ASSUME LoopSnapshot \/ LoopRead \/ LoopRequeue
            PROVE  LoopStep /\ loop' # "starting" /\ UNCHANGED <<pending, runId, inFlight>>
        BY <3>2 DEF LoopStep, LoopSnapshot, LoopRead, ReconcileRead, LoopRequeue,
                    ReconcileRequeue, orchVars
      <3> QED
        BY <2>2, <3>1, <3>2 DEF Watch
    <2>3. CASE WatchFails
      BY <2>3 DEF WatchFails, LoopStep, LoopStatusFails, LoopReadFails, BooksUnchanged, orchVars
    <2> QED
      BY <2>1, <2>2, <2>3
  <1>2. UNCHANGED <<agent, leaving, overlapped>>
    BY <1>1 DEF spawnVars
  <1>3. InstancesOK' /\ OnlyTold /\ BudgetTypes' /\ LeavingOK'
    BY <1>1, <1>2, SameInstances, BudgetOK, LeavingKept DEF AgentInv, AgentSide, LeavingOK
  <1>4. ~overlapped => InStep'
    BY <1>1, <1>2, SameClaims, ReleaseShrinks, NothingStarts DEF AgentInv
  <1> QED
    BY <1>1, <1>2, <1>3, <1>4 DEF Fits, AgentSide, Next, DrainedNext, SupportStep

LEMMA StopFits ==
  ASSUME AgentInv, StopRun \/ Chaos
  PROVE  Fits
  <1>1. /\ UNCHANGED <<runId, pending, inst, restarts, agent, overlapped>>
        /\ loop' \in {loop, "off"}
        /\ leaving' = leaving \/ TellAll
        /\ Fault \/ NoFault
        /\ UNCHANGED inFlight \/ \E S : Release(S)
    <2>1. CASE StopRun
      BY <2>1 DEF StopRun, Stop, SetStopped, NoFault
    <2>2. CASE Chaos
      BY <2>2 DEF Chaos, ArmDrop, PodKillSweep, Sweep, Release, ChaosReset, orchVars,
                  controlVars, spawnVars
    <2> QED
      BY <2>1, <2>2
  <1>2. SupportStep
    <2>1. ASSUME ArmDrop(1)
          PROVE  1 \in 1..MaxDrops
      <3>1. dropNext \in 0..MaxDrops /\ MaxDrops \in Nat /\ dropNext + 1 <= MaxDrops
        BY <2>1, NoDropsTyped DEF AgentInv, ArmDrop
      <3> QED
        BY <3>1
    <2>2. CASE StopRun
      BY <2>2 DEF StopRun, SupportStep
    <2>3. CASE Chaos
      <3>1. (\E n \in 1..MaxDrops : ArmDrop(n)) \/ ChaosReset \/ PodKillSweep
        BY <2>1, <2>3 DEF Chaos
      <3> QED
        BY <2>3, <3>1 DEF Chaos, SupportStep, ChaosStep
    <2> QED
      BY <2>2, <2>3
  <1>3. InstancesOK' /\ OnlyTold /\ BudgetTypes' /\ LeavingOK'
    BY <1>1, SameInstances, BudgetOK, LeavingKept DEF AgentInv, AgentSide, LeavingOK
  <1>4. ~overlapped => InStep'
    BY <1>1, SameClaims, ReleaseShrinks, NothingStarts DEF AgentInv
  <1> QED
    BY <1>1, <1>2, <1>3, <1>4 DEF Fits, AgentSide, Next, DrainedNext

LEMMA ServerRestartsFits ==
  ASSUME AgentInv, ServerRestarts
  PROVE  Fits
  <1> DEFINE R == {r \in Requesters : inst[r].at = "waiting"}
  <1>1. /\ restarts' = restarts + 1 /\ Fault /\ UNCHANGED spawnVars
        /\ Restart /\ inst' = Interrupted(R)
    BY DEF ServerRestarts
  <1>2. UNCHANGED <<agent, leaving, overlapped>>
    BY <1>1 DEF spawnVars
  <1>3. InstancesOK' /\ Interruption
    BY <1>1, <1>2, InterruptedOK DEF AgentInv, AgentSide, Running
  <1>4. LeavingOK' /\ OnlyTold
    BY <1>2, <1>3, LeavingKept DEF AgentInv, AgentSide, LeavingOK, Interruption, OnlyTold
  <1>5. BudgetTypes'
    BY <1>1, AgentAssumption DEF AgentInv, AgentSide, BudgetTypes, Fault
  <1>6. /\ pending' = {} /\ Populate(lastRun) /\ runId' = lastRun
    BY <1>1 DEF Restart, Populate
  <1>7. ASSUME ~overlapped
        PROVE  InStep'
    <2>1. Agrees /\ InStep
      BY <1>7 DEF AgentInv
    <2>2. \A r \in Requesters : inst'[r].at \in Running => RunOf[r] = runId'
      <3>1. CASE pending = {}
        BY <1>3, <1>6, <2>1, <3>1 DEF Agrees, ResetsDrained, InStep, Interruption
      <3>2. CASE pending # {}
        BY <1>3, <2>1, <3>2 DEF InStep, Interruption, Running, Over
      <3> QED
        BY <3>1, <3>2
    <2>3. InFlight' = {}
      BY <1>6, PopulateShrinks
    <2> QED
      BY <1>6, <2>2, <2>3 DEF InStep, ClaimsCurrent
  <1> QED
    BY <1>1, <1>2, <1>3, <1>4, <1>5, <1>7
       DEF Fits, AgentSide, Next, DrainedNext, SupportStep

-----------------------------------------------------------------------------
(* Every behaviour of AgentSpec.                                           *)

LEMMA InitAgentInv == AgentInit => AgentInv
  <1> SUFFICES ASSUME AgentInit PROVE AgentInv
    OBVIOUS
  <1>1. DrainedInv
    BY InitDrainedInv DEF AgentInit
  <1>2. pending = {} /\ InFlight = {}
    BY DEF AgentInit, Init, ControlInit, OrchInit, InFlight
  <1>3. /\ inst = [r \in Requesters |-> [at |-> "absent", on |-> None, steps |-> 0]]
        /\ agent \in Agents /\ faults = 0 /\ restarts = 0
        /\ leaving = {} /\ overlapped = FALSE
    BY DEF AgentInit
  <1>4. InstancesOK
    BY <1>3, LimitType DEF InstancesOK, InstanceOK, Instance, Running, Over
  <1>5. BudgetTypes /\ LeavingOK
    <2>1. BudgetTypes
      BY <1>3, AgentAssumption DEF BudgetTypes
    <2>2. LeavingOK
      BY <1>3 DEF LeavingOK
    <2> QED
      BY <2>1, <2>2
  <1>6. InStep
    BY <1>2, <1>3 DEF InStep, ClaimsCurrent, Running
  <1> QED
    BY <1>1, <1>4, <1>5, <1>6 DEF AgentInv, AgentSide, DrainedInv

LEMMA StepFits ==
  ASSUME AgentInv, [AgentNext]_allVars
  PROVE  Fits
  <1>1. CASE UNCHANGED allVars
    <2>1. UNCHANGED vars
          /\ UNCHANGED <<agent, leaving, overlapped, inst, faults, restarts>>
      BY <1>1 DEF allVars, agentVars, spawnVars
    <2>2. UNCHANGED <<runId, pending, loop, inFlight>>
      BY <2>1 DEF vars, orchVars, controlVars
    <2>3. InstancesOK' /\ OnlyTold /\ BudgetTypes' /\ LeavingOK'
      BY <2>1, SameInstances, BudgetOK, LeavingKept DEF AgentInv, AgentSide, LeavingOK, NoFault
    <2>4. ~overlapped => InStep'
      BY <2>1, <2>2, SameClaims, NothingStarts DEF AgentInv
    <2> QED
      BY <2>1, <2>3, <2>4 DEF Fits, AgentSide
  <1>2. CASE AgentNext
    BY <1>2, GraphFits, ScheduleFits, AttemptFits, ServeFits, HostDiesFits, SpawnFits,
       WatchFits, StopFits, ServerRestartsFits DEF AgentNext
  <1> QED
    BY <1>1, <1>2

\* Once overlapped, always overlapped.
LEMMA OverlapStays == [AgentNext]_allVars /\ overlapped \in BOOLEAN => (~overlapped' => ~overlapped)
  <1> SUFFICES ASSUME [AgentNext]_allVars PROVE UNCHANGED overlapped \/ overlapped' = (overlapped \/ ~AtRest)
    OBVIOUS
  <1> QED
    BY DEF AgentNext, allVars, agentVars, spawnVars, Decide, TellDone, TakeAnswer, Schedule,
           Terminated, Attempt, ServeCall, BreakCall, HostDies, Respawn, Spawn, StartWatching,
           Watch, WatchFails, StopRun, Chaos, ServerRestarts

LEMMA AgentNextKeepsInv == AgentInv /\ [AgentNext]_allVars => AgentInv'
  <1> SUFFICES ASSUME AgentInv, [AgentNext]_allVars PROVE AgentInv'
    OBVIOUS
  <1>1. Fits
    BY StepFits
  <1>2. RunInv'
    BY <1>1, NextKeepsRunInv DEF AgentInv, Fits
  <1>3. ASSUME ~overlapped'
        PROVE  Agrees' /\ InStep'
    <2>1. DrainedInv
      BY <1>3, OverlapStays DEF AgentInv, AgentSide, LeavingOK, DrainedInv
    <2> QED
      BY <1>1, <1>3, <2>1, DrainedNextKeepsInv DEF Fits, DrainedInv
  <1> QED
    BY <1>1, <1>2, <1>3 DEF Fits, AgentInv

THEOREM AgentInvariance == AgentSpec => []AgentInv
  BY InitAgentInv, AgentNextKeepsInv, PTL DEF AgentSpec

(* Instances, calls, runs and budgets keep their types; an instance waits  *)
(* for a call exactly while its node does.                                 *)
THEOREM AgentTypes == AgentSpec => []AgentTypeOK
  <1>1. AgentInv => AgentTypeOK
    <2> SUFFICES ASSUME AgentInv PROVE AgentTypeOK
      OBVIOUS
    <2>1. TypeOK
      BY DEF AgentInv, RunInv, OrchSide, OrchInv, LedgerSide, CallSide, ControlSide, TypeOK
    <2>2. inst \in [Requesters -> [at : Running \cup Over, on : Calls \cup {None},
                                   steps : 0..StepLimit]]
      BY DEF AgentInv, AgentSide, InstancesOK, Instance
    <2>3. \A r \in Requesters : (inst[r].on # None) <=> (inst[r].at = "waiting")
      BY DEF AgentInv, AgentSide, InstancesOK, InstanceOK
    <2>4. agent \in Agents
      BY DEF AgentInv, AgentSide, InstancesOK
    <2> QED
      BY <2>1, <2>2, <2>3, <2>4 DEF AgentInv, AgentSide, BudgetTypes, LeavingOK, AgentTypeOK
  <1> QED
    BY <1>1, AgentInvariance, PTL

(* The agents, their retries and crashes, the loop, the chaos panel, and   *)
(* starts that overtake instances and calls of the previous run are        *)
(* behaviours of Spec: stragglers cannot take a committed credit away,     *)
(* mix up accounts, or make a stopped server take on new credits           *)
(* (replenisher.py:70-122, db.py:70-124, orchestrator.py:137-156).         *)
THEOREM AgentsDriveTheServer ==
    AgentSpec => Spec /\ []NoCreditLost /\ []CreditsOwnAccount /\ StopDrains
  <1>1. AgentInit => Init
    BY DEF AgentInit
  <1>2. AgentInv /\ [AgentNext]_allVars => [Next]_vars
    BY StepFits DEF Fits
  <1>3. AgentSpec => Spec
    BY <1>1, <1>2, AgentInvariance, PTL DEF AgentSpec, Spec
  <1> QED
    BY <1>3, CreditsStay, CreditsGoHome, StopTakesNothingOn, PTL

(* Any number of runs one after the other: if none is replaced before it   *)
(* has come to rest (no call in progress, no instance running, no reset or *)
(* start half done), the server stays within DrainedSpec.  The premise is  *)
(* about the moment of a reset; that nothing runs until the new run is     *)
(* installed, after restarts too, follows (replenisher.py:70-112).         *)
THEOREM AgentsStayDrained == AgentSpec /\ []~overlapped => DrainedSpec
  <1>1. AgentInit => Init
    BY DEF AgentInit
  <1>2. AgentInv /\ ~overlapped' /\ [AgentNext]_allVars => [DrainedNext]_vars
    BY StepFits DEF Fits
  <1> QED
    BY <1>1, <1>2, AgentInvariance, PTL DEF AgentSpec, DrainedSpec

(* Whatever the agents and the faults do, the accounts see each credit of  *)
(* a run once (README.md:39), if no run is replaced before it has come to  *)
(* rest.                                                                   *)
THEOREM AgentsCreditExactlyOnce == AgentSpec /\ []~overlapped => ImplementsExactlyOnce
  BY AgentsStayDrained, CreditsExactlyOnce, PTL

(* README.md:3, with the agents: until a run is replaced before it has     *)
(* come to rest, an account that shows its target has every credit of the  *)
(* run, and each of them once.  What happens after that is the run         *)
(* readme_claim.                                                           *)
THEOREM AgentsEarnTheTarget ==
    AgentSpec => [](~overlapped => TargetMeansAllCredits /\ ExactBalance)
  <1>1. AgentInv => (~overlapped => TargetMeansAllCredits /\ ExactBalance)
    BY Drained, TargetNeedsAll DEF Agrees, DrainedInv
  <1> QED
    BY <1>1, AgentInvariance, PTL

-----------------------------------------------------------------------------
(* What {done: true} means to the one instance of an account and a run.    *)

LEMMA EmptyQueueMeansCommitted ==
  ASSUME AgentInv, ~overlapped, NEW r \in Requesters, inst[r].at \in Running,
         ~Replays(NameOf(r)), queues[BoundTo[r]] = << >>
  PROVE  Committed(BoundTo[r]) = 1..Credits
  <1> DEFINE c == BoundTo[r]
  <1>1. c \in Customers
    BY ServiceAssumption
  <1>2. DrainedInv /\ InStep
    BY Drained
  <1>3. pending = {} /\ RunOf[r] = runId
    BY <1>2 DEF InStep, Running, Over
  <1>4. runId = lastRun
    BY <1>2, <1>3 DEF DrainedInv, Agrees, ResetsDrained
  <1>5. ASSUME NEW n \in 1..Credits
        PROVE  <<lastRun, <<c, n>>>> \in txs
    <2> DEFINE t == <<c, n>>
    <2>1. t \in Tx /\ t[1] = c
      BY <1>1 DEF Tx
    <2> HIDE DEF t
    <2>2. t \in Queued \cup InFlight \cup reported
      BY <2>1 DEF AgentInv, RunInv, OrchSide, OrchInv, NoTaskLost
    <2>3. t \notin Queued
      <3>1. DOMAIN queues[c] = {}
        OBVIOUS
      <3> QED
        BY <2>1, <3>1 DEF Queued
    <2>4. t \notin InFlight
      <3> SUFFICES ASSUME t \in InFlight PROVE FALSE
        OBVIOUS
      <3>1. PICK q \in Requesters : inFlight[t].by = NameOf(q) /\ RunOf[q] = runId
        BY <1>2 DEF InStep, ClaimsCurrent
      <3>2. NameOf(q) \in Requesters /\ NameOf(q) # None
        BY Names, NoneAssumption
      <3>3. byRequester[NameOf(q)] = t
        BY <3>1, <3>2 DEF AgentInv, RunInv, OrchSide, OrchInv, ReplayFindsClaim
      <3>4. BoundTo[NameOf(q)] = c
        BY <2>1, <3>2, <3>3, NoneAssumption DEF AgentInv, RunInv, OrchSide, BindingsOwn
      <3>5. q = r
        BY <1>3, <3>1, <3>4, NamesAreUnique
      <3> QED
        BY <2>1, <3>2, <3>3, <3>5, NoneAssumption DEF Replays, InFlight
    <2>5. t \in TransactionIds(runId)
      BY <1>2, <2>2, <2>3, <2>4 DEF DrainedInv, Agrees, NoGhosts
    <2> QED
      BY <1>4, <2>5 DEF TransactionIds, t
  <1> QED
    BY <1>5 DEF Committed

(* An instance says its closing words only when every credit of its        *)
(* account is committed, unless the run was stopped or a run was replaced  *)
(* before it had come to rest: for any interleaving of attempts, retries,  *)
(* sweeps, drops, pod deaths and restarts of the server, and after any     *)
(* number of earlier runs (stub_llm.py:11-14, orchestrator.py:134-156).    *)
THEOREM ClosingIsComplete == AgentSpec => ClosingMeansComplete
  <1>1. ASSUME AgentInv, [AgentNext]_allVars, NEW r \in Requesters,
               inst[r].at # "closing", inst'[r].at = "closing", ~stopped, ~overlapped
        PROVE  Committed(BoundTo[r]) = 1..Credits
    <2>1. TellDone(r)
      BY <1>1, StepFits DEF Fits, OnlyTold
    <2>2. inst[r].at = "tools" /\ ~Replays(NameOf(r)) /\ queues[BoundTo[r]] = << >>
      BY <1>1, <2>1 DEF TellDone, Exhausted
    <2> QED
      BY <1>1, <2>2, EmptyQueueMeansCommitted DEF Running
  <1>2. AgentInv /\ [AgentNext]_allVars =>
           [\A r \in Requesters :
               inst[r].at # "closing" /\ inst'[r].at = "closing" /\ ~stopped /\ ~overlapped =>
                   Committed(BoundTo[r]) = 1..Credits]_allVars
    BY <1>1
  <1> QED
    BY <1>2, AgentInvariance, PTL DEF AgentSpec, ClosingMeansComplete
=============================================================================

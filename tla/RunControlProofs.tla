-------------------------- MODULE RunControlProofs --------------------------
(***************************************************************************)
(* Proofs about RunControl: first Spec, where resets, restarts and         *)
(* failures fall anywhere in a call.                                       *)
(***************************************************************************)
EXTENDS RunControl, OrchestratorProofs

-----------------------------------------------------------------------------
(* The runs that the orchestrator's books mention.                         *)

RunsIn(R, id, q, f, rc) ==
    /\ id \in R
    /\ \A c \in Customers : \A i \in DOMAIN q[c] : q[c][i].run \in R
    /\ \A t \in Tx : f[t] # None => f[t].run \in R
    /\ rc # None => rc.run \in R

LEMMA ClaimRuns ==
  ASSUME NEW R, OrchInv, RunsIn(R, runId, queues, inFlight, recon),
         NEW r \in Requesters \cup {None}, NEW c \in Customers, NextTaskClaim(r, c)
  PROVE  /\ RunsIn(R, runId', queues', inFlight', recon')
         /\ Head(queues[c]) \in Task
         /\ Head(queues[c]).run \in R
         /\ Head(queues[c]).tx[1] = c
  <1> DEFINE task == Head(queues[c])
  <1>1. /\ queues[c] \in Seq(Task) /\ queues[c] # << >>
        /\ task = queues[c][1] /\ 1 \in DOMAIN queues[c]
        /\ task \in Task
        /\ DOMAIN queues[c] = 1..Len(queues[c])
        /\ Len(queues[c]) \in Nat \ {0}
        /\ DOMAIN Tail(queues[c]) = 1..(Len(queues[c]) - 1)
        /\ \A i \in 1..(Len(queues[c]) - 1) : Tail(queues[c])[i] = queues[c][i + 1]
    BY HeadTailProperties, LenProperties, EmptySeq
       DEF NextTaskClaim, Exhausted, OrchInv, OrchTypeOK
  <1>2. /\ queues' = [queues EXCEPT ![c] = Tail(queues[c])]
        /\ inFlight' = [inFlight EXCEPT ![task.tx] = [run |-> task.run, by |-> r]]
        /\ UNCHANGED <<runId, recon>>
    BY DEF NextTaskClaim, Claims
  <1>3. task.run \in R /\ task.tx[1] = c /\ task.tx \in Tx
    BY <1>1 DEF RunsIn, OrchInv, QueuesOwnTasks, Task
  <1> HIDE DEF task
  <1>4. \A t \in Tx : inFlight'[t] # None => inFlight'[t].run \in R
    BY <1>2, <1>3 DEF RunsIn, OrchInv, OrchTypeOK
  <1>5. ASSUME NEW d \in Customers, NEW i \in DOMAIN queues'[d]
        PROVE  queues'[d][i].run \in R
    <2>1. CASE d # c
      BY <2>1, <1>2 DEF RunsIn, OrchInv, OrchTypeOK
    <2>2. CASE d = c
      <3>1. i + 1 \in DOMAIN queues[c] /\ queues'[c][i] = queues[c][i + 1]
        BY <1>1, <1>2, <2>2 DEF OrchInv, OrchTypeOK
      <3> QED
        BY <2>2, <3>1 DEF RunsIn
    <2> QED
      BY <2>1, <2>2
  <1> QED
    BY <1>1, <1>2, <1>3, <1>4, <1>5 DEF RunsIn, task

LEMMA ReportRuns ==
  ASSUME NEW R, OrchInv, RunsIn(R, runId, queues, inFlight, recon),
         NEW t \in Tx, ReportDone(t)
  PROVE  RunsIn(R, runId', queues', inFlight', recon')
  BY DEF RunsIn, ReportDone, OrchInv, OrchTypeOK

LEMMA ReleaseRuns ==
  ASSUME NEW R, OrchInv, RunsIn(R, runId, queues, inFlight, recon),
         NEW S \in SUBSET InFlight, Release(S), recon' # None => recon'.run \in R
  PROVE  RunsIn(R, runId', queues', inFlight', recon')
  <1>1. ReturnToFront(S) /\ runId' = runId
    BY DEF Release
  <1>2. \A c \in Customers : \A j \in DOMAIN queues'[c] :
           \/ \E i \in DOMAIN queues[c] : queues'[c][j] = queues[c][i]
           \/ \E t \in S : /\ t[1] = c
                           /\ queues'[c][j] = [run |-> inFlight[t].run, tx |-> t]
    BY <1>1, ReturnToFrontKeepsTasks DEF OrchInv
  <1>3. ASSUME NEW c \in Customers, NEW j \in DOMAIN queues'[c]
        PROVE  queues'[c][j].run \in R
    <2>1. CASE \E i \in DOMAIN queues[c] : queues'[c][j] = queues[c][i]
      BY <2>1 DEF RunsIn
    <2>2. CASE \E t \in S : /\ t[1] = c
                            /\ queues'[c][j] = [run |-> inFlight[t].run, tx |-> t]
      <3>1. PICK t \in S : queues'[c][j] = [run |-> inFlight[t].run, tx |-> t]
        BY <2>2
      <3>2. queues'[c][j].run = inFlight[t].run
        BY <3>1
      <3>3. t \in Tx /\ inFlight[t] # None
        BY DEF InFlight
      <3> QED
        BY <3>2, <3>3 DEF RunsIn
    <2> QED
      BY <1>2, <2>1, <2>2
  <1>4. \A t \in Tx : inFlight'[t] # None => inFlight'[t].run \in R
    BY DEF Release, RunsIn
  <1> QED
    BY <1>1, <1>3, <1>4 DEF RunsIn

LEMMA RequeueRuns ==
  ASSUME NEW R, OrchInv, RunsIn(R, runId, queues, inFlight, recon), ReconcileRequeue
  PROVE  RunsIn(R, runId', queues', inFlight', recon')
  <1>1. \A c \in Customers : \A j \in DOMAIN queues'[c] :
           \/ \E i \in DOMAIN queues[c] : queues'[c][j] = queues[c][i]
           \/ \E t \in recon.txs \cap reported :
                 /\ t[1] = c
                 /\ queues'[c][j] = [run |-> recon.run, tx |-> t]
    BY RequeueKeepsTasks DEF OrchInv
  <1>2. ASSUME NEW c \in Customers, NEW j \in DOMAIN queues'[c]
        PROVE  queues'[c][j].run \in R
    <2>1. CASE \E i \in DOMAIN queues[c] : queues'[c][j] = queues[c][i]
      BY <2>1 DEF RunsIn
    <2>2. ASSUME NEW t \in recon.txs, queues'[c][j] = [run |-> recon.run, tx |-> t]
          PROVE  queues'[c][j].run \in R
      BY <2>2 DEF RunsIn, ReconcileRequeue
    <2> QED
      BY <1>1, <2>1, <2>2
  <1> QED
    BY <1>2 DEF RunsIn, ReconcileRequeue

LEMMA PopulateRuns ==
  ASSUME NEW R, NEW run \in Runs, run \in R, Populate(run), recon' # None => recon'.run \in R
  PROVE  RunsIn(R, runId', queues', inFlight', recon')
  <1>1. \A c \in Customers : \A i \in DOMAIN FreshQueues(run)[c] :
            FreshQueues(run)[c][i].run = run
    BY DEF FreshQueues
  <1> QED
    BY <1>1 DEF Populate, RunsIn

LEMMA ReconcileRuns ==
  ASSUME NEW R, OrchInv, RunsIn(R, runId, queues, inFlight, recon),
         \/ ReconcileSnapshot
         \/ \E actual : ReconcileRead(actual)
         \/ recon' = None
  PROVE  recon' # None => recon'.run \in R
  <1>1. CASE ReconcileSnapshot
    BY <1>1 DEF ReconcileSnapshot, RunsIn
  <1>2. CASE \E actual : ReconcileRead(actual)
    <2>1. recon # None /\ (recon' = None \/ recon'.run = recon.run)
      BY <1>2 DEF ReconcileRead, OrchInv, OrchTypeOK, Snapshot
    <2> QED
      BY <2>1 DEF RunsIn
  <1> QED
    BY <1>1, <1>2

-----------------------------------------------------------------------------
(* The inductive invariant of Spec.  Beyond types and the properties: no   *)
(* run is mentioned anywhere before the database has created it, so that a *)
(* new run starts without transactions; and a requester is only ever bound *)
(* to credits of its own customer.                                         *)

BindingsOwn ==
    \A r \in Requesters : byRequester[r] # None => byRequester[r][1] = BoundTo[r]

OrchSide ==
    /\ OrchInv
    /\ RunsIn(1..lastRun, runId, queues, inFlight, recon)
    /\ BindingsOwn

LedgerSide ==
    /\ LedgerTypeOK
    /\ \A x \in txs : x[1] <= lastRun
    /\ NoCreditLost

CallSide ==
    /\ CallTypeOK
    /\ CreditsOwnAccount
    /\ \A k \in Calls : call[k] # None => call[k].run \in 1..lastRun

ControlSide ==
    /\ ControlTypeOK
    /\ \A run \in pending : run \in 1..lastRun

RunInv == OrchSide /\ LedgerSide /\ CallSide /\ ControlSide

\* Runs are 1..MaxRun, and the largest one is in it.
LEMMA RunsUpToLast ==
  ASSUME LedgerTypeOK
  PROVE  lastRun \in Nat /\ 1 \in 1..lastRun /\ lastRun \in 1..lastRun /\ 1..lastRun \subseteq Runs
  BY SizesAssumption DEF LedgerTypeOK, Runs

LEMMA SetOfCredits ==
  ASSUME NEW S \in SUBSET (1..Credits)
  PROVE  IsFiniteSet(S) /\ Cardinality(S) \in 0..Credits
  <1>1. IsFiniteSet(1..Credits) /\ Cardinality(1..Credits) = Credits
    BY FS_Interval, SizesAssumption
  <1>2. IsFiniteSet(S) /\ Cardinality(S) <= Cardinality(1..Credits)
    <2>1. S \subseteq 1..Credits
      OBVIOUS
    <2> QED
      BY <1>1, <2>1, FS_Subset
  <1>3. Cardinality(S) \in Nat
    BY <1>2, FS_CardinalityType
  <1> QED
    BY <1>1, <1>2, <1>3, SizesAssumption

LEMMA CommittedFinite ==
  ASSUME NEW c \in Customers
  PROVE  /\ IsFiniteSet(Committed(c))
         /\ Cardinality(Committed(c)) \in 0..Credits
  <1>1. Committed(c) \in SUBSET (1..Credits)
    BY DEF Committed
  <1> QED
    BY <1>1, SetOfCredits

-----------------------------------------------------------------------------
(* One side at a time.                                                     *)

LEMMA LedgerFrame ==
  ASSUME LedgerSide, UNCHANGED ledgerVars
  PROVE  LedgerSide'
  BY DEF LedgerSide, ledgerVars, LedgerTypeOK, NoCreditLost, Committed

LEMMA CallFrame ==
  ASSUME CallSide, UNCHANGED <<call, lastRun>>, dropNext' \in 0..MaxDrops
  PROVE  CallSide'
  BY DEF CallSide, CallTypeOK, CreditsOwnAccount, CustomerOf

LEMMA ControlFrame ==
  ASSUME ControlSide, UNCHANGED lastRun, pending' \subseteq pending,
         loop' \in LoopAt, sawIdle' \in BOOLEAN
  PROVE  ControlSide'
  BY DEF ControlSide, ControlTypeOK

LEMMA FinishKeeps ==
  ASSUME CallSide, NEW k \in Calls, Finish(k), UNCHANGED lastRun,
         dropNext' \in 0..MaxDrops
  PROVE  CallSide'
  BY DEF CallSide, CallTypeOK, CreditsOwnAccount, CustomerOf, Finish

LEMMA StartsKeeps ==
  ASSUME CallSide, NEW k \in Calls, NEW r \in Requesters, NEW task,
         task.run \in Runs, task.run \in 1..lastRun, task.tx \in Tx,
         task.tx[1] = BoundTo[r],
         Starts(k, r, task), UNCHANGED <<lastRun, dropNext>>
  PROVE  CallSide'
  <1> DEFINE new == [at |-> "query", by |-> r, run |-> task.run, tx |-> task.tx,
                     full |-> FALSE]
  <1>1. call' = [call EXCEPT ![k] = new] /\ new \in Call
    BY DEF Starts, Call, Phases
  <1>2. new.run = task.run /\ new.tx = task.tx /\ new.by = r /\ new # None
    BY <1>1, ServiceAssumption
  <1> HIDE DEF new
  <1>3. CallTypeOK'
    BY <1>1 DEF CallSide, CallTypeOK
  <1>4. CreditsOwnAccount'
    BY <1>1, <1>2 DEF CallSide, CallTypeOK, CreditsOwnAccount, CustomerOf
  <1>5. \A j \in Calls : call'[j] # None => call'[j].run \in 1..lastRun'
    BY <1>1, <1>2 DEF CallSide, CallTypeOK
  <1> QED
    BY <1>3, <1>4, <1>5 DEF CallSide

\* A call moves on and keeps what it is about.
LEMMA MovesOnKeeps ==
  ASSUME CallSide, NEW k \in Calls, call[k] # None,
         NEW phase \in Phases, NEW full \in BOOLEAN,
         call' = [call EXCEPT ![k].at = phase, ![k].full = full],
         UNCHANGED <<lastRun, dropNext>>
  PROVE  CallSide'
  <1>1. call[k] \in Call
    BY DEF CallSide, CallTypeOK
  <1> DEFINE new == [call[k] EXCEPT !.at = phase, !.full = full]
  <1>2. call' = [call EXCEPT ![k] = new]
    OBVIOUS
  <1>3. /\ new \in Call /\ new # None
        /\ new.run = call[k].run /\ new.tx = call[k].tx /\ new.by = call[k].by
    BY <1>1, ServiceAssumption DEF Call
  <1> HIDE DEF new
  <1>4. CallTypeOK'
    BY <1>2, <1>3 DEF CallSide, CallTypeOK
  <1>5. CreditsOwnAccount'
    BY <1>2, <1>3 DEF CallSide, CallTypeOK, CreditsOwnAccount, CustomerOf
  <1>6. \A j \in Calls : call'[j] # None => call'[j].run \in 1..lastRun'
    BY <1>2, <1>3 DEF CallSide, CallTypeOK
  <1> QED
    BY <1>4, <1>5, <1>6 DEF CallSide

\* Advance is the case in which the balance is not looked at again.
LEMMA AdvanceKeeps ==
  ASSUME CallSide, NEW k \in Calls, call[k] # None, NEW phase \in Phases,
         Advance(k, phase), UNCHANGED <<lastRun, dropNext>>
  PROVE  CallSide'
  <1>1. call[k] \in Call /\ call[k].full \in BOOLEAN
    BY DEF CallSide, CallTypeOK, Call
  <1> DEFINE new == [call[k] EXCEPT !.at = phase]
  <1>2. call' = [call EXCEPT ![k] = new]
    BY DEF Advance
  <1>3. /\ new \in Call /\ new # None
        /\ new.run = call[k].run /\ new.tx = call[k].tx /\ new.by = call[k].by
    BY <1>1, ServiceAssumption DEF Call
  <1> HIDE DEF new
  <1>4. CallTypeOK'
    BY <1>2, <1>3 DEF CallSide, CallTypeOK
  <1>5. CreditsOwnAccount'
    BY <1>2, <1>3 DEF CallSide, CallTypeOK, CreditsOwnAccount, CustomerOf
  <1>6. \A j \in Calls : call'[j] # None => call'[j].run \in 1..lastRun'
    BY <1>2, <1>3 DEF CallSide, CallTypeOK
  <1> QED
    BY <1>4, <1>5, <1>6 DEF CallSide

\* Unbinding requesters breaks no binding.
LEMMA UnbindKeeps ==
  ASSUME BindingsOwn, NEW S, byRequester' = Unbind(S)
  PROVE  BindingsOwn'
  BY DEF BindingsOwn, Unbind

LEMMA OrchFrame ==
  ASSUME OrchSide, UNCHANGED <<orchVars, lastRun>>
  PROVE  OrchSide'
  <1>1. OrchInv'
    BY SideStepKeepsInv DEF OrchSide, orchVars, OrchInv, OrchTypeOK, ReconOK
  <1> QED
    BY <1>1 DEF OrchSide, orchVars, RunsIn, BindingsOwn

LEMMA ReportSide ==
  ASSUME OrchSide, NEW t \in Tx, ReportDone(t), UNCHANGED lastRun
  PROVE  OrchSide'
  <1>1. OrchInv' /\ RunsIn(1..lastRun, runId', queues', inFlight', recon')
    BY ReportKeepsInv, ReportRuns DEF OrchSide
  <1>2. BindingsOwn'
    BY UnbindKeeps DEF OrchSide, ReportDone
  <1> QED
    BY <1>1, <1>2 DEF OrchSide

LEMMA SweepSide ==
  ASSUME OrchSide, NEW S \in SUBSET InFlight, Sweep(S), UNCHANGED lastRun,
         recon' = recon \/ ReconcileSnapshot
  PROVE  OrchSide'
  <1>1. ReconOK'
    BY SnapshotOK DEF OrchSide, OrchInv, OrchTypeOK, ReconOK
  <1>2. recon' # None => recon'.run \in 1..lastRun
    BY ReconcileRuns DEF OrchSide, RunsIn
  <1>3. OrchInv' /\ RunsIn(1..lastRun, runId', queues', inFlight', recon')
    BY <1>1, <1>2, ReleaseKeepsInv, ReleaseRuns DEF OrchSide, Sweep
  <1>4. BindingsOwn'
    BY UnbindKeeps DEF OrchSide, Sweep, Release
  <1> QED
    BY <1>3, <1>4 DEF OrchSide

LEMMA PopulateSide ==
  ASSUME OrchSide, LedgerTypeOK, NEW run \in 1..lastRun, Populate(run),
         UNCHANGED lastRun, recon' = recon \/ recon' = None
  PROVE  OrchSide'
  <1>1. run \in Runs
    BY RunsUpToLast
  <1>2. ReconOK' /\ (recon' # None => recon'.run \in 1..lastRun)
    BY DEF OrchSide, OrchInv, OrchTypeOK, ReconOK, RunsIn
  <1>3. OrchInv' /\ RunsIn(1..lastRun, runId', queues', inFlight', recon')
    BY <1>1, <1>2, PopulateKeepsInv, PopulateRuns
  <1>4. BindingsOwn'
    BY DEF Populate, BindingsOwn
  <1> QED
    BY <1>3, <1>4 DEF OrchSide

LEMMA ReconSide ==
  ASSUME OrchSide, BooksUnchanged, UNCHANGED lastRun,
         \/ ReconcileSnapshot
         \/ \E actual \in SUBSET Tx : ReconcileRead(actual)
         \/ recon' = None
  PROVE  OrchSide'
  <1>1. ReconOK'
    BY SnapshotOK, ReadOK DEF OrchSide, OrchInv, OrchTypeOK, ReconOK
  <1>2. recon' # None => recon'.run \in 1..lastRun
    BY ReconcileRuns DEF OrchSide
  <1>3. OrchInv'
    BY <1>1, SideStepKeepsInv DEF OrchSide, BooksUnchanged, OrchInv, OrchTypeOK
  <1> QED
    BY <1>2, <1>3 DEF OrchSide, BooksUnchanged, RunsIn, BindingsOwn

LEMMA RequeueSide ==
  ASSUME OrchSide, ReconcileRequeue, UNCHANGED lastRun
  PROVE  OrchSide'
  <1>1. OrchInv' /\ RunsIn(1..lastRun, runId', queues', inFlight', recon')
    BY RequeueKeepsInv, RequeueRuns DEF OrchSide
  <1>2. BindingsOwn'
    BY DEF OrchSide, ReconcileRequeue, BindingsOwn
  <1> QED
    BY <1>1, <1>2 DEF OrchSide

LEMMA ClaimSide ==
  ASSUME OrchSide, LedgerTypeOK, UNCHANGED lastRun, NEW r \in Requesters, BoundTo[r] \in Customers,
         NextTaskClaim(r, BoundTo[r])
  PROVE  OrchSide'
  <1>1. OrchInv' /\ RunsIn(1..lastRun, runId', queues', inFlight', recon')
    BY ClaimKeepsInv, ClaimRuns DEF OrchSide
  <1>2. Head(queues[BoundTo[r]]).tx[1] = BoundTo[r]
    BY ClaimRuns DEF OrchSide
  <1>3. BindingsOwn'
    BY <1>2 DEF OrchSide, BindingsOwn, NextTaskClaim, Claims
  <1> QED
    BY <1>1, <1>3 DEF OrchSide
-----------------------------------------------------------------------------
(* One action at a time: the calls.                                        *)

LEMMA NoDropsTyped == RunInv => dropNext \in 0..MaxDrops /\ MaxDrops \in Nat
  BY ServiceAssumption DEF RunInv, CallSide, CallTypeOK

LEMMA CallFacts ==
  ASSUME RunInv, NEW k \in Calls, call[k] # None
  PROVE  /\ call[k] \in Call
         /\ call[k].tx \in Tx /\ call[k].run \in 1..lastRun
         /\ CustomerOf(k) \in Customers /\ call[k].tx[1] = CustomerOf(k)
  BY ServiceAssumption
     DEF RunInv, CallSide, CallTypeOK, CreditsOwnAccount, CustomerOf, Call

LEMMA ClaimCallKeeps ==
  ASSUME RunInv, NEW k \in Calls, NEW r \in Requesters, ClaimCall(k, r),
         UNCHANGED controlVars
  PROVE  RunInv'
  <1> DEFINE task == Head(queues[BoundTo[r]])
  <1>1. BoundTo[r] \in Customers /\ NextTaskClaim(r, BoundTo[r])
        /\ UNCHANGED <<lastRun, dropNext>>
    BY ServiceAssumption DEF ClaimCall, ledgerVars
  <1>2. OrchSide'
    BY <1>1, ClaimSide DEF RunInv, LedgerSide
  <1>3. task.run \in 1..lastRun /\ task.tx[1] = BoundTo[r]
        /\ task.run \in Runs /\ task.tx \in Tx
    BY <1>1, ClaimRuns DEF RunInv, OrchSide, Task
  <1>4. CallSide'
    BY <1>1, <1>3, StartsKeeps DEF RunInv, ClaimCall
  <1>5. LedgerSide' /\ ControlSide'
    BY LedgerFrame, ControlFrame
       DEF RunInv, ClaimCall, controlVars, ledgerVars, ControlSide, ControlTypeOK
  <1> QED
    BY <1>2, <1>4, <1>5 DEF RunInv

LEMMA ReplayCallKeeps ==
  ASSUME RunInv, NEW k \in Calls, NEW r \in Requesters, ReplayCall(k, r),
         UNCHANGED controlVars
  PROVE  RunInv'
  <1> DEFINE t == byRequester[r]
             task == [run |-> inFlight[t].run, tx |-> t]
  <1>1. UNCHANGED <<orchVars, ledgerVars, lastRun, dropNext>>
    BY DEF ReplayCall, ledgerVars
  <1>2. t # None /\ inFlight[t] # None /\ t \in Tx
    BY DEF ReplayCall, Replays, RunInv, OrchSide, OrchInv, OrchTypeOK
  <1>3. t[1] = BoundTo[r]
    BY <1>2 DEF RunInv, OrchSide, BindingsOwn
  <1>4. inFlight[t].run \in Runs /\ inFlight[t].run \in 1..lastRun
    BY <1>2 DEF RunInv, OrchSide, OrchInv, OrchTypeOK, Claim, RunsIn
  <1>5. Starts(k, r, task) /\ task.run = inFlight[t].run /\ task.tx = t
    BY DEF ReplayCall
  <1> HIDE DEF t, task
  <1>6. CallSide'
    BY <1>1, <1>2, <1>3, <1>4, <1>5, StartsKeeps DEF RunInv
  <1>7. OrchSide' /\ LedgerSide' /\ ControlSide'
    BY <1>1, OrchFrame, LedgerFrame, ControlFrame
       DEF RunInv, controlVars, ControlSide, ControlTypeOK
  <1> QED
    BY <1>6, <1>7 DEF RunInv

\* Steps that leave the orchestrator, the database and the loop alone.
LEMMA CallOnlyKeeps ==
  ASSUME RunInv, CallSide', UNCHANGED <<orchVars, ledgerVars, controlVars>>
  PROVE  RunInv'
  BY OrchFrame, LedgerFrame, ControlFrame
     DEF RunInv, controlVars, ledgerVars, ControlSide, ControlTypeOK

LEMMA ReadBalanceKeeps ==
  ASSUME RunInv, NEW k \in Calls, ReadBalance(k), UNCHANGED controlVars
  PROVE  RunInv'
  <1>1. call[k] # None /\ AtTarget(CustomerOf(k)) \in BOOLEAN
    BY DEF ReadBalance, At, AtTarget
  <1>2. CallSide'
    BY <1>1, MovesOnKeeps DEF RunInv, ReadBalance, Phases, ledgerVars
  <1> QED
    BY <1>2, CallOnlyKeeps DEF ReadBalance

LEMMA SendCreditKeeps ==
  ASSUME RunInv, NEW k \in Calls, SendCredit(k), UNCHANGED controlVars
  PROVE  RunInv'
  <1>1. CallSide'
    BY AdvanceKeeps DEF RunInv, SendCredit, At, Phases, ledgerVars
  <1> QED
    BY <1>1, CallOnlyKeeps DEF SendCredit

\* DropCall and FailCall: the call is gone, its claim stays.
LEMMA CallEndsKeeps ==
  ASSUME RunInv, NEW k \in Calls, DropCall(k) \/ FailCall(k), UNCHANGED controlVars
  PROVE  RunInv'
  <1>1. dropNext' \in 0..MaxDrops
    BY NoDropsTyped DEF DropCall, FailCall
  <1>2. CallSide'
    BY <1>1, FinishKeeps DEF RunInv, DropCall, FailCall, ledgerVars
  <1> QED
    BY <1>2, CallOnlyKeeps DEF DropCall, FailCall

LEMMA CallReportsKeeps ==
  ASSUME RunInv, NEW k \in Calls, SkipCall(k) \/ ReportCredit(k), UNCHANGED controlVars
  PROVE  RunInv'
  <1>1. /\ call[k] # None
        /\ ReportDone(call[k].tx)
        /\ Finish(k)
        /\ UNCHANGED <<ledgerVars, lastRun, dropNext>>
    BY DEF SkipCall, ReportCredit, At, ledgerVars
  <1>2. OrchSide'
    BY <1>1, CallFacts, ReportSide DEF RunInv
  <1>3. CallSide'
    BY <1>1, FinishKeeps DEF RunInv, CallSide, CallTypeOK
  <1>4. LedgerSide' /\ ControlSide'
    BY <1>1, LedgerFrame, ControlFrame
       DEF RunInv, controlVars, ControlSide, ControlTypeOK
  <1> QED
    BY <1>2, <1>3, <1>4 DEF RunInv
\* The commit of a credit: what it adds to the latest run of the account it
\* belongs to, it adds to the balance, unless that is at its target already.
LEMMA CreditAccountKeeps ==
  ASSUME LedgerSide, NEW c \in Customers, NEW run \in 1..lastRun, NEW t \in Tx,
         t[1] = c, CreditAccount(c, run, t)
  PROVE  LedgerSide'
  <1>1. /\ txs' = txs \cup {<<run, t>>}
        /\ lastRun' = lastRun
        /\ balance' = IF Inserts(run, t)
                      THEN [balance EXCEPT ![c] = LEAST(Target, @ + 1)]
                      ELSE balance
    BY DEF CreditAccount
  <1>2. LedgerTypeOK
    BY DEF LedgerSide
  <1>3. run \in Runs /\ run <= lastRun /\ lastRun \in Nat /\ Target \in Int
        /\ Credits \in Nat
    BY <1>2, RunsUpToLast, TargetAssumption, SizesAssumption
  <1>4. LedgerTypeOK'
    BY <1>1, <1>2, <1>3 DEF LedgerTypeOK, LEAST
  <1>5. \A x \in txs' : x[1] <= lastRun'
    BY <1>1, <1>3 DEF LedgerSide
  <1>6. ASSUME NEW d \in Customers
        PROVE  balance'[d] >= StartBalance + Cardinality(Committed(d)')
    <2>1. balance[d] >= StartBalance + Cardinality(Committed(d))
      BY DEF LedgerSide, NoCreditLost
    <2>2. /\ IsFiniteSet(Committed(d)) /\ Cardinality(Committed(d)) \in 0..Credits
          /\ Committed(d)' \in SUBSET (1..Credits)
      BY CommittedFinite DEF Committed
    <2>3. Cardinality(Committed(d)') \in Nat /\ Cardinality(Committed(d)') <= Credits
      BY <2>2, <1>3, SetOfCredits
    <2>4. CASE d # c \/ run # lastRun \/ ~Inserts(run, t)
      <3>1. Committed(d)' = Committed(d)
        BY <1>1, <2>4 DEF Committed, Inserts
      <3>2. balance'[d] = balance[d] \/ balance'[d] = Target
            \/ balance'[d] >= balance[d]
        BY <1>1, <1>2, <1>3 DEF LedgerTypeOK, LEAST
      <3>3. balance'[d] \in Int /\ balance[d] \in Int
        BY <1>2, <1>4 DEF LedgerTypeOK
      <3> HIDE DEF Committed
      <3> QED
        BY <1>3, <2>1, <2>2, <3>1, <3>2, <3>3 DEF StartBalance
    <2>5. CASE d = c /\ run = lastRun /\ Inserts(run, t)
      <3>1. /\ t[2] \in 1..Credits /\ t = <<c, t[2]>>
        BY DEF Tx
      <3>2. Committed(d)' = Committed(d) \cup {t[2]} /\ t[2] \notin Committed(d)
        BY <1>1, <2>5, <3>1 DEF Committed, Inserts
      <3>3. Cardinality(Committed(d)') = Cardinality(Committed(d)) + 1
        BY <2>2, <3>2, FS_AddElement
      <3>4. balance'[d] = LEAST(Target, balance[d] + 1) /\ balance[d] \in Int
        BY <1>1, <1>2, <2>5 DEF LedgerTypeOK
      <3> QED
        BY <1>3, <2>1, <2>2, <2>3, <3>3, <3>4 DEF StartBalance, LEAST
    <2> QED
      BY <2>4, <2>5
  <1>7. NoCreditLost'
    BY <1>6 DEF NoCreditLost, StartBalance
  <1> QED
    BY <1>4, <1>5, <1>7 DEF LedgerSide

LEMMA CommitCreditKeeps ==
  ASSUME RunInv, NEW k \in Calls, CommitCredit(k), UNCHANGED controlVars
  PROVE  RunInv'
  <1>1. /\ call[k] # None
        /\ CreditAccount(CustomerOf(k), call[k].run, call[k].tx)
        /\ Advance(k, "report")
        /\ UNCHANGED <<orchVars, lastRun, dropNext>>
    BY DEF CommitCredit, At, CreditAccount
  <1>2. LedgerSide'
    BY <1>1, CallFacts, CreditAccountKeeps DEF RunInv
  <1>3. CallSide'
    BY <1>1, AdvanceKeeps DEF RunInv, Phases
  <1>4. OrchSide' /\ ControlSide'
    BY <1>1, OrchFrame, ControlFrame
       DEF RunInv, controlVars, ControlSide, ControlTypeOK
  <1> QED
    BY <1>2, <1>3, <1>4 DEF RunInv
-----------------------------------------------------------------------------
(* One action at a time: chaos, the loop, and the changes of run.          *)

LEMMA ChaosKeeps ==
  ASSUME RunInv, ChaosStep, UNCHANGED controlVars
  PROVE  RunInv'
  <1>1. CASE \/ \E n \in 1..MaxDrops : ArmDrop(n)
             \/ ChaosReset
             \/ ReadToolDropped
    <2>1. dropNext' \in 0..MaxDrops /\ UNCHANGED <<orchVars, ledgerVars, call>>
      BY <1>1, NoDropsTyped DEF ArmDrop, ChaosReset, ReadToolDropped
    <2>2. CallSide'
      BY <2>1, CallFrame DEF RunInv, ledgerVars
    <2> QED
      BY <2>1, <2>2, CallOnlyKeeps
  <1>2. CASE PodKillSweep
    <2>1. /\ Sweep(InFlight)
          /\ UNCHANGED <<recon, ledgerVars, lastRun, call, dropNext>>
      BY <1>2 DEF PodKillSweep, ledgerVars
    <2>2. OrchSide'
      BY <2>1, SweepSide DEF RunInv
    <2>3. LedgerSide' /\ CallSide' /\ ControlSide'
      BY <2>1, LedgerFrame, CallFrame, ControlFrame, NoDropsTyped
         DEF RunInv, controlVars, ControlSide, ControlTypeOK
    <2> QED
      BY <2>2, <2>3 DEF RunInv
  <1> QED
    BY <1>1, <1>2 DEF ChaosStep

\* Steps of the loop and of its control touch neither the database nor the
\* calls.
LEMMA ControlStepKeeps ==
  ASSUME RunInv, OrchSide', UNCHANGED <<ledgerVars, callVars>>,
         pending' \subseteq pending, loop' \in LoopAt, sawIdle' \in BOOLEAN
  PROVE  RunInv'
  BY LedgerFrame, CallFrame, ControlFrame, NoDropsTyped
     DEF RunInv, ledgerVars, callVars

LEMMA LoopKeeps ==
  ASSUME RunInv, LoopStep
  PROVE  RunInv'
  <1>0. sawIdle \in BOOLEAN
    BY DEF RunInv, ControlSide, ControlTypeOK
  <1>1. CASE StartLoop \/ LoopSnapshot \/ LoopStatusFails
    <2>1. UNCHANGED <<orchVars, ledgerVars, callVars, pending, lastRun>>
      BY <1>1 DEF StartLoop, LoopSnapshot, LoopStatusFails, ledgerVars
    <2>2. loop' \in LoopAt /\ sawIdle' \in BOOLEAN
      BY <1>0, <1>1 DEF StartLoop, LoopSnapshot, LoopStatusFails, LoopAt
    <2> QED
      BY <2>1, <2>2, OrchFrame, ControlStepKeeps DEF RunInv
  <1>2. ASSUME NEW S \in SUBSET InFlight, LoopSweep(S)
        PROVE  RunInv'
    <2>1. /\ Sweep(S) /\ (recon' = recon \/ ReconcileSnapshot)
          /\ UNCHANGED <<ledgerVars, callVars, pending, lastRun>>
      BY <1>2 DEF LoopSweep, ledgerVars
    <2>2. loop' \in LoopAt /\ sawIdle' \in BOOLEAN
      BY <1>0, <1>2 DEF LoopSweep, LoopAt
    <2> QED
      BY <2>1, <2>2, SweepSide, ControlStepKeeps DEF RunInv
  <1>3. CASE LoopRead \/ LoopReadFails
    <2>1. /\ BooksUnchanged
          /\ \/ \E actual \in SUBSET Tx : ReconcileRead(actual)
             \/ recon' = None
      <3>1. TransactionIds(recon.run) \in SUBSET Tx
        BY DEF TransactionIds
      <3> QED
        BY <1>3, <3>1
           DEF LoopRead, LoopReadFails, ReconcileRead, ReconcileAbort, BooksUnchanged
    <2>2. /\ UNCHANGED <<ledgerVars, callVars, pending, lastRun>>
          /\ loop' \in LoopAt /\ sawIdle' \in BOOLEAN
      BY <1>0, <1>3 DEF LoopRead, LoopReadFails, LoopAt, ledgerVars
    <2> QED
      BY <2>1, <2>2, ReconSide, ControlStepKeeps DEF RunInv
  <1>4. CASE LoopRequeue
    <2>1. /\ ReconcileRequeue
          /\ UNCHANGED <<ledgerVars, callVars, pending, lastRun>>
          /\ loop' \in LoopAt /\ sawIdle' \in BOOLEAN
      BY <1>0, <1>4 DEF LoopRequeue, LoopAt, ledgerVars
    <2> QED
      BY <2>1, RequeueSide, ControlStepKeeps DEF RunInv
  <1> QED
    BY <1>1, <1>2, <1>3, <1>4 DEF LoopStep

LEMMA StopKeeps ==
  ASSUME RunInv, Stop
  PROVE  RunInv'
  <1>1. /\ stopped' = TRUE /\ recon' = None
        /\ UNCHANGED <<runId, queues, inFlight, byRequester, reported, lastRun>>
    BY DEF Stop, SetStopped, ledgerVars
  <1>2. OrchInv'
    BY <1>1, SideStepKeepsInv DEF RunInv, OrchSide, ReconOK
  <1>3. OrchSide'
    BY <1>1, <1>2 DEF RunInv, OrchSide, RunsIn, BindingsOwn
  <1>4. loop' \in LoopAt /\ sawIdle' \in BOOLEAN /\ pending' = pending
        /\ UNCHANGED <<ledgerVars, callVars>>
    BY DEF Stop, LoopAt, RunInv, ControlSide, ControlTypeOK
  <1> QED
    BY <1>3, <1>4, ControlStepKeeps

LEMMA RestartKeeps ==
  ASSUME RunInv, Restart
  PROVE  RunInv'
  <1>1. LedgerTypeOK /\ lastRun \in 1..lastRun /\ UNCHANGED <<ledgerVars, lastRun>>
    BY RunsUpToLast DEF RunInv, LedgerSide, Restart, ledgerVars
  <1>2. OrchSide' /\ LedgerSide'
    BY <1>1, PopulateSide, LedgerFrame DEF RunInv, Restart
  <1>3. CallSide'
    BY NoDropsTyped DEF Restart, CallSide, CallTypeOK, CreditsOwnAccount
  <1>4. ControlSide'
    BY DEF Restart, ControlSide, ControlTypeOK, LoopAt
  <1> QED
    BY <1>2, <1>3, <1>4 DEF RunInv

LEMMA InstallKeeps ==
  ASSUME RunInv, NEW run \in Runs, NEW spawn \in BOOLEAN, InstallRun(run, spawn)
  PROVE  RunInv'
  <1>1. /\ LedgerTypeOK /\ run \in 1..lastRun /\ Populate(run)
        /\ recon' = recon \/ recon' = None
        /\ UNCHANGED <<ledgerVars, callVars, lastRun>>
    BY DEF RunInv, LedgerSide, ControlSide, InstallRun, ledgerVars
  <1>2. OrchSide'
    BY <1>1, PopulateSide DEF RunInv
  <1>3. loop' \in LoopAt /\ sawIdle' \in BOOLEAN /\ pending' \subseteq pending
    BY DEF InstallRun, LoopAt, RunInv, ControlSide, ControlTypeOK
  <1> QED
    BY <1>1, <1>2, <1>3, ControlStepKeeps

\* No transaction is in the database for a run it has only just created.
LEMMA ResetLedgerKeeps ==
  ASSUME RunInv, ResetLedger
  PROVE  RunInv'
  <1>1. /\ lastRun' = lastRun + 1 /\ lastRun < MaxRun
        /\ balance' = [c \in Customers |-> StartBalance]
        /\ UNCHANGED <<txs, orchVars, callVars, loop, sawIdle>>
        /\ pending' = pending \cup {lastRun'}
    BY DEF ResetLedger, StartExecutionRun
  <1>2. LedgerTypeOK /\ lastRun \in Nat /\ MaxRun \in Nat /\ lastRun >= 1
    BY SizesAssumption DEF RunInv, LedgerSide, LedgerTypeOK, Runs
  <1>3. /\ lastRun' \in Runs /\ lastRun' \in 1..lastRun'
        /\ 1..lastRun \subseteq 1..lastRun'
    BY <1>1, <1>2 DEF Runs
  <1>4. OrchSide'
    <2>1. OrchInv' /\ BindingsOwn'
      BY <1>1, SideStepKeepsInv
         DEF RunInv, OrchSide, orchVars, OrchInv, OrchTypeOK, ReconOK, BindingsOwn
    <2>2. RunsIn(1..lastRun, runId, queues, inFlight, recon)
      BY DEF RunInv, OrchSide
    <2>3. RunsIn(1..lastRun', runId', queues', inFlight', recon')
      BY <1>1, <1>3, <2>2 DEF RunsIn, orchVars
    <2> QED
      BY <2>1, <2>3 DEF OrchSide
  <1>5. LedgerSide'
    <2>1. LedgerTypeOK'
      BY <1>1, <1>2, <1>3, TargetAssumption, SizesAssumption
         DEF LedgerTypeOK, StartBalance
    <2>2. \A x \in txs' : x[1] <= lastRun /\ x[1] \in Nat
      BY <1>1, <1>2 DEF RunInv, LedgerSide, LedgerTypeOK, Runs
    <2>3. \A c \in Customers : Committed(c)' = {}
      BY <1>1, <1>2, <2>2 DEF Committed
    <2>4. Cardinality({}) = 0
      BY FS_EmptySet
    <2>5. NoCreditLost'
      BY <1>1, <2>3, <2>4, TargetAssumption, SizesAssumption
         DEF NoCreditLost, StartBalance
    <2> QED
      BY <1>1, <1>2, <2>1, <2>2, <2>5 DEF LedgerSide
  <1>6. CallSide'
    BY <1>1, <1>3 DEF RunInv, CallSide, CallTypeOK, CreditsOwnAccount, CustomerOf, callVars
  <1>7. ControlSide'
    BY <1>1, <1>3 DEF RunInv, ControlSide, ControlTypeOK
  <1> QED
    BY <1>4, <1>5, <1>6, <1>7 DEF RunInv
-----------------------------------------------------------------------------
(* Every behaviour of Spec.                                                *)

LEMMA InitRunInv == Init => RunInv
  <1> SUFFICES ASSUME Init PROVE RunInv
    OBVIOUS
  <1> USE DEF Init
  <1>1. LedgerSide
    <2>1. LedgerTypeOK
      BY SizesAssumption, TargetAssumption
         DEF LedgerInit, LedgerTypeOK, StartBalance, Runs
    <2>2. \A c \in Customers : Committed(c) = {}
      BY DEF LedgerInit, Committed
    <2>3. Cardinality({}) = 0 /\ StartBalance \in Int
      BY FS_EmptySet, SizesAssumption, TargetAssumption DEF StartBalance
    <2>4. NoCreditLost
      BY <2>2, <2>3 DEF LedgerInit, NoCreditLost
    <2> QED
      BY <2>1, <2>4 DEF LedgerSide, LedgerInit
  <1>2. lastRun = 1 /\ 1 \in 1..lastRun
    BY DEF LedgerInit
  <1>3. OrchSide
    <2>1. OrchInv
      BY InitOrchInv
    <2>2. \A c \in Customers : \A i \in DOMAIN queues[c] : queues[c][i].run = 1
      BY DEF OrchInit, FreshQueues
    <2>3. RunsIn(1..lastRun, runId, queues, inFlight, recon)
      BY <1>2, <2>2 DEF OrchInit, RunsIn
    <2> QED
      BY <2>1, <2>3 DEF OrchSide, OrchInit, BindingsOwn
  <1>4. CallSide
    BY ServiceAssumption DEF CallInit, CallSide, CallTypeOK, CreditsOwnAccount
  <1>5. ControlSide
    BY DEF ControlInit, ControlSide, ControlTypeOK, LoopAt
  <1> QED
    BY <1>1, <1>3, <1>4, <1>5 DEF RunInv

LEMMA NextKeepsRunInv == RunInv /\ [Next]_vars => RunInv'
  <1> SUFFICES ASSUME RunInv, [Next]_vars PROVE RunInv'
    OBVIOUS
  <1>1. ASSUME NEW k \in Calls, CallStep(k), UNCHANGED controlVars
        PROVE  RunInv'
    BY <1>1, ClaimCallKeeps, ReplayCallKeeps, ReadBalanceKeeps, SendCreditKeeps,
       CommitCreditKeeps, CallEndsKeeps, CallReportsKeeps DEF CallStep
  <1>2. CASE SupportStep
    BY <1>2, ChaosKeeps, LoopKeeps, StopKeeps, RestartKeeps DEF SupportStep
  <1>3. CASE ResetStep
    BY <1>3, ResetLedgerKeeps, InstallKeeps DEF ResetStep
  <1>4. CASE UNCHANGED vars
    BY <1>4, OrchFrame, LedgerFrame, CallFrame, ControlFrame, NoDropsTyped
       DEF vars, controlVars, callVars, ledgerVars, RunInv, ControlSide, ControlTypeOK
  <1> QED
    BY <1>1, <1>2, <1>3, <1>4 DEF Next, ServeStep

THEOREM RunInvariance == Spec => []RunInv
  BY InitRunInv, NextKeepsRunInv, PTL DEF Spec

(* The state of the server, of the database and of the loop keeps its      *)
(* types, whatever resets, restarts, sweeps and failures do (server.py,    *)
(* orchestrator.py, replenisher.py, db.py).                                *)
THEOREM TypeCorrect == Spec => []TypeOK
  <1>1. RunInv => TypeOK
    BY DEF RunInv, OrchSide, OrchInv, LedgerSide, CallSide, ControlSide, TypeOK
  <1> QED
    BY <1>1, RunInvariance, PTL

(* For any number of customers, credits, calls and runs, and any target: a *)
(* credit committed in the latest run is in the balance of its account     *)
(* (db.py:70-124, 186-218).                                                *)
THEOREM CreditsStay == Spec => []NoCreditLost
  <1>1. RunInv => NoCreditLost
    BY DEF RunInv, LedgerSide
  <1> QED
    BY <1>1, RunInvariance, PTL

(* Whatever is requeued, released or replayed, a call credits the account  *)
(* that its credit belongs to (server.py:170-217).                         *)
THEOREM CreditsGoHome == Spec => []CreditsOwnAccount
  <1>1. RunInv => CreditsOwnAccount
    BY DEF RunInv, CallSide
  <1> QED
    BY <1>1, RunInvariance, PTL
-----------------------------------------------------------------------------
(* Stop.  While the flag is up a step claims nothing: what is in flight or *)
(* held by a call afterwards was in flight or held by a call before.       *)

TakesNothingOn ==
    /\ InFlight' \subseteq InFlight
    /\ \A k \in Calls : call'[k] # None => call'[k].tx \in Outstanding

LEMMA TakingNothingDrains ==
  ASSUME TakesNothingOn
  PROVE  Outstanding' \subseteq Outstanding
  BY DEF TakesNothingOn, Outstanding

LEMMA SameCallsTakeNothingOn ==
  ASSUME InFlight' \subseteq InFlight, UNCHANGED call
  PROVE  TakesNothingOn
  BY DEF TakesNothingOn, Outstanding

LEMMA CallTakesNothingOn ==
  ASSUME RunInv, stopped, NEW k \in Calls, CallStep(k)
  PROVE  TakesNothingOn
  <1>0. call \in [Calls -> Call \cup {None}] /\ inFlight \in [Tx -> Claim \cup {None}]
    BY DEF RunInv, CallSide, CallTypeOK, OrchSide, OrchInv, OrchTypeOK
  <1>1. ASSUME NEW r \in Requesters
        PROVE  ~ClaimCall(k, r)
    BY DEF ClaimCall, NextTaskClaim, Exhausted
  <1>2. ASSUME NEW r \in Requesters, ReplayCall(k, r)
        PROVE  TakesNothingOn
    <2> DEFINE t == byRequester[r]
    <2>1. t \in InFlight /\ InFlight' = InFlight
      BY <1>2 DEF ReplayCall, Replays, InFlight, orchVars, RunInv, OrchSide,
                  OrchInv, OrchTypeOK
    <2>2. call' = [call EXCEPT ![k] =
             [at |-> "query", by |-> r, run |-> inFlight[t].run, tx |-> t,
              full |-> FALSE]]
      BY <1>2 DEF ReplayCall, Starts
    <2> HIDE DEF t
    <2>3. \A j \in Calls : call'[j] # None =>
             call'[j].tx = t \/ (call[j] # None /\ call'[j].tx = call[j].tx)
      BY <1>0, <2>2
    <2> QED
      BY <2>1, <2>3 DEF TakesNothingOn, Outstanding
  <1>3. CASE ReadBalance(k) \/ SendCredit(k) \/ CommitCredit(k)
    <2>1. InFlight' = InFlight
      BY <1>3 DEF ReadBalance, SendCredit, CommitCredit, orchVars, InFlight
    <2>2. call[k] \in Call
      BY <1>0, <1>3 DEF ReadBalance, SendCredit, CommitCredit, At
    <2>3. \A j \in Calls : call'[j] # None =>
             call[j] # None /\ call'[j].tx = call[j].tx
      BY <1>0, <1>3, <2>2
         DEF ReadBalance, SendCredit, CommitCredit, At, Advance, Call
    <2> QED
      BY <2>1, <2>3 DEF TakesNothingOn, Outstanding
  <1>4. CASE SkipCall(k) \/ DropCall(k) \/ ReportCredit(k) \/ FailCall(k)
    <2>1. InFlight' \subseteq InFlight
      BY <1>0, <1>4 DEF SkipCall, DropCall, ReportCredit, FailCall, ReportDone,
                        orchVars, InFlight
    <2>2. \A j \in Calls : call'[j] # None =>
             call[j] # None /\ call'[j].tx = call[j].tx
      BY <1>0, <1>4 DEF SkipCall, DropCall, ReportCredit, FailCall, Finish
    <2> QED
      BY <2>1, <2>2 DEF TakesNothingOn, Outstanding
  <1> QED
    BY <1>1, <1>2, <1>3, <1>4 DEF CallStep

LEMMA SupportTakesNothingOn ==
  ASSUME RunInv, stopped, stopped', SupportStep
  PROVE  TakesNothingOn
  <1>1. CASE ChaosStep /\ UNCHANGED controlVars
    BY <1>1, SameCallsTakeNothingOn
       DEF ChaosStep, ArmDrop, ChaosReset, ReadToolDropped, PodKillSweep, Sweep,
           Release, orchVars, InFlight
  <1>2. CASE LoopStep
    BY <1>2, SameCallsTakeNothingOn
       DEF LoopStep, StartLoop, LoopSnapshot, LoopSweep, LoopStatusFails, LoopRead,
           LoopRequeue, LoopReadFails, Sweep, Release, ReconcileRead,
           ReconcileRequeue, BooksUnchanged, orchVars, callVars, InFlight
  <1>3. CASE Stop
    BY <1>3, SameCallsTakeNothingOn DEF Stop, SetStopped, callVars, InFlight
  <1>4. ~Restart
    BY DEF Restart, Populate
  <1> QED
    BY <1>1, <1>2, <1>3, <1>4 DEF SupportStep

LEMMA StepsDrain ==
  RunInv /\ [Next]_vars =>
      (stopped /\ stopped' => Outstanding' \subseteq Outstanding)
  <1> SUFFICES ASSUME RunInv, [Next]_vars, stopped, stopped'
               PROVE  Outstanding' \subseteq Outstanding
    OBVIOUS
  <1>1. CASE ServeStep \/ SupportStep
    BY <1>1, CallTakesNothingOn, SupportTakesNothingOn, TakingNothingDrains
       DEF ServeStep
  <1>2. CASE ResetStep
    <2>1. ResetLedger
      BY <1>2 DEF ResetStep, InstallRun, Populate
    <2> QED
      BY <2>1, SameCallsTakeNothingOn, TakingNothingDrains
         DEF ResetLedger, orchVars, callVars, InFlight
  <1>3. CASE UNCHANGED vars
    BY <1>3, SameCallsTakeNothingOn, TakingNothingDrains
       DEF vars, orchVars, callVars, InFlight
  <1> QED
    BY <1>1, <1>2, <1>3 DEF Next

(* Once the flag is up, no step claims a credit that was not claimed, for  *)
(* any number of calls in progress and any bindings of the requesters      *)
(* (orchestrator.py:137-139, replenisher.py:114-122).                      *)
THEOREM StopTakesNothingOn == Spec => StopDrains
  BY RunInvariance, StepsDrain, PTL DEF Spec, StopDrains
=============================================================================

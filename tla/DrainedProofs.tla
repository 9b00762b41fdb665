--------------------------- MODULE DrainedProofs ---------------------------
(***************************************************************************)
(* Proofs about DrainedSpec of RunControl, in which no call of credit_next *)
(* is in progress while a run is replaced: the books and the database      *)
(* agree, and the whole implements ExactlyOnce.                            *)
(***************************************************************************)
EXTENDS RunControlProofs

-----------------------------------------------------------------------------
(* The inductive invariant, on top of that of Spec.  Everything in the     *)
(* memory of the server is about one run, the one that is installed, and   *)
(* that is the latest of the database except between the two halves of a   *)
(* reset, when nothing is in progress.  Within it, whoever is about to     *)
(* report a credit finds it in the database, and once the loop has seen    *)
(* the orchestrator idle every credit of the run is there.                 *)

BooksSide == RunsIn({runId}, runId, queues, inFlight, recon) /\ NoDuplicateTask

\* A call is about the installed run; one that will report, or that found
\* the account at its target, has its credit in the database.
CallAgrees(k) ==
    /\ call[k].run = runId
    /\ call[k].full \/ call[k].at = "report" => call[k].tx \in TransactionIds(runId)

CallsAgree == \A k \in Calls : call[k] # None => CallAgrees(k)

ResetsDrained ==
    /\ pending = {} => runId = lastRun
    /\ pending # {} => pending = {lastRun} /\ NoCalls

\* Only the loop reconciles, and it has no ghost to find.
ReconcilesNothing ==
    /\ recon # None <=> loop = "reconcile"
    /\ recon # None => ~recon.read /\ recon.txs \subseteq TransactionIds(runId)

SeenIdle == loop \in {"reconcile", "done"} \/ (loop = "count" /\ sawIdle)

IdleMeansComplete == SeenIdle => TransactionIds(runId) = Tx

LoopSide == ReconcilesNothing /\ IdleMeansComplete

Agrees ==
    /\ BooksSide
    /\ CallsAgree
    /\ ResetsDrained
    /\ LoopSide
    /\ ExactBalance
    /\ NoGhosts

DrainedInv == RunInv /\ Agrees

-----------------------------------------------------------------------------
(* The queues hold each credit once.                                       *)

Distinct(q) == \A i, j \in DOMAIN q : q[i].tx = q[j].tx => i = j

\* A credit of customer c waits in the queue of c, if anywhere.
LEMMA WaitingIsQueued ==
  ASSUME QueuesOwnTasks, OrchTypeOK, NEW c \in Customers, NEW i \in DOMAIN queues[c]
  PROVE  /\ queues[c][i] \in Task
         /\ queues[c][i].tx \in Queued
  <1>1. queues[c] \in Seq(Task) /\ DOMAIN queues[c] = 1..Len(queues[c])
    BY LenProperties DEF OrchTypeOK
  <1>2. queues[c][i] \in Task
    BY <1>1, ElementOfSeq
  <1>3. queues[c][i].tx \in Tx /\ queues[c][i].tx[1] = c
    BY <1>2 DEF QueuesOwnTasks, Task
  <1> QED
    BY <1>2, <1>3 DEF Queued

LEMMA FreshBooks ==
  ASSUME NEW run \in Runs, Populate(run), recon' = None
  PROVE  BooksSide'
  <1>1. RunsIn({run}, runId', queues', inFlight', recon')
    BY PopulateRuns
  <1>2. \A c \in Customers : /\ DOMAIN FreshQueues(run)[c] = 1..Credits
                             /\ \A n \in 1..Credits : FreshQueues(run)[c][n].tx = <<c, n>>
    BY DEF FreshQueues
  <1>3. ASSUME NEW c \in Customers
        PROVE  Distinct(queues'[c])
    <2> DEFINE q == FreshQueues(run)[c]
    <2>1. queues'[c] = q
      BY DEF Populate
    <2>2. DOMAIN q = 1..Credits /\ \A n \in 1..Credits : q[n].tx = <<c, n>>
      BY <1>2
    <2> HIDE DEF q
    <2>3. Distinct(q)
      BY <2>2 DEF Distinct
    <2> QED
      BY <2>1, <2>3
  <1>4. InFlight' = {}
    BY DEF Populate, InFlight
  <1> QED
    BY <1>1, <1>3, <1>4 DEF BooksSide, NoDuplicateTask, Distinct, Populate

\* The head of a queue moves into flight.
LEMMA ClaimBooks ==
  ASSUME OrchInv, BooksSide, NEW r \in Requesters \cup {None}, NEW c \in Customers,
         NextTaskClaim(r, c)
  PROVE  BooksSide'
  <1> DEFINE task == Head(queues[c])
  <1> USE DEF OrchInv
  <1>1. /\ queues[c] \in Seq(Task) /\ queues[c] # << >>
        /\ task = queues[c][1] /\ 1 \in DOMAIN queues[c]
        /\ DOMAIN queues[c] = 1..Len(queues[c])
        /\ Len(queues[c]) \in Nat \ {0}
        /\ DOMAIN Tail(queues[c]) = 1..(Len(queues[c]) - 1)
        /\ \A i \in 1..(Len(queues[c]) - 1) : Tail(queues[c])[i] = queues[c][i + 1]
    BY HeadTailProperties, LenProperties, EmptySeq
       DEF NextTaskClaim, Exhausted, OrchTypeOK
  <1>2. /\ queues' = [queues EXCEPT ![c] = Tail(queues[c])]
        /\ inFlight' = [inFlight EXCEPT ![task.tx] = [run |-> task.run, by |-> r]]
        /\ runId' = runId
    BY DEF NextTaskClaim, Claims
  <1>3. RunsIn({runId}, runId', queues', inFlight', recon')
    BY ClaimRuns DEF BooksSide
  <1>4. task.tx \in Tx /\ task.tx[1] = c
    BY <1>1, WaitingIsQueued DEF Queued, QueuesOwnTasks
  <1> HIDE DEF task
  <1>5. \A i \in DOMAIN queues'[c] : i + 1 \in DOMAIN queues[c] /\ queues'[c][i] = queues[c][i + 1]
    BY <1>1, <1>2 DEF OrchTypeOK
  <1>6. \A d \in Customers : d # c => queues'[d] = queues[d]
    BY <1>2 DEF OrchTypeOK
  <1>7. ASSUME NEW d \in Customers
        PROVE  Distinct(queues'[d])
    <2>1. Distinct(queues[d])
      BY DEF BooksSide, NoDuplicateTask, Distinct
    <2>2. CASE d # c
      BY <1>6, <2>1, <2>2
    <2>3. CASE d = c
      <3> SUFFICES ASSUME NEW i \in DOMAIN queues'[c], NEW j \in DOMAIN queues'[c],
                          queues'[c][i].tx = queues'[c][j].tx
                   PROVE  i = j
        BY <2>3 DEF Distinct
      <3>1. i + 1 = j + 1
        BY <1>5, <2>1, <2>3 DEF Distinct
      <3>2. i \in Int /\ j \in Int
        BY <1>1, <1>2 DEF OrchTypeOK
      <3> QED
        BY <3>1, <3>2
    <2> QED
      BY <2>2, <2>3
  <1>8. InFlight' \subseteq InFlight \cup {task.tx}
    BY <1>2 DEF InFlight, OrchTypeOK
  <1>9. \A t \in Queued' : t \in Queued /\ t # task.tx
    <2> SUFFICES ASSUME NEW t \in Queued'
                 PROVE  t \in Queued /\ t # task.tx
      OBVIOUS
    <2>1. t \in Tx /\ t[1] \in Customers
      BY DEF Queued, Tx
    <2>2. PICK i \in DOMAIN queues'[t[1]] : queues'[t[1]][i].tx = t
      BY DEF Queued
    <2>3. CASE t[1] # c
      BY <1>4, <1>6, <2>1, <2>2, <2>3 DEF Queued
    <2>4. CASE t[1] = c
      <3>1. i + 1 \in DOMAIN queues[c] /\ queues[c][i + 1].tx = t
        BY <1>5, <2>2, <2>4
      <3>2. i + 1 # 1
        BY <1>1, <1>2, <2>2, <2>4 DEF OrchTypeOK
      <3>3. Distinct(queues[c])
        BY DEF BooksSide, NoDuplicateTask, Distinct
      <3>4. t # task.tx
        BY <1>1, <3>1, <3>2, <3>3 DEF Distinct
      <3> QED
        BY <2>1, <2>4, <3>1, <3>4 DEF Queued
    <2> QED
      BY <2>3, <2>4
  <1>10. Queued' \cap InFlight' = {}
    BY <1>8, <1>9 DEF BooksSide, NoDuplicateTask
  <1> QED
    BY <1>2, <1>3, <1>7, <1>10 DEF BooksSide, NoDuplicateTask, Distinct

LEMMA ReportBooks ==
  ASSUME OrchInv, BooksSide, NEW t \in Tx, ReportDone(t)
  PROVE  BooksSide'
  <1>1. RunsIn({runId}, runId', queues', inFlight', recon')
    BY ReportRuns DEF BooksSide
  <1>2. InFlight' \subseteq InFlight /\ Queued' = Queued
    BY DEF ReportDone, InFlight, Queued, OrchInv, OrchTypeOK
  <1> QED
    BY <1>1, <1>2 DEF BooksSide, NoDuplicateTask, ReportDone

\* Steps that leave queues and claims alone.
LEMMA SameBooks ==
  ASSUME BooksSide, UNCHANGED <<runId, queues, inFlight>>,
         recon' # None => recon'.run = runId
  PROVE  BooksSide'
  BY DEF BooksSide, RunsIn, NoDuplicateTask, Queued, InFlight

\* An arrangement lists no task twice, so no credit if the tasks differ in it.
LEMMA ArrangementDistinct ==
  ASSUME NEW tasks \in SUBSET Task, \A x, y \in tasks : x.tx = y.tx => x = y,
         NEW f \in Arrangements(tasks), NEW c \in Customers
  PROVE  Distinct(f[c])
  <1> DEFINE Of == {x \in tasks : x.tx[1] = c}
             D  == 1..Cardinality(Of)
  <1>1. f[c] \in SetToSeqs(Of)
    BY DEF Arrangements
  <1>2. f[c] \in [D -> Of] /\ \A i, j \in D : i # j => f[c][i] # f[c][j]
    BY <1>1 DEF SetToSeqs
  <1>3. \A i \in D : f[c][i] \in tasks
    BY <1>2
  <1> HIDE DEF D, Of
  <1> QED
    BY <1>2, <1>3 DEF Distinct

LEMMA ConcatDistinct ==
  ASSUME NEW s \in Seq(Task), NEW u \in Seq(Task), Distinct(s), Distinct(u),
         \A i \in DOMAIN s, j \in DOMAIN u : s[i].tx # u[j].tx,
         NEW q, q = s \o u
  PROVE  Distinct(q)
  <1>1. /\ Len(s) \in Nat /\ Len(u) \in Nat
        /\ DOMAIN s = 1..Len(s) /\ DOMAIN u = 1..Len(u)
        /\ DOMAIN q = 1..(Len(s) + Len(u))
        /\ \A i \in 1..(Len(s) + Len(u)) :
              q[i] = IF i <= Len(s) THEN s[i] ELSE u[i - Len(s)]
    BY ConcatProperties, LenProperties
  <1>2. \A i \in DOMAIN q : i <= Len(s) => i \in DOMAIN s /\ q[i] = s[i]
    BY <1>1
  <1>3. \A i \in DOMAIN q : i > Len(s) => i - Len(s) \in DOMAIN u /\ q[i] = u[i - Len(s)]
    BY <1>1
  <1> SUFFICES ASSUME NEW i \in DOMAIN q, NEW j \in DOMAIN q, q[i].tx = q[j].tx
               PROVE  i = j
    BY DEF Distinct
  <1>4. i \in Int /\ j \in Int
    BY <1>1
  <1>5. CASE i <= Len(s) /\ j <= Len(s)
    BY <1>2, <1>5 DEF Distinct
  <1>6. CASE i > Len(s) /\ j > Len(s)
    <2>1. i - Len(s) = j - Len(s)
      BY <1>3, <1>6 DEF Distinct
    <2> QED
      BY <1>1, <1>4, <2>1
  <1>7. CASE (i <= Len(s)) # (j <= Len(s))
    BY <1>1, <1>2, <1>3, <1>4, <1>7
  <1> QED
    BY <1>1, <1>4, <1>5, <1>6, <1>7

\* Claims go back in front of credits that are not in flight.
LEMMA ReleaseBooks ==
  ASSUME OrchInv, BooksSide, NEW S \in SUBSET InFlight, Release(S),
         recon' # None => recon'.run = runId
  PROVE  BooksSide'
  <1> DEFINE tasks == {[run |-> inFlight[t].run, tx |-> t] : t \in S}
  <1>0. OrchTypeOK /\ QueuesOwnTasks
    BY DEF OrchInv
  <1>1. RunsIn({runId}, runId', queues', inFlight', recon')
    BY ReleaseRuns DEF BooksSide
  <1>2. tasks \in SUBSET Task /\ IsFiniteSet(tasks)
    BY <1>0, ReturnedTasks
  <1>3. /\ \A x \in tasks : x.tx \in S
        /\ \A x, y \in tasks : x.tx = y.tx => x = y
    OBVIOUS
  <1>4. PICK front \in Arrangements(tasks) :
            queues' = [c \in Customers |-> front[c] \o queues[c]]
    BY DEF Release, ReturnToFront
  <1> HIDE DEF tasks
  <1>5. /\ front \in [Customers -> Seq(Task)]
        /\ \A c \in Customers : \A i \in DOMAIN front[c] : front[c][i] \in tasks
        /\ \A c \in Customers : Distinct(front[c])
    BY <1>2, <1>3, ArrangementListsTasks, ArrangementDistinct
  <1>6. ASSUME NEW c \in Customers
        PROVE  Distinct(queues'[c])
    <2>1. /\ front[c] \in Seq(Task) /\ queues[c] \in Seq(Task)
          /\ queues'[c] = front[c] \o queues[c]
      BY <1>0, <1>4, <1>5 DEF OrchTypeOK
    <2>2. Distinct(front[c]) /\ Distinct(queues[c])
      BY <1>5 DEF BooksSide, NoDuplicateTask, Distinct
    <2>3. \A i \in DOMAIN front[c], j \in DOMAIN queues[c] :
              front[c][i].tx # queues[c][j].tx
      <3>1. \A j \in DOMAIN queues[c] : queues[c][j].tx \in Queued
        BY <1>0, WaitingIsQueued
      <3>2. \A i \in DOMAIN front[c] : front[c][i].tx \in InFlight
        BY <1>3, <1>5
      <3>3. \A t \in InFlight : t \notin Queued
        BY DEF BooksSide, NoDuplicateTask
      <3> QED
        BY <3>1, <3>2, <3>3
    <2> QED
      BY <2>1, <2>2, <2>3, ConcatDistinct
  <1>7. Queued' \cap InFlight' = {}
    <2> SUFFICES ASSUME NEW t \in Queued', t \in InFlight'
                 PROVE  FALSE
      OBVIOUS
    <2>1. t \in Tx /\ t[1] \in Customers
      BY DEF Queued, Tx
    <2>2. t \notin S /\ t \in InFlight
      BY <2>1 DEF Release, InFlight
    <2>3. t \notin Queued
      BY <2>2 DEF BooksSide, NoDuplicateTask
    <2> PICK c \in Customers : t[1] = c
      BY <2>1
    <2>4. PICK j \in DOMAIN queues'[c] : queues'[c][j].tx = t
      BY DEF Queued
    <2>5. \/ \E i \in DOMAIN queues[c] : queues'[c][j] = queues[c][i]
          \/ \E u \in S : queues'[c][j] = [run |-> inFlight[u].run, tx |-> u]
      <3>1. ReturnToFront(S)
        BY DEF Release
      <3>2. \A d \in Customers : \A l \in DOMAIN queues'[d] :
               \/ \E i \in DOMAIN queues[d] : queues'[d][l] = queues[d][i]
               \/ \E u \in S : /\ u[1] = d
                               /\ queues'[d][l] = [run |-> inFlight[u].run, tx |-> u]
        BY <1>0, <3>1, ReturnToFrontKeepsTasks
      <3> QED
        BY <3>2
    <2>6. CASE \E i \in DOMAIN queues[c] : queues'[c][j] = queues[c][i]
      BY <2>1, <2>3, <2>4, <2>6 DEF Queued
    <2>7. CASE \E u \in S : queues'[c][j] = [run |-> inFlight[u].run, tx |-> u]
      BY <2>2, <2>4, <2>7
    <2> QED
      BY <2>5, <2>6, <2>7
  <1> QED
    BY <1>1, <1>6, <1>7 DEF BooksSide, NoDuplicateTask, Distinct, Release

-----------------------------------------------------------------------------
(* The database.                                                           *)

LEMMA MoneyFrame ==
  ASSUME ExactBalance, UNCHANGED ledgerVars
  PROVE  ExactBalance'
  BY DEF ExactBalance, ledgerVars, Committed

\* Full and empty: what an account at its target, or short of a credit,
\* says about the credits in the database.
LEMMA TargetMeansCommitted ==
  ASSUME LedgerTypeOK, ExactBalance, NEW c \in Customers, AtTarget(c)
  PROVE  Committed(c) = 1..Credits
  <1>1. Cardinality(Committed(c)) \in 0..Credits
    BY CommittedFinite
  <1>2. Cardinality(Committed(c)) = Credits
    <2>1. balance[c] = StartBalance + Cardinality(Committed(c)) /\ balance[c] >= Target
      BY DEF ExactBalance, AtTarget
    <2> HIDE DEF Committed
    <2> QED
      BY <1>1, <2>1, SizesAssumption, TargetAssumption DEF StartBalance
  <1>3. IsFiniteSet(1..Credits) /\ Cardinality(1..Credits) = Credits
    BY FS_Interval, SizesAssumption
  <1>4. Committed(c) \subseteq 1..Credits
    BY DEF Committed
  <1> QED
    BY <1>2, <1>3, <1>4, FS_Subset

LEMMA MissingMeansBelow ==
  ASSUME LedgerTypeOK, ExactBalance, NEW c \in Customers,
         NEW n \in 1..Credits, n \notin Committed(c)
  PROVE  Cardinality(Committed(c)) < Credits /\ balance[c] < Target
  <1>1. Cardinality(Committed(c)) \in 0..Credits
    BY CommittedFinite
  <1>2. IsFiniteSet(1..Credits) /\ Cardinality(1..Credits) = Credits
    BY FS_Interval, SizesAssumption
  <1>3. Committed(c) \subseteq 1..Credits /\ Committed(c) # 1..Credits
    BY DEF Committed
  <1>4. Cardinality(Committed(c)) # Credits
    BY <1>2, <1>3, FS_Subset
  <1>5. balance[c] = StartBalance + Cardinality(Committed(c))
    BY DEF ExactBalance
  <1> QED
    BY <1>1, <1>4, <1>5, SizesAssumption, TargetAssumption DEF StartBalance

\* What credit_account does for a credit of the latest run: nothing if the
\* row is there, else one row and one dollar, never capped.
LEMMA CreditIsExact ==
  ASSUME LedgerTypeOK, ExactBalance, NEW c \in Customers, NEW t \in Tx, t[1] = c,
         CreditAccount(c, lastRun, t)
  PROVE  /\ ExactBalance'
         /\ TransactionIds(lastRun)' = TransactionIds(lastRun) \cup {t}
         /\ \/ t \in TransactionIds(lastRun) /\ balance' = balance
            \/ /\ t \notin TransactionIds(lastRun)
               /\ balance' = [balance EXCEPT ![c] = @ + 1]
  <1>1. /\ txs' = txs \cup {<<lastRun, t>>} /\ lastRun' = lastRun
        /\ balance' = IF Inserts(lastRun, t)
                      THEN [balance EXCEPT ![c] = LEAST(Target, @ + 1)]
                      ELSE balance
    BY DEF CreditAccount
  <1>2. TransactionIds(lastRun)' = TransactionIds(lastRun) \cup {t}
    BY <1>1 DEF TransactionIds
  <1>3. /\ Inserts(lastRun, t) <=> t \notin TransactionIds(lastRun)
        /\ t[2] \in 1..Credits /\ t = <<c, t[2]>>
    BY DEF Inserts, TransactionIds, Tx
  <1>4. CASE ~Inserts(lastRun, t)
    <2>1. UNCHANGED ledgerVars
      BY <1>1, <1>4 DEF Inserts, ledgerVars
    <2> QED
      BY <1>2, <1>3, <1>4, <2>1, MoneyFrame DEF ledgerVars
  <1>5. CASE Inserts(lastRun, t)
    <2>1. t[2] \notin Committed(c)
      BY <1>3, <1>5 DEF Inserts, Committed
    <2>2. balance[c] < Target /\ balance \in [Customers -> Int] /\ Target \in Int
      BY <1>3, <2>1, MissingMeansBelow, TargetAssumption DEF LedgerTypeOK
    <2>3. balance' = [balance EXCEPT ![c] = @ + 1]
      <3>1. balance[c] \in Int
        BY <2>2
      <3>2. LEAST(Target, balance[c] + 1) = balance[c] + 1
        BY <2>2, <3>1 DEF LEAST
      <3> QED
        BY <1>1, <1>5, <3>2
    <2>4. ASSUME NEW d \in Customers
          PROVE  balance'[d] = StartBalance + Cardinality(Committed(d)')
      <3>1. /\ balance[d] = StartBalance + Cardinality(Committed(d))
            /\ IsFiniteSet(Committed(d)) /\ Cardinality(Committed(d)) \in 0..Credits
        BY CommittedFinite DEF ExactBalance
      <3>2. CASE d # c
        <4>1. Committed(d)' = Committed(d)
          BY <1>1, <3>2 DEF Committed
        <4> QED
          BY <2>2, <2>3, <3>1, <3>2, <4>1
      <3>3. CASE d = c
        <4>1. Committed(d)' = Committed(d) \cup {t[2]} /\ t[2] \notin Committed(d)
          BY <1>1, <1>3, <2>1, <3>3 DEF Committed
        <4>2. Cardinality(Committed(d)') = Cardinality(Committed(d)) + 1
          BY <3>1, <4>1, FS_AddElement
        <4>3. balance'[d] = balance[d] + 1
          BY <2>2, <2>3, <3>3
        <4> QED
          BY <3>1, <4>2, <4>3, SizesAssumption, TargetAssumption DEF StartBalance
      <3> QED
        BY <3>2, <3>3
    <2>5. ExactBalance'
      BY <2>4 DEF ExactBalance, StartBalance
    <2> QED
      BY <1>2, <1>3, <1>5, <2>3, <2>5
  <1> QED
    BY <1>4, <1>5

-----------------------------------------------------------------------------
(* What most steps leave alone.                                            *)

LEMMA IdsOnlyGrow ==
  ASSUME UNCHANGED runId, txs \subseteq txs'
  PROVE  /\ TransactionIds(runId) \subseteq TransactionIds(runId)'
         /\ TransactionIds(runId)' \subseteq Tx
  BY DEF TransactionIds

LEMMA LoopFrame ==
  ASSUME LoopSide, UNCHANGED <<runId, recon, loop, sawIdle>>, txs \subseteq txs'
  PROVE  LoopSide'
  <1>1. ReconcilesNothing'
    BY IdsOnlyGrow DEF LoopSide, ReconcilesNothing
  <1>2. IdleMeansComplete'
    BY IdsOnlyGrow DEF LoopSide, IdleMeansComplete, SeenIdle
  <1> QED
    BY <1>1, <1>2 DEF LoopSide

\* Calls that go on as they are, and the one that the step is about.
LEMMA CallsCarryOver ==
  ASSUME CallsAgree, UNCHANGED runId, txs \subseteq txs',
         \A j \in Calls : call'[j] # None =>
            (call[j] # None /\ call'[j] = call[j]) \/ CallAgrees(j)'
  PROVE  CallsAgree'
  <1> SUFFICES ASSUME NEW j \in Calls, call'[j] # None
               PROVE  CallAgrees(j)'
    BY DEF CallsAgree
  <1>1. CASE call[j] # None /\ call'[j] = call[j]
    <2>1. CallAgrees(j)
      BY <1>1 DEF CallsAgree
    <2>2. TransactionIds(runId) \subseteq TransactionIds(runId)'
      BY IdsOnlyGrow
    <2> QED
      BY <1>1, <2>1, <2>2 DEF CallAgrees
  <1> QED
    BY <1>1

\* A step of a call that neither commits nor changes the run.
LEMMA ServeFrame ==
  ASSUME DrainedInv, pending = {}, UNCHANGED <<ledgerVars, controlVars, runId, recon>>,
         BooksSide', CallsAgree', NoGhosts'
  PROVE  Agrees'
  <1>1. LoopSide'
    BY LoopFrame DEF DrainedInv, Agrees, ledgerVars, controlVars
  <1>2. ExactBalance'
    BY MoneyFrame DEF DrainedInv, Agrees
  <1>3. ResetsDrained'
    BY DEF DrainedInv, Agrees, ResetsDrained, controlVars, ledgerVars
  <1> QED
    BY <1>1, <1>2, <1>3 DEF Agrees

LEMMA SameReports ==
  ASSUME NoGhosts, UNCHANGED <<reported, runId>>, txs \subseteq txs'
  PROVE  NoGhosts'
  BY IdsOnlyGrow DEF NoGhosts

-----------------------------------------------------------------------------
(* One action at a time: the calls.                                        *)

LEMMA ClaimAgrees ==
  ASSUME DrainedInv, pending = {}, NEW k \in Calls, NEW r \in Requesters,
         ClaimCall(k, r), UNCHANGED controlVars
  PROVE  Agrees'
  <1> DEFINE task == Head(queues[BoundTo[r]])
             new  == [at |-> "query", by |-> r, run |-> task.run, tx |-> task.tx,
                      full |-> FALSE]
  <1>1. /\ BoundTo[r] \in Customers /\ NextTaskClaim(r, BoundTo[r])
        /\ UNCHANGED <<ledgerVars, runId, recon, reported>>
        /\ txs' = txs
    BY ServiceAssumption DEF ClaimCall, ledgerVars, NextTaskClaim, Claims
  <1>2. OrchInv /\ BooksSide /\ call \in [Calls -> Call \cup {None}]
    BY DEF DrainedInv, RunInv, OrchSide, Agrees, CallSide, CallTypeOK
  <1>3. BooksSide'
    BY <1>1, <1>2, ClaimBooks
  <1>4. task.run = runId
    BY <1>1, <1>2, ClaimRuns DEF BooksSide
  <1>5. call' = [call EXCEPT ![k] = new]
    BY DEF ClaimCall, Starts
  <1>6. new.run = runId /\ new.full = FALSE /\ new.at = "query"
    BY <1>4
  <1> HIDE DEF new, task
  <1>7. CallsAgree'
    BY <1>1, <1>2, <1>5, <1>6, CallsCarryOver DEF DrainedInv, Agrees, CallAgrees
  <1>8. NoGhosts'
    BY <1>1, SameReports DEF DrainedInv, Agrees
  <1> QED
    BY <1>1, <1>3, <1>7, <1>8, ServeFrame

\* A step that leaves orchestrator and database alone.
LEMMA CallOnlyAgrees ==
  ASSUME DrainedInv, pending = {}, UNCHANGED <<orchVars, ledgerVars, controlVars>>,
         \A j \in Calls : call'[j] # None =>
            (call[j] # None /\ call'[j] = call[j]) \/ CallAgrees(j)'
  PROVE  Agrees'
  <1>1. /\ UNCHANGED <<runId, queues, inFlight, recon, reported, txs>>
        /\ BooksSide /\ CallsAgree /\ NoGhosts
    BY DEF DrainedInv, Agrees, orchVars, ledgerVars
  <1>2. BooksSide'
    BY <1>1, SameBooks DEF BooksSide, RunsIn
  <1>3. CallsAgree'
    BY <1>1, CallsCarryOver
  <1>4. NoGhosts'
    BY <1>1, SameReports
  <1> QED
    BY <1>1, <1>2, <1>3, <1>4, ServeFrame

LEMMA ReplayAgrees ==
  ASSUME DrainedInv, pending = {}, NEW k \in Calls, NEW r \in Requesters,
         ReplayCall(k, r), UNCHANGED controlVars
  PROVE  Agrees'
  <1> DEFINE t   == byRequester[r]
             new == [at |-> "query", by |-> r, run |-> inFlight[t].run, tx |-> t,
                     full |-> FALSE]
  <1>1. /\ UNCHANGED <<orchVars, ledgerVars, runId>>
        /\ call' = [call EXCEPT ![k] = new]
        /\ t # None /\ inFlight[t] # None
    BY DEF ReplayCall, Replays, Starts, orchVars
  <1>2. /\ t \in Tx /\ call \in [Calls -> Call \cup {None}]
        /\ RunsIn({runId}, runId, queues, inFlight, recon)
    BY <1>1 DEF DrainedInv, RunInv, OrchSide, OrchInv, OrchTypeOK, CallSide, CallTypeOK,
                Agrees, BooksSide
  <1>3. inFlight[t].run = runId
    BY <1>1, <1>2 DEF RunsIn
  <1>4. new.run = runId /\ new.full = FALSE /\ new.at = "query"
    BY <1>3
  <1> HIDE DEF new, t
  <1>5. \A j \in Calls : call'[j] # None =>
            (call[j] # None /\ call'[j] = call[j]) \/ CallAgrees(j)'
    BY <1>1, <1>2, <1>4 DEF CallAgrees
  <1> QED
    BY <1>1, <1>5, CallOnlyAgrees

\* The balance is read.  At its target the account has all its credits, the
\* one of this call among them.
LEMMA ReadBalanceAgrees ==
  ASSUME DrainedInv, pending = {}, NEW k \in Calls, ReadBalance(k),
         UNCHANGED controlVars
  PROVE  Agrees'
  <1> DEFINE c   == CustomerOf(k)
             t   == call[k].tx
             new == [call[k] EXCEPT !.at = "decide", !.full = AtTarget(c)]
  <1>1. /\ UNCHANGED <<orchVars, ledgerVars, runId, txs>>
        /\ call[k] # None
        /\ call' = [call EXCEPT ![k] = new]
    BY DEF ReadBalance, At, orchVars, ledgerVars
  <1>2. /\ LedgerTypeOK /\ ExactBalance /\ CallsAgree /\ runId = lastRun
        /\ call \in [Calls -> Call \cup {None}]
    BY DEF DrainedInv, RunInv, LedgerSide, Agrees, ResetsDrained, CallSide, CallTypeOK
  <1>3. call[k] \in Call /\ t \in Tx /\ c \in Customers /\ t[1] = c
    BY <1>1, CallFacts DEF DrainedInv
  <1>4. ASSUME AtTarget(c)
        PROVE  t \in TransactionIds(runId)
    <2>1. Committed(c) = 1..Credits
      BY <1>2, <1>3, <1>4, TargetMeansCommitted
    <2>2. t[2] \in 1..Credits /\ t = <<c, t[2]>>
      BY <1>3 DEF Tx
    <2> QED
      BY <1>2, <1>3, <2>1, <2>2 DEF Committed, TransactionIds
  <1>5. AtTarget(c) \in BOOLEAN
    BY DEF AtTarget
  <1>6. /\ new.run = call[k].run /\ new.tx = t /\ new.at = "decide"
        /\ new.full = AtTarget(c)
    BY <1>3, <1>5 DEF Call
  <1>7. call[k].run = runId /\ TransactionIds(runId)' = TransactionIds(runId)
    BY <1>1, <1>2 DEF CallsAgree, CallAgrees, TransactionIds
  <1> HIDE DEF new, c, t
  <1>8. CallAgrees(k)'
    BY <1>1, <1>2, <1>4, <1>5, <1>6, <1>7 DEF CallAgrees
  <1>9. \A j \in Calls : call'[j] # None =>
            (call[j] # None /\ call'[j] = call[j]) \/ CallAgrees(j)'
    BY <1>1, <1>2, <1>8
  <1> QED
    BY <1>1, <1>9, CallOnlyAgrees

\* A call leaves, without a report.
LEMMA CallEndsAgrees ==
  ASSUME DrainedInv, pending = {}, NEW k \in Calls, DropCall(k) \/ FailCall(k),
         UNCHANGED controlVars
  PROVE  Agrees'
  <1>1. UNCHANGED <<orchVars, ledgerVars>> /\ call' = [call EXCEPT ![k] = None]
    BY DEF DropCall, FailCall, Finish
  <1>2. call \in [Calls -> Call \cup {None}]
    BY DEF DrainedInv, RunInv, CallSide, CallTypeOK
  <1> QED
    BY <1>1, <1>2, CallOnlyAgrees

LEMMA SendCreditAgrees ==
  ASSUME DrainedInv, pending = {}, NEW k \in Calls, SendCredit(k),
         UNCHANGED controlVars
  PROVE  Agrees'
  <1> DEFINE new == [call[k] EXCEPT !.at = "commit"]
  <1>1. /\ UNCHANGED <<orchVars, ledgerVars, runId>> /\ call[k] # None /\ ~call[k].full
        /\ call' = [call EXCEPT ![k] = new]
    BY DEF SendCredit, At, Advance, orchVars
  <1>2. /\ call \in [Calls -> Call \cup {None}] /\ call[k] \in Call
        /\ call[k].run = runId
    BY <1>1 DEF DrainedInv, RunInv, CallSide, CallTypeOK, Agrees, CallsAgree, CallAgrees
  <1>3. new.run = runId /\ new.full = call[k].full /\ new.at = "commit"
    BY <1>2 DEF Call
  <1> HIDE DEF new
  <1>4. CallAgrees(k)'
    BY <1>1, <1>2, <1>3 DEF CallAgrees
  <1>5. \A j \in Calls : call'[j] # None =>
            (call[j] # None /\ call'[j] = call[j]) \/ CallAgrees(j)'
    BY <1>1, <1>2, <1>4
  <1> QED
    BY <1>1, <1>5, CallOnlyAgrees

\* Whatever is reported is in the database: it was committed by this call,
\* or the account was found at its target.
LEMMA CallReportsAgrees ==
  ASSUME DrainedInv, pending = {}, NEW k \in Calls, SkipCall(k) \/ ReportCredit(k),
         UNCHANGED controlVars
  PROVE  Agrees'
  <1> DEFINE t == call[k].tx
  <1>1. /\ call[k] # None /\ (call[k].full \/ call[k].at = "report")
        /\ ReportDone(t)
        /\ call' = [call EXCEPT ![k] = None]
        /\ UNCHANGED <<ledgerVars, txs>>
    BY DEF SkipCall, ReportCredit, At, Finish, ledgerVars
  <1>2. /\ OrchInv /\ BooksSide /\ CallsAgree /\ NoGhosts
        /\ call \in [Calls -> Call \cup {None}]
    BY DEF DrainedInv, RunInv, OrchSide, CallSide, CallTypeOK, Agrees
  <1>3. t \in Tx
    BY <1>1, CallFacts DEF DrainedInv
  <1>4. t \in TransactionIds(runId)
    BY <1>1, <1>2 DEF CallsAgree, CallAgrees
  <1> HIDE DEF t
  <1>5. UNCHANGED <<runId, recon>> /\ reported' = reported \cup {t}
    BY <1>1 DEF ReportDone
  <1>6. BooksSide'
    BY <1>1, <1>2, <1>3, ReportBooks
  <1>7. CallsAgree'
    BY <1>1, <1>2, <1>5, CallsCarryOver
  <1>8. NoGhosts'
    BY <1>1, <1>2, <1>4, <1>5, IdsOnlyGrow DEF NoGhosts
  <1> QED
    BY <1>1, <1>5, <1>6, <1>7, <1>8, ServeFrame

LEMMA CommitAgrees ==
  ASSUME DrainedInv, pending = {}, NEW k \in Calls, CommitCredit(k),
         UNCHANGED controlVars
  PROVE  Agrees'
  <1> DEFINE c   == CustomerOf(k)
             t   == call[k].tx
             new == [call[k] EXCEPT !.at = "report"]
  <1>1. /\ UNCHANGED <<orchVars, runId, queues, inFlight, recon, reported>>
        /\ UNCHANGED <<controlVars, pending, loop, sawIdle>>
        /\ call[k] # None
        /\ call' = [call EXCEPT ![k] = new]
        /\ CreditAccount(c, call[k].run, t)
        /\ lastRun' = lastRun /\ txs \subseteq txs'
    BY DEF CommitCredit, At, Advance, orchVars, controlVars, CreditAccount
  <1>2. /\ LedgerTypeOK /\ ExactBalance /\ CallsAgree /\ runId = lastRun /\ BooksSide
        /\ LoopSide /\ NoGhosts /\ ResetsDrained
        /\ call \in [Calls -> Call \cup {None}]
    BY DEF DrainedInv, RunInv, LedgerSide, Agrees, ResetsDrained, CallSide, CallTypeOK
  <1>3. call[k] \in Call /\ t \in Tx /\ c \in Customers /\ t[1] = c
    BY <1>1, CallFacts DEF DrainedInv
  <1>4. call[k].run = runId
    BY <1>1, <1>2 DEF CallsAgree, CallAgrees
  <1>5. new.run = runId /\ new.tx = t
    BY <1>3, <1>4 DEF Call
  <1> HIDE DEF new, c, t
  <1>6. ExactBalance' /\ TransactionIds(lastRun)' = TransactionIds(lastRun) \cup {t}
    BY <1>1, <1>2, <1>3, <1>4, CreditIsExact
  <1>7. t \in TransactionIds(runId)'
    BY <1>1, <1>2, <1>6 DEF TransactionIds
  <1>8. CallAgrees(k)'
    BY <1>1, <1>2, <1>5, <1>7 DEF CallAgrees
  <1>9. CallsAgree'
    BY <1>1, <1>2, <1>8, CallsCarryOver
  <1>10. BooksSide' /\ LoopSide' /\ NoGhosts'
    BY <1>1, <1>2, SameBooks, LoopFrame, SameReports DEF BooksSide, RunsIn
  <1>11. ResetsDrained'
    BY <1>1, <1>2 DEF ResetsDrained
  <1> QED
    BY <1>6, <1>9, <1>10, <1>11 DEF Agrees

LEMMA ServeAgrees ==
  ASSUME DrainedInv, pending = {}, ServeStep
  PROVE  Agrees'
  <1> SUFFICES ASSUME NEW k \in Calls, CallStep(k), UNCHANGED controlVars
               PROVE  Agrees'
    BY DEF ServeStep
  <1> QED
    BY ClaimAgrees, ReplayAgrees, ReadBalanceAgrees, CallEndsAgrees, SendCreditAgrees,
       CommitAgrees, CallReportsAgrees DEF CallStep

-----------------------------------------------------------------------------
(* One action at a time: chaos, and the loop.                              *)

\* Steps that touch neither calls nor database.
LEMMA SupportFrame ==
  ASSUME DrainedInv, UNCHANGED <<ledgerVars, call, runId, pending, reported>>,
         BooksSide', LoopSide'
  PROVE  Agrees'
  <1>1. CallsAgree'
    BY CallsCarryOver DEF DrainedInv, Agrees, ledgerVars
  <1>2. ExactBalance' /\ NoGhosts'
    BY MoneyFrame, SameReports DEF DrainedInv, Agrees, ledgerVars
  <1>3. ResetsDrained'
    BY DEF DrainedInv, Agrees, ResetsDrained, NoCalls, ledgerVars
  <1> QED
    BY <1>1, <1>2, <1>3 DEF Agrees

LEMMA ChaosAgrees ==
  ASSUME DrainedInv, ChaosStep, UNCHANGED controlVars
  PROVE  Agrees'
  <1>1. /\ OrchInv /\ BooksSide /\ LoopSide
        /\ recon # None => recon.run = runId
    BY DEF DrainedInv, RunInv, OrchSide, Agrees, BooksSide, RunsIn
  <1>2. CASE PodKillSweep
    <2>1. /\ Release(InFlight) /\ UNCHANGED <<runId, reported, recon>>
          /\ UNCHANGED <<ledgerVars, call, pending, loop, sawIdle>> /\ txs' = txs
      BY <1>2 DEF PodKillSweep, Sweep, Release, controlVars, ledgerVars
    <2>2. BooksSide'
      BY <1>1, <2>1, ReleaseBooks
    <2>3. LoopSide'
      BY <1>1, <2>1, LoopFrame
    <2> QED
      BY <2>1, <2>2, <2>3, SupportFrame
  <1>3. CASE ~PodKillSweep
    <2>1. /\ UNCHANGED <<runId, queues, inFlight, reported, recon>>
          /\ UNCHANGED <<ledgerVars, call, pending, loop, sawIdle>> /\ txs' = txs
      BY <1>3 DEF ChaosStep, ArmDrop, ChaosReset, ReadToolDropped, controlVars,
                  ledgerVars, orchVars
    <2>2. BooksSide' /\ LoopSide'
      BY <1>1, <2>1, SameBooks, LoopFrame
    <2> QED
      BY <2>1, <2>2, SupportFrame
  <1> QED
    BY <1>2, <1>3

\* With nothing pending every credit was reported, so it is in the database.
LEMMA IdleComplete ==
  ASSUME DrainedInv, Pending = {}
  PROVE  TransactionIds(runId) = Tx
  <1>1. NoTaskLost /\ NoGhosts
    BY DEF DrainedInv, RunInv, OrchSide, OrchInv, Agrees
  <1>2. Tx \subseteq reported
    BY <1>1 DEF NoTaskLost, Pending
  <1> QED
    BY <1>1, <1>2 DEF NoGhosts, TransactionIds

LEMMA LoopWatchAgrees ==
  ASSUME DrainedInv, StartLoop \/ LoopSnapshot \/ LoopStatusFails
  PROVE  Agrees'
  <1>1. /\ UNCHANGED <<runId, queues, inFlight, reported, recon>>
        /\ UNCHANGED <<ledgerVars, call, pending>> /\ txs' = txs
    BY DEF StartLoop, LoopSnapshot, LoopStatusFails, ledgerVars, orchVars, callVars
  <1>2. /\ BooksSide /\ LoopSide
        /\ recon # None => recon.run = runId
    BY DEF DrainedInv, Agrees, BooksSide, RunsIn
  <1>3. BooksSide'
    BY <1>1, <1>2, SameBooks
  <1>4. loop # "reconcile" /\ loop' # "reconcile"
    BY DEF StartLoop, LoopSnapshot, LoopStatusFails
  <1>5. ReconcilesNothing'
    BY <1>1, <1>2, <1>4 DEF LoopSide, ReconcilesNothing, TransactionIds
  <1>6. SeenIdle' => Pending = {}
    BY DEF StartLoop, LoopSnapshot, LoopStatusFails, SeenIdle
  <1>7. IdleMeansComplete'
    BY <1>1, <1>6, IdleComplete DEF IdleMeansComplete, TransactionIds
  <1> QED
    BY <1>1, <1>3, <1>5, <1>7, SupportFrame DEF LoopSide

LEMMA LoopSweepAgrees ==
  ASSUME DrainedInv, NEW S \in SUBSET InFlight, LoopSweep(S)
  PROVE  Agrees'
  <1>1. /\ loop = "count" /\ Release(S) /\ UNCHANGED <<runId, reported, sawIdle>>
        /\ UNCHANGED <<ledgerVars, call, pending>> /\ txs' = txs
    BY DEF LoopSweep, Sweep, Release, ledgerVars, callVars
  <1>2. /\ OrchInv /\ BooksSide /\ LoopSide /\ NoGhosts /\ runId \in Runs /\ reported \subseteq Tx
        /\ recon = None
    BY <1>1 DEF DrainedInv, RunInv, OrchSide, OrchInv, OrchTypeOK, Agrees, LoopSide,
                ReconcilesNothing
  <1>3. TransactionIds(runId)' = TransactionIds(runId)
    BY <1>1 DEF TransactionIds
  <1>4. CASE sawIdle
    <2> DEFINE snapshot == [run |-> runId, txs |-> reported \ Pending, read |-> FALSE]
    <2>1. recon' = snapshot /\ loop' = "reconcile"
      BY <1>4 DEF LoopSweep, ReconcileSnapshot
    <2>2. snapshot \in Snapshot
      BY <1>2 DEF Snapshot
    <2>3. /\ snapshot # None /\ snapshot.run = runId /\ ~snapshot.read
          /\ snapshot.txs \subseteq TransactionIds(runId)
      BY <1>2, <2>2, NoneAssumption DEF NoGhosts
    <2> HIDE DEF snapshot
    <2>4. BooksSide'
      BY <1>1, <1>2, <2>1, <2>3, ReleaseBooks
    <2>5. ReconcilesNothing'
      BY <1>3, <2>1, <2>3 DEF ReconcilesNothing
    <2>6. IdleMeansComplete'
      BY <1>1, <1>2, <1>3, <1>4 DEF LoopSide, IdleMeansComplete, SeenIdle
    <2> QED
      BY <1>1, <2>4, <2>5, <2>6, SupportFrame DEF LoopSide
  <1>5. CASE ~sawIdle
    <2>1. recon' = None /\ loop' = "poll"
      BY <1>2, <1>5 DEF LoopSweep
    <2>2. BooksSide'
      BY <1>1, <1>2, <2>1, ReleaseBooks
    <2>3. LoopSide'
      BY <2>1 DEF LoopSide, ReconcilesNothing, IdleMeansComplete, SeenIdle
    <2> QED
      BY <1>1, <2>2, <2>3, SupportFrame
  <1> QED
    BY <1>4, <1>5

\* The read finds every snapshotted credit, so that nothing is requeued.
LEMMA LoopReconcileAgrees ==
  ASSUME DrainedInv, LoopRead \/ LoopRequeue \/ LoopReadFails
  PROVE  Agrees'
  <1>1. /\ loop = "reconcile" /\ BooksSide /\ LoopSide
        /\ recon # None /\ ~recon.read /\ recon.run = runId
        /\ recon.txs \subseteq TransactionIds(runId)
    BY DEF LoopRead, LoopRequeue, LoopReadFails, DrainedInv, Agrees, LoopSide,
           ReconcilesNothing, BooksSide, RunsIn
  <1>2. ~LoopRequeue
    BY <1>1 DEF LoopRequeue, ReconcileRequeue
  <1>3. /\ recon' = None /\ loop' = "done"
        /\ UNCHANGED <<runId, queues, inFlight, reported>>
        /\ UNCHANGED <<ledgerVars, call, pending>> /\ txs' = txs
    BY <1>1, <1>2 DEF LoopRead, LoopReadFails, ReconcileRead, ReconcileAbort,
                      BooksUnchanged, ledgerVars, callVars
  <1>4. BooksSide'
    BY <1>1, <1>3, SameBooks
  <1>5. LoopSide'
    BY <1>1, <1>3 DEF LoopSide, ReconcilesNothing, IdleMeansComplete, SeenIdle,
                      TransactionIds
  <1> QED
    BY <1>3, <1>4, <1>5, SupportFrame

LEMMA LoopAgrees ==
  ASSUME DrainedInv, LoopStep
  PROVE  Agrees'
  BY LoopWatchAgrees, LoopSweepAgrees, LoopReconcileAgrees DEF LoopStep

-----------------------------------------------------------------------------
(* One action at a time: the changes of run.                               *)

LEMMA StopAgrees ==
  ASSUME DrainedInv, Stop
  PROVE  Agrees'
  <1>1. /\ recon' = None /\ loop' = IF LoopRuns THEN "off" ELSE loop
        /\ UNCHANGED <<runId, queues, inFlight, reported, sawIdle>>
        /\ UNCHANGED <<ledgerVars, call, pending>> /\ txs' = txs
    BY DEF Stop, SetStopped, ledgerVars, callVars
  <1>2. BooksSide'
    BY <1>1, SameBooks DEF DrainedInv, Agrees
  <1>3. loop' # "reconcile" /\ (SeenIdle' => SeenIdle)
    BY <1>1 DEF LoopRuns, SeenIdle
  <1>4. LoopSide'
    BY <1>1, <1>3 DEF DrainedInv, Agrees, LoopSide, ReconcilesNothing,
                      IdleMeansComplete, TransactionIds
  <1> QED
    BY <1>1, <1>2, <1>4, SupportFrame

\* A fresh State, whoever populates it.
LEMMA PopulateAgrees ==
  ASSUME DrainedInv, Populate(lastRun), recon' = None, UNCHANGED ledgerVars,
         pending' = {}, \A k \in Calls : call'[k] = None,
         loop' \notin {"count", "reconcile", "done"}
  PROVE  Agrees'
  <1>1. lastRun \in Runs /\ ExactBalance
    BY DEF DrainedInv, RunInv, LedgerSide, LedgerTypeOK, Agrees
  <1>2. BooksSide'
    BY <1>1, FreshBooks
  <1>3. CallsAgree'
    BY DEF CallsAgree
  <1>4. ResetsDrained'
    BY DEF ResetsDrained, Populate, ledgerVars
  <1>5. LoopSide'
    BY DEF LoopSide, ReconcilesNothing, IdleMeansComplete, SeenIdle
  <1>6. ExactBalance' /\ NoGhosts'
    BY <1>1, MoneyFrame DEF NoGhosts, Populate
  <1> QED
    BY <1>2, <1>3, <1>4, <1>5, <1>6 DEF Agrees

LEMMA RestartAgrees ==
  ASSUME DrainedInv, Restart
  PROVE  Agrees'
  BY PopulateAgrees DEF Restart

LEMMA InstallAgrees ==
  ASSUME DrainedInv, NEW run \in Runs, NEW spawn \in BOOLEAN,
         spawn \/ ~LoopRuns, InstallRun(run, spawn)
  PROVE  Agrees'
  <1>1. /\ run \in pending /\ Populate(run) /\ pending' = pending \ {run}
        /\ recon' = IF spawn THEN None ELSE recon
        /\ UNCHANGED <<ledgerVars, call>>
    BY DEF InstallRun, callVars
  <1>2. pending = {lastRun} /\ NoCalls
    BY <1>1 DEF DrainedInv, Agrees, ResetsDrained
  <1>3. run = lastRun /\ pending' = {} /\ \A k \in Calls : call'[k] = None
    BY <1>1, <1>2 DEF NoCalls
  <1>4. recon' = None
    BY <1>1 DEF LoopRuns, DrainedInv, Agrees, LoopSide, ReconcilesNothing
  <1>5. loop' \notin {"count", "reconcile", "done"}
    BY DEF InstallRun, LoopRuns
  <1> QED
    BY <1>1, <1>3, <1>4, <1>5, PopulateAgrees

\* A run that was only just created has no credits, and resets every balance.
LEMMA NewRunIsEmpty ==
  ASSUME RunInv, StartExecutionRun
  PROVE  /\ TransactionIds(lastRun)' = {}
         /\ balance' = [c \in Customers |-> StartBalance]
         /\ ExactBalance'
  <1>1. /\ lastRun' = lastRun + 1 /\ txs' = txs
        /\ balance' = [c \in Customers |-> StartBalance]
    BY DEF StartExecutionRun
  <1>2. lastRun \in Nat /\ \A x \in txs : x[1] <= lastRun /\ x[1] \in Nat
    BY DEF RunInv, LedgerSide, LedgerTypeOK, Runs
  <1>3. \A t : <<lastRun', t>> \notin txs'
    BY <1>1, <1>2
  <1>4. TransactionIds(lastRun)' = {} /\ \A c \in Customers : Committed(c)' = {}
    BY <1>3 DEF TransactionIds, Committed
  <1>5. Cardinality({}) = 0 /\ StartBalance \in Int /\ StartBalance' = StartBalance
    BY FS_EmptySet, SizesAssumption, TargetAssumption DEF StartBalance
  <1> HIDE DEF StartBalance
  <1>6. ExactBalance'
    BY <1>1, <1>4, <1>5 DEF ExactBalance
  <1> QED
    BY <1>1, <1>4, <1>6

LEMMA ResetLedgerAgrees ==
  ASSUME DrainedInv, NoCalls, pending = {}, ResetLedger
  PROVE  Agrees'
  <1>1. /\ StartExecutionRun /\ pending' = {lastRun'} /\ txs' = txs
        /\ UNCHANGED <<runId, queues, inFlight, reported, recon, call, loop, sawIdle>>
    BY DEF ResetLedger, orchVars, callVars, StartExecutionRun
  <1>2. ExactBalance'
    BY <1>1, NewRunIsEmpty DEF DrainedInv
  <1>3. BooksSide' /\ LoopSide' /\ NoGhosts'
    BY <1>1, SameBooks, LoopFrame, SameReports
       DEF DrainedInv, Agrees, BooksSide, RunsIn
  <1>4. CallsAgree' /\ ResetsDrained'
    BY <1>1 DEF NoCalls, CallsAgree, ResetsDrained
  <1> QED
    BY <1>2, <1>3, <1>4 DEF Agrees

-----------------------------------------------------------------------------
(* Every behaviour of DrainedSpec.                                         *)

LEMMA DrainedStepIsStep == DrainedNext => Next
  BY DEF DrainedNext, Next, DrainedReset, ResetStep

LEMMA InitDrainedInv == Init => DrainedInv
  <1> SUFFICES ASSUME Init PROVE DrainedInv
    OBVIOUS
  <1>1. RunInv
    BY InitRunInv
  <1>2. lastRun = 1 /\ txs = {} /\ balance = [c \in Customers |-> StartBalance]
    BY DEF Init, LedgerInit
  <1>3. BooksSide
    <2>1. /\ runId = 1 /\ recon = None /\ queues = FreshQueues(1)
          /\ inFlight = [t \in Tx |-> None]
      BY DEF Init, OrchInit
    <2>2. \A c \in Customers :
              /\ DOMAIN FreshQueues(1)[c] = 1..Credits
              /\ \A n \in 1..Credits : /\ FreshQueues(1)[c][n].tx = <<c, n>>
                                       /\ FreshQueues(1)[c][n].run = 1
      BY DEF FreshQueues
    <2>3. InFlight = {}
      BY <2>1 DEF InFlight
    <2>4. RunsIn({runId}, runId, queues, inFlight, recon)
      BY <2>1, <2>2 DEF RunsIn
    <2>5. ASSUME NEW c \in Customers
          PROVE  Distinct(queues[c])
      <3> DEFINE q == FreshQueues(1)[c]
      <3>1. queues[c] = q
        BY <2>1
      <3>2. DOMAIN q = 1..Credits /\ \A n \in 1..Credits : q[n].tx = <<c, n>>
        BY <2>2
      <3> HIDE DEF q
      <3>3. Distinct(q)
        BY <3>2 DEF Distinct
      <3> QED
        BY <3>1, <3>3
    <2> QED
      BY <2>3, <2>4, <2>5 DEF BooksSide, NoDuplicateTask, Distinct
  <1>4. CallsAgree
    BY DEF Init, CallInit, CallsAgree
  <1>5. ResetsDrained
    BY <1>2 DEF Init, ControlInit, OrchInit, ResetsDrained
  <1>6. LoopSide
    BY DEF Init, ControlInit, OrchInit, LoopSide, ReconcilesNothing, IdleMeansComplete,
           SeenIdle
  <1>7. ExactBalance
    <2>1. \A c \in Customers : Committed(c) = {}
      BY <1>2 DEF Committed
    <2>2. Cardinality({}) = 0 /\ StartBalance \in Int
      BY FS_EmptySet, SizesAssumption, TargetAssumption DEF StartBalance
    <2> QED
      BY <1>2, <2>1, <2>2 DEF ExactBalance
  <1>8. NoGhosts
    BY DEF Init, OrchInit, NoGhosts
  <1> QED
    BY <1>1, <1>3, <1>4, <1>5, <1>6, <1>7, <1>8 DEF DrainedInv, Agrees

LEMMA DrainedNextKeepsInv == DrainedInv /\ [DrainedNext]_vars => DrainedInv'
  <1> SUFFICES ASSUME DrainedInv, [DrainedNext]_vars PROVE DrainedInv'
    OBVIOUS
  <1>1. RunInv'
    BY DrainedStepIsStep, NextKeepsRunInv DEF DrainedInv
  <1> SUFFICES Agrees'
    BY <1>1 DEF DrainedInv
  <1>2. CASE pending = {} /\ ServeStep
    BY <1>2, ServeAgrees
  <1>3. CASE SupportStep
    BY <1>3, ChaosAgrees, LoopAgrees, StopAgrees, RestartAgrees DEF SupportStep
  <1>4. CASE DrainedReset
    BY <1>4, ResetLedgerAgrees, InstallAgrees DEF DrainedReset
  <1>5. CASE UNCHANGED vars
    <2>1. /\ UNCHANGED <<ledgerVars, call, pending, runId, queues, inFlight, reported>>
          /\ UNCHANGED <<recon, loop, sawIdle>> /\ txs' = txs
      BY <1>5 DEF vars, orchVars, ledgerVars, callVars, controlVars
    <2>2. BooksSide' /\ LoopSide'
      BY <2>1, SameBooks, LoopFrame DEF DrainedInv, Agrees, BooksSide, RunsIn
    <2> QED
      BY <2>1, <2>2, SupportFrame
  <1> QED
    BY <1>2, <1>3, <1>4, <1>5 DEF DrainedNext

THEOREM DrainedInvariance == DrainedSpec => []DrainedInv
  BY InitDrainedInv, DrainedNextKeepsInv, PTL DEF DrainedSpec

(* As long as runs are replaced only when no call is in progress, an       *)
(* account holds its start plus one dollar for every credit of the latest  *)
(* run in the database, whatever is retried, swept, reconciled, stopped or *)
(* restarted: the cap never swallows one (db.py:79-118, 186-218).          *)
THEOREM BalancesExact == DrainedSpec => []ExactBalance
  <1>1. DrainedInv => ExactBalance
    BY DEF DrainedInv, Agrees
  <1> QED
    BY <1>1, DrainedInvariance, PTL

(* Under the same premise a credit is reported only once it is in the      *)
(* database, so reconcile() never finds a ghost (orchestrator.py:248-291). *)
THEOREM ReportsAreCommitted == DrainedSpec => []NoGhosts
  <1>1. DrainedInv => NoGhosts
    BY DEF DrainedInv, Agrees
  <1> QED
    BY <1>1, DrainedInvariance, PTL

(* Under the same premise no credit waits twice: not in two positions of a *)
(* queue, and not in a queue while it is claimed (orchestrator.py:158-246).*)
THEOREM CreditsWaitOnce == DrainedSpec => []NoDuplicateTask
  <1>1. DrainedInv => NoDuplicateTask
    BY DEF DrainedInv, Agrees, BooksSide
  <1> QED
    BY <1>1, DrainedInvariance, PTL

(* When the loop declares a run done, after its snapshot, its count and    *)
(* its reconciliation, however late those answers came, every credit of    *)
(* the run is in the database and every account is at its target           *)
(* (replenisher.py:192-217).                                               *)
THEOREM DoneIsComplete == DrainedSpec => []DoneMeansComplete
  <1>1. ASSUME DrainedInv, loop = "done", pending = {}
        PROVE  (\A c \in Customers : balance[c] = Target) /\ TransactionIds(runId) = Tx
    <2>1. TransactionIds(runId) = Tx /\ runId = lastRun /\ ExactBalance
      BY <1>1 DEF DrainedInv, Agrees, LoopSide, IdleMeansComplete, SeenIdle, ResetsDrained
    <2>2. ASSUME NEW c \in Customers
          PROVE  balance[c] = Target
      <3>1. \A n \in 1..Credits : <<c, n>> \in TransactionIds(lastRun)
        BY <2>1 DEF Tx
      <3>2. Committed(c) = 1..Credits
        BY <3>1 DEF TransactionIds, Committed
      <3>3. balance[c] = StartBalance + Credits
        BY <2>1, <3>2, FS_Interval, SizesAssumption DEF ExactBalance
      <3> QED
        BY <3>3, SizesAssumption, TargetAssumption DEF StartBalance
    <2> QED
      BY <2>1, <2>2
  <1>2. DrainedInv => DoneMeansComplete
    BY <1>1 DEF DoneMeansComplete
  <1> QED
    BY <1>2, DrainedInvariance, PTL

LEMMA TargetNeedsAll == DrainedInv => TargetMeansAllCredits
  <1>1. ASSUME DrainedInv, NEW c \in Customers, balance[c] = Target
        PROVE  Committed(c) = 1..Credits
    <2>1. LedgerTypeOK /\ ExactBalance /\ AtTarget(c)
      BY <1>1, TargetAssumption DEF DrainedInv, RunInv, LedgerSide, Agrees, AtTarget
    <2> QED
      BY <2>1, TargetMeansCommitted
  <1> QED
    BY <1>1 DEF TargetMeansAllCredits

(* README.md:3 holds under this premise: an account at its target has all  *)
(* the credits of the latest run.  Without it TLC finds a straggler that   *)
(* fills an account of the new run with a credit of the old one.           *)
THEOREM TargetIsEarned == DrainedSpec => []TargetMeansAllCredits
  BY TargetNeedsAll, DrainedInvariance, PTL

(* What is proved of Spec holds of DrainedSpec.                            *)
THEOREM DrainedIsSpec == DrainedSpec => Spec
  BY DrainedStepIsStep, PTL DEF DrainedSpec, Spec

-----------------------------------------------------------------------------
(* The refinement.  Only two steps are visible in ExactlyOnce: the commit  *)
(* of a credit that is not there yet, and the first half of a reset.       *)

LEMMA InitPromise == Init => Promise!Init
  BY DEF Init, LedgerInit, Promise!Init, Promise!Start, StartBalance, TransactionIds

LEMMA StepsPromise ==
  DrainedInv /\ [DrainedNext]_vars => [Promise!Next]_<<TransactionIds(lastRun), balance>>
  <1> SUFFICES ASSUME DrainedInv, [DrainedNext]_vars
               PROVE  [Promise!Next]_<<TransactionIds(lastRun), balance>>
    OBVIOUS
  <1>1. ASSUME NEW k \in Calls, CommitCredit(k), pending = {}
        PROVE  [Promise!Next]_<<TransactionIds(lastRun), balance>>
    <2> DEFINE t == call[k].tx
               c == CustomerOf(k)
    <2>1. /\ LedgerTypeOK /\ ExactBalance /\ call[k] # None /\ call[k].run = lastRun
          /\ CreditAccount(c, call[k].run, t)
      BY <1>1 DEF CommitCredit, At, DrainedInv, RunInv, LedgerSide, Agrees,
                  CallsAgree, CallAgrees, ResetsDrained
    <2>2. t \in Tx /\ c \in Customers /\ t[1] = c
      BY <2>1, CallFacts DEF DrainedInv
    <2> HIDE DEF t, c
    <2>3. /\ TransactionIds(lastRun)' = TransactionIds(lastRun) \cup {t}
          /\ \/ t \in TransactionIds(lastRun) /\ balance' = balance
             \/ /\ t \notin TransactionIds(lastRun)
                /\ balance' = [balance EXCEPT ![c] = @ + 1]
      BY <2>1, <2>2, CreditIsExact
    <2>4. CASE t \in TransactionIds(lastRun)
      BY <2>3, <2>4
    <2>5. CASE t \notin TransactionIds(lastRun)
      <3>1. Promise!Apply(t)
        BY <2>2, <2>3, <2>5 DEF Promise!Apply
      <3> QED
        BY <2>2, <3>1 DEF Promise!Next, Promise!Tx, Tx
    <2> QED
      BY <2>4, <2>5
  <1>2. CASE ResetLedger
    <2>1. Promise!NewRun
      BY <1>2, NewRunIsEmpty
         DEF ResetLedger, DrainedInv, Promise!NewRun, Promise!Start, StartBalance
    <2> QED
      BY <2>1 DEF Promise!Next
  <1>3. ASSUME UNCHANGED ledgerVars
        PROVE  [Promise!Next]_<<TransactionIds(lastRun), balance>>
    BY <1>3 DEF ledgerVars, TransactionIds
  <1>4. ASSUME NEW k \in Calls, CallStep(k), ~CommitCredit(k)
        PROVE  UNCHANGED ledgerVars
    BY <1>4 DEF CallStep, ClaimCall, ReplayCall, ReadBalance, SkipCall, DropCall,
                SendCredit, ReportCredit, FailCall
  <1>5. SupportStep => UNCHANGED ledgerVars
    BY DEF SupportStep, ChaosStep, ArmDrop, ChaosReset, ReadToolDropped, PodKillSweep,
           LoopStep, StartLoop, LoopSnapshot, LoopSweep, LoopStatusFails, LoopRead,
           LoopRequeue, LoopReadFails, Stop, Restart
  <1>6. \A run, spawn : InstallRun(run, spawn) => UNCHANGED ledgerVars
    BY DEF InstallRun
  <1>7. UNCHANGED vars => UNCHANGED ledgerVars
    BY DEF vars
  <1> QED
    BY <1>1, <1>2, <1>3, <1>4, <1>5, <1>6, <1>7 DEF DrainedNext, ServeStep, DrainedReset

(* Queues, claims, sweeps, retries, dropped answers and restarts of the    *)
(* server implement ExactlyOnce: seen from the accounts, credits of the    *)
(* current run are applied one at a time, each at most once, until a new   *)
(* run starts (README.md:39, db.py:79-118).                                *)
THEOREM CreditsExactlyOnce == DrainedSpec => ImplementsExactlyOnce
  BY InitPromise, StepsPromise, DrainedInvariance, PTL
     DEF DrainedSpec, ImplementsExactlyOnce, Promise!Spec
=============================================================================

------------------------- MODULE OrchestratorProofs -------------------------
(***************************************************************************)
(* Proofs about Orchestrator, for any number of customers, credits,        *)
(* requesters and runs.                                                    *)
(***************************************************************************)
EXTENDS Orchestrator, FiniteSetTheorems, SequenceTheorems, TLAPS

-----------------------------------------------------------------------------
(* Sequences that arrange a set.                                           *)

LEMMA TxFinite == IsFiniteSet(Tx)
  <1>1. IsFiniteSet(1..Credits)
    BY FS_Interval, SizesAssumption
  <1> QED
    BY <1>1, FS_Product, SizesAssumption DEF Tx

\* A permutation of a finite set is a sequence of its elements that lists
\* all of them.
LEMMA PermutationListsAll ==
  ASSUME NEW S, IsFiniteSet(S), NEW f \in SetToSeqs(S)
  PROVE  /\ f \in Seq(S)
         /\ \A x \in S : \E i \in DOMAIN f : f[i] = x
  <1> DEFINE D == 1..Cardinality(S)
  <1>1. Cardinality(S) \in Nat
    BY FS_CardinalityType
  <1>2. f \in [D -> S] /\ \A i, j \in D : i # j => f[i] # f[j]
    BY DEF SetToSeqs
  <1>3. f \in Injection(D, S)
    BY <1>2 DEF Injection, IsInjective
  <1>4. Cardinality(D) = Cardinality(S)
    BY <1>1, FS_Interval
  <1>5. f \in Surjection(D, S)
    BY <1>3, <1>4, FS_Injection
  <1>6. f \in Seq(S)
    BY <1>1, <1>2
  <1> QED
    BY <1>2, <1>5, <1>6 DEF Surjection

\* An arrangement of a set of tasks puts exactly these tasks, each under
\* the customer of its credit.
LEMMA ArrangementListsTasks ==
  ASSUME NEW tasks \in SUBSET Task, IsFiniteSet(tasks),
         NEW f \in Arrangements(tasks)
  PROVE  /\ f \in [Customers -> Seq(Task)]
         /\ \A k \in tasks : \E i \in DOMAIN f[k.tx[1]] : f[k.tx[1]][i] = k
         /\ \A c \in Customers : \A i \in DOMAIN f[c] :
               f[c][i] \in tasks /\ f[c][i].tx[1] = c
  <1> DEFINE Of(c) == {k \in tasks : k.tx[1] = c}
  <1>1. /\ DOMAIN f = Customers
        /\ f = [c \in Customers |-> f[c]]
        /\ \A c \in Customers : f[c] \in SetToSeqs(Of(c))
    BY DEF Arrangements
  <1>2. \A c \in Customers : IsFiniteSet(Of(c))
    BY FS_Subset
  <1>3. \A c \in Customers :
            /\ f[c] \in Seq(Of(c))
            /\ \A x \in Of(c) : \E i \in DOMAIN f[c] : f[c][i] = x
    BY <1>1, <1>2, PermutationListsAll
  <1>4. \A c \in Customers : Of(c) \subseteq Task
    OBVIOUS
  <1>5. \A c \in Customers : f[c] \in Seq(Task)
    BY <1>3, <1>4, SeqMonotonic
  <1>6. \A k \in tasks : k.tx[1] \in Customers /\ k \in Of(k.tx[1])
    BY DEF Task, Tx
  <1>7. \A c \in Customers : \A i \in DOMAIN f[c] : f[c][i] \in Of(c)
    BY <1>3, ElementOfSeq, LenProperties
  <1> HIDE DEF Of
  <1>8. f \in [Customers -> Seq(Task)]
    BY <1>1, <1>5
  <1> QED
    BY <1>3, <1>6, <1>7, <1>8 DEF Of

\* The tasks a set of claims stands for are finitely many.
LEMMA ReturnedTasks ==
  ASSUME OrchTypeOK, NEW S \in SUBSET InFlight
  PROVE  LET tasks == {[run |-> inFlight[t].run, tx |-> t] : t \in S}
         IN  tasks \in SUBSET Task /\ IsFiniteSet(tasks)
  <1> DEFINE tasks == {[run |-> inFlight[t].run, tx |-> t] : t \in S}
  <1>1. S \in SUBSET Tx /\ IsFiniteSet(S)
    BY TxFinite, FS_Subset DEF InFlight
  <1>2. IsFiniteSet(tasks)
    <2> DEFINE f == [t \in S |-> [run |-> inFlight[t].run, tx |-> t]]
    <2>1. f \in Surjection(S, tasks)
      BY DEF Surjection
    <2> QED
      BY <1>1, <2>1, FS_Surjection
  <1>3. tasks \in SUBSET Task
    BY <1>1 DEF OrchTypeOK, InFlight, Task, Claim
  <1> QED
    BY <1>2, <1>3

LEMMA RequeuedTasks ==
  ASSUME OrchTypeOK, recon # None
  PROVE  LET tasks == {[run |-> recon.run, tx |-> t] : t \in recon.txs \cap reported}
         IN  tasks \in SUBSET Task /\ IsFiniteSet(tasks)
  <1> DEFINE tasks == {[run |-> recon.run, tx |-> t] : t \in recon.txs \cap reported}
  <1>1. recon \in Snapshot
    BY DEF OrchTypeOK
  <1>2. recon.txs \cap reported \in SUBSET Tx /\ IsFiniteSet(recon.txs \cap reported)
    BY <1>1, TxFinite, FS_Subset DEF OrchTypeOK, Snapshot
  <1>3. IsFiniteSet(tasks)
    <2> DEFINE S == recon.txs \cap reported
               f == [t \in S |-> [run |-> recon.run, tx |-> t]]
    <2>1. f \in Surjection(S, tasks)
      BY DEF Surjection
    <2> QED
      BY <1>2, <2>1, FS_Surjection
  <1>4. tasks \in SUBSET Task
    BY <1>1, <1>2 DEF Task, Snapshot
  <1> QED
    BY <1>3, <1>4

-----------------------------------------------------------------------------
(* The queues after an operation.                                          *)

LEMMA FreshQueuesType ==
  ASSUME NEW run \in Runs
  PROVE  /\ FreshQueues(run) \in [Customers -> Seq(Task)]
         /\ \A t \in Tx : \E i \in DOMAIN FreshQueues(run)[t[1]] :
                FreshQueues(run)[t[1]][i].tx = t
         /\ \A c \in Customers : \A i \in DOMAIN FreshQueues(run)[c] :
                FreshQueues(run)[c][i].tx[1] = c
  <1> DEFINE Q(c) == [n \in 1..Credits |-> [run |-> run, tx |-> <<c, n>>]]
  <1>1. \A c \in Customers : Q(c) \in Seq(Task)
    BY SizesAssumption DEF Task, Tx
  <1>2. FreshQueues(run) = [c \in Customers |-> Q(c)]
    BY DEF FreshQueues
  <1>3. ASSUME NEW t \in Tx
        PROVE  \E i \in DOMAIN Q(t[1]) : Q(t[1])[i].tx = t
    BY DEF Tx
  <1> HIDE DEF Q
  <1>4. FreshQueues(run) \in [Customers -> Seq(Task)]
    BY <1>1, <1>2
  <1>5. \A t \in Tx : t[1] \in Customers
    BY DEF Tx
  <1>6. \A t \in Tx : \E i \in DOMAIN FreshQueues(run)[t[1]] :
            FreshQueues(run)[t[1]][i].tx = t
    BY <1>2, <1>3, <1>5
  <1>7. \A c \in Customers : \A i \in DOMAIN FreshQueues(run)[c] :
            FreshQueues(run)[c][i].tx[1] = c
    BY <1>2 DEF Q
  <1> QED
    BY <1>4, <1>6, <1>7

\* Putting tasks in front of a queue or behind it keeps all of both.
Merges(q, s, u) ==
    /\ q \in Seq(Task)
    /\ \A i \in DOMAIN s : \E j \in DOMAIN q : q[j] = s[i]
    /\ \A i \in DOMAIN u : \E j \in DOMAIN q : q[j] = u[i]
    /\ \A j \in DOMAIN q : \/ \E i \in DOMAIN s : q[j] = s[i]
                          \/ \E i \in DOMAIN u : q[j] = u[i]

LEMMA ConcatMerges ==
  ASSUME NEW s \in Seq(Task), NEW u \in Seq(Task), NEW q, q = s \o u
  PROVE  Merges(q, s, u)
  <1>1. /\ q \in Seq(Task)
        /\ Len(s) \in Nat /\ Len(u) \in Nat
        /\ DOMAIN s = 1..Len(s) /\ DOMAIN u = 1..Len(u)
        /\ DOMAIN q = 1..(Len(s) + Len(u))
        /\ \A i \in 1..(Len(s) + Len(u)) :
              q[i] = IF i <= Len(s) THEN s[i] ELSE u[i - Len(s)]
    BY ConcatProperties, LenProperties
  <1>2. \A i \in DOMAIN s : i \in DOMAIN q /\ q[i] = s[i]
    BY <1>1
  <1>3. \A i \in DOMAIN u : i + Len(s) \in DOMAIN q /\ q[i + Len(s)] = u[i]
    BY <1>1
  <1>4. ASSUME NEW j \in DOMAIN q
        PROVE  \/ \E i \in DOMAIN s : q[j] = s[i]
               \/ \E i \in DOMAIN u : q[j] = u[i]
    <2>1. CASE j <= Len(s)
      BY <1>1, <2>1
    <2>2. CASE j > Len(s)
      <3>1. j - Len(s) \in DOMAIN u
        BY <1>1, <2>2
      <3> QED
        BY <1>1, <2>2, <3>1
    <2> QED
      BY <1>1, <2>1, <2>2
  <1> QED
    BY <1>1, <1>2, <1>3, <1>4 DEF Merges

\* What Release does to the queues, in terms of the tasks they hold.
LEMMA ReturnToFrontKeepsTasks ==
  ASSUME OrchTypeOK, NEW S \in SUBSET InFlight, ReturnToFront(S)
  PROVE  /\ queues' \in [Customers -> Seq(Task)]
         /\ \A c \in Customers : \A i \in DOMAIN queues[c] :
               \E j \in DOMAIN queues'[c] : queues'[c][j] = queues[c][i]
         /\ \A t \in S : \E j \in DOMAIN queues'[t[1]] :
               queues'[t[1]][j] = [run |-> inFlight[t].run, tx |-> t]
         /\ \A c \in Customers : \A j \in DOMAIN queues'[c] :
               \/ \E i \in DOMAIN queues[c] : queues'[c][j] = queues[c][i]
               \/ \E t \in S : /\ t[1] = c
                               /\ queues'[c][j] = [run |-> inFlight[t].run, tx |-> t]
  <1> DEFINE tasks == {[run |-> inFlight[t].run, tx |-> t] : t \in S}
  <1>1. tasks \in SUBSET Task /\ IsFiniteSet(tasks)
    BY ReturnedTasks
  <1>2. PICK front \in Arrangements(tasks) :
            queues' = [c \in Customers |-> front[c] \o queues[c]]
    BY DEF ReturnToFront
  <1>3. /\ front \in [Customers -> Seq(Task)]
        /\ \A k \in tasks : \E i \in DOMAIN front[k.tx[1]] : front[k.tx[1]][i] = k
        /\ \A c \in Customers : \A i \in DOMAIN front[c] :
              front[c][i] \in tasks /\ front[c][i].tx[1] = c
    <2> HIDE DEF tasks
    <2> QED
      BY <1>1, ArrangementListsTasks
  <1>4. queues \in [Customers -> Seq(Task)]
    BY DEF OrchTypeOK
  <1>5. \A c \in Customers : Merges(queues'[c], front[c], queues[c])
    BY <1>2, <1>3, <1>4, ConcatMerges
  <1>7. queues' \in [Customers -> Seq(Task)]
    BY <1>2, <1>5 DEF Merges
  <1>8. \A t \in S : \E j \in DOMAIN queues'[t[1]] :
            queues'[t[1]][j] = [run |-> inFlight[t].run, tx |-> t]
    <2> SUFFICES ASSUME NEW t \in S
                 PROVE  \E j \in DOMAIN queues'[t[1]] :
                            queues'[t[1]][j] = [run |-> inFlight[t].run, tx |-> t]
      OBVIOUS
    <2> DEFINE k == [run |-> inFlight[t].run, tx |-> t]
    <2>1. k \in tasks /\ k.tx[1] = t[1]
      OBVIOUS
    <2>2. PICK i \in DOMAIN front[t[1]] : front[t[1]][i] = k
      BY <1>3, <2>1
    <2>3. t[1] \in Customers
      BY DEF InFlight, Tx
    <2> HIDE DEF k
    <2>4. \E j \in DOMAIN queues'[t[1]] : queues'[t[1]][j] = k
      BY <1>5, <2>2, <2>3 DEF Merges
    <2> QED
      BY <2>4 DEF k
  <1>9. ASSUME NEW c \in Customers, NEW j \in DOMAIN queues'[c]
        PROVE  \/ \E i \in DOMAIN queues[c] : queues'[c][j] = queues[c][i]
               \/ \E t \in S : /\ t[1] = c
                               /\ queues'[c][j] = [run |-> inFlight[t].run, tx |-> t]
    <2>1. CASE \E i \in DOMAIN queues[c] : queues'[c][j] = queues[c][i]
      BY <2>1
    <2>2. CASE \E i \in DOMAIN front[c] : queues'[c][j] = front[c][i]
      BY <1>3, <2>2
    <2> QED
      BY <1>5, <2>1, <2>2 DEF Merges
  <1>10. \A c \in Customers : \A i \in DOMAIN queues[c] :
            \E j \in DOMAIN queues'[c] : queues'[c][j] = queues[c][i]
    BY <1>5 DEF Merges
  <1> QED
    BY <1>7, <1>8, <1>9, <1>10

\* The same for the tasks that a reconcile() appends.
LEMMA RequeueKeepsTasks ==
  ASSUME OrchTypeOK, ReconcileRequeue
  PROVE  /\ queues' \in [Customers -> Seq(Task)]
         /\ \A c \in Customers : \A i \in DOMAIN queues[c] :
               \E j \in DOMAIN queues'[c] : queues'[c][j] = queues[c][i]
         /\ \A t \in recon.txs \cap reported : \E j \in DOMAIN queues'[t[1]] :
               queues'[t[1]][j] = [run |-> recon.run, tx |-> t]
         /\ \A c \in Customers : \A j \in DOMAIN queues'[c] :
               \/ \E i \in DOMAIN queues[c] : queues'[c][j] = queues[c][i]
               \/ \E t \in recon.txs \cap reported :
                     /\ t[1] = c
                     /\ queues'[c][j] = [run |-> recon.run, tx |-> t]
  <1> DEFINE G == recon.txs \cap reported
             tasks == {[run |-> recon.run, tx |-> t] : t \in G}
  <1>1. tasks \in SUBSET Task /\ IsFiniteSet(tasks) /\ G \in SUBSET Tx
    BY RequeuedTasks DEF ReconcileRequeue, OrchTypeOK
  <1>2. PICK back \in Arrangements(tasks) :
            queues' = [c \in Customers |-> queues[c] \o back[c]]
    BY DEF ReconcileRequeue
  <1>3. /\ back \in [Customers -> Seq(Task)]
        /\ \A k \in tasks : \E i \in DOMAIN back[k.tx[1]] : back[k.tx[1]][i] = k
        /\ \A c \in Customers : \A i \in DOMAIN back[c] :
              back[c][i] \in tasks /\ back[c][i].tx[1] = c
    <2> HIDE DEF tasks
    <2> QED
      BY <1>1, ArrangementListsTasks
  <1>4. queues \in [Customers -> Seq(Task)]
    BY DEF OrchTypeOK
  <1>5. \A c \in Customers : Merges(queues'[c], queues[c], back[c])
    BY <1>2, <1>3, <1>4, ConcatMerges
  <1>7. queues' \in [Customers -> Seq(Task)]
    BY <1>2, <1>5 DEF Merges
  <1>8. ASSUME NEW t \in G
        PROVE  \E j \in DOMAIN queues'[t[1]] :
                   queues'[t[1]][j] = [run |-> recon.run, tx |-> t]
    <2> DEFINE k == [run |-> recon.run, tx |-> t]
    <2>1. k \in tasks /\ k.tx[1] = t[1]
      OBVIOUS
    <2>2. PICK i \in DOMAIN back[t[1]] : back[t[1]][i] = k
      BY <1>3, <2>1
    <2>3. t[1] \in Customers
      BY <1>1 DEF Tx
    <2> HIDE DEF k
    <2>4. \E j \in DOMAIN queues'[t[1]] : queues'[t[1]][j] = k
      BY <1>5, <2>2, <2>3 DEF Merges
    <2> QED
      BY <2>4 DEF k
  <1>9. ASSUME NEW c \in Customers, NEW j \in DOMAIN queues'[c]
        PROVE  \/ \E i \in DOMAIN queues[c] : queues'[c][j] = queues[c][i]
               \/ \E t \in G : /\ t[1] = c
                               /\ queues'[c][j] = [run |-> recon.run, tx |-> t]
    <2>1. CASE \E i \in DOMAIN queues[c] : queues'[c][j] = queues[c][i]
      BY <2>1
    <2>2. CASE \E i \in DOMAIN back[c] : queues'[c][j] = back[c][i]
      BY <1>3, <2>2
    <2> QED
      BY <1>5, <2>1, <2>2 DEF Merges
  <1>10. \A c \in Customers : \A i \in DOMAIN queues[c] :
            \E j \in DOMAIN queues'[c] : queues'[c][j] = queues[c][i]
    BY <1>5 DEF Merges
  <1> QED
    BY <1>7, <1>8, <1>9, <1>10

-----------------------------------------------------------------------------
(* The inductive invariant.  Besides the properties themselves it says     *)
(* that a queue holds tasks of its own customer only.                      *)

QueuesOwnTasks ==
    \A c \in Customers : \A i \in DOMAIN queues[c] : queues[c][i].tx[1] = c

OrchInv == OrchTypeOK /\ NoTaskLost /\ ReplayFindsClaim /\ QueuesOwnTasks

ReconOK == recon \in Snapshot \cup {None}

LEMMA InitOrchInv == OrchInit => OrchInv
  <1> SUFFICES ASSUME OrchInit PROVE OrchInv
    OBVIOUS
  <1>1. 1 \in Runs
    BY SizesAssumption DEF Runs
  <1>2. OrchTypeOK
    BY <1>1, FreshQueuesType DEF OrchInit, OrchTypeOK
  <1>3. NoTaskLost
    BY <1>1, FreshQueuesType DEF OrchInit, NoTaskLost, Queued
  <1>4. ReplayFindsClaim
    BY DEF OrchInit, ReplayFindsClaim, InFlight
  <1>5. QueuesOwnTasks
    BY <1>1, FreshQueuesType DEF OrchInit, QueuesOwnTasks
  <1> QED
    BY <1>2, <1>3, <1>4, <1>5 DEF OrchInv

LEMMA PopulateKeepsInv ==
  ASSUME NEW run \in Runs, Populate(run), ReconOK'
  PROVE  OrchInv'
  <1>1. OrchTypeOK'
    BY FreshQueuesType DEF Populate, OrchTypeOK, ReconOK
  <1>2. NoTaskLost'
    BY FreshQueuesType DEF Populate, NoTaskLost, Queued
  <1>3. ReplayFindsClaim'
    BY DEF Populate, ReplayFindsClaim, InFlight
  <1>4. QueuesOwnTasks'
    BY FreshQueuesType DEF Populate, QueuesOwnTasks
  <1> QED
    BY <1>1, <1>2, <1>3, <1>4 DEF OrchInv

LEMMA ClaimKeepsInv ==
  ASSUME OrchInv, NEW r \in Requesters \cup {None}, NEW c \in Customers,
         NextTaskClaim(r, c)
  PROVE  OrchInv'
  <1> DEFINE task == Head(queues[c])
  <1> USE DEF OrchInv
  <1>1. /\ queues[c] \in Seq(Task) /\ queues[c] # << >>
        /\ task = queues[c][1]
        /\ task \in Task
        /\ Tail(queues[c]) \in Seq(Task)
        /\ DOMAIN queues[c] = 1..Len(queues[c])
        /\ Len(queues[c]) \in Nat \ {0}
        /\ DOMAIN Tail(queues[c]) = 1..(Len(queues[c]) - 1)
        /\ \A i \in 1..(Len(queues[c]) - 1) : Tail(queues[c])[i] = queues[c][i + 1]
    BY HeadTailProperties, LenProperties, EmptySeq
       DEF NextTaskClaim, Exhausted, OrchTypeOK
  <1>2. /\ queues' = [queues EXCEPT ![c] = Tail(queues[c])]
        /\ inFlight' = [inFlight EXCEPT ![task.tx] = [run |-> task.run, by |-> r]]
        /\ byRequester' = [q \in Requesters |->
                              IF q = r THEN task.tx ELSE byRequester[q]]
        /\ UNCHANGED <<runId, reported, stopped, recon>>
    BY DEF NextTaskClaim, Claims
  <1>3. /\ task.tx \in Tx /\ task.run \in Runs
        /\ [run |-> task.run, by |-> r] \in Claim
        /\ [run |-> task.run, by |-> r] # None
    BY <1>1, NoneAssumption DEF Task, Claim
  <1> HIDE DEF task
  <1>4. OrchTypeOK'
    BY <1>1, <1>2, <1>3 DEF OrchTypeOK
  <1>5. NoTaskLost'
    <2> SUFFICES ASSUME NEW t \in Tx
                 PROVE  t \in Queued' \cup InFlight' \cup reported'
      BY DEF NoTaskLost
    <2>1. CASE t \in InFlight
      BY <2>1, <1>2, <1>3 DEF InFlight, OrchTypeOK
    <2>2. CASE t \in reported
      BY <2>2, <1>2
    <2>3. CASE t = task.tx
      BY <2>3, <1>2, <1>3 DEF InFlight, OrchTypeOK
    <2>4. CASE t \in Queued /\ t # task.tx
      <3>1. PICK i \in DOMAIN queues[t[1]] : queues[t[1]][i].tx = t
        BY <2>4 DEF Queued
      <3>2. CASE t[1] # c
        BY <3>1, <3>2, <1>2, <2>4 DEF Queued, OrchTypeOK, Tx
      <3>3. CASE t[1] = c
        <4>1. i - 1 \in DOMAIN queues'[c] /\ queues'[c][i - 1].tx = t
          BY <1>1, <1>2, <2>4, <3>1, <3>3 DEF OrchTypeOK
        <4> QED
          BY <4>1, <3>3, <2>4 DEF Queued
      <3> QED
        BY <3>2, <3>3
    <2> QED
      BY <2>1, <2>2, <2>3, <2>4 DEF NoTaskLost
  <1>6. ReplayFindsClaim'
    <2> SUFFICES ASSUME NEW t \in InFlight', inFlight'[t].by # None
                 PROVE  byRequester'[inFlight'[t].by] = t
      BY DEF ReplayFindsClaim
    <2>1. CASE t = task.tx
      BY <2>1, <1>2, <1>3 DEF OrchTypeOK
    <2>2. CASE t # task.tx
      <3>1. t \in InFlight /\ inFlight'[t] = inFlight[t] /\ t # None
        BY <2>2, <1>2, <1>3, NoneAssumption DEF InFlight, OrchTypeOK
      <3>2. byRequester[inFlight[t].by] = t
        BY <3>1 DEF ReplayFindsClaim
      <3>3. inFlight[t].by \in Requesters
        BY <3>1 DEF InFlight, OrchTypeOK, Claim
      <3>4. inFlight[t].by # r
        BY <3>1, <3>2, <3>3 DEF NextTaskClaim, Replays, InFlight
      <3> QED
        BY <1>2, <3>1, <3>2, <3>3, <3>4
    <2> QED
      BY <2>1, <2>2
  <1>7. QueuesOwnTasks'
    <2> SUFFICES ASSUME NEW d \in Customers, NEW i \in DOMAIN queues'[d]
                 PROVE  queues'[d][i].tx[1] = d
      BY DEF QueuesOwnTasks
    <2>1. CASE d # c
      BY <2>1, <1>2 DEF QueuesOwnTasks, OrchTypeOK
    <2>2. CASE d = c
      <3>1. i + 1 \in DOMAIN queues[c] /\ queues'[c][i] = queues[c][i + 1]
        BY <1>1, <1>2, <2>2 DEF OrchTypeOK
      <3> QED
        BY <2>2, <3>1 DEF QueuesOwnTasks
    <2> QED
      BY <2>1, <2>2
  <1> QED
    BY <1>4, <1>5, <1>6, <1>7

LEMMA ReportKeepsInv ==
  ASSUME OrchInv, NEW t \in Tx, ReportDone(t)
  PROVE  OrchInv'
  <1> USE DEF OrchInv
  <1>1. /\ inFlight' = [inFlight EXCEPT ![t] = None]
        /\ byRequester' = Unbind({t})
        /\ reported' = reported \cup {t}
        /\ UNCHANGED <<runId, queues, stopped, recon>>
    BY DEF ReportDone
  <1>2. OrchTypeOK'
    BY <1>1 DEF OrchTypeOK, Unbind
  <1>3. NoTaskLost'
    BY <1>1 DEF NoTaskLost, Queued, InFlight, OrchTypeOK
  <1>4. ReplayFindsClaim'
    <2> SUFFICES ASSUME NEW u \in InFlight', inFlight'[u].by # None
                 PROVE  byRequester'[inFlight'[u].by] = u
      BY DEF ReplayFindsClaim
    <2>1. u # t /\ u \in InFlight /\ inFlight'[u] = inFlight[u]
      BY <1>1 DEF InFlight, OrchTypeOK
    <2>2. byRequester[inFlight[u].by] = u /\ inFlight[u].by \in Requesters
      BY <2>1 DEF ReplayFindsClaim, InFlight, OrchTypeOK, Claim
    <2>3. t \in InFlight => inFlight[t].by # inFlight[u].by
      BY <2>1, <2>2 DEF ReplayFindsClaim
    <2> QED
      BY <1>1, <2>1, <2>2, <2>3 DEF Unbind
  <1>5. QueuesOwnTasks'
    BY <1>1 DEF QueuesOwnTasks
  <1> QED
    BY <1>2, <1>3, <1>4, <1>5

LEMMA ReleaseKeepsInv ==
  ASSUME OrchInv, NEW S \in SUBSET InFlight, Release(S), ReconOK'
  PROVE  OrchInv'
  <1> USE DEF OrchInv
  <1>1. /\ ReturnToFront(S)
        /\ inFlight' = [t \in Tx |-> IF t \in S THEN None ELSE inFlight[t]]
        /\ byRequester' = Unbind(S)
        /\ UNCHANGED <<runId, reported, stopped>>
    BY DEF Release
  <1>2. /\ queues' \in [Customers -> Seq(Task)]
        /\ \A c \in Customers : \A i \in DOMAIN queues[c] :
              \E j \in DOMAIN queues'[c] : queues'[c][j] = queues[c][i]
        /\ \A t \in S : \E j \in DOMAIN queues'[t[1]] :
              queues'[t[1]][j] = [run |-> inFlight[t].run, tx |-> t]
        /\ \A c \in Customers : \A j \in DOMAIN queues'[c] :
              \/ \E i \in DOMAIN queues[c] : queues'[c][j] = queues[c][i]
              \/ \E t \in S : /\ t[1] = c
                              /\ queues'[c][j] = [run |-> inFlight[t].run, tx |-> t]
    BY <1>1, ReturnToFrontKeepsTasks
  <1>3. OrchTypeOK'
    BY <1>1, <1>2 DEF OrchTypeOK, Unbind, ReconOK
  <1>4. NoTaskLost'
    <2> SUFFICES ASSUME NEW t \in Tx
                 PROVE  t \in Queued' \cup InFlight' \cup reported'
      BY DEF NoTaskLost
    <2>1. CASE t \in Queued
      <3>1. PICK i \in DOMAIN queues[t[1]] : queues[t[1]][i].tx = t
        BY <2>1 DEF Queued
      <3>2. t[1] \in Customers
        BY DEF Tx
      <3> QED
        BY <1>2, <3>1, <3>2 DEF Queued
    <2>2. CASE t \in S
      <3>1. PICK j \in DOMAIN queues'[t[1]] :
                queues'[t[1]][j] = [run |-> inFlight[t].run, tx |-> t]
        BY <1>2, <2>2
      <3>2. queues'[t[1]][j].tx = t
        BY <3>1
      <3> QED
        BY <3>2 DEF Queued
    <2>3. CASE t \in InFlight \ S
      BY <1>1, <2>3 DEF InFlight
    <2>4. CASE t \in reported
      BY <1>1, <2>4
    <2> QED
      BY <2>1, <2>2, <2>3, <2>4 DEF NoTaskLost
  <1>5. ReplayFindsClaim'
    <2> SUFFICES ASSUME NEW u \in InFlight', inFlight'[u].by # None
                 PROVE  byRequester'[inFlight'[u].by] = u
      BY DEF ReplayFindsClaim
    <2>1. u \notin S /\ u \in InFlight /\ inFlight'[u] = inFlight[u]
      BY <1>1 DEF InFlight
    <2>2. byRequester[inFlight[u].by] = u /\ inFlight[u].by \in Requesters
      BY <2>1 DEF ReplayFindsClaim, InFlight, OrchTypeOK, Claim
    <2>3. \A t \in S \cap InFlight : inFlight[t].by # inFlight[u].by
      BY <2>1, <2>2 DEF ReplayFindsClaim
    <2> QED
      BY <1>1, <2>1, <2>2, <2>3 DEF Unbind
  <1>6. QueuesOwnTasks'
    BY <1>2 DEF QueuesOwnTasks
  <1> QED
    BY <1>3, <1>4, <1>5, <1>6

LEMMA RequeueKeepsInv ==
  ASSUME OrchInv, ReconcileRequeue
  PROVE  OrchInv'
  <1> USE DEF OrchInv
  <1>1. /\ reported' = reported \ recon.txs
        /\ recon' = None
        /\ UNCHANGED <<runId, inFlight, byRequester, stopped>>
    BY DEF ReconcileRequeue
  <1>2. /\ queues' \in [Customers -> Seq(Task)]
        /\ \A c \in Customers : \A i \in DOMAIN queues[c] :
              \E j \in DOMAIN queues'[c] : queues'[c][j] = queues[c][i]
        /\ \A t \in recon.txs \cap reported : \E j \in DOMAIN queues'[t[1]] :
              queues'[t[1]][j] = [run |-> recon.run, tx |-> t]
        /\ \A c \in Customers : \A j \in DOMAIN queues'[c] :
              \/ \E i \in DOMAIN queues[c] : queues'[c][j] = queues[c][i]
              \/ \E t \in recon.txs \cap reported :
                    /\ t[1] = c
                    /\ queues'[c][j] = [run |-> recon.run, tx |-> t]
    BY RequeueKeepsTasks
  <1>3. OrchTypeOK'
    BY <1>1, <1>2 DEF OrchTypeOK
  <1>4. NoTaskLost'
    <2> SUFFICES ASSUME NEW t \in Tx
                 PROVE  t \in Queued' \cup InFlight' \cup reported'
      BY DEF NoTaskLost
    <2>1. CASE t \in Queued
      <3>1. PICK i \in DOMAIN queues[t[1]] : queues[t[1]][i].tx = t
        BY <2>1 DEF Queued
      <3>2. t[1] \in Customers
        BY DEF Tx
      <3> QED
        BY <1>2, <3>1, <3>2 DEF Queued
    <2>2. CASE t \in InFlight
      BY <1>1, <2>2 DEF InFlight
    <2>3. CASE t \in reported \cap recon.txs
      <3>1. PICK j \in DOMAIN queues'[t[1]] :
                queues'[t[1]][j] = [run |-> recon.run, tx |-> t]
        BY <1>2, <2>3
      <3>2. queues'[t[1]][j].tx = t
        BY <3>1
      <3> QED
        BY <3>2 DEF Queued
    <2>4. CASE t \in reported \ recon.txs
      BY <1>1, <2>4
    <2> QED
      BY <2>1, <2>2, <2>3, <2>4 DEF NoTaskLost
  <1>5. ReplayFindsClaim'
    BY <1>1 DEF ReplayFindsClaim, InFlight
  <1>6. QueuesOwnTasks'
    BY <1>2 DEF QueuesOwnTasks
  <1> QED
    BY <1>3, <1>4, <1>5, <1>6

\* Nothing but the locals of reconcile() or the stop flag changes.
LEMMA SideStepKeepsInv ==
  ASSUME OrchInv, ReconOK', stopped' \in BOOLEAN,
         UNCHANGED <<runId, queues, inFlight, byRequester, reported>>
  PROVE  OrchInv'
  BY DEF OrchInv, OrchTypeOK, NoTaskLost, Queued, InFlight, ReplayFindsClaim,
         QueuesOwnTasks, ReconOK

LEMMA SnapshotOK ==
  ASSUME OrchTypeOK, ReconcileSnapshot
  PROVE  ReconOK'
  BY DEF OrchTypeOK, ReconcileSnapshot, ReconOK, Snapshot

LEMMA ReadOK ==
  ASSUME OrchTypeOK, NEW actual, ReconcileRead(actual)
  PROVE  ReconOK'
  BY DEF OrchTypeOK, ReconcileRead, ReconOK, Snapshot

-----------------------------------------------------------------------------
LEMMA NextKeepsInv == OrchInv /\ [OrchNext]_orchVars => OrchInv'
  <1> SUFFICES ASSUME OrchInv, [OrchNext]_orchVars PROVE OrchInv'
    OBVIOUS
  <1>1. ASSUME NEW r \in Requesters \cup {None}, NEW c \in Customers,
               NextTaskClaim(r, c)
        PROVE  OrchInv'
    BY <1>1, ClaimKeepsInv
  <1>2. ASSUME NEW t \in Tx, ReportDone(t) PROVE OrchInv'
    BY <1>2, ReportKeepsInv
  <1>3. ASSUME NEW t \in Tx, ReleaseForRetry(t), UNCHANGED recon PROVE OrchInv'
    <2>1. {t} \in SUBSET InFlight /\ Release({t})
      BY <1>3 DEF ReleaseForRetry
    <2> QED
      BY <1>3, <2>1, ReleaseKeepsInv DEF OrchInv, OrchTypeOK, ReconOK
  <1>4. ASSUME NEW S \in SUBSET InFlight, Sweep(S), UNCHANGED recon PROVE OrchInv'
    BY <1>4, ReleaseKeepsInv DEF Sweep, OrchInv, OrchTypeOK, ReconOK
  <1>5. ASSUME NEW stop \in BOOLEAN, SetStopped(stop), UNCHANGED recon PROVE OrchInv'
    BY <1>5, SideStepKeepsInv DEF SetStopped, OrchInv, OrchTypeOK, ReconOK
  <1>6. ASSUME NEW run \in Runs, Populate(run), recon' \in {recon, None} PROVE OrchInv'
    BY <1>6, PopulateKeepsInv DEF OrchInv, OrchTypeOK, ReconOK
  <1>7. ASSUME ReconcileSnapshot, BooksUnchanged PROVE OrchInv'
    BY <1>7, SnapshotOK, SideStepKeepsInv DEF BooksUnchanged, OrchInv, OrchTypeOK
  <1>8. ASSUME NEW actual \in SUBSET Tx, ReconcileRead(actual) PROVE OrchInv'
    <2>1. UNCHANGED <<runId, queues, inFlight, byRequester, reported, stopped>>
      BY <1>8 DEF ReconcileRead
    <2> QED
      BY <1>8, <2>1, ReadOK, SideStepKeepsInv DEF OrchInv, OrchTypeOK
  <1>9. ASSUME ReconcileRequeue PROVE OrchInv'
    BY <1>9, RequeueKeepsInv
  <1>10. ASSUME ReconcileAbort, BooksUnchanged PROVE OrchInv'
    BY <1>10, SideStepKeepsInv
       DEF ReconcileAbort, BooksUnchanged, OrchInv, OrchTypeOK, ReconOK
  <1>11. CASE UNCHANGED orchVars
    BY <1>11, SideStepKeepsInv DEF orchVars, OrchInv, OrchTypeOK, ReconOK
  <1> QED
    BY <1>1, <1>2, <1>3, <1>4, <1>5, <1>6, <1>7, <1>8, <1>9, <1>10, <1>11 DEF OrchNext

(* The inductive invariant holds under any order of method calls, with     *)
(* resets and restarts anywhere (orchestrator.py:60-291).                  *)
THEOREM OrchInvariance == OrchSpec => []OrchInv
  <1>1. OrchInv /\ [OrchNext]_orchVars => OrchInv'
    BY NextKeepsInv
  <1> QED
    BY InitOrchInv, <1>1, PTL DEF OrchSpec

(* Every value of the orchestrator's state keeps its type, whatever order  *)
(* its methods are called in (orchestrator.py:43-57).                      *)
THEOREM OrchTypeCorrect == OrchSpec => []OrchTypeOK
  <1>1. OrchInv => OrchTypeOK
    BY DEF OrchInv
  <1> QED
    BY OrchInvariance, <1>1, PTL

(* No credit disappears from the books: queued, in flight or reported      *)
(* (orchestrator.py:217-291).                                              *)
THEOREM NothingLost == OrchSpec => []NoTaskLost
  <1>1. OrchInv => NoTaskLost
    BY DEF OrchInv
  <1> QED
    BY OrchInvariance, <1>1, PTL

(* A replayed next_task finds the claim its requester has in flight        *)
(* (orchestrator.py:134-156).                                              *)
THEOREM ReplayIsIdempotent == OrchSpec => []ReplayFindsClaim
  <1>1. OrchInv => ReplayFindsClaim
    BY DEF OrchInv
  <1> QED
    BY OrchInvariance, <1>1, PTL
=============================================================================

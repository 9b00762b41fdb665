---------------------------- MODULE Orchestrator ----------------------------
(***************************************************************************)
(* The in-memory work queues of the MCP server:                            *)
(* services/mcp/mcp_server/orchestrator.py.                                *)
(*                                                                         *)
(* The orchestrator hands out one task per $1 credit.  Every method body   *)
(* that holds the asyncio lock contains no suspension point, so each       *)
(* locked section is one action.  Two operations span several sections:    *)
(* reset (the new run is first inserted in the database, then installed    *)
(* here: Install) and reconcile (snapshot, database read, requeue).        *)
(*                                                                         *)
(* Abstractions.  Claim times are left out: a sweep may find any set of    *)
(* claims older than its timeout.  The counters applied, skipped and       *)
(* released are left out: nothing in the program reads them but the logs.  *)
(* Iteration order over Python sets and dicts is any order.  The           *)
(* operations that a caller may combine with the end or the start of a     *)
(* reconcile() leave recon to that caller.                                 *)
(*                                                                         *)
(* A definition marked "Fault" is the next one as a plausible mistake      *)
(* would have it; no specification uses it.  It is there to show that the  *)
(* properties notice.                                                      *)
(***************************************************************************)
EXTENDS CreditDomain, Sequences, SequencesExt

CONSTANTS Requesters,   \* workflow instance ids passed as `requester`
          None          \* Python's None

Task == [run : Runs, tx : Tx]
Claim == [run : Runs, by : Requesters \cup {None}]
Snapshot == [run : Runs, txs : SUBSET Tx, read : BOOLEAN]

ASSUME NoneAssumption ==
    /\ None \notin Requesters
    /\ None \notin Tx
    /\ None \notin Claim
    /\ None \notin Snapshot

VARIABLES
    runId,        \* State.execution_run_id
    queues,       \* State.queues
    inFlight,     \* State.in_flight: None, or the run and owner of the claim
    byRequester,  \* State.by_requester
    reported,     \* State.reported
    stopped,      \* State.stopped
    recon         \* locals of a reconcile() in progress, or None

orchVars == <<runId, queues, inFlight, byRequester, reported, stopped, recon>>

OrchTypeOK ==
    /\ runId \in Runs
    /\ queues \in [Customers -> Seq(Task)]
    /\ inFlight \in [Tx -> Claim \cup {None}]
    /\ byRequester \in [Requesters -> Tx \cup {None}]
    /\ reported \in SUBSET Tx
    /\ stopped \in BOOLEAN
    /\ recon \in Snapshot \cup {None}

InFlight == {t \in Tx : inFlight[t] # None}
Queued == {t \in Tx : \E i \in DOMAIN queues[t[1]] : queues[t[1]][i].tx = t}
Pending == Queued \cup InFlight

-----------------------------------------------------------------------------
(* A fresh State, populated: Credits tasks in the queue of each customer.  *)

FreshQueues(run) ==
    [c \in Customers |-> [n \in 1..Credits |-> [run |-> run, tx |-> <<c, n>>]]]

\* What bootstrap() and the locked half of reset() leave behind.
Populate(run) ==
    /\ runId' = run
    /\ queues' = FreshQueues(run)
    /\ inFlight' = [t \in Tx |-> None]
    /\ byRequester' = [r \in Requesters |-> None]
    /\ reported' = {}
    /\ stopped' = FALSE

OrchInit ==
    /\ runId = 1
    /\ queues = FreshQueues(1)
    /\ inFlight = [t \in Tx |-> None]
    /\ byRequester = [r \in Requesters |-> None]
    /\ reported = {}
    /\ stopped = FALSE
    /\ recon = None

\* set_stopped(stop)
SetStopped(stop) ==
    /\ stopped' = stop
    /\ UNCHANGED <<runId, queues, inFlight, byRequester, reported>>

-----------------------------------------------------------------------------
(* next_task(requester, customer_id): a replay answers with the task in    *)
(* flight and changes nothing, an exhausted or stopped orchestrator        *)
(* answers {done: true}, otherwise the head of the queue is claimed.       *)

Replays(r) ==
    /\ r \in Requesters
    /\ byRequester[r] # None
    /\ inFlight[byRequester[r]] # None

\* Fault: the stop flag is not looked at.
ExhaustedOnly(c) == queues[c] = << >>

Exhausted(c) == stopped \/ queues[c] = << >>

Claims(r, c) ==
    LET task == Head(queues[c]) IN
    /\ queues' = [queues EXCEPT ![c] = Tail(@)]
    /\ inFlight' = [inFlight EXCEPT ![task.tx] = [run |-> task.run, by |-> r]]
    /\ byRequester' = [q \in Requesters |->
                          IF q = r THEN task.tx ELSE byRequester[q]]
    /\ UNCHANGED <<runId, reported, stopped, recon>>

\* Fault: replays are not looked up.
NextTaskAlwaysClaims(r, c) ==
    /\ ~Exhausted(c)
    /\ Claims(r, c)

NextTaskClaim(r, c) ==
    /\ ~Replays(r)
    /\ ~Exhausted(c)
    /\ Claims(r, c)

-----------------------------------------------------------------------------
(* A claim ends when it is reported, or goes back to its queue.            *)

Unbind(S) ==
    [q \in Requesters |->
        IF q \in {inFlight[t].by : t \in S \cap InFlight}
        THEN None ELSE byRequester[q]]

\* report_done(tx_id, applied): the tx_id names a credit, not a run.
ReportDone(t) ==
    /\ inFlight' = [inFlight EXCEPT ![t] = None]
    /\ byRequester' = Unbind({t})
    /\ reported' = reported \cup {t}
    /\ UNCHANGED <<runId, queues, stopped, recon>>

\* The sequences, one per customer, that list a set of tasks in some order.
Arrangements(tasks) ==
    LET OfCustomer(c) == SetToSeqs({k \in tasks : k.tx[1] = c})
    IN  {f \in [Customers -> UNION {OfCustomer(c) : c \in Customers}] :
            \A c \in Customers : f[c] \in OfCustomer(c)}

\* The tasks of the claims on S, at the front of their customers' queues.
ReturnToFront(S) ==
    \E front \in Arrangements({[run |-> inFlight[t].run, tx |-> t] : t \in S}) :
        queues' = [c \in Customers |-> front[c] \o queues[c]]

\* Fault: the claim is dropped, its task is not put back.
ReleaseDropsTask(S) ==
    /\ inFlight' = [t \in Tx |-> IF t \in S THEN None ELSE inFlight[t]]
    /\ byRequester' = Unbind(S)
    /\ UNCHANGED <<runId, queues, reported, stopped>>

\* Fault: the task is put back, its claim stays.
ReleaseKeepsClaim(S) ==
    /\ ReturnToFront(S)
    /\ UNCHANGED <<runId, inFlight, byRequester, reported, stopped>>

\* The claims on S go back to their queues.
Release(S) ==
    /\ ReturnToFront(S)
    /\ inFlight' = [t \in Tx |-> IF t \in S THEN None ELSE inFlight[t]]
    /\ byRequester' = Unbind(S)
    /\ UNCHANGED <<runId, reported, stopped>>

\* release_for_retry(tx_id)
ReleaseForRetry(t) ==
    /\ t \in InFlight
    /\ Release({t})

\* sweep(timeout): S is the set of claims older than the timeout.
Sweep(S) ==
    /\ S \subseteq InFlight
    /\ Release(S)

-----------------------------------------------------------------------------
(* reconcile(): reported ids that are neither pending nor in the database  *)
(* are un-reported and queued again, under the run of the snapshot.        *)

ReconcileSnapshot ==
    /\ recon = None
    /\ recon' = [run |-> runId, txs |-> reported \ Pending, read |-> FALSE]

\* The answer of get_transaction_ids(run_id); without ghosts, it is over.
ReconcileRead(actual) ==
    /\ recon # None
    /\ ~recon.read
    /\ recon' = IF recon.txs \subseteq actual
                THEN None
                ELSE [recon EXCEPT !.txs = @ \ actual, !.read = TRUE]
    /\ UNCHANGED <<runId, queues, inFlight, byRequester, reported, stopped>>

ReconcileRequeue ==
    /\ recon # None
    /\ recon.read
    /\ \E back \in Arrangements({[run |-> recon.run, tx |-> t] :
                                    t \in recon.txs \cap reported}) :
           queues' = [c \in Customers |-> queues[c] \o back[c]]
    /\ reported' = reported \ recon.txs
    /\ recon' = None
    /\ UNCHANGED <<runId, inFlight, byRequester, stopped>>

\* The database read raised, or the task that reconciles was cancelled.
ReconcileAbort ==
    /\ recon # None
    /\ recon' = None

-----------------------------------------------------------------------------
(* The orchestrator under callers that may do anything in any order.  A    *)
(* reset leaves a reconcile() at its database read alone, a restart of the *)
(* process ends it.                                                        *)

BooksUnchanged ==
    UNCHANGED <<runId, queues, inFlight, byRequester, reported, stopped>>

OrchNext ==
    \/ \E r \in Requesters \cup {None}, c \in Customers : NextTaskClaim(r, c)
    \/ \E t \in Tx : ReportDone(t)
    \/ \E t \in Tx : ReleaseForRetry(t) /\ UNCHANGED recon
    \/ \E S \in SUBSET InFlight : Sweep(S) /\ UNCHANGED recon
    \/ \E stop \in BOOLEAN : SetStopped(stop) /\ UNCHANGED recon
    \/ \E run \in Runs : Populate(run) /\ recon' \in {recon, None}
    \/ ReconcileSnapshot /\ BooksUnchanged
    \/ \E actual \in SUBSET Tx : ReconcileRead(actual)
    \/ ReconcileRequeue
    \/ ReconcileAbort /\ BooksUnchanged

OrchSpec == OrchInit /\ [][OrchNext]_orchVars

-----------------------------------------------------------------------------
(* No credit disappears from the books: whatever the order of claims,      *)
(* reports, sweeps, resets and reconciliations, each tx id is waiting in   *)
(* its queue, in flight, or reported (orchestrator.py:217-291).            *)
NoTaskLost == \A t \in Tx : t \in Queued \cup InFlight \cup reported

(* A requester whose claim is in flight is bound to that very claim, so a  *)
(* replayed next_task gets the same task back and the requester never      *)
(* holds two (orchestrator.py:134-156), even after reset or requeue races. *)
ReplayFindsClaim ==
    \A t \in InFlight :
        inFlight[t].by # None => byRequester[inFlight[t].by] = t
=============================================================================

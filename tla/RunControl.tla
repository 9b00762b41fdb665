----------------------------- MODULE RunControl -----------------------------
(***************************************************************************)
(* Runs of the demo on the MCP server: how one is started (the two halves  *)
(* of Orchestrator.reset, from POST /agent/spawn or POST /orch/reset), how *)
(* it is stopped, how the replenisher's loop watches it to its end         *)
(* (services/mcp/mcp_server/replenisher.py), and what a restart of the     *)
(* process leaves behind.                                                  *)
(*                                                                         *)
(* The loop suspends on the count of transactions in status(), on its      *)
(* sleeps, and on the read of reconcile().  What it does between two of    *)
(* these is one step.                                                      *)
(***************************************************************************)
EXTENDS CreditService

VARIABLES
    pending,   \* runs inserted in the database, not yet installed in memory
    loop,      \* where the replenisher's loop is
    sawIdle    \* its snapshot had no task queued and none in flight

controlVars == <<pending, loop, sawIdle>>
vars == <<orchVars, ledgerVars, callVars, controlVars>>

LoopAt == {"off", "starting", "poll", "count", "reconcile", "done"}

ControlTypeOK ==
    /\ pending \in SUBSET Runs
    /\ loop \in LoopAt
    /\ sawIdle \in BOOLEAN

TypeOK == OrchTypeOK /\ LedgerTypeOK /\ CallTypeOK /\ ControlTypeOK

ControlInit ==
    /\ pending = {}
    /\ loop = "off"
    /\ sawIdle = FALSE

Init == OrchInit /\ LedgerInit /\ CallInit /\ ControlInit

LoopRuns == loop \in {"poll", "count", "reconcile"}

-----------------------------------------------------------------------------
(* Starting, stopping, restarting.                                         *)

\* reset(), first half: the transaction commits, its answer is awaited.
ResetLedger ==
    /\ StartExecutionRun
    /\ pending' = pending \cup {lastRun'}
    /\ UNCHANGED <<orchVars, callVars, loop, sawIdle>>

\* reset(), second half.  The replenisher's start() goes on to cancel the
\* loop of the previous run in the same step; /orch/reset leaves it alone.
InstallRun(run, spawn) ==
    /\ run \in pending
    /\ pending' = pending \ {run}
    /\ Populate(run)
    /\ recon' = IF spawn THEN None ELSE recon
    /\ loop' = CASE spawn         -> "starting"
                 [] loop = "done" -> "off"
                 [] OTHER         -> loop
    /\ UNCHANGED <<ledgerVars, callVars, sawIdle>>

\* start() has scheduled its instances and creates the loop.
StartLoop ==
    /\ loop = "starting"
    /\ loop' = "poll"
    /\ UNCHANGED <<orchVars, ledgerVars, callVars, pending, sawIdle>>

\* stop() cancels a loop that exists; one that start() is about to create
\* is created all the same.
Stop ==
    /\ SetStopped(TRUE)
    /\ recon' = None
    /\ loop' = IF LoopRuns THEN "off" ELSE loop
    /\ UNCHANGED <<ledgerVars, callVars, pending, sawIdle>>

\* The process dies and comes back: bootstrap() adopts the latest run.
Restart ==
    /\ Populate(lastRun)
    /\ recon' = None
    /\ call' = [k \in Calls |-> None]
    /\ dropNext' = 0
    /\ pending' = {}
    /\ loop' = "off"
    /\ sawIdle' = FALSE
    /\ UNCHANGED ledgerVars

-----------------------------------------------------------------------------
(* _loop.                                                                  *)

\* Fault: claims in flight are not looked at.
LoopSnapshotOfQueues ==
    /\ loop = "poll"
    /\ loop' = "count"
    /\ sawIdle' = (Queued = {})
    /\ UNCHANGED <<orchVars, ledgerVars, callVars, pending>>

LoopSnapshot ==
    /\ loop = "poll"
    /\ loop' = "count"
    /\ sawIdle' = (Pending = {})
    /\ UNCHANGED <<orchVars, ledgerVars, callVars, pending>>

\* The count is back: sweep, look at the snapshot, and start to reconcile
\* if it was idle.
LoopSweep(S) ==
    /\ loop = "count"
    /\ Sweep(S)
    /\ IF sawIdle
       THEN ReconcileSnapshot /\ loop' = "reconcile"
       ELSE UNCHANGED recon /\ loop' = "poll"
    /\ UNCHANGED <<ledgerVars, callVars, pending, sawIdle>>

LoopStatusFails ==
    /\ loop = "count"
    /\ loop' = "poll"
    /\ UNCHANGED <<orchVars, ledgerVars, callVars, pending, sawIdle>>

\* The database answers the read of reconcile(); no ghost, the run is done.
LoopRead ==
    /\ loop = "reconcile"
    /\ ReconcileRead(TransactionIds(recon.run))
    /\ loop' = IF recon' = None THEN "done" ELSE "reconcile"
    /\ UNCHANGED <<ledgerVars, callVars, pending, sawIdle>>

LoopRequeue ==
    /\ loop = "reconcile"
    /\ ReconcileRequeue
    /\ loop' = "poll"
    /\ UNCHANGED <<ledgerVars, callVars, pending, sawIdle>>

\* reconcile() raised: the loop logs it and declares the run done.
LoopReadFails ==
    /\ loop = "reconcile"
    /\ ~recon.read
    /\ ReconcileAbort
    /\ BooksUnchanged
    /\ loop' = "done"
    /\ UNCHANGED <<ledgerVars, callVars, pending, sawIdle>>

LoopStep ==
    \/ StartLoop
    \/ LoopSnapshot
    \/ \E S \in SUBSET InFlight : LoopSweep(S)
    \/ LoopStatusFails
    \/ LoopRead
    \/ LoopRequeue
    \/ LoopReadFails

-----------------------------------------------------------------------------
(* Two specifications.  In Spec a reset may fall anywhere, as it can in    *)
(* the program: terminate_workflow is unreliable, /orch/reset asks nobody, *)
(* and a call started under one run may commit under the next.  DrainedSpec*)
(* is the premise that replenisher.start and the UI's Reset button work    *)
(* towards: no credit_next is in progress while a run is being replaced,   *)
(* and a bare /orch/reset comes after the loop was stopped or had finished.*)

ResetStep ==
    \/ ResetLedger
    \/ \E run \in Runs, spawn \in BOOLEAN : InstallRun(run, spawn)

ServeStep == \E k \in Calls : CallStep(k) /\ UNCHANGED controlVars

SupportStep ==
    \/ ChaosStep /\ UNCHANGED controlVars
    \/ LoopStep
    \/ Stop
    \/ Restart

Next == ServeStep \/ SupportStep \/ ResetStep

Spec == Init /\ [][Next]_vars

NoCalls == \A k \in Calls : call[k] = None

DrainedReset ==
    \/ NoCalls /\ pending = {} /\ ResetLedger
    \/ \E run \in Runs, spawn \in BOOLEAN :
          /\ spawn \/ ~LoopRuns
          /\ InstallRun(run, spawn)

DrainedNext ==
    \/ pending = {} /\ ServeStep
    \/ SupportStep
    \/ DrainedReset

DrainedSpec == Init /\ [][DrainedNext]_vars

-----------------------------------------------------------------------------
(* Properties of Spec.                                                     *)

\* The credits of the latest run that are committed for a customer.
Committed(c) == {n \in 1..Credits : <<lastRun, <<c, n>>>> \in txs}

(* A committed credit of the latest run is never missing from its account, *)
(* whatever calls of earlier runs, failures and restarts do meanwhile      *)
(* (db.py:70-124, 186-218).                                                *)
NoCreditLost ==
    \A c \in Customers :
        balance[c] >= StartBalance + Cardinality(Committed(c))

(* credit_next takes the account from its argument and the credit from the *)
(* task: they always belong to the same customer (server.py:170-217).      *)
CreditsOwnAccount ==
    \A k \in Calls : call[k] # None => call[k].tx[1] = CustomerOf(k)

\* The credits somebody has claimed and may still commit.
Outstanding == InFlight \cup {call[k].tx : k \in {j \in Calls : call[j] # None}}

(* Once stopped, the server takes on no new credit until the next run or   *)
(* restart: replays only finish what was claimed (orchestrator.py:137-139, *)
(* replenisher.py:16-22).                                                  *)
StopDrains == [][stopped /\ stopped' => Outstanding' \subseteq Outstanding]_vars

-----------------------------------------------------------------------------
(* Properties of DrainedSpec.                                              *)

(* An account holds its start plus exactly the committed credits of the    *)
(* latest run: each counted once, none from elsewhere, none capped away.   *)
ExactBalance ==
    \A c \in Customers :
        balance[c] = StartBalance + Cardinality(Committed(c))

(* What the orchestrator books as reported is in the database, so that     *)
(* reconcile() (orchestrator.py:248-291) has nothing to repair.            *)
NoGhosts == reported \subseteq TransactionIds(runId)

(* A credit waits in at most one place: one queue position or one claim.   *)
NoDuplicateTask ==
    /\ \A c \in Customers : \A i, j \in DOMAIN queues[c] :
          queues[c][i].tx = queues[c][j].tx => i = j
    /\ Queued \cap InFlight = {}

(* When the replenisher declares the run done (replenisher.py:192-217),    *)
(* every account is at its target and every credit is committed.           *)
DoneMeansComplete ==
    loop = "done" /\ pending = {} =>
        /\ \A c \in Customers : balance[c] = Target
        /\ TransactionIds(runId) = Tx

(* Queues, claims, retries and restarts are invisible from the outside:    *)
(* the database goes through the steps of ExactlyOnce, one credit at a     *)
(* time, each at most once per run (README.md:39, db.py:79-118).           *)
Promise == INSTANCE ExactlyOnce WITH credited <- TransactionIds(lastRun)

ImplementsExactlyOnce == Promise!Spec

-----------------------------------------------------------------------------
(* README.md:3 "Every account still finishes at exactly $200, with 1,000   *)
(* transactions and none lost."  A reset that overtakes a call breaks it:  *)
(* the account reaches its target while credits of the run are missing.    *)
TargetMeansAllCredits ==
    \A c \in Customers :
        balance[c] = Target => Committed(c) = 1..Credits
=============================================================================

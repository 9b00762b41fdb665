--------------------------- MODULE CreditService ----------------------------
(***************************************************************************)
(* The tool credit_next of the MCP server (services/mcp/mcp_server/        *)
(* server.py) on top of the orchestrator and the database.                 *)
(*                                                                         *)
(* A call is a coroutine.  It suspends twice on the database, and between  *)
(* two suspensions everything it does is one step: the locked sections of  *)
(* the orchestrator never suspend, so their lock is never contended and    *)
(* taking it does not suspend either.  Its steps are                       *)
(*    ClaimCall, ReplayCall   next_task, up to the balance query           *)
(*    ReadBalance             the database answers the query               *)
(*    SkipCall                resumed, the account is at its target        *)
(*    DropCall                resumed, an armed drop raises                *)
(*    SendCredit              resumed, the transaction is sent             *)
(*    CommitCredit            the database commits it                      *)
(*    ReportCredit            resumed, report_done and the answer          *)
(* and FailCall wherever it is suspended: a database error or the          *)
(* cancellation of the request, before or after the commit.                *)
(*                                                                         *)
(* A requester may start a call at any time.  That covers the loop of its  *)
(* workflow, and the replay of a call whose first delivery still runs.     *)
(***************************************************************************)
EXTENDS Orchestrator, Ledger

CONSTANTS Calls,      \* bound: calls of credit_next in progress at a time
          BoundTo,    \* the customer each workflow instance is created for
          MaxDrops    \* bound on the drops armed at a time

Phases == {"query", "decide", "commit", "report"}
Call == [at : Phases, by : Requesters, run : Runs, tx : Tx, full : BOOLEAN]

ASSUME ServiceAssumption ==
    /\ BoundTo \in [Requesters -> Customers]
    /\ MaxDrops \in Nat
    /\ None \notin Call

VARIABLES
    call,      \* each call in progress, or None
    dropNext   \* ChaosState.drop_next

callVars == <<call, dropNext>>

CallTypeOK ==
    /\ call \in [Calls -> Call \cup {None}]
    /\ dropNext \in 0..MaxDrops

CallInit ==
    /\ call = [k \in Calls |-> None]
    /\ dropNext = 0

At(k, phase) == call[k] # None /\ call[k].at = phase

\* The customer_id argument: a workflow passes its own.
CustomerOf(k) == BoundTo[call[k].by]

Advance(k, phase) == call' = [call EXCEPT ![k].at = phase]
Finish(k) == call' = [call EXCEPT ![k] = None]
Starts(k, r, task) ==
    /\ call[k] = None
    /\ call' = [call EXCEPT ![k] =
          [at |-> "query", by |-> r, run |-> task.run, tx |-> task.tx,
           full |-> FALSE]]

-----------------------------------------------------------------------------

\* Fault: one queue shared by all customers.
ClaimCallAnywhere(k, r) ==
    \E c \in Customers :
        /\ NextTaskClaim(r, c)
        /\ Starts(k, r, Head(queues[c]))
        /\ UNCHANGED <<ledgerVars, dropNext>>

ClaimCall(k, r) ==
    /\ NextTaskClaim(r, BoundTo[r])
    /\ Starts(k, r, Head(queues[BoundTo[r]]))
    /\ UNCHANGED <<ledgerVars, dropNext>>

ReplayCall(k, r) ==
    /\ Replays(r)
    /\ LET t == byRequester[r]
       IN  Starts(k, r, [run |-> inFlight[t].run, tx |-> t])
    /\ UNCHANGED <<orchVars, ledgerVars, dropNext>>

ReadBalance(k) ==
    /\ At(k, "query")
    /\ call' = [call EXCEPT ![k].at = "decide", ![k].full = AtTarget(CustomerOf(k))]
    /\ UNCHANGED <<orchVars, ledgerVars, dropNext>>

SkipCall(k) ==
    /\ At(k, "decide")
    /\ call[k].full
    /\ ReportDone(call[k].tx)
    /\ Finish(k)
    /\ UNCHANGED <<ledgerVars, dropNext>>

DropCall(k) ==
    /\ At(k, "decide")
    /\ ~call[k].full
    /\ dropNext > 0
    /\ dropNext' = dropNext - 1
    /\ Finish(k)
    /\ UNCHANGED <<orchVars, ledgerVars>>

SendCredit(k) ==
    /\ At(k, "decide")
    /\ ~call[k].full
    /\ dropNext = 0
    /\ Advance(k, "commit")
    /\ UNCHANGED <<orchVars, ledgerVars, dropNext>>

CommitCredit(k) ==
    /\ At(k, "commit")
    /\ CreditAccount(CustomerOf(k), call[k].run, call[k].tx)
    /\ Advance(k, "report")
    /\ UNCHANGED <<orchVars, dropNext>>

ReportCredit(k) ==
    /\ At(k, "report")
    /\ ReportDone(call[k].tx)
    /\ Finish(k)
    /\ UNCHANGED <<ledgerVars, dropNext>>

\* Fault: a failed call is reported as if it were done.
FailCallReports(k) ==
    /\ call[k] # None
    /\ ReportDone(call[k].tx)
    /\ Finish(k)
    /\ UNCHANGED <<ledgerVars, dropNext>>

FailCall(k) ==
    /\ call[k] # None
    /\ Finish(k)
    /\ UNCHANGED <<orchVars, ledgerVars, dropNext>>

-----------------------------------------------------------------------------
(* The chaos controls that reach the credits.                              *)

\* POST /chaos/drop
ArmDrop(n) ==
    /\ dropNext + n <= MaxDrops
    /\ dropNext' = dropNext + n
    /\ UNCHANGED <<orchVars, ledgerVars, call>>

\* POST /chaos/reset
ChaosReset ==
    /\ dropNext' = 0
    /\ UNCHANGED <<orchVars, ledgerVars, call>>

\* Fault: the counter is not tested.
ReadToolAlwaysDropped ==
    /\ dropNext' = dropNext - 1
    /\ UNCHANGED <<orchVars, ledgerVars, call>>

\* list_customers and get_customer draw on the armed drops too.
ReadToolDropped ==
    /\ dropNext > 0
    /\ dropNext' = dropNext - 1
    /\ UNCHANGED <<orchVars, ledgerVars, call>>

\* POST /chaos/pod-kill, when a pod was killed: every claim is released,
\* those of calls that are still served for other pods included.
PodKillSweep ==
    /\ Sweep(InFlight)
    /\ UNCHANGED <<recon, ledgerVars, call, dropNext>>

CallStep(k) ==
    \/ \E r \in Requesters : ClaimCall(k, r) \/ ReplayCall(k, r)
    \/ ReadBalance(k)
    \/ SkipCall(k)
    \/ DropCall(k)
    \/ SendCredit(k)
    \/ CommitCredit(k)
    \/ ReportCredit(k)
    \/ FailCall(k)

ChaosStep ==
    \/ \E n \in 1..MaxDrops : ArmDrop(n)
    \/ ChaosReset
    \/ ReadToolDropped
    \/ PodKillSweep
=============================================================================

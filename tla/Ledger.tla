------------------------------- MODULE Ledger -------------------------------
(***************************************************************************)
(* The Postgres store behind the MCP server: services/mcp/mcp_server/db.py *)
(* on the schema of local/init.sql.                                        *)
(*                                                                         *)
(* Each query or transaction is one action.  Kept are the three things the *)
(* demo's promise is about: the rows of transactions by primary key        *)
(* (execution_run_id, tx_id), the balance of each account and the latest   *)
(* execution_runs row.  Left out: names, tiers, timestamps, agent ids and  *)
(* ended_at, which no query of the program reads.                          *)
(***************************************************************************)
EXTENDS CreditDomain

CONSTANT Target        \* accounts.target

ASSUME TargetAssumption == Target \in Int

\* Every run starts its accounts this far below the target.
StartBalance == Target - Credits

VARIABLES
    txs,        \* transactions: the set of <<execution_run_id, tx_id>>
    balance,    \* accounts.balance
    lastRun     \* the largest execution_runs.id

ledgerVars == <<txs, balance, lastRun>>

LedgerTypeOK ==
    /\ txs \in SUBSET (Runs \X Tx)
    /\ balance \in [Customers -> Int]
    /\ lastRun \in Runs

\* Seeded by init.sql: one run, no transaction, accounts at their start.
LedgerInit ==
    /\ txs = {}
    /\ balance = [c \in Customers |-> StartBalance]
    /\ lastRun = 1

\* get_transaction_ids(run)
TransactionIds(run) == {t \in Tx : <<run, t>> \in txs}

AtTarget(c) == balance[c] >= Target

LEAST(a, b) == IF a <= b THEN a ELSE b

\* Fault: no idempotency gate.
InsertsAlways(run, t) == TRUE

\* credit_account: whether the insert finds no row with the same key.
Inserts(run, t) == <<run, t>> \notin txs

\* credit_account: the insert is the idempotency gate, the update caps the
\* balance and does not look at the run of the transaction.
CreditAccount(c, run, t) ==
    /\ txs' = txs \cup {<<run, t>>}
    /\ balance' = IF Inserts(run, t)
                  THEN [balance EXCEPT ![c] = LEAST(Target, @ + 1)]
                  ELSE balance
    /\ UNCHANGED lastRun

\* Fault: the open run is used again.
StartExecutionRunAgain ==
    /\ lastRun < MaxRun
    /\ balance' = [c \in Customers |-> StartBalance]
    /\ UNCHANGED <<txs, lastRun>>

\* Fault: the balances are left where they are.
StartExecutionRunOnly ==
    /\ lastRun < MaxRun
    /\ lastRun' = lastRun + 1
    /\ UNCHANGED <<txs, balance>>

\* start_execution_run: a new row, and every balance back to its start.
StartExecutionRun ==
    /\ lastRun < MaxRun
    /\ lastRun' = lastRun + 1
    /\ balance' = [c \in Customers |-> StartBalance]
    /\ UNCHANGED txs
=============================================================================

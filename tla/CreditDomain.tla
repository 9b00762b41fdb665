---------------------------- MODULE CreditDomain ----------------------------
(***************************************************************************)
(* What the in-memory queues and the database agree on: the customers, the *)
(* runs, and the $1 credits each run owes to each customer.                *)
(***************************************************************************)
EXTENDS Integers, FiniteSets

CONSTANTS Customers,   \* customer ids, each with one account and one queue
          Credits,     \* credits_per_customer
          MaxRun       \* bound on execution_runs.id

ASSUME SizesAssumption ==
    /\ IsFiniteSet(Customers)
    /\ Credits \in Nat \ {0}
    /\ MaxRun \in Nat \ {0}

Runs == 1..MaxRun

\* <<c, n>> is "tx-c{c}-{n}": the n-th credit of customer c, in any run.
Tx == Customers \X (1..Credits)
=============================================================================

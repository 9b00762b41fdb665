----------------------------- MODULE ExactlyOnce -----------------------------
(***************************************************************************)
(* What the demo promises (README.md:3, 39): within a run every $1 credit  *)
(* reaches its account, and none of them twice.  No queue, no call, no     *)
(* retry, no crash: a credit is either applied or not.                     *)
(***************************************************************************)
EXTENDS CreditDomain

CONSTANT Target

VARIABLES
    credited,   \* the credits of the current run that were applied
    balance     \* the balance of each account

Start == [c \in Customers |-> Target - Credits]

Init ==
    /\ credited = {}
    /\ balance = Start

Apply(t) ==
    /\ t \notin credited
    /\ credited' = credited \cup {t}
    /\ balance' = [balance EXCEPT ![t[1]] = @ + 1]

NewRun ==
    /\ credited' = {}
    /\ balance' = Start

Next == NewRun \/ \E t \in Tx : Apply(t)

Spec == Init /\ [][Next]_<<credited, balance>>
=============================================================================

---------------------------- MODULE MCRunControl ----------------------------
(* Bounded instances of RunControl.                                        *)
EXTENDS RunControl

CONSTANTS a1, a2, a3,   \* workflow instances
          k1, k2,       \* calls in progress
          c1, c2        \* customers

\* One account, and two workflow instances bound to it: the one of the
\* current run and a straggler of the previous one.
Straggler == {a1, a2}
OneCustomer == {c1}
StragglerBoundTo == [r \in Straggler |-> c1]

\* The same, and a second account with an instance of its own.
TwoCustomers == {c1, c2}
StragglerAndOther == {a1, a2, a3}
OtherBoundTo == (a1 :> c1) @@ (a2 :> c1) @@ (a3 :> c2)

MCCalls == {k1, k2}
Interchangeable == Permutations(MCCalls) \cup Permutations(Straggler)
=============================================================================

---------------------------- MODULE MCTelemetry -----------------------------
(* Bounded instances of Telemetry: one browser, one account.               *)
EXTENDS Telemetry

CONSTANTS b1,   \* the browser
          c1    \* the customer

MCClients == {b1}
MCCustomers == {c1}

\* The histories of the feed grow with every commit: two commits while there
\* are two runs at most, one where three runs overlap.
FewCommits == Cardinality(txs) + lastRun <= 4 /\ Cardinality(txs) <= 2
=============================================================================

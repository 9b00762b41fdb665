---------------------------- MODULE MCAgentRuns -----------------------------
(* Bounded instances of AgentRuns: one account, and its instance in each   *)
(* run that is spawned.                                                    *)
EXTENDS AgentRuns

CONSTANTS a2, a3,   \* the workflow instances of the runs 2 and 3
          k1, k2,   \* calls in progress
          c1        \* the customer

MCRequesters == {a2, a3}
MCCustomers == {c1}
MCBoundTo == [r \in MCRequesters |-> c1]
MCRunOf == [r \in MCRequesters |-> IF r = a2 THEN 2 ELSE 3]
MCCalls == {k1, k2}

\* Past a run that was replaced too early no property promises anything.
NotOverlapped == ~overlapped

\* With one spawn only.
OneRequester == {a2}
OneBoundTo == [r \in OneRequester |-> c1]
OneRunOf == [r \in OneRequester |-> 2]
=============================================================================

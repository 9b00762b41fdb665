---------------------------- MODULE MCScheduling ----------------------------
(* Bounded instances of Scheduling.                                        *)
EXTENDS Scheduling

CONSTANTS h1, h2   \* agent pods

MCHosts == {h1, h2}
=============================================================================

------------------------------ MODULE MCTxFeed ------------------------------
(* Bounded instances of TxFeed: two browsers, one account.                 *)
EXTENDS TxFeed

CONSTANTS b1, b2,   \* websocket clients
          c1        \* the customer

MCClients == {b1, b2}
MCCustomers == {c1}
=============================================================================

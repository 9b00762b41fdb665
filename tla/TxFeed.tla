------------------------------- MODULE TxFeed -------------------------------
(***************************************************************************)
(* The push feed of committed transactions: the insert trigger's NOTIFY    *)
(* (local/init.sql), db.py listen_transactions with the bounded _tx_queue, *)
(* and server.py's drain task with its TxBroadcaster.                      *)
(*                                                                         *)
(* Above the database everything lives in one asyncio process.  A frame    *)
(* passes through the connection (wire), the queue and the broadcast that  *)
(* is suspended in a send; at each of them it can be overtaken by clients  *)
(* that come and go, by an overflow, or by the end of the connection or of *)
(* the process.  The payload is its primary key <<run, tx_id>>.            *)
(***************************************************************************)
EXTENDS Ledger, Sequences, SequencesExt

CONSTANTS Clients,     \* websocket clients, by browser
          QueueSize,   \* maxsize of _tx_queue
          NoFrame      \* no broadcast in progress

ASSUME FeedAssumption ==
    /\ IsFiniteSet(Clients)
    /\ QueueSize \in Nat \ {0}
    /\ NoFrame \notin Runs \X Tx

VARIABLES
    listener,   \* listen_transactions: "connecting", "listening", or "deaf"
                \* when its connection is gone
    wire,       \* notifications that have not reached the event loop
    queue,      \* _tx_queue
    sending,    \* _drain_tx_queue: the frame in broadcast
    left,       \* the clients of its snapshot that are still to be served
    clients,    \* TxBroadcaster._clients
    got,        \* history: per client, the frames sent on its connection
    log,        \* history: the frames in the order of their commits
    missed      \* history: the frames that never got into the queue

feedVars == <<listener, wire, queue, sending, left, clients, got, log, missed>>

Frame == Runs \X Tx

FeedTypeOK ==
    /\ listener \in {"connecting", "listening", "deaf"}
    /\ wire \in Seq(Frame) /\ queue \in Seq(Frame) /\ log \in Seq(Frame)
    /\ Len(queue) <= QueueSize
    /\ sending \in Frame \cup {NoFrame}
    /\ left \subseteq clients /\ clients \subseteq Clients
    /\ (sending = NoFrame) <=> (left = {})
    /\ got \in [Clients -> Seq(Frame)]
    /\ missed \subseteq Range(log)
    /\ Range(log) = txs

FeedInit ==
    /\ listener = "connecting"
    /\ wire = <<>> /\ queue = <<>> /\ log = <<>>
    /\ sending = NoFrame /\ left = {}
    /\ clients = {} /\ got = [c \in Clients |-> <<>>]
    /\ missed = {}

FeedStart == LedgerInit /\ FeedInit
-----------------------------------------------------------------------------
(* The database and its connection.                                        *)

\* A credit commits; the trigger notifies who listens.  A straggler of an
\* earlier run may commit as well.
CommitTx(run, t) ==
    /\ run <= lastRun
    /\ Inserts(run, t)
    /\ CreditAccount(t[1], run, t)
    /\ log' = Append(log, <<run, t>>)
    /\ IF listener = "listening"
       THEN wire' = Append(wire, <<run, t>>) /\ UNCHANGED missed
       ELSE missed' = missed \cup {<<run, t>>} /\ UNCHANGED wire
    /\ UNCHANGED <<listener, queue, sending, left, clients, got>>

NewRun == StartExecutionRun /\ UNCHANGED feedVars

\* connect and add_listener succeed, at the first or a later attempt.
Connect ==
    /\ listener = "connecting"
    /\ listener' = "listening"
    /\ UNCHANGED <<ledgerVars, wire, queue, sending, left, clients, got, log, missed>>

\* The connection drops.  stop_event.wait() does not notice.
ConnectionDrops ==
    /\ listener = "listening"
    /\ listener' = "deaf"
    /\ missed' = missed \cup Range(wire)
    /\ wire' = <<>>
    /\ UNCHANGED <<ledgerVars, queue, sending, left, clients, got, log>>
-----------------------------------------------------------------------------
(* The event loop.                                                         *)

\* Fault: the bound is off by one.
EnqueueOneMore ==
    /\ wire # <<>>
    /\ wire' = Tail(wire)
    /\ IF Len(queue) <= QueueSize
       THEN queue' = Append(queue, Head(wire)) /\ UNCHANGED missed
       ELSE missed' = missed \cup {Head(wire)} /\ UNCHANGED queue
    /\ UNCHANGED <<ledgerVars, listener, sending, left, clients, got, log>>

\* _on_notify: put_nowait, which on a full queue raises in its callback.
Enqueue ==
    /\ wire # <<>>
    /\ wire' = Tail(wire)
    /\ IF Len(queue) < QueueSize
       THEN queue' = Append(queue, Head(wire)) /\ UNCHANGED missed
       ELSE missed' = missed \cup {Head(wire)} /\ UNCHANGED queue
    /\ UNCHANGED <<ledgerVars, listener, sending, left, clients, got, log>>

\* Fault: the newest payload first.
DrainNewest ==
    /\ sending = NoFrame /\ queue # <<>>
    /\ queue' = Front(queue)
    /\ sending' = IF clients = {} THEN NoFrame ELSE Last(queue)
    /\ left' = clients
    /\ UNCHANGED <<ledgerVars, listener, wire, clients, got, log, missed>>

\* _drain_tx_queue takes a payload, broadcast() a snapshot of the clients.
Drain ==
    /\ sending = NoFrame /\ queue # <<>>
    /\ queue' = Tail(queue)
    /\ sending' = IF clients = {} THEN NoFrame ELSE Head(queue)
    /\ left' = clients
    /\ UNCHANGED <<ledgerVars, listener, wire, clients, got, log, missed>>

\* Without c the broadcast goes on with the others, or is over.
ServedOrGone(c) ==
    /\ left' = left \ {c}
    /\ sending' = IF left' = {} THEN NoFrame ELSE sending

\* Fault: the broadcast returns after its first send.
SendToFirst(c) ==
    /\ c \in left
    /\ got' = [got EXCEPT ![c] = Append(@, sending)]
    /\ left' = {} /\ sending' = NoFrame
    /\ UNCHANGED <<ledgerVars, listener, wire, queue, clients, log, missed>>

\* A client takes the frame.  The code awaits one after the other; which
\* one is next depends on the order of a Python set.
Send(c) ==
    /\ c \in left
    /\ got' = [got EXCEPT ![c] = Append(@, sending)]
    /\ ServedOrGone(c)
    /\ UNCHANGED <<ledgerVars, listener, wire, queue, clients, log, missed>>
-----------------------------------------------------------------------------
(* The clients.                                                            *)

\* A new connection is accepted and added.
Join(c) ==
    /\ c \notin clients
    /\ clients' = clients \cup {c}
    /\ got' = [got EXCEPT ![c] = <<>>]
    /\ UNCHANGED <<ledgerVars, listener, wire, queue, sending, left, log, missed>>

\* Fault: a send that fails ends the drain task.
LeaveEndsDrain(c) ==
    /\ c \in clients
    /\ clients' = clients \ {c}
    /\ left' = IF c \in left THEN {} ELSE left
    /\ UNCHANGED <<ledgerVars, listener, wire, queue, sending, got, log, missed>>

\* A connection ends: its handler removes it, or the send that fails makes
\* the broadcast discard it.
Leave(c) ==
    /\ c \in clients
    /\ clients' = clients \ {c}
    /\ IF c \in left THEN ServedOrGone(c) ELSE UNCHANGED <<left, sending>>
    /\ UNCHANGED <<ledgerVars, listener, wire, queue, got, log, missed>>

\* The process restarts with nothing but the database.
FeedRestart ==
    /\ listener' = "connecting"
    /\ wire' = <<>> /\ queue' = <<>>
    /\ sending' = NoFrame /\ left' = {}
    /\ clients' = {}
    /\ missed' = missed \cup Range(wire) \cup Range(queue)
    /\ UNCHANGED <<ledgerVars, got, log>>

FeedNext ==
    \/ \E run \in Runs, t \in Tx : CommitTx(run, t)
    \/ NewRun \/ Connect \/ ConnectionDrops \/ Enqueue \/ Drain \/ FeedRestart
    \/ \E c \in Clients : Send(c) \/ Join(c) \/ Leave(c)

\* The loop runs its callbacks and its two tasks, and a send ends: the
\* client reads, or the websocket server gives up on its pings.
FeedFairness ==
    /\ WF_<<ledgerVars, feedVars>>(Connect)
    /\ WF_<<ledgerVars, feedVars>>(Enqueue)
    /\ WF_<<ledgerVars, feedVars>>(Drain)
    /\ \A c \in Clients : WF_<<ledgerVars, feedVars>>(Send(c))

FeedSpec == FeedStart /\ [][FeedNext]_<<ledgerVars, feedVars>>
FairFeedSpec == FeedSpec /\ FeedFairness
-----------------------------------------------------------------------------
\* Where a committed frame stands in the order of the commits.
Position(f) == CHOOSE i \in DOMAIN log : log[i] = f

(* A connection carries frames in the order of their commits, none of them *)
(* twice (db.py:139-141, server.py:95-105).                                *)
InCommitOrder ==
    \A c \in Clients : \A i, j \in DOMAIN got[c] :
        i < j => Position(got[c][i]) < Position(got[c][j])

(* What is missing between two frames of a connection never got into the   *)
(* queue: the broadcast itself passes nobody over (server.py:51-66),       *)
(* whichever other clients come, go or break meanwhile.                    *)
GapsWereMissed ==
    \A c \in Clients : \A i \in 1..(Len(got[c]) - 1) :
        \A p \in (Position(got[c][i]) + 1)..(Position(got[c][i + 1]) - 1) :
            log[p] \in missed

(* A frame that reached the server reaches every client connected at that  *)
(* time, if its connection lasts (server.py:73-76, 95-105): neither a full *)
(* queue nor another client's failure ends the feed.                       *)
FramesArrive ==
    \A f \in Frame, c \in Clients :
        f \in Range(wire) /\ c \in clients ~>
            f \in Range(got[c]) \cup missed \/ c \notin clients

(* db.py:129-130: listen_transactions "Auto-reconnects until `stop_event`  *)
(* is set".  Once LISTEN has succeeded the coroutine waits for stop_event  *)
(* and nothing else (db.py:142).                                           *)
Reconnects == listener = "deaf" ~> listener # "deaf"
=============================================================================

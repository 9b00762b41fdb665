----------------------------- MODULE Telemetry ------------------------------
(***************************************************************************)
(* The balances a browser shows: ui-prototype/src/telemetry.jsx on top of  *)
(* the push feed.  A poll reads the run id and the balances with two       *)
(* requests in parallel and installs both answers; a pushed frame adds $1  *)
(* to the balance shown, if its run is the one the last poll saw.  A frame *)
(* may arrive before, between or after the reads that already include its  *)
(* credit.                                                                 *)
(*                                                                         *)
(* Left out: counters, activity, log lines and the animation of the slots. *)
(***************************************************************************)
EXTENDS TxFeed

CONSTANTS Browser,        \* the client that shows this telemetry
          MaxPollFaults   \* bound on polls that fail

ASSUME TelemetryAssumption ==
    /\ Browser \in Clients
    /\ MaxPollFaults \in Nat

Unread == 0               \* no answer yet

VARIABLES
    serverRun,    \* _state.execution_run_id: follows the database's run
    installing,   \* runs that reset() started and has not installed yet
    shown,        \* state.customers[].balance
    shownIn,      \* history: the run whose balances were polled last
    expected,     \* wsExpectedRun
    taken,        \* frames of this connection that were handled
    paused,
    polling,      \* pollOnce is waiting for its answers
    readRun,      \* the answer of /orch/status
    readShown,    \* the answer of /orch/customers: run (history), balances
    pollFaults

uiVars == <<shown, shownIn, expected, taken, paused, polling, readRun, readShown,
            pollFaults>>
stateVars == <<serverRun, installing>>
telemetryVars == <<ledgerVars, feedVars, stateVars, uiVars>>

Balances == [Customers -> Int]

TelemetryTypeOK ==
    /\ LedgerTypeOK /\ FeedTypeOK
    /\ serverRun \in 1..lastRun /\ installing \subseteq 1..lastRun
    /\ shown \in Balances /\ shownIn \in Runs
    /\ \A c \in Customers : shown[c] <= Target
    /\ expected \in Runs \cup {Unread}
    /\ taken \in Nat /\ taken <= Len(got[Browser])
    /\ paused \in BOOLEAN /\ polling \in BOOLEAN
    /\ readRun \in Runs \cup {Unread}
    /\ \/ readShown.run = Unread
       \/ readShown.run \in Runs /\ readShown.balances \in Balances
    /\ polling \/ (readRun = Unread /\ readShown.run = Unread)
    /\ pollFaults \in 0..MaxPollFaults

NoAnswer == [run |-> Unread]

TelemetryInit ==
    /\ FeedStart
    /\ serverRun = 1 /\ installing = {}
    /\ shown = [c \in Customers |-> StartBalance]
    /\ shownIn = 1
    /\ expected = Unread
    /\ taken = 0
    /\ paused = FALSE
    /\ polling = FALSE /\ readRun = Unread /\ readShown = NoAnswer
    /\ pollFaults = 0
-----------------------------------------------------------------------------
\* reset() asks the database for a new run, ...
RunStarts ==
    /\ NewRun
    /\ installing' = installing \cup {lastRun'}
    /\ UNCHANGED <<serverRun, uiVars>>

\* ... and installs it when it has the answer.  The answers of two resets
\* may overtake each other.
RunInstalled ==
    \E run \in installing :
        /\ serverRun' = run
        /\ installing' = installing \ {run}
        /\ UNCHANGED <<ledgerVars, feedVars, uiVars>>

ServerRestarts ==
    /\ FeedRestart
    /\ serverRun' = lastRun
    /\ installing' = {}
    /\ UNCHANGED uiVars

TogglePause ==
    /\ paused' = ~paused
    /\ UNCHANGED <<ledgerVars, feedVars, stateVars, shown, shownIn, expected, taken,
                   polling, readRun, readShown, pollFaults>>

StartPoll ==
    /\ ~polling /\ ~paused
    /\ polling' = TRUE
    /\ UNCHANGED <<ledgerVars, feedVars, stateVars, shown, shownIn, expected, taken,
                   paused, readRun, readShown, pollFaults>>

ReadStatus ==
    /\ polling /\ readRun = Unread
    /\ readRun' = serverRun
    /\ UNCHANGED <<ledgerVars, feedVars, stateVars, shown, shownIn, expected, taken,
                   paused, polling, readShown, pollFaults>>

ReadCustomers ==
    /\ polling /\ readShown = NoAnswer
    /\ readShown' = [run |-> lastRun, balances |-> balance]
    /\ UNCHANGED <<ledgerVars, feedVars, stateVars, shown, shownIn, expected, taken,
                   paused, polling, readRun, pollFaults>>

PollOver == polling' = FALSE /\ readRun' = Unread /\ readShown' = NoAnswer

\* Fault: balances on the screen never go back.
InstallLarger ==
    /\ readRun # Unread /\ readShown # NoAnswer
    /\ shown' = [c \in Customers |-> IF readShown.balances[c] > shown[c]
                                     THEN readShown.balances[c] ELSE shown[c]]
    /\ shownIn' = readShown.run
    /\ expected' = readRun
    /\ PollOver
    /\ UNCHANGED <<ledgerVars, feedVars, stateVars, taken, paused, pollFaults>>

\* Both answers are there.
InstallPoll ==
    /\ readRun # Unread /\ readShown # NoAnswer
    /\ shown' = readShown.balances
    /\ shownIn' = readShown.run
    /\ expected' = readRun
    /\ PollOver
    /\ UNCHANGED <<ledgerVars, feedVars, stateVars, taken, paused, pollFaults>>

\* One of the requests fails: nothing is installed.
PollFails ==
    /\ polling
    /\ pollFaults < MaxPollFaults
    /\ pollFaults' = pollFaults + 1
    /\ PollOver
    /\ UNCHANGED <<ledgerVars, feedVars, stateVars, shown, shownIn, expected, taken,
                   paused>>

Expected(run) == expected \in {Unread, run}

\* Fault: a pushed frame is added without a cap.
TakeFrameUncapped ==
    /\ taken < Len(got[Browser])
    /\ taken' = taken + 1
    /\ LET run == got[Browser][taken'][1]
           c == got[Browser][taken'][2][1]
       IN  shown' = IF Expected(run) THEN [shown EXCEPT ![c] = @ + 1] ELSE shown
    /\ UNCHANGED <<ledgerVars, feedVars, stateVars, shownIn, expected, paused, polling,
                   readRun, readShown, pollFaults>>

\* onmessage: applyTx, also for what arrived before the connection closed.
TakeFrame ==
    /\ taken < Len(got[Browser])
    /\ taken' = taken + 1
    /\ LET run == got[Browser][taken'][1]
           c == got[Browser][taken'][2][1]
       IN  shown' = IF Expected(run)
                    THEN [shown EXCEPT ![c] = LEAST(Target, @ + 1)]
                    ELSE shown
    /\ UNCHANGED <<ledgerVars, feedVars, stateVars, shownIn, expected, paused, polling,
                   readRun, readShown, pollFaults>>

\* openWs again after onclose.
Reopen ==
    /\ Join(Browser)
    /\ taken' = 0
    /\ UNCHANGED <<stateVars, shown, shownIn, expected, paused, polling, readRun,
                   readShown, pollFaults>>

FeedSteps ==
    /\ \/ \E run \in Runs, t \in Tx : CommitTx(run, t)
       \/ Connect \/ ConnectionDrops \/ Enqueue \/ Drain
       \/ \E c \in Clients : Send(c) \/ Leave(c)
       \/ \E c \in Clients \ {Browser} : Join(c)
    /\ UNCHANGED <<stateVars, uiVars>>

TelemetryNext ==
    \/ FeedSteps \/ RunStarts \/ RunInstalled \/ ServerRestarts \/ Reopen \/ TakeFrame
    \/ TogglePause \/ StartPoll \/ ReadStatus \/ ReadCustomers
    \/ InstallPoll \/ PollFails

\* The browser's timer goes off and requests are answered.  Nothing is
\* assumed of the feed.
PollFairness ==
    /\ WF_telemetryVars(StartPoll)
    /\ WF_telemetryVars(ReadStatus)
    /\ WF_telemetryVars(ReadCustomers)
    /\ WF_telemetryVars(InstallPoll)

TelemetrySpec == TelemetryInit /\ [][TelemetryNext]_telemetryVars
FairTelemetrySpec == TelemetrySpec /\ PollFairness
-----------------------------------------------------------------------------
(* telemetry.jsx:285: "the poll loop repairs any drift from missed         *)
(* frames", and from frames that were counted twice: once no credit        *)
(* commits any more, the screen shows the database's balances and keeps    *)
(* showing them, unless somebody keeps the telemetry paused.               *)
ShowsTruth == <>[](shown = balance) \/ []<>paused

(* telemetry.jsx:242: the run filter is there "so stragglers from a        *)
(* just-reset run are ignored", and do not show money that the new run     *)
(* does not have.  The run and the balances come from two requests; the    *)
(* balances may be the new run's while the expected run is still the old   *)
(* one, whose stragglers are then added to the new balances.               *)
StragglersIgnored ==
    [][taken' = taken + 1 /\ got[Browser][taken'][1] < shownIn =>
          \A c \in Customers : shown'[c] <= shown[c] \/ shown'[c] <= balance[c]
      ]_telemetryVars
=============================================================================

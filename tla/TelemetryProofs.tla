-------------------------- MODULE TelemetryProofs ---------------------------
(***************************************************************************)
(* Proofs about Telemetry: a browser that polls, pauses, reconnects and    *)
(* counts frames is a client of TxFeed like any other, so that what is     *)
(* proved of the feed holds of its connection; it counts no frame that was *)
(* not sent on it, and never shows more than an account's target.          *)
(***************************************************************************)
EXTENDS Telemetry, TxFeedProofs

-----------------------------------------------------------------------------
(* The inductive invariant.  A poll has each of its answers in full or not *)
(* at all, and only while it lasts.                                        *)

Capped(balances) == \A c \in Customers : balances[c] <= Target

\* What the balances of a run's accounts are like, and what the poll reads.
LedgerCapped == LedgerTypeOK /\ Capped(balance)

CustomersRead ==
    /\ readShown.run \in Runs /\ readShown.balances \in Balances
    /\ Capped(readShown.balances)

UiTypes ==
    /\ serverRun \in 1..lastRun /\ installing \subseteq 1..lastRun
    /\ shown \in Balances /\ Capped(shown) /\ shownIn \in Runs
    /\ expected \in Runs \cup {Unread}
    /\ paused \in BOOLEAN /\ polling \in BOOLEAN
    /\ readRun \in Runs \cup {Unread}
    /\ readShown = NoAnswer \/ CustomersRead
    /\ ~polling => readRun = Unread /\ readShown = NoAnswer
    /\ pollFaults \in 0..MaxPollFaults

TakenInBounds == taken \in Nat /\ taken <= Len(got[Browser])

TelemetryInv == FeedInv /\ LedgerCapped /\ UiTypes /\ TakenInBounds

-----------------------------------------------------------------------------
(* The browser next to the feed.                                           *)

\* What the rest of the world does to the browser's own state: the latest
\* run and its connection only grow.
LEMMA UiFrame ==
  ASSUME UiTypes, UNCHANGED <<serverRun, uiVars>>,
         installing' \in {installing, installing \cup {lastRun'}},
         lastRun \in Nat, lastRun' \in Nat, lastRun <= lastRun'
  PROVE  UiTypes'
  <1>1. serverRun' \in 1..lastRun'
    BY DEF UiTypes
  <1>2. lastRun > 0
    BY DEF UiTypes
  <1>3. installing' \subseteq 1..lastRun'
    BY <1>2 DEF UiTypes
  <1>4. UNCHANGED uiVars
    OBVIOUS
  <1> QED
    BY <1>1, <1>3, <1>4 DEF UiTypes, uiVars, CustomersRead, Capped

LEMMA CreditKeepsTypes ==
  ASSUME LedgerCapped, NEW c \in Customers, NEW run \in Runs, NEW t \in Tx,
         CreditAccount(c, run, t)
  PROVE  LedgerCapped'
  <1> DEFINE more == LEAST(Target, balance[c] + 1)
  <1>1. more \in Int /\ more <= Target
    BY TargetAssumption DEF LedgerCapped, LedgerTypeOK, LEAST
  <1>2. balance' = [balance EXCEPT ![c] = more] \/ balance' = balance
    BY DEF CreditAccount
  <1> HIDE DEF more
  <1>3. balance' \in [Customers -> Int] /\ Capped(balance')
    BY <1>1, <1>2 DEF LedgerCapped, LedgerTypeOK, Capped
  <1>4. txs' \in SUBSET (Runs \X Tx) /\ lastRun' \in Runs
    BY DEF LedgerCapped, LedgerTypeOK, CreditAccount
  <1> QED
    BY <1>3, <1>4 DEF LedgerCapped, LedgerTypeOK

LEMMA StartIsCapped == StartBalance \in Int /\ StartBalance <= Target
  BY SizesAssumption, TargetAssumption DEF StartBalance

LEMMA NewRunKeepsTypes ==
  ASSUME LedgerCapped, StartExecutionRun
  PROVE  LedgerCapped'
  <1>1. lastRun' \in Runs /\ txs' \in SUBSET (Runs \X Tx)
    BY SizesAssumption DEF LedgerCapped, LedgerTypeOK, StartExecutionRun, Runs
  <1>2. balance' = [c \in Customers |-> StartBalance]
    BY DEF StartExecutionRun
  <1> HIDE DEF StartBalance
  <1>3. balance' \in [Customers -> Int] /\ Capped(balance')
    BY <1>2, StartIsCapped DEF Capped
  <1> QED
    BY <1>1, <1>3 DEF LedgerCapped, LedgerTypeOK

LEMMA RunIsNat == LedgerCapped => lastRun \in Nat
  BY DEF LedgerCapped, LedgerTypeOK, Runs

\* The connection of the browser gets longer until it is opened again.
LEMMA SendGrows ==
  ASSUME FeedInv, NEW c \in Clients, Send(c)
  PROVE  Len(got'[Browser]) \in Nat /\ Len(got[Browser]) <= Len(got'[Browser])
  <1>1. c \in left /\ got' = [got EXCEPT ![c] = Append(@, sending)]
    BY DEF Send
  <1>2. got[Browser] \in Seq(Frame) /\ got \in [Clients -> Seq(Frame)] /\ Browser \in Clients
        /\ sending \in Frame
    BY <1>1, TelemetryAssumption DEF FeedInv, FeedTypes
  <1>3. Len(got[Browser]) \in Nat
    BY <1>2
  <1>4. CASE c = Browser
    <2>1. Len(Append(got[Browser], sending)) = Len(got[Browser]) + 1
      BY <1>2
    <2>2. got'[Browser] = Append(got[Browser], sending)
      BY <1>1, <1>2, <1>4
    <2> QED
      BY <1>3, <2>1, <2>2
  <1>5. CASE c # Browser
    BY <1>1, <1>2, <1>3, <1>5
  <1> QED
    BY <1>4, <1>5

LEMMA FeedStepsKeep ==
  ASSUME TelemetryInv, FeedSteps \/ RunStarts
  PROVE  FeedNext /\ LedgerCapped' /\ UiTypes' /\ TakenInBounds'
  <1>1. /\ FeedNext /\ UNCHANGED <<serverRun, uiVars>> /\ taken' = taken
        /\ installing' \in {installing, installing \cup {lastRun'}}
    BY DEF FeedSteps, RunStarts, FeedNext, uiVars, stateVars
  <1>2. LedgerCapped' /\ lastRun \in Nat /\ lastRun' \in Nat /\ lastRun <= lastRun'
    <2>1. ASSUME NEW run \in Runs, NEW t \in Tx, CommitTx(run, t)
          PROVE  LedgerCapped' /\ lastRun' = lastRun
      <3>1. t[1] \in Customers /\ CreditAccount(t[1], run, t)
        BY <2>1 DEF CommitTx, Tx
      <3> QED
        BY <3>1, CreditKeepsTypes DEF TelemetryInv, CreditAccount
    <2>2. CASE NewRun
      <3>1. LedgerCapped'
        BY <2>2, NewRunKeepsTypes DEF NewRun, TelemetryInv
      <3>2. lastRun' = lastRun + 1 /\ lastRun \in Nat
        BY <2>2, RunIsNat DEF NewRun, StartExecutionRun, TelemetryInv
      <3> QED
        BY <3>1, <3>2
    <2>3. CASE UNCHANGED ledgerVars
      BY <2>3, RunIsNat DEF ledgerVars, LedgerCapped, LedgerTypeOK, Capped, TelemetryInv
    <2>4. \/ \E run \in Runs, t \in Tx : CommitTx(run, t)
          \/ NewRun \/ UNCHANGED ledgerVars
      BY DEF FeedSteps, RunStarts, Connect, ConnectionDrops, Enqueue, Drain, Send, Leave, Join
    <2>5. lastRun \in Nat
      BY RunIsNat DEF TelemetryInv
    <2> QED
      BY <2>1, <2>2, <2>3, <2>4, <2>5
  <1>3. UiTypes'
    BY <1>1, <1>2, UiFrame DEF TelemetryInv
  <1>4. Len(got'[Browser]) \in Nat /\ Len(got[Browser]) \in Nat
        /\ Len(got[Browser]) <= Len(got'[Browser])
    <2>1. got[Browser] \in Seq(Frame) /\ Browser \in Clients /\ got \in [Clients -> Seq(Frame)]
      BY TelemetryAssumption DEF TelemetryInv, FeedInv, FeedTypes
    <2>2. Len(got[Browser]) \in Nat
      BY <2>1
    <2>3. \/ \E c \in Clients : Send(c)
          \/ got'[Browser] = got[Browser]
      <3>1. ASSUME NEW c \in Clients \ {Browser}, Join(c)
            PROVE  got'[Browser] = got[Browser]
        BY <2>1, <3>1 DEF Join
      <3> QED
        BY <3>1 DEF FeedSteps, RunStarts, CommitTx, NewRun, feedVars, Connect, ConnectionDrops,
                    Enqueue, Drain, Leave
    <2> QED
      BY <2>2, <2>3, SendGrows DEF TelemetryInv
  <1>5. TakenInBounds'
    <2>1. taken \in Nat /\ taken <= Len(got[Browser])
      BY DEF TelemetryInv, TakenInBounds
    <2>2. taken' \in Nat /\ taken' <= Len(got'[Browser])
      BY <1>1, <1>4, <2>1
    <2> QED
      BY <2>2 DEF TakenInBounds
  <1> QED
    BY <1>1, <1>2, <1>3, <1>5

LEMMA RestartsKeep ==
  ASSUME TelemetryInv, ServerRestarts
  PROVE  FeedNext /\ LedgerCapped' /\ UiTypes' /\ TakenInBounds'
  <1>1. /\ FeedRestart /\ serverRun' = lastRun /\ installing' = {}
        /\ UNCHANGED <<txs, balance, lastRun, got, uiVars, taken>>
    BY DEF ServerRestarts, FeedRestart, ledgerVars, uiVars
  <1>2. lastRun' \in 1..lastRun'
    BY <1>1 DEF TelemetryInv, LedgerCapped, LedgerTypeOK, Capped, Runs
  <1> QED
    BY <1>1, <1>2
       DEF FeedNext, TelemetryInv, LedgerCapped, LedgerTypeOK, Capped, UiTypes, uiVars,
           CustomersRead, TakenInBounds

LEMMA ReopenKeeps ==
  ASSUME TelemetryInv, Reopen
  PROVE  FeedNext /\ LedgerCapped' /\ UiTypes' /\ TakenInBounds'
  <1>1. /\ Join(Browser) /\ Browser \in Clients /\ taken' = 0
        /\ UNCHANGED <<txs, balance, lastRun, serverRun, installing>>
        /\ UNCHANGED <<shown, shownIn, expected, paused, polling, readRun, readShown,
                       pollFaults>>
    BY TelemetryAssumption DEF Reopen, Join, ledgerVars, stateVars
  <1>2. LedgerCapped' /\ UiTypes'
    BY <1>1 DEF TelemetryInv, LedgerCapped, LedgerTypeOK, Capped, UiTypes, CustomersRead
  <1>3. TakenInBounds'
    <2>1. got'[Browser] = <<>>
      BY <1>1 DEF Join, TelemetryInv, FeedInv, FeedTypes
    <2> QED
      BY <1>1, <2>1 DEF TakenInBounds
  <1> QED
    BY <1>1, <1>2, <1>3 DEF FeedNext

\* Frames come off the feed with a customer in them.
LEMMA TakeFrameKeeps ==
  ASSUME TelemetryInv, TakeFrame
  PROVE  UiTypes' /\ TakenInBounds'
  <1> DEFINE frame == got[Browser][taken + 1]
             c == frame[2][1]
  <1>1. /\ taken < Len(got[Browser]) /\ taken' = taken + 1
        /\ \/ shown' = shown
           \/ shown' = [shown EXCEPT ![c] = LEAST(Target, @ + 1)]
        /\ UNCHANGED <<got, lastRun, serverRun, installing, shownIn, expected, paused, polling, readRun,
                       readShown, pollFaults>>
    BY DEF TakeFrame, ledgerVars, feedVars, stateVars
  <1>2. got[Browser] \in Seq(Frame)
    BY TelemetryAssumption DEF TelemetryInv, FeedInv, FeedTypes
  <1>3. taken \in Nat /\ taken + 1 \in 1..Len(got[Browser])
    BY <1>1, <1>2 DEF TelemetryInv, TakenInBounds
  <1>4. frame \in Frame
    BY <1>2, <1>3
  <1>5. c \in Customers
    BY <1>4 DEF Frame, Tx
  <1> HIDE DEF frame, c
  <1>6. shown' \in Balances /\ Capped(shown')
    <2> DEFINE more == LEAST(Target, shown[c] + 1)
    <2>1. shown \in [Customers -> Int] /\ Capped(shown)
      BY DEF TelemetryInv, UiTypes, Balances
    <2>2. more \in Int /\ more <= Target
      BY <1>5, <2>1, TargetAssumption DEF LEAST
    <2>3. shown' = shown \/ shown' = [shown EXCEPT ![c] = more]
      BY <1>1
    <2> HIDE DEF more
    <2> QED
      BY <2>1, <2>2, <2>3 DEF Balances, Capped
  <1>7. UiTypes'
    BY <1>1, <1>6 DEF TelemetryInv, UiTypes, CustomersRead, Capped
  <1>8. TakenInBounds'
    BY <1>1, <1>3 DEF TakenInBounds
  <1> QED
    BY <1>7, <1>8

LEMMA PollKeeps ==
  ASSUME TelemetryInv,
         RunInstalled \/ TogglePause \/ StartPoll \/ ReadStatus \/ ReadCustomers
            \/ InstallPoll \/ PollFails
  PROVE  UiTypes' /\ TakenInBounds'
  <1>1. UiTypes /\ LedgerCapped /\ TakenInBounds
    BY DEF TelemetryInv
  <1>2. UNCHANGED <<got, lastRun, taken>>
    BY DEF RunInstalled, TogglePause, StartPoll, ReadStatus, ReadCustomers, InstallPoll,
           PollFails, ledgerVars, feedVars, uiVars
  <1>3. TakenInBounds'
    BY <1>1, <1>2 DEF TakenInBounds
  <1> SUFFICES UiTypes'
    BY <1>3
  <1>4. lastRun \in Runs /\ lastRun \in 1..lastRun /\ 1..lastRun \subseteq Runs
        /\ balance \in Balances /\ Capped(balance) /\ Unread \notin Runs
    BY <1>1, SizesAssumption DEF LedgerCapped, LedgerTypeOK, Runs, Balances, Unread
  <1>5. CASE RunInstalled
    BY <1>1, <1>4, <1>5 DEF RunInstalled, UiTypes, uiVars, ledgerVars, CustomersRead, Capped
  <1>6. CASE TogglePause \/ StartPoll
    BY <1>1, <1>6 DEF TogglePause, StartPoll, UiTypes, ledgerVars, stateVars,
           CustomersRead, Capped
  <1>7. CASE ReadStatus
    BY <1>1, <1>4, <1>7 DEF ReadStatus, UiTypes, ledgerVars, stateVars,
           CustomersRead, Capped
  <1>8. CASE ReadCustomers
    <2>1. CustomersRead'
      BY <1>4, <1>8 DEF ReadCustomers, CustomersRead, ledgerVars, Capped
    <2> QED
      BY <1>1, <1>2, <1>8, <2>1 DEF ReadCustomers, UiTypes, stateVars, Capped
  <1>9. CASE InstallPoll
    BY <1>1, <1>9 DEF InstallPoll, PollOver, UiTypes, ledgerVars, stateVars,
           CustomersRead, Capped
  <1>10. CASE PollFails
    <2>1. pollFaults' \in 0..MaxPollFaults
      BY <1>1, <1>10, TelemetryAssumption DEF PollFails, UiTypes
    <2> QED
      BY <1>1, <1>10, <2>1 DEF PollFails, PollOver, UiTypes, ledgerVars, stateVars,
           CustomersRead, Capped
  <1> QED
    BY <1>5, <1>6, <1>7, <1>8, <1>9, <1>10

-----------------------------------------------------------------------------
(* Every behaviour of TelemetrySpec.                                       *)

LEMMA InitTelemetryInv == TelemetryInit => TelemetryInv
  <1> SUFFICES ASSUME TelemetryInit PROVE TelemetryInv
    OBVIOUS
  <1>1. FeedInv /\ lastRun = 1 /\ txs = {} /\ got[Browser] = <<>>
        /\ balance = [c \in Customers |-> StartBalance]
    BY InitFeedInv, TelemetryAssumption
       DEF TelemetryInit, FeedStart, LedgerInit, FeedInit
  <1>2. StartBalance \in Int /\ StartBalance <= Target /\ 1 \in Runs /\ 1 \in 1..1
    BY SizesAssumption, StartIsCapped DEF Runs
  <1>3. LedgerCapped
    <2> HIDE DEF StartBalance
    <2> QED
      BY <1>1, <1>2 DEF LedgerCapped, LedgerTypeOK, Capped
  <1>4. UiTypes
    <2>1. 0 \in 0..MaxPollFaults
      BY TelemetryAssumption
    <2> HIDE DEF StartBalance
    <2>2. /\ [c \in Customers |-> StartBalance] \in Balances
          /\ Capped([c \in Customers |-> StartBalance])
      BY <1>2 DEF Balances, Capped
    <2> QED
      BY <1>1, <1>2, <2>1, <2>2 DEF TelemetryInit, UiTypes
  <1>5. TakenInBounds
    BY <1>1 DEF TelemetryInit, TakenInBounds
  <1> QED
    BY <1>1, <1>3, <1>4, <1>5 DEF TelemetryInv

LEMMA StepsFollowFeed ==
  ASSUME TelemetryInv, [TelemetryNext]_telemetryVars
  PROVE  [FeedNext]_<<ledgerVars, feedVars>> /\ LedgerCapped' /\ UiTypes' /\ TakenInBounds'
  <1>1. CASE FeedSteps \/ RunStarts \/ ServerRestarts \/ Reopen
    BY <1>1, FeedStepsKeep, RestartsKeep, ReopenKeeps
  <1>2. UNCHANGED ledgerVars => LedgerCapped'
    BY DEF TelemetryInv, LedgerCapped, LedgerTypeOK, Capped, ledgerVars
  <1>3. CASE TakeFrame
    BY <1>2, <1>3, TakeFrameKeeps DEF TakeFrame
  <1>4. CASE RunInstalled \/ TogglePause \/ StartPoll \/ ReadStatus \/ ReadCustomers
                \/ InstallPoll \/ PollFails
    <2>1. UNCHANGED <<ledgerVars, feedVars>>
      BY <1>4 DEF RunInstalled, TogglePause, StartPoll, ReadStatus, ReadCustomers,
                  InstallPoll, PollFails
    <2> QED
      BY <1>2, <1>4, <2>1, PollKeeps
  <1>5. CASE UNCHANGED telemetryVars
    <2>1. UNCHANGED <<ledgerVars, feedVars, stateVars, uiVars>> /\ UNCHANGED <<got, lastRun, taken>>
      BY <1>5 DEF telemetryVars, feedVars, ledgerVars, uiVars
    <2>2. UiTypes'
      BY <2>1 DEF TelemetryInv, UiTypes, stateVars, uiVars, CustomersRead, Capped
    <2>3. TakenInBounds'
      BY <2>1 DEF TelemetryInv, TakenInBounds
    <2> QED
      BY <1>2, <2>1, <2>2, <2>3
  <1> QED
    BY <1>1, <1>3, <1>4, <1>5 DEF TelemetryNext

LEMMA NextTelemetryInv == TelemetryInv /\ [TelemetryNext]_telemetryVars => TelemetryInv'
  <1> SUFFICES ASSUME TelemetryInv, [TelemetryNext]_telemetryVars PROVE TelemetryInv'
    OBVIOUS
  <1>1. [FeedNext]_<<ledgerVars, feedVars>> /\ LedgerCapped' /\ UiTypes' /\ TakenInBounds'
    BY StepsFollowFeed
  <1>2. FeedInv'
    BY <1>1, NextFeedInv DEF TelemetryInv
  <1> QED
    BY <1>1, <1>2 DEF TelemetryInv

THEOREM TelemetryInvariance == TelemetrySpec => []TelemetryInv
  BY InitTelemetryInv, NextTelemetryInv, PTL DEF TelemetrySpec

(* The telemetry handles no frame that its connection did not carry, and   *)
(* installs a poll only from two whole answers (telemetry.jsx:174-245);    *)
(* and however often a credit is counted, no account is shown above its    *)
(* target (telemetry.jsx:299-303), whatever restarts, reconnections and    *)
(* failed polls come in between.                                           *)
THEOREM TelemetryTypes == TelemetrySpec => []TelemetryTypeOK
  <1>1. TelemetryInv => TelemetryTypeOK
    BY DEF TelemetryInv, LedgerCapped, UiTypes, Capped, TakenInBounds, CustomersRead, NoAnswer, FeedInv, FeedTypes,
           Logged, FeedTypeOK, TelemetryTypeOK
  <1> QED
    BY <1>1, TelemetryInvariance, PTL

(* The browser is one more client of the feed: with it, every step is a    *)
(* step of TxFeed or none of the feed's business.                          *)
THEOREM BrowserIsAClient == TelemetrySpec => FeedSpec
  <1>1. TelemetryInit => FeedStart
    BY DEF TelemetryInit
  <1>2. TelemetryInv /\ [TelemetryNext]_telemetryVars => [FeedNext]_<<ledgerVars, feedVars>>
    BY StepsFollowFeed
  <1> QED
    BY <1>1, <1>2, TelemetryInvariance, PTL DEF TelemetrySpec, FeedSpec

(* Hence the frames that telemetry.jsx adds up come in commit order, each  *)
(* at most once per connection, and lack only what the feed missed.        *)
THEOREM BrowserGetsOrder == TelemetrySpec => []InCommitOrder /\ []GapsWereMissed
  BY BrowserIsAClient, FramesInCommitOrder, OnlyMissedFramesLack, PTL
=============================================================================

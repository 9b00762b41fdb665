---------------------------- MODULE HeatmapProofs ----------------------------
(***************************************************************************)
(* Proofs about Heatmap and the Fleet below it, for any pods, zones and    *)
(* slots: a slot is told dead only for a pod that was really deleted.      *)
(***************************************************************************)
EXTENDS Heatmap, TLAPS

-----------------------------------------------------------------------------
(* The inductive invariant is the conjunction of what it has to show: a    *)
(* deleted pod never comes back, and whatever gives a slot another owner   *)
(* also takes it out of the announced ones.                                *)

SlotTypes ==
    /\ owner \in [Slots -> Pods \cup {NoPod}]
    /\ announced \subseteq Slots /\ pushed \subseteq Slots

ScreenTypes ==
    /\ lit \in [Slots -> {"idle", "alive", "dead", "restarting"}]
    /\ timer \in [Slots -> {"none", "set", "past"}]
    /\ \A s \in Slots : (timer[s] = "none") <=> (lit[s] \in {"idle", "alive"})

SwitchTypes ==
    /\ {running, active, polling, paused, connected} \subseteq BOOLEAN
    /\ kills \in 0..MaxKills /\ pollFaults \in 0..MaxPollFaults

HeatmapInv == FleetTypeOK /\ SlotTypes /\ ScreenTypes /\ SwitchTypes /\ NoTheater

LEMMA InvTypes == HeatmapInv => HeatmapTypeOK
  BY DEF HeatmapInv, HeatmapTypeOK, SlotTypes, ScreenTypes, SwitchTypes

Deleted(p) == pod[p] \in {"terminating", "gone"}

-----------------------------------------------------------------------------
(* The fleet.                                                              *)

\* A kill deletes every pod it reports and keeps what was deleted before.
LEMMA DeleteFacts ==
  ASSUME FleetTypeOK, NEW V, NEW K, Delete(V, K)
  PROVE  /\ FleetTypeOK'
         /\ \A p \in Pods : Deleted(p) => Deleted(p)'
         /\ K \subseteq Pods /\ \A p \in K : Deleted(p)'
  <1>1. PICK D \in SUBSET (V \cap Deletable) :
            /\ K \subseteq D
            /\ pod' = [p \in Pods |-> IF p \in D THEN "terminating" ELSE pod[p]]
    BY DEF Delete
  <1>2. D \subseteq Pods
    BY DEF Deletable, Listed
  <1>3. \A p \in Pods : pod'[p] = IF p \in D THEN "terminating" ELSE pod[p]
    BY <1>1
  <1>4. FleetTypeOK'
    BY <1>1 DEF FleetTypeOK, Phases
  <1> QED
    BY <1>1, <1>2, <1>3, <1>4 DEF Deleted

LEMMA KillFacts ==
  ASSUME FleetTypeOK, NEW K,
         \/ \E p \in Known : KillNamed(p, K)
         \/ \E count \in 1..Cardinality(Pods) : KillRandom(count, K)
         \/ \E z \in Zones \cup {NoZone} : KillZone(z, K)
  PROVE  /\ FleetTypeOK'
         /\ \A p \in Pods : Deleted(p) => Deleted(p)'
         /\ K \subseteq Pods /\ \A p \in K : Deleted(p)'
  <1>1. CASE \E V : Delete(V, K)
    BY <1>1, DeleteFacts
  <1>2. CASE K = {} /\ UNCHANGED pod
    BY <1>2 DEF FleetTypeOK, Deleted
  <1>3. (\E V : Delete(V, K)) \/ (K = {} /\ UNCHANGED pod)
    BY DEF KillNamed, KillRandom, KillZone
  <1> QED
    BY <1>1, <1>2, <1>3

LEMMA FleetStepFacts ==
  ASSUME FleetTypeOK, FleetStep
  PROVE  FleetTypeOK' /\ \A p \in Pods : Deleted(p) => Deleted(p)'
  <1>1. PICK p \in Pods :
            \/ pod[p] = "new" /\ pod' = [pod EXCEPT ![p] = "pending"]
            \/ pod[p] = "pending" /\ pod' = [pod EXCEPT ![p] = "placed"]
            \/ pod[p] = "placed" /\ pod' = [pod EXCEPT ![p] = "running"]
            \/ pod[p] = "terminating" /\ pod' = [pod EXCEPT ![p] = "gone"]
    BY DEF FleetStep
  <1>2. FleetTypeOK'
    BY <1>1 DEF FleetTypeOK, Phases
  <1>3. \A q \in Pods : Deleted(q) => Deleted(q)'
    BY <1>1 DEF FleetTypeOK, Deleted
  <1> QED
    BY <1>2, <1>3

-----------------------------------------------------------------------------
(* The server.                                                             *)

\* Deleted pods stay so, and a slot announced before keeps its owner: nothing
\* is theater afterwards that was not before.
LEMMA NoNewTheater ==
  ASSUME NoTheater, owner \in [Slots -> Pods \cup {NoPod}], announced \subseteq Slots,
         \A p \in Pods : Deleted(p) => Deleted(p)',
         announced' \subseteq announced, \A s \in announced' : owner'[s] = owner[s]
  PROVE  NoTheater'
  <1> SUFFICES ASSUME NEW s \in announced'
               PROVE  owner'[s] \in Pods /\ pod'[owner'[s]] \in {"terminating", "gone"}
    BY DEF NoTheater
  <1>1. owner[s] \in Pods /\ pod[owner[s]] \in {"terminating", "gone"} /\ owner'[s] = owner[s]
    BY DEF NoTheater
  <1>2. pod'[owner[s]] \in {"terminating", "gone"}
    BY <1>1 DEF Deleted
  <1> QED
    BY <1>1, <1>2

LEMMA ClusterMovesKeeps ==
  ASSUME HeatmapInv, ClusterMoves
  PROVE  HeatmapInv'
  <1>1. /\ FleetTypeOK' /\ \A p \in Pods : Deleted(p) => Deleted(p)'
        /\ UNCHANGED <<owner, announced, pushed, running, kills, browserVars>>
    BY FleetStepFacts DEF HeatmapInv, ClusterMoves
  <1>2. NoTheater'
    BY <1>1, NoNewTheater DEF HeatmapInv, SlotTypes
  <1> QED
    BY <1>1, <1>2 DEF HeatmapInv, SlotTypes, ScreenTypes, SwitchTypes, browserVars

LEMMA ServeKeeps ==
  ASSUME HeatmapInv, NEW s \in Slots, NEW p \in Pods, Serve(s, p)
  PROVE  HeatmapInv'
  <1>1. /\ owner' = [owner EXCEPT ![s] = p] /\ announced' = announced \ {s}
        /\ pushed' \subseteq pushed \cup {s}
        /\ UNCHANGED <<pod, running, kills, browserVars>>
    BY DEF Serve
  <1>2. SlotTypes'
    BY <1>1 DEF HeatmapInv, SlotTypes
  <1>3. NoTheater'
    <2>1. \A t \in announced' : owner'[t] = owner[t]
      BY <1>1 DEF HeatmapInv, SlotTypes
    <2> QED
      BY <1>1, <2>1, NoNewTheater DEF HeatmapInv, SlotTypes, Deleted
  <1> QED
    BY <1>1, <1>2, <1>3 DEF HeatmapInv, FleetTypeOK, ScreenTypes, SwitchTypes, browserVars

LEMMA ExpireKeeps ==
  ASSUME HeatmapInv, NEW s \in Slots, Expire(s)
  PROVE  HeatmapInv'
  <1>1. /\ owner' = [owner EXCEPT ![s] = NoPod] /\ announced' = announced \ {s}
        /\ UNCHANGED <<pod, pushed, running, kills, browserVars>>
    BY DEF Expire
  <1>2. SlotTypes'
    BY <1>1 DEF HeatmapInv, SlotTypes
  <1>3. NoTheater'
    <2>1. \A t \in announced' : owner'[t] = owner[t]
      BY <1>1 DEF HeatmapInv, SlotTypes
    <2> QED
      BY <1>1, <2>1, NoNewTheater DEF HeatmapInv, SlotTypes, Deleted
  <1> QED
    BY <1>1, <1>2, <1>3 DEF HeatmapInv, FleetTypeOK, ScreenTypes, SwitchTypes, browserVars

\* What is announced belongs to pods whose deletes were answered.
LEMMA KillKeeps ==
  ASSUME HeatmapInv, Kill
  PROVE  HeatmapInv'
  <1>1. PICK K \in SUBSET Pods :
          /\ \/ \E p \in Known : KillNamed(p, K)
             \/ \E count \in 1..Cardinality(Pods) : KillRandom(count, K)
             \/ \E z \in Zones \cup {NoZone} : KillZone(z, K)
          /\ Announce(K)
    BY DEF Kill
  <1>2. /\ FleetTypeOK'
        /\ \A p \in Pods : Deleted(p) => Deleted(p)'
        /\ \A p \in K : Deleted(p)'
    BY <1>1, KillFacts DEF HeatmapInv
  <1> DEFINE dead == {s \in Slots : owner[s] \in K}
  <1>3. /\ announced' = announced \cup dead
        /\ Darken(dead) \/ UNCHANGED <<lit, timer>>
        /\ UNCHANGED <<owner, pushed, running, active, polling, paused, connected,
                       pollFaults>>
        /\ kills' = kills + 1 /\ kills < MaxKills
    BY <1>1 DEF Announce, Kill
  <1>4. dead \subseteq Slots /\ \A s \in dead : owner[s] \in K
    OBVIOUS
  <1> HIDE DEF dead
  <1>5. SlotTypes'
    BY <1>3, <1>4 DEF HeatmapInv, SlotTypes
  <1>6. ScreenTypes'
    <2>1. CASE Darken(dead)
      <3>1. \A s \in Slots : /\ lit'[s] = IF s \in dead THEN "dead" ELSE lit[s]
                             /\ timer'[s] = IF s \in dead THEN "set" ELSE timer[s]
        BY <2>1 DEF Darken
      <3>2. /\ lit' \in [Slots -> {"idle", "alive", "dead", "restarting"}]
            /\ timer' \in [Slots -> {"none", "set", "past"}]
        BY <2>1 DEF Darken, HeatmapInv, ScreenTypes
      <3> QED
        BY <3>1, <3>2 DEF HeatmapInv, ScreenTypes
    <2>2. CASE UNCHANGED <<lit, timer>>
      BY <2>2 DEF HeatmapInv, ScreenTypes
    <2> QED
      BY <1>3, <2>1, <2>2
  <1>7. SwitchTypes'
    <2>1. kills' \in 0..MaxKills
      BY <1>3, HeatmapAssumption DEF HeatmapInv, SwitchTypes
    <2> QED
      BY <1>3, <2>1 DEF HeatmapInv, SwitchTypes
  <1>8. NoTheater'
    <2> SUFFICES ASSUME NEW s \in announced'
                 PROVE  owner[s] \in Pods /\ pod'[owner[s]] \in {"terminating", "gone"}
      BY <1>3 DEF NoTheater
    <2>1. CASE s \in announced
      BY <1>2, <2>1 DEF HeatmapInv, NoTheater, Deleted
    <2>2. CASE s \in dead
      BY <1>2, <1>4, <2>2 DEF Deleted
    <2> QED
      BY <1>3, <2>1, <2>2
  <1> QED
    BY <1>2, <1>5, <1>6, <1>7, <1>8 DEF HeatmapInv

-----------------------------------------------------------------------------
(* The browser.                                                            *)

\* Nothing the browser does concerns pods and owners.
LEMMA BrowserStep ==
  ASSUME HeatmapInv, UNCHANGED <<pod, owner, announced>>, pushed' \subseteq pushed,
         ScreenTypes', SwitchTypes'
  PROVE  HeatmapInv'
  BY DEF HeatmapInv, FleetTypeOK, SlotTypes, NoTheater

LEMMA TxFrameKeeps ==
  ASSUME HeatmapInv, NEW s \in Slots, TxFrame(s)
  PROVE  HeatmapInv'
  <1>1. /\ pushed' \subseteq pushed
        /\ UNCHANGED <<pod, owner, announced, running, kills, active, polling, paused,
                       connected, pollFaults>>
        /\ \/ lit' = [lit EXCEPT ![s] = "alive"] /\ timer' = [timer EXCEPT ![s] = "none"]
           \/ UNCHANGED <<lit, timer>>
    BY DEF TxFrame
  <1>2. ScreenTypes'
    BY <1>1 DEF HeatmapInv, ScreenTypes
  <1>3. SwitchTypes'
    BY <1>1 DEF HeatmapInv, SwitchTypes
  <1> QED
    BY <1>1, <1>2, <1>3, BrowserStep

LEMMA TimePassesKeeps ==
  ASSUME HeatmapInv, NEW s \in Slots, TimePasses(s)
  PROVE  HeatmapInv'
  <1>1. ScreenTypes'
    BY DEF TimePasses, HeatmapInv, ScreenTypes
  <1>2. SwitchTypes'
    BY DEF TimePasses, serverVars, HeatmapInv, SwitchTypes
  <1> QED
    BY <1>1, <1>2, BrowserStep DEF TimePasses, serverVars

LEMMA PollStartsKeeps ==
  ASSUME HeatmapInv, PollStarts
  PROVE  HeatmapInv'
  <1>1. \A s \in Slots :
           /\ lit'[s] = CASE timer[s] # "past" -> lit[s]
                          [] lit[s] = "dead"   -> "restarting"
                          [] OTHER             -> Shown(active)
           /\ timer'[s] = CASE timer[s] # "past" -> timer[s]
                            [] lit[s] = "dead"   -> "set"
                            [] OTHER             -> "none"
    BY DEF PollStarts
  <1>2. Shown(active) \in {"idle", "alive"}
    BY DEF Shown
  <1>3. \A s \in Slots :
           /\ lit'[s] \in {"idle", "alive", "dead", "restarting"}
           /\ timer'[s] \in {"none", "set", "past"}
           /\ (timer'[s] = "none") <=> (lit'[s] \in {"idle", "alive"})
    BY <1>1, <1>2 DEF HeatmapInv, ScreenTypes
  <1>4. ScreenTypes'
    <2>1. /\ lit' \in [Slots -> {"idle", "alive", "dead", "restarting"}]
          /\ timer' \in [Slots -> {"none", "set", "past"}]
      BY <1>3 DEF PollStarts
    <2> QED
      BY <1>3, <2>1 DEF ScreenTypes
  <1>5. SwitchTypes'
    BY DEF PollStarts, serverVars, HeatmapInv, SwitchTypes
  <1> QED
    BY <1>4, <1>5, BrowserStep DEF PollStarts, serverVars

LEMMA PollEndsKeeps ==
  ASSUME HeatmapInv, PollAnswers \/ PollFails
  PROVE  HeatmapInv'
  <1>1. PICK on \in BOOLEAN : PollEndsWith(on)
    BY DEF PollAnswers, PollFails, HeatmapInv, SwitchTypes
  <1>2. Shown(on) \in {"idle", "alive"}
    BY DEF Shown
  <1>3. \A s \in Slots :
           lit'[s] = IF lit[s] \in {"dead", "restarting"} THEN lit[s] ELSE Shown(on)
    BY <1>1 DEF PollEndsWith
  <1>4. UNCHANGED <<pod, owner, announced, pushed, running, kills, timer, paused, connected>>
    BY DEF PollAnswers, PollFails, serverVars
  <1>5. ScreenTypes'
    <2>1. lit' \in [Slots -> {"idle", "alive", "dead", "restarting"}]
      <3>1. \A s \in Slots : lit'[s] \in {"idle", "alive", "dead", "restarting"}
        BY <1>2, <1>3
      <3> QED
        BY <1>1, <3>1 DEF PollEndsWith
    <2> QED
      BY <1>2, <1>3, <1>4, <2>1 DEF HeatmapInv, ScreenTypes
  <1>6. SwitchTypes'
    <2>1. pollFaults' \in 0..MaxPollFaults
      <3>1. pollFaults \in 0..MaxPollFaults
        BY DEF HeatmapInv, SwitchTypes
      <3>2. \/ pollFaults' = pollFaults
            \/ pollFaults < MaxPollFaults /\ pollFaults' = pollFaults + 1
        BY DEF PollAnswers, PollFails
      <3> QED
        BY <3>1, <3>2, HeatmapAssumption
    <2> QED
      BY <1>1, <1>4, <2>1 DEF PollEndsWith, HeatmapInv, SwitchTypes
  <1> QED
    BY <1>4, <1>5, <1>6, BrowserStep

LEMMA ButtonsKeep ==
  ASSUME HeatmapInv, ClickStart \/ ClickStop \/ ClickReset
  PROVE  HeatmapInv'
  <1>1. /\ UNCHANGED <<pod, owner, announced, pushed, kills, polling, paused, connected,
                       pollFaults>>
        /\ {running', active'} \subseteq BOOLEAN
        /\ RebuildAgents \/ UNCHANGED <<lit, timer>>
    BY DEF ClickStart, ClickStop, ClickReset, HeatmapInv, SwitchTypes
  <1>2. ScreenTypes'
    BY <1>1 DEF RebuildAgents, HeatmapInv, ScreenTypes
  <1>3. SwitchTypes'
    BY <1>1 DEF HeatmapInv, SwitchTypes
  <1> QED
    BY <1>1, <1>2, <1>3, BrowserStep

\* Switches, the server's run, and nothing.
LEMMA SwitchesKeep ==
  ASSUME HeatmapInv,
         RunChanges \/ ToggleConnection \/ TogglePause \/ UNCHANGED heatmapVars
  PROVE  HeatmapInv'
  <1>1. /\ UNCHANGED <<pod, owner, announced, pushed, lit, timer, kills, pollFaults,
                       active, polling>>
        /\ {running', paused', connected'} \subseteq BOOLEAN
    BY DEF RunChanges, ToggleConnection, TogglePause, heatmapVars, serverVars,
           browserVars, HeatmapInv, SwitchTypes
  <1>2. ScreenTypes' /\ SwitchTypes'
    BY <1>1 DEF HeatmapInv, ScreenTypes, SwitchTypes
  <1> QED
    BY <1>1, <1>2, BrowserStep

-----------------------------------------------------------------------------
(* The invariant, and what follows from it.                                *)

LEMMA InitHeatmapInv == HeatmapInit => HeatmapInv
  <1> SUFFICES ASSUME HeatmapInit PROVE HeatmapInv
    OBVIOUS
  <1>1. FleetTypeOK
    BY DEF HeatmapInit, FleetInit, FleetTypeOK, Phases
  <1>2. SlotTypes /\ ScreenTypes /\ NoTheater
    BY DEF HeatmapInit, SlotTypes, ScreenTypes, NoTheater
  <1>3. SwitchTypes
    <2>1. kills \in 0..MaxKills /\ pollFaults \in 0..MaxPollFaults
      BY HeatmapAssumption DEF HeatmapInit
    <2>2. {running, active, polling, paused, connected} \subseteq BOOLEAN
      BY DEF HeatmapInit
    <2> QED
      BY <2>1, <2>2 DEF SwitchTypes
  <1> QED
    BY <1>1, <1>2, <1>3 DEF HeatmapInv

LEMMA NextHeatmapInv == HeatmapInv /\ [HeatmapNext]_heatmapVars => HeatmapInv'
  <1> SUFFICES ASSUME HeatmapInv, [HeatmapNext]_heatmapVars
               PROVE  HeatmapInv'
    OBVIOUS
  <1>1. CASE ClusterMoves
    BY <1>1, ClusterMovesKeeps
  <1>2. CASE Kill
    BY <1>2, KillKeeps
  <1>3. ASSUME NEW s \in Slots,
               Expire(s) \/ TxFrame(s) \/ TimePasses(s) \/ \E p \in Pods : Serve(s, p)
        PROVE  HeatmapInv'
    BY <1>3, ExpireKeeps, TxFrameKeeps, TimePassesKeeps, ServeKeeps
  <1>4. CASE PollStarts \/ PollAnswers \/ PollFails
    BY <1>4, PollStartsKeeps, PollEndsKeeps
  <1>5. CASE ClickStart \/ ClickStop \/ ClickReset
    BY <1>5, ButtonsKeep
  <1>6. CASE RunChanges \/ ToggleConnection \/ TogglePause \/ UNCHANGED heatmapVars
    BY <1>6, SwitchesKeep
  <1> QED
    BY <1>1, <1>2, <1>3, <1>4, <1>5, <1>6 DEF HeatmapNext

\* Whatever is killed, fails, expires, is clicked or arrives late.
THEOREM HeatmapInvariance == HeatmapSpec => []HeatmapInv
  <1>1. HeatmapInit => HeatmapInv
    BY InitHeatmapInv
  <1>2. HeatmapInv /\ [HeatmapNext]_heatmapVars => HeatmapInv'
    BY NextHeatmapInv
  <1> QED
    BY <1>1, <1>2, PTL DEF HeatmapSpec

\* Slots and pods have the statuses they may have, and a slot is dark exactly
\* while a timer will bring it back.
THEOREM HeatmapTypes == HeatmapSpec => []HeatmapTypeOK
  BY HeatmapInvariance, InvTypes, PTL

\* A slot that was told dead, and of which nothing newer is known, is owned
\* by a pod that was really deleted.
THEOREM NoTheaterShown == HeatmapSpec => []NoTheater
  <1>1. HeatmapInv => NoTheater
    BY DEF HeatmapInv
  <1> QED
    BY <1>1, HeatmapInvariance, PTL
=============================================================================

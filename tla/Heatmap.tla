------------------------------ MODULE Heatmap -------------------------------
(***************************************************************************)
(* The heatmap during chaos: which pod the server has seen serving a slot  *)
(* (slot_tracker.py), what a kill says about slots (server.py), and what a *)
(* browser makes of it (ui-prototype/src/telemetry.jsx): a frame darkens a *)
(* slot, and timers, polls and pushed credits relight it.                  *)
(*                                                                         *)
(* A slot's entry that is older than 60 seconds is no entry: every query   *)
(* of the tracker skips it.  A frame of a kill reaches the browser at once *)
(* or never; one of a credit was queued before and may come at any time.   *)
(* Left out: the pulse of a zone and the label of the kill buttons.        *)
(***************************************************************************)
EXTENDS Fleet

CONSTANTS Slots,         \* the heatmap's cells: one per customer
          NoPod,         \* no entry
          MaxKills,      \* bound on kill requests
          MaxPollFaults  \* bound on polls that fail

ASSUME HeatmapAssumption ==
    /\ NoPod \notin Pods
    /\ MaxKills \in Nat
    /\ MaxPollFaults \in Nat

VARIABLES
    owner,      \* SlotTracker._slots
    announced,  \* history: slots told dead and not recorded since
    pushed,     \* slots with a frame of a committed credit on its way
    running,    \* replenisher_running
    lit,        \* state.agents[].status
    timer,      \* restartingUntil: none, set, or in the past
    active,     \* state.run.active
    polling,    \* pollOnce awaits /agent/status
    paused,
    connected,  \* the websocket is open
    kills,
    pollFaults

serverVars == <<pod, owner, announced, pushed, running, kills>>
browserVars == <<lit, timer, active, polling, paused, connected, pollFaults>>
heatmapVars == <<serverVars, browserVars>>

HeatmapTypeOK ==
    /\ FleetTypeOK
    /\ owner \in [Slots -> Pods \cup {NoPod}]
    /\ announced \subseteq Slots /\ pushed \subseteq Slots
    /\ lit \in [Slots -> {"idle", "alive", "dead", "restarting"}]
    /\ timer \in [Slots -> {"none", "set", "past"}]
    /\ \A s \in Slots : (timer[s] = "none") <=> (lit[s] \in {"idle", "alive"})
    /\ {running, active, polling, paused, connected} \subseteq BOOLEAN
    /\ kills \in 0..MaxKills /\ pollFaults \in 0..MaxPollFaults

HeatmapInit ==
    /\ FleetInit
    /\ owner = [s \in Slots |-> NoPod]
    /\ announced = {} /\ pushed = {}
    /\ running = FALSE /\ active = FALSE
    /\ lit = [s \in Slots |-> "idle"]
    /\ timer = [s \in Slots |-> "none"]
    /\ polling = FALSE /\ paused = FALSE /\ connected = FALSE
    /\ kills = 0 /\ pollFaults = 0
-----------------------------------------------------------------------------
(* The server.                                                             *)

ClusterMoves ==
    /\ FleetStep
    /\ UNCHANGED <<owner, announced, pushed, running, kills, browserVars>>

\* credit_next for slot s from pod p, which may be in its grace period.
Serve(s, p) ==
    /\ pod[p] \in {"running", "terminating"}
    /\ owner' = [owner EXCEPT ![s] = p]
    /\ announced' = announced \ {s}
    /\ \E committed \in {{}, {s}} : pushed' = pushed \cup committed
    /\ UNCHANGED <<pod, running, kills, browserVars>>

\* 60 seconds without a call.
Expire(s) ==
    /\ owner[s] # NoPod
    /\ owner' = [owner EXCEPT ![s] = NoPod]
    /\ announced' = announced \ {s}
    /\ UNCHANGED <<pod, pushed, running, kills, browserVars>>

\* The loop ends, or another browser starts or stops a run.
RunChanges ==
    /\ running' = ~running
    /\ UNCHANGED <<pod, owner, announced, pushed, kills, browserVars>>

\* Fault: the timer is left as it was.
DarkenForGood(S) ==
    /\ lit' = [s \in Slots |-> IF s \in S THEN "dead" ELSE lit[s]]
    /\ UNCHANGED timer

Darken(S) ==
    /\ lit' = [s \in Slots |-> IF s \in S THEN "dead" ELSE lit[s]]
    /\ timer' = [s \in Slots |-> IF s \in S THEN "set" ELSE timer[s]]

\* The slots of the killed pods, to whoever listens.
Announce(K) ==
    LET dead == {s \in Slots : owner[s] \in K}
    IN  /\ announced' = announced \cup dead
        /\ IF connected THEN Darken(dead) ELSE UNCHANGED <<lit, timer>>

\* POST /chaos/pod-kill and /chaos/az-kill.
Kill ==
    /\ kills < MaxKills
    /\ kills' = kills + 1
    /\ \E K \in SUBSET Pods :
          /\ \/ \E p \in Known : KillNamed(p, K)
             \/ \E count \in 1..Cardinality(Pods) : KillRandom(count, K)
             \/ \E z \in Zones \cup {NoZone} : KillZone(z, K)
          /\ Announce(K)
    /\ UNCHANGED <<owner, pushed, running, active, polling, paused, connected,
                   pollFaults>>
-----------------------------------------------------------------------------
(* The browser.                                                            *)

\* Fault: a relit slot keeps its timer.
TxFrameKeepsTimer(s) ==
    /\ s \in pushed
    /\ pushed' = pushed \ {s}
    /\ lit' = IF connected THEN [lit EXCEPT ![s] = "alive"] ELSE lit
    /\ UNCHANGED <<pod, owner, announced, running, kills, timer, active, polling, paused,
                   connected, pollFaults>>

\* A frame of a credit, of whatever run.
TxFrame(s) ==
    /\ s \in pushed
    /\ pushed' = pushed \ {s}
    /\ IF connected
       THEN lit' = [lit EXCEPT ![s] = "alive"] /\ timer' = [timer EXCEPT ![s] = "none"]
       ELSE UNCHANGED <<lit, timer>>
    /\ UNCHANGED <<pod, owner, announced, running, kills, active, polling, paused,
                   connected, pollFaults>>

ToggleConnection ==
    /\ connected' = ~connected
    /\ UNCHANGED <<serverVars, lit, timer, active, polling, paused, pollFaults>>

TogglePause ==
    /\ paused' = ~paused
    /\ UNCHANGED <<serverVars, lit, timer, active, polling, connected, pollFaults>>

TimePasses(s) ==
    /\ timer[s] = "set"
    /\ timer' = [timer EXCEPT ![s] = "past"]
    /\ UNCHANGED <<serverVars, lit, active, polling, paused, connected, pollFaults>>

Shown(on) == IF on THEN "alive" ELSE "idle"

\* Up to the first await: the timers.
PollStarts ==
    /\ ~polling /\ ~paused
    /\ polling' = TRUE
    /\ lit' = [s \in Slots |->
                  CASE timer[s] # "past" -> lit[s]
                    [] lit[s] = "dead"   -> "restarting"
                    [] OTHER             -> Shown(active)]
    /\ timer' = [s \in Slots |->
                    CASE timer[s] # "past" -> timer[s]
                      [] lit[s] = "dead"   -> "set"
                      [] OTHER             -> "none"]
    /\ UNCHANGED <<serverVars, active, paused, connected, pollFaults>>

\* From its answer on: what chaos darkened is left to the timers.
PollEndsWith(on) ==
    /\ polling
    /\ polling' = FALSE
    /\ active' = on
    /\ lit' = [s \in Slots |->
                  IF lit[s] \in {"dead", "restarting"} THEN lit[s] ELSE Shown(on)]

PollAnswers ==
    /\ PollEndsWith(running)
    /\ UNCHANGED <<serverVars, timer, paused, connected, pollFaults>>

PollFails ==
    /\ pollFaults < MaxPollFaults
    /\ pollFaults' = pollFaults + 1
    /\ PollEndsWith(FALSE)
    /\ UNCHANGED <<serverVars, timer, paused, connected>>

RebuildAgents ==
    /\ lit' = [s \in Slots |-> "idle"]
    /\ timer' = [s \in Slots |-> "none"]

\* The buttons.  Starting and stopping have been answered.
ClickStart ==
    /\ ~active
    /\ running' = TRUE /\ active' = TRUE
    /\ RebuildAgents
    /\ UNCHANGED <<pod, owner, announced, pushed, kills, polling, paused, connected,
                   pollFaults>>

ClickStop ==
    /\ active
    /\ running' = FALSE /\ active' = FALSE
    /\ UNCHANGED <<pod, owner, announced, pushed, kills, lit, timer, polling, paused,
                   connected, pollFaults>>

ClickReset ==
    /\ running' = FALSE
    /\ RebuildAgents
    /\ UNCHANGED <<pod, owner, announced, pushed, kills, active, polling, paused,
                   connected, pollFaults>>

HeatmapNext ==
    \/ ClusterMoves \/ RunChanges \/ Kill
    \/ \E s \in Slots :
          Expire(s) \/ TxFrame(s) \/ TimePasses(s) \/ \E p \in Pods : Serve(s, p)
    \/ ToggleConnection \/ TogglePause
    \/ PollStarts \/ PollAnswers \/ PollFails
    \/ ClickStart \/ ClickStop \/ ClickReset

\* Timers run and polls are answered; nothing else is sure to happen.
HeatmapFairness ==
    /\ \A s \in Slots : WF_heatmapVars(TimePasses(s))
    /\ WF_heatmapVars(PollStarts)
    /\ WF_heatmapVars(PollAnswers)

HeatmapSpec == HeatmapInit /\ [][HeatmapNext]_heatmapVars /\ HeatmapFairness
-----------------------------------------------------------------------------
(* slot_tracker.py:5-7 "exactly the slots owned by the killed pod (no      *)
(* theater)": while nothing newer is known of a slot that was told dead,   *)
(* the pod it is recorded for has really been deleted, also when some of   *)
(* the deletes of a kill fail.                                             *)
NoTheater ==
    \A s \in announced :
        owner[s] \in Pods /\ pod[owner[s]] \in {"terminating", "gone"}

(* A slot that was darkened comes back (telemetry.jsx:130-172): if a run   *)
(* goes on it ends up alive, and if none does it is no longer dark, though *)
(* frames are lost and polls race them, unless the page is kept paused.    *)
Settles ==
    \A s \in Slots :
        /\ <>[]running => <>[](lit[s] = "alive") \/ []<>paused
        /\ <>[](~running) => <>[](timer[s] = "none") \/ []<>paused
=============================================================================

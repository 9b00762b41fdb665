----------------------------- MODULE Scheduling -----------------------------
(***************************************************************************)
(* POST /agent/spawn and POST /agent/stop: the scheduling half of          *)
(* services/mcp/mcp_server/replenisher.py with the routes /schedule-one    *)
(* and .../terminate of the three agents.  Each request is a coroutine of  *)
(* its own; it is suspended in every call to an agent and in the reset of  *)
(* the database, where another request may overtake it.                    *)
(*                                                                         *)
(* What an instance credits is AgentRuns; here it runs until it has its    *)
(* account complete, is terminated, or is told {done: true} because of the *)
(* stop flag.  The engine below the durable agents is external: it starts  *)
(* no second instance of an id that runs, and marks a terminated instance  *)
(* at once while it goes on for a while (replenisher.py:14-16).            *)
(***************************************************************************)
EXTENDS Integers, FiniteSets

CONSTANTS Accounts,    \* customers of a run, scheduled in their order
          MaxRequests, \* bound on requests, which are numbered as they arrive
          Hosts,       \* the Deployment's replicas; a new pod knows no instance
          Engine,      \* where durable instances live
          None,
          MaxClock,    \* bound on the seconds that pass
          MaxFaults    \* bound on deaths, triggers and purges

ASSUME SchedulingAssumption ==
    /\ Accounts \in Nat \ {0}
    /\ IsFiniteSet(Hosts)
    /\ Engine \notin Hosts
    /\ MaxRequests \in Nat
    /\ MaxClock \in Nat \ {0} /\ MaxFaults \in Nat

VARIABLES
    kind,        \* which agent the server was deployed with
    up,          \* hosts with a running pod
    req,         \* per request: its handler
    ids,         \* _instance_ids
    tag,         \* _run_tag
    clock,       \* time.time(), in seconds
    task,        \* _task: the request that created it
    loops,       \* the loops that run, by the request that created them
    stopped,     \* Orchestrator.stopped
    execs,       \* instances that run
    asked,       \* history: the last request
    overlapped,  \* history: some request began before another had ended
    faults

netVars == <<kind, up, clock, faults>>
serverVars == <<ids, tag, task, loops, stopped>>
historyVars == <<asked, overlapped>>
schedulingVars == <<netVars, serverVars, historyVars, req, execs>>

\* f"agent-{customer_id}-r{run_tag}"; with tag 0, f"customer-{customer_id}".
Ids == (1..Accounts) \X (0..MaxClock)

ASSUME NoIdAssumption == None \notin Ids

Requests == 1..MaxRequests

\* known: in the registry of its pod or engine; confirmed: this process gets
\* or got the answer; told: the terminate requests for its id have gone out,
\* whether they reached a pod or not.
Exec == [id : Ids, host : Hosts \cup {Engine}, known : BOOLEAN,
         confirmed : BOOLEAN, told : BOOLEAN]

\* ids: the ones it still has to terminate; direct: through the addresses of
\* the pods, or the Service; next: the account to schedule; id: what it is
\* scheduling, None in between; ok: what it will be answered.
Handler == [at : {"new", "terminate", "reset", "schedule", "done"},
            verb : {"start", "stop", None}, ids : SUBSET Ids,
            next : 1..(Accounts + 1), direct : BOOLEAN,
            id : Ids \cup {None}, ok : BOOLEAN]

NewHandler == [at |-> "new", verb |-> None, ids |-> {}, next |-> 1, direct |-> FALSE,
               id |-> None, ok |-> FALSE]
Done == [NewHandler EXCEPT !.at = "done"]

InProgress(r) == req[r].at \notin {"new", "done"}
Quiet == \A r \in Requests : ~InProgress(r)

SchedulingTypeOK ==
    /\ kind \in {"langgraph", "dapr-agents", "plain"}
    /\ up \subseteq Hosts
    /\ req \in [Requests -> Handler]
    /\ \A r \in Requests :
          /\ (req[r].at = "terminate") <=> (req[r].ids # {})
          /\ req[r].id # None => req[r].at = "schedule" /\ req[r].next = req[r].id[1]
    /\ ids \subseteq Ids
    /\ tag \in 0..clock /\ clock \in 1..MaxClock
    /\ task \in Requests \cup {None} /\ loops \subseteq Requests
    /\ stopped \in BOOLEAN /\ overlapped \in BOOLEAN
    /\ execs \subseteq Exec
    /\ \A e, f \in execs : e.known /\ f.known /\ e.id = f.id /\ e.host = f.host => e = f
    /\ asked \in {"start", "stop", None}
    /\ faults \in 0..MaxFaults

SchedulingInit ==
    /\ kind \in {"langgraph", "dapr-agents", "plain"}
    /\ up = Hosts
    /\ req = [r \in Requests |-> NewHandler]
    /\ ids = {} /\ tag = 0 /\ clock = 1
    /\ task = None /\ loops = {} /\ stopped = FALSE
    /\ execs = {}
    /\ asked = None /\ overlapped = FALSE
    /\ faults = 0
-----------------------------------------------------------------------------
(* Requests arrive.                                                        *)

Arrives(r, verb) ==
    /\ req[r].at = "new"
    /\ \A q \in 1..(r - 1) : req[q].at # "new"
    /\ asked' = verb
    /\ overlapped' = (overlapped \/ ~Quiet)

\* What a handler does after terminating.
Resetting == [NewHandler EXCEPT !.at = "reset"]
After(verb) == IF verb = "start" THEN Resetting ELSE Done

\* The handler takes over all ids.
TakeIds(r, verb) ==
    /\ Arrives(r, verb)
    /\ \E direct \in BOOLEAN :
          req' = [req EXCEPT ![r] =
                     IF ids = {} THEN After(verb)
                     ELSE [NewHandler EXCEPT !.at = "terminate", !.verb = verb,
                                             !.ids = ids, !.direct = direct]]
    /\ ids' = {}

\* Fault: the previous run is left to itself.
StartAtOnce(r) ==
    /\ Arrives(r, "start")
    /\ req' = [req EXCEPT ![r] = Resetting]
    /\ UNCHANGED <<netVars, serverVars, execs>>

Start(r) ==
    /\ TakeIds(r, "start")
    /\ UNCHANGED <<netVars, tag, task, loops, stopped, execs>>

\* Fault: instances are terminated, and trusted to end.
StopTerminatesOnly(r) ==
    /\ TakeIds(r, "stop")
    /\ loops' = loops \ {task}
    /\ UNCHANGED <<netVars, tag, task, stopped, execs>>

Stop(r) ==
    /\ TakeIds(r, "stop")
    /\ loops' = loops \ {task}
    /\ stopped' = TRUE
    /\ UNCHANGED <<netVars, tag, task, execs>>
-----------------------------------------------------------------------------
(* _terminate_all, one id at a time.                                       *)

\* The pods that get a request for an id: any may fail to; the Service
\* chooses one.  The pods are asked one after the other; that one of them is
\* asked earlier shows only in an instance that is gone earlier, which Ends
\* allows at any time, so that the requests for an id are one step, the last.
Reach(direct) ==
    {R \in SUBSET up : direct \/ Cardinality(R) <= 1}

\* A plain pod cancels what it knows by the id.  The engine goes on with a
\* terminated instance, and agent-dapr-agents has no such route.
Terminated(id, R) ==
    {[e EXCEPT !.told = @ \/ e.id = id] :
        e \in {f \in execs : ~(kind = "plain" /\ f.known /\ f.id = id /\ f.host \in R)}}

TerminateOne(r, id) ==
    /\ req[r].at = "terminate"
    /\ \E R \in Reach(req[r].direct) : execs' = Terminated(id, R)
    /\ LET left == req[r].ids \ {id}
       IN  req' = [req EXCEPT ![r] = IF left = {} THEN After(@.verb)
                                     ELSE [@ EXCEPT !.ids = left]]

\* Fault: the list is emptied after the pass over its ids.
TerminateForgets(r) ==
    /\ \E id \in req[r].ids : TerminateOne(r, id)
    /\ ids' = IF req'[r].at = "terminate" THEN ids ELSE {}
    /\ UNCHANGED <<netVars, tag, task, loops, stopped, historyVars>>

Terminate(r) ==
    /\ \E id \in req[r].ids : TerminateOne(r, id)
    /\ UNCHANGED <<netVars, serverVars, historyVars>>
-----------------------------------------------------------------------------
(* The rest of start().                                                    *)

\* Fault: the loop of the previous run is left alone.
ResetKeepsLoop(r) ==
    /\ req[r].at = "reset"
    /\ stopped' = FALSE
    /\ tag' = clock
    /\ req' = [req EXCEPT ![r].at = "schedule"]
    /\ UNCHANGED <<netVars, ids, task, loops, historyVars, execs>>

\* orch.reset() returns: fresh queues, no stop flag.
Reset(r) ==
    /\ req[r].at = "reset"
    /\ stopped' = FALSE
    /\ tag' = clock
    /\ loops' = loops \ {task}
    /\ req' = [req EXCEPT ![r].at = "schedule"]
    /\ UNCHANGED <<netVars, ids, task, historyVars, execs>>

\* It raises: the instances are terminated, everything else is as before.
ResetFails(r) ==
    /\ req[r].at = "reset"
    /\ req' = [req EXCEPT ![r] = Done]
    /\ UNCHANGED <<netVars, serverVars, historyVars, execs>>

\* Fault: a plain pod keeps what it has under an id, and starts another.
StartedAgain(id, h, ok) ==
    execs \cup {[id |-> id, host |-> IF kind = "plain" THEN h ELSE Engine,
                 known |-> TRUE, confirmed |-> ok, told |-> FALSE]}

\* A pod serves /schedule-one: a plain one registers the task in the place
\* of an older one of the same id.
Started(id, h, ok) ==
    LET host == IF kind = "plain" THEN h ELSE Engine
        new == [id |-> id, host |-> host, known |-> TRUE,
                confirmed |-> ok, told |-> FALSE]
        same == {e \in execs : e.known /\ e.id = id /\ e.host = host}
    IN  CASE kind = "plain" ->
                 (execs \ same) \cup {[e EXCEPT !.known = FALSE] : e \in same} \cup {new}
          [] kind # "plain" /\ same = {} -> execs \cup {new}
          [] OTHER -> execs

\* Scheduling the next account, under whatever tag there is now: the request
\* fails, is served, or is served and its answer is late (45 s) or lost.
Post(r) ==
    /\ req[r].at = "schedule" /\ req[r].id = None /\ req[r].next <= Accounts
    /\ LET id == <<req[r].next, tag>>
       IN  \E ok \in BOOLEAN :
              /\ req' = [req EXCEPT ![r].id = id, ![r].ok = ok]
              /\ \/ ~ok /\ UNCHANGED execs
                 \/ \E h \in up : execs' = Started(id, h, ok)
    /\ UNCHANGED <<netVars, serverVars, historyVars>>

Answered(r) ==
    /\ req[r].id # None
    /\ req' = [req EXCEPT ![r].id = None, ![r].ok = FALSE, ![r].next = @ + 1]
    /\ ids' = IF req[r].ok THEN ids \cup {req[r].id} ELSE ids
    /\ UNCHANGED <<netVars, tag, task, loops, stopped, historyVars, execs>>

CreateLoop(r) ==
    /\ req[r].at = "schedule" /\ req[r].id = None /\ req[r].next > Accounts
    /\ req' = [req EXCEPT ![r] = Done]
    /\ task' = r
    /\ loops' = loops \cup {r}
    /\ UNCHANGED <<netVars, ids, tag, stopped, historyVars, execs>>
-----------------------------------------------------------------------------
(* Around the requests.                                                    *)

\* An account is complete, or the engine gets to a terminated instance.
Ends(e) ==
    /\ e \in execs
    /\ execs' = execs \ {e}
    /\ UNCHANGED <<netVars, serverVars, historyVars, req>>

\* Its next credit_next is answered {done: true}.
SeesStop(e) == stopped /\ up # {} /\ Ends(e)

WatchEnds ==
    /\ \E l \in loops : loops' = loops \ {l}
    /\ UNCHANGED <<netVars, ids, tag, task, stopped, historyVars, req, execs>>

Tick ==
    /\ clock < MaxClock
    /\ clock' = clock + 1
    /\ UNCHANGED <<kind, up, faults, serverVars, historyVars, req, execs>>

Fault == faults < MaxFaults /\ faults' = faults + 1

\* With a plain pod its instances go.
HostDies(h) ==
    /\ Fault
    /\ h \in up
    /\ up' = up \ {h}
    /\ execs' = {e \in execs : e.host # h}
    /\ UNCHANGED <<kind, clock, serverVars, historyVars, req>>

HostReplaced(h) ==
    /\ h \notin up
    /\ up' = up \cup {h}
    /\ UNCHANGED <<kind, clock, faults, serverVars, historyVars, req, execs>>

\* POST /trigger: an instance the server never hears of.
Trigger(c) ==
    /\ Fault
    /\ \E h \in up : execs' = Started(<<c, 0>>, h, FALSE)
    /\ UNCHANGED <<kind, up, clock, serverVars, historyVars, req>>

\* .../purge: a plain pod forgets a task that runs on.
Purge(e) ==
    /\ Fault
    /\ kind = "plain" /\ e.known
    /\ execs' = (execs \ {e}) \cup {[e EXCEPT !.known = FALSE]}
    /\ UNCHANGED <<kind, up, clock, serverVars, historyVars, req>>

\* The server dies and comes back: it remembers neither instances nor stop.
ServerRestarts ==
    /\ Fault
    /\ ids' = {} /\ tag' = 0 /\ task' = None /\ loops' = {} /\ stopped' = FALSE
    /\ req' = [r \in Requests |-> IF InProgress(r) THEN Done ELSE req[r]]
    /\ execs' = {[e EXCEPT !.confirmed = FALSE] : e \in execs}
    /\ asked' = None
    /\ UNCHANGED <<kind, up, clock, overlapped>>

Handle(r) ==
    Terminate(r) \/ Reset(r) \/ ResetFails(r) \/ Post(r) \/ Answered(r) \/ CreateLoop(r)

SchedulingNext ==
    \/ \E r \in Requests : Start(r) \/ Stop(r) \/ Handle(r)
    \/ \E e \in execs : Ends(e) \/ Purge(e)
    \/ \E c \in 1..Accounts : Trigger(c)
    \/ \E h \in Hosts : HostDies(h) \/ HostReplaced(h)
    \/ WatchEnds \/ Tick \/ ServerRestarts

\* A running instance calls credit_next again, as long as there are pods.
SchedulingFairness == \A e \in Exec : WF_schedulingVars(SeesStop(e))

SchedulingSpec == SchedulingInit /\ [][SchedulingNext]_schedulingVars
FairSchedulingSpec == SchedulingSpec /\ SchedulingFairness
-----------------------------------------------------------------------------
(* An instance whose scheduling was confirmed is on the list that the next *)
(* terminate works through, on that of one in progress, about to be noted, *)
(* or was told (replenisher.py:104, 133-151), however requests overlap.    *)
(* An instance that runs unconfirmed after a timeout never is.             *)
NoneForgotten ==
    \A e \in execs : e.confirmed =>
        \/ e.told
        \/ e.id \in ids
        \/ \E r \in Requests : e.id \in req[r].ids \/ (req[r].ok /\ req[r].id = e.id)

(* replenisher.py:76-78: start() clears stragglers first.  While requests  *)
(* keep out of each other's way, at most one instance per account is still *)
(* supposed to run.                                                        *)
OnePerAccount ==
    ~overlapped =>
        \A e, f \in execs :
            /\ e.confirmed /\ f.confirmed
            /\ ~e.told /\ ~f.told
            /\ e.id[1] = f.id[1]
            => e = f

(* One loop watches, and it is the one that stop() would cancel, also when *)
(* a start fails half-way (replenisher.py:87-107, 115-116).                *)
OneWatcher == ~overlapped => loops \subseteq {task}

(* replenisher.py:14-19: whether terminate works, is refused or has no     *)
(* route to go to, after a stop every instance ends, those that nobody has *)
(* noted included, unless all pods are gone.                               *)
StopDrainsAll ==
    asked = "stop" /\ Quiet /\ ~overlapped
        ~> execs = {} \/ asked # "stop" \/ up = {}

(* replenisher.py:14-19: stop() cancels the loop and flips the flag, which *)
(* "is what actually stops crediting".  It says nothing of a start() still *)
(* in progress, which then clears the flag, schedules on and creates the   *)
(* loop.                                                                   *)
StopWins == asked = "stop" /\ Quiet => stopped /\ loops = {}
=============================================================================

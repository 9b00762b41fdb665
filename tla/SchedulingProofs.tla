-------------------------- MODULE SchedulingProofs --------------------------
(***************************************************************************)
(* Proofs about Scheduling, for any number of accounts, requests, pods and *)
(* faults: no confirmed instance is forgotten, and as long as no request   *)
(* begins before another has ended, each account has at most one instance  *)
(* and the server at most one loop.                                        *)
(***************************************************************************)
EXTENDS Scheduling, TLAPS

-----------------------------------------------------------------------------
(* The inductive invariant.  A handler has an answer to note only while it *)
(* is scheduling.  Without overlap there is one handler, and where it is   *)
(* tells what is left of the run it replaces: no id but those that it is   *)
(* terminating, then none, then only those it scheduled itself, and no     *)
(* loop until it creates one.                                              *)

ServerTypes ==
    /\ kind \in {"langgraph", "dapr-agents", "plain"}
    /\ up \subseteq Hosts
    /\ ids \subseteq Ids
    /\ tag \in 0..clock /\ clock \in 1..MaxClock
    /\ task \in Requests \cup {None} /\ loops \subseteq Requests
    /\ stopped \in BOOLEAN /\ overlapped \in BOOLEAN
    /\ asked \in {"start", "stop", None}
    /\ faults \in 0..MaxFaults

HandlerOK(x) ==
    /\ x \in Handler
    /\ (x.at = "terminate") <=> (x.ids # {})
    /\ x.id # None => x.at = "schedule" /\ x.next = x.id[1]
    /\ x.ok => x.id # None

HandlersOK == req \in [Requests -> Handler] /\ \A r \in Requests : HandlerOK(req[r])

ExecsOK(X) ==
    /\ X \subseteq Exec
    /\ \A e, f \in X : e.known /\ f.known /\ e.id = f.id /\ e.host = f.host => e = f

\* An instance that is supposed to run, and a set with one per account.
Live(e) == e.confirmed /\ ~e.told
OneLive(X) == \A e, f \in X : Live(e) /\ Live(f) /\ e.id[1] = f.id[1] => e = f

OneAtATime == \A q, r \in Requests : InProgress(q) /\ InProgress(r) => q = r

RunReplaced ==
    \A r \in Requests :
        /\ req[r].at \in {"terminate", "reset"} => ids = {}
        /\ req[r].at = "schedule" => loops = {} /\ \A i \in ids : i[1] < req[r].next

Alone == OneAtATime /\ RunReplaced /\ OneLive(execs) /\ loops \subseteq {task}

SchedulingInv ==
    /\ ServerTypes
    /\ HandlersOK
    /\ ExecsOK(execs)
    /\ NoneForgotten
    /\ ~overlapped => Alone

\* Where the server still has an instance's id.
Listed(id) ==
    \/ id \in ids
    \/ \E r \in Requests : id \in req[r].ids \/ (req[r].ok /\ req[r].id = id)

LEMMA ForgottenMeansUnlisted == NoneForgotten <=> \A e \in execs : Live(e) => Listed(e.id)
  BY DEF NoneForgotten, Live, Listed

-----------------------------------------------------------------------------
(* Handlers.                                                               *)

LEMMA HandlersMove ==
  ASSUME HandlersOK, NEW r \in Requests, NEW x, HandlerOK(x),
         req' = [req EXCEPT ![r] = x]
  PROVE  /\ HandlersOK'
         /\ req'[r] = x
         /\ \A q \in Requests : q # r => req'[q] = req[q]
  BY DEF HandlersOK, HandlerOK

LEMMA FreshHandlers ==
  /\ HandlerOK(NewHandler) /\ HandlerOK(Done) /\ HandlerOK(Resetting)
  /\ NewHandler.at = "new" /\ Done.at = "done" /\ Resetting.at = "reset"
  /\ \A x \in {NewHandler, Done, Resetting} :
        x.ids = {} /\ x.ok = FALSE /\ x.id = None
  <1>1. 1 \in 1..(Accounts + 1)
    BY SchedulingAssumption
  <1>2. NewHandler \in Handler
    BY <1>1 DEF NewHandler, Handler
  <1>3. Done \in Handler /\ Resetting \in Handler
    BY <1>2 DEF Done, Resetting, Handler
  <1> QED
    BY <1>2, <1>3 DEF HandlerOK, NewHandler, Done, Resetting

\* A handler that is not scheduling has nothing to note, and one that is not
\* terminating has no ids.
LEMMA HandlerFacts ==
  ASSUME HandlersOK, NEW r \in Requests
  PROVE  /\ req[r] \in Handler
         /\ req[r].at # "terminate" => req[r].ids = {}
         /\ req[r].at # "schedule" => req[r].ok = FALSE /\ req[r].id = None
         /\ req[r].id = None => req[r].ok = FALSE
         /\ req[r].ids \subseteq Ids
  BY DEF HandlersOK, HandlerOK, Handler

-----------------------------------------------------------------------------
(* Instances.                                                              *)

LEMMA TerminatedExecs ==
  ASSUME ExecsOK(execs), NEW id \in Ids, NEW R
  PROVE  /\ ExecsOK(Terminated(id, R))
         /\ \A e \in Terminated(id, R) : Live(e) => e \in execs /\ e.id # id
  <1> DEFINE T(e) == [e EXCEPT !.told = e.told \/ e.id = id]
  <1>1. ASSUME NEW e \in execs
        PROVE  /\ T(e) \in Exec /\ T(e).id = e.id /\ T(e).host = e.host
               /\ T(e).known = e.known /\ T(e).confirmed = e.confirmed
               /\ T(e).told <=> e.told \/ e.id = id
               /\ ~T(e).told => T(e) = e
    BY DEF ExecsOK, Exec
  <1>2. \A x \in Terminated(id, R) : \E e \in execs : x = T(e)
    BY DEF Terminated
  <1> HIDE DEF T
  <1>3. Terminated(id, R) \subseteq Exec
    BY <1>1, <1>2
  <1>4. ASSUME NEW x \in Terminated(id, R), NEW y \in Terminated(id, R),
               x.known, y.known, x.id = y.id, x.host = y.host
        PROVE  x = y
    <2>1. PICK e \in execs, f \in execs : x = T(e) /\ y = T(f)
      BY <1>2
    <2>2. e = f
      BY <1>1, <1>4, <2>1 DEF ExecsOK
    <2> QED
      BY <2>1, <2>2
  <1>5. ASSUME NEW x \in Terminated(id, R), Live(x)
        PROVE  x \in execs /\ x.id # id
    <2>1. PICK e \in execs : x = T(e)
      BY <1>2
    <2> QED
      BY <1>1, <1>5, <2>1 DEF Live
  <1> QED
    BY <1>3, <1>4, <1>5 DEF ExecsOK

\* What Started makes of an instance that runs, and the one it adds.
Demoted(e, id, host) ==
    IF e.known /\ e.id = id /\ e.host = host THEN [e EXCEPT !.known = FALSE] ELSE e

LEMMA DemotedFields ==
  ASSUME NEW e \in Exec, NEW id, NEW host
  PROVE  /\ Demoted(e, id, host) \in Exec
         /\ Demoted(e, id, host).id = e.id
         /\ Demoted(e, id, host).host = e.host
         /\ Demoted(e, id, host).confirmed = e.confirmed
         /\ Demoted(e, id, host).told = e.told
         /\ Demoted(e, id, host).known => ~(e.id = id /\ e.host = host)
                                          /\ Demoted(e, id, host) = e
  BY DEF Demoted, Exec

LEMMA StartedExecs ==
  ASSUME ExecsOK(execs), NEW id \in Ids, NEW h \in Hosts, NEW ok \in BOOLEAN
  PROVE  /\ ExecsOK(Started(id, h, ok))
         /\ \A x \in Started(id, h, ok) : Live(x) =>
               \/ \E e \in execs : Live(e) /\ e.id = x.id
               \/ x.id = id /\ ok
         /\ OneLive(execs) /\ (ok => \A e \in execs : Live(e) => e.id[1] # id[1]) =>
               OneLive(Started(id, h, ok))
  <1> DEFINE host == IF kind = "plain" THEN h ELSE Engine
             new  == [id |-> id, host |-> host, known |-> TRUE,
                      confirmed |-> ok, told |-> FALSE]
             same == {e \in execs : e.known /\ e.id = id /\ e.host = host}
             D(e) == Demoted(e, id, host)
  <1>1. /\ new \in Exec /\ new.id = id /\ new.host = host /\ new.known
        /\ new.confirmed = ok /\ ~new.told
    BY DEF Exec
  <1>2. CASE kind = "plain"
    <2>1. Started(id, h, ok) =
             (execs \ same) \cup {[e EXCEPT !.known = FALSE] : e \in same} \cup {new}
      BY <1>2 DEF Started
    <2>2. \A x \in Started(id, h, ok) : x = new \/ \E e \in execs : x = D(e)
      BY <2>1 DEF Demoted
    <2>3. \A e \in execs :
             /\ D(e) \in Exec /\ D(e).id = e.id /\ D(e).host = e.host
             /\ D(e).confirmed = e.confirmed /\ D(e).told = e.told
             /\ D(e).known => ~(e.id = id /\ e.host = host) /\ D(e) = e
      BY DemotedFields DEF ExecsOK
    <2> HIDE DEF D, new, host
    <2>4. Started(id, h, ok) \subseteq Exec
      BY <1>1, <2>2, <2>3
    <2>5. ASSUME NEW x \in Started(id, h, ok), NEW y \in Started(id, h, ok),
                 x.known, y.known, x.id = y.id, x.host = y.host
          PROVE  x = y
      BY <1>1, <2>2, <2>3, <2>5 DEF ExecsOK
    <2>6. ASSUME NEW x \in Started(id, h, ok), Live(x)
          PROVE  (\E e \in execs : Live(e) /\ e.id = x.id) \/ (x.id = id /\ ok)
      BY <1>1, <2>2, <2>3, <2>6 DEF Live
    <2>7. ASSUME OneLive(execs), ok => \A e \in execs : Live(e) => e.id[1] # id[1],
                 NEW x \in Started(id, h, ok), NEW y \in Started(id, h, ok),
                 Live(x), Live(y), x.id[1] = y.id[1]
          PROVE  x = y
      <3>1. CASE x = new /\ y = new
        BY <3>1
      <3>2. CASE x = new /\ \E e \in execs : y = D(e)
        BY <1>1, <2>3, <2>7, <3>2 DEF Live
      <3>3. CASE y = new /\ \E e \in execs : x = D(e)
        BY <1>1, <2>3, <2>7, <3>3 DEF Live
      <3>4. ASSUME NEW e \in execs, NEW f \in execs, x = D(e), y = D(f)
            PROVE  x = y
        <4>1. Live(e) /\ Live(f) /\ e.id[1] = f.id[1]
          BY <2>3, <2>7, <3>4 DEF Live
        <4> QED
          BY <2>7, <3>4, <4>1 DEF OneLive
      <3> QED
        BY <2>2, <3>1, <3>2, <3>3, <3>4
    <2> QED
      BY <2>4, <2>5, <2>6, <2>7 DEF ExecsOK, OneLive
  <1>3. CASE kind # "plain" /\ same = {}
    <2>1. Started(id, h, ok) = execs \cup {new}
      BY <1>3 DEF Started
    <2>2. \A e \in execs : ~(e.known /\ e.id = id /\ e.host = host)
      BY <1>3
    <2> HIDE DEF new, host, same
    <2>3. Started(id, h, ok) \subseteq Exec
      BY <1>1, <2>1 DEF ExecsOK
    <2>4. ASSUME NEW x \in Started(id, h, ok), NEW y \in Started(id, h, ok),
                 x.known, y.known, x.id = y.id, x.host = y.host
          PROVE  x = y
      BY <1>1, <2>1, <2>2, <2>4 DEF ExecsOK
    <2>5. ASSUME NEW x \in Started(id, h, ok), Live(x)
          PROVE  (\E e \in execs : Live(e) /\ e.id = x.id) \/ (x.id = id /\ ok)
      BY <1>1, <2>1, <2>5 DEF Live
    <2>6. ASSUME OneLive(execs), ok => \A e \in execs : Live(e) => e.id[1] # id[1],
                 NEW x \in Started(id, h, ok), NEW y \in Started(id, h, ok),
                 Live(x), Live(y), x.id[1] = y.id[1]
          PROVE  x = y
      BY <1>1, <2>1, <2>6 DEF OneLive, Live
    <2> QED
      BY <2>3, <2>4, <2>5, <2>6 DEF ExecsOK, OneLive
  <1>4. CASE kind # "plain" /\ same # {}
    <2>1. Started(id, h, ok) = execs
      BY <1>4 DEF Started
    <2> QED
      BY <2>1
  <1> QED
    BY <1>2, <1>3, <1>4

-----------------------------------------------------------------------------
(* What a step leaves alone.                                               *)

\* No live instance appears, and what is listed stays listed.
LEMMA NothingForgotten ==
  ASSUME NoneForgotten,
         \A x \in execs' : Live(x) => \E e \in execs : Live(e) /\ e.id = x.id,
         \A id \in Ids : Listed(id) => Listed(id)', ExecsOK(execs)
  PROVE  NoneForgotten'
  <1>1. \A e \in execs : Live(e) => Listed(e.id) /\ e.id \in Ids
    BY ForgottenMeansUnlisted DEF ExecsOK, Exec
  <1>2. \A x \in execs' : Live(x) => Listed(x.id)'
    BY <1>1
  <1> QED
    BY <1>2 DEF NoneForgotten, Live, Listed

\* The same handlers and ids list the same instances.
LEMMA SameList ==
  ASSUME NEW id, UNCHANGED <<ids, req>>
  PROVE  Listed(id)' <=> Listed(id)
  BY DEF Listed

-----------------------------------------------------------------------------
(* One action at a time: requests.                                         *)

\* A handler takes over the whole list, so what was listed stays listed.
LEMMA TakeIdsKeeps ==
  ASSUME SchedulingInv, NEW r \in Requests, NEW verb \in {"start", "stop"},
         TakeIds(r, verb), UNCHANGED <<netVars, tag, task, execs>>,
         loops' \subseteq loops, stopped' \in BOOLEAN
  PROVE  SchedulingInv'
  <1> USE DEF SchedulingInv
  <1>1. PICK direct \in BOOLEAN :
          req' = [req EXCEPT ![r] =
                     IF ids = {} THEN After(verb)
                     ELSE [NewHandler EXCEPT !.at = "terminate", !.verb = verb,
                                             !.ids = ids, !.direct = direct]]
    BY DEF TakeIds
  <1> DEFINE x == IF ids = {} THEN After(verb)
                  ELSE [NewHandler EXCEPT !.at = "terminate", !.verb = verb,
                                          !.ids = ids, !.direct = direct]
  <1>2. /\ HandlerOK(x) /\ x.ids = ids /\ ~x.ok
        /\ x.at \in {"terminate", "reset", "done"}
    <2>1. CASE ids = {}
      <3>1. x = Resetting \/ x = Done
        BY <2>1 DEF After
      <3> HIDE DEF x
      <3> QED
        BY <2>1, <3>1, FreshHandlers
    <2>2. CASE ids # {}
      <3>1. NewHandler \in Handler
        BY FreshHandlers DEF HandlerOK
      <3>2. x = [NewHandler EXCEPT !.at = "terminate", !.verb = verb,
                                   !.ids = ids, !.direct = direct]
        BY <2>2
      <3> HIDE DEF x
      <3>3. x \in Handler /\ x.ids = ids /\ x.at = "terminate" /\ x.id = None /\ x.ok = FALSE
        BY <3>1, <3>2 DEF Handler, ServerTypes, NewHandler
      <3> QED
        BY <2>2, <3>3 DEF HandlerOK
    <2> QED
      BY <2>1, <2>2
  <1>3. /\ req[r].at = "new" /\ asked' = verb /\ ids' = {}
        /\ overlapped' = (overlapped \/ ~Quiet)
        /\ execs' = execs /\ task' = task
    BY DEF TakeIds, Arrives
  <1>4. req' = [req EXCEPT ![r] = x]
    BY <1>1
  <1> HIDE DEF x
  <1>5. HandlersOK' /\ req'[r] = x /\ \A q \in Requests : q # r => req'[q] = req[q]
    BY <1>2, <1>4, HandlersMove
  <1>6. ServerTypes'
    BY <1>3 DEF ServerTypes, netVars
  <1>7. req[r].ids = {} /\ req[r].ok = FALSE
    BY <1>3, HandlerFacts
  <1>8. \A id \in Ids : Listed(id) => Listed(id)'
    <2> SUFFICES ASSUME NEW id \in Ids, Listed(id)
                 PROVE  Listed(id)'
      OBVIOUS
    <2>1. CASE id \in ids
      BY <1>2, <1>5, <2>1 DEF Listed
    <2>2. CASE \E q \in Requests : id \in req[q].ids \/ (req[q].ok /\ req[q].id = id)
      <3>1. PICK q \in Requests : id \in req[q].ids \/ (req[q].ok /\ req[q].id = id)
        BY <2>2
      <3>2. q # r
        BY <1>7, <3>1
      <3> QED
        BY <1>5, <3>1, <3>2 DEF Listed
    <2> QED
      BY <2>1, <2>2 DEF Listed
  <1>9. NoneForgotten'
    BY <1>3, <1>8, NothingForgotten
  <1>10. ASSUME ~overlapped'
         PROVE  Alone'
    <2>1. ~overlapped /\ Quiet
      BY <1>3, <1>10 DEF ServerTypes
    <2>2. \A q \in Requests : q # r => ~InProgress(q)'
      BY <1>5, <2>1 DEF Quiet, InProgress
    <2>3. OneAtATime'
      BY <2>2 DEF OneAtATime
    <2>4. RunReplaced'
      BY <1>2, <1>3, <1>5, <2>2 DEF RunReplaced, InProgress
    <2>5. OneLive(execs') /\ loops' \subseteq {task'}
      BY <1>3, <2>1 DEF Alone
    <2> QED
      BY <2>3, <2>4, <2>5 DEF Alone
  <1> QED
    BY <1>3, <1>5, <1>6, <1>9, <1>10

LEMMA StartKeeps ==
  ASSUME SchedulingInv, NEW r \in Requests, Start(r)
  PROVE  SchedulingInv'
  BY TakeIdsKeeps DEF Start, netVars, SchedulingInv, ServerTypes

LEMMA StopKeeps ==
  ASSUME SchedulingInv, NEW r \in Requests, Stop(r)
  PROVE  SchedulingInv'
  BY TakeIdsKeeps DEF Stop

\* A handler in progress moves on; no other appears.
LEMMA HandlerStep ==
  ASSUME SchedulingInv, NEW r \in Requests, InProgress(r), NEW x, HandlerOK(x),
         req' = [req EXCEPT ![r] = x], ~overlapped
  PROVE  /\ OneAtATime'
         /\ \A q \in Requests : q # r => ~InProgress(q) /\ ~InProgress(q)'
  <1>1. /\ req'[r] = x /\ \A q \in Requests : q # r => req'[q] = req[q]
        /\ OneAtATime
    BY HandlersMove DEF SchedulingInv, Alone
  <1>2. \A q \in Requests : q # r => ~InProgress(q) /\ ~InProgress(q)'
    BY <1>1 DEF OneAtATime, InProgress
  <1> QED
    BY <1>2 DEF OneAtATime

LEMMA TerminateKeeps ==
  ASSUME SchedulingInv, NEW r \in Requests, Terminate(r)
  PROVE  SchedulingInv'
  <1> USE DEF SchedulingInv
  <1>1. PICK id \in req[r].ids : TerminateOne(r, id)
    BY DEF Terminate
  <1> DEFINE left == req[r].ids \ {id}
             x == IF left = {} THEN After(req[r].verb)
                  ELSE [req[r] EXCEPT !.ids = left]
  <1>2. /\ req[r].at = "terminate" /\ InProgress(r)
        /\ req' = [req EXCEPT ![r] = x]
        /\ UNCHANGED <<netVars, serverVars, historyVars, overlapped, ids, loops, task>>
    <2>1. req[r].at = "terminate" /\ InProgress(r)
      BY <1>1 DEF TerminateOne, InProgress
    <2>2. req' = [req EXCEPT ![r] = x]
      BY <1>1 DEF TerminateOne
    <2> HIDE DEF x
    <2>3. UNCHANGED <<netVars, serverVars, historyVars>>
      BY DEF Terminate
    <2> QED
      BY <2>1, <2>2, <2>3 DEF serverVars, historyVars
  <1>3. PICK R : execs' = Terminated(id, R)
    BY <1>1 DEF TerminateOne
  <1>4. req[r] \in Handler /\ id \in Ids /\ req[r].id = None /\ req[r].ok = FALSE
    BY <1>2, HandlerFacts
  <1>5. /\ HandlerOK(x) /\ x.ids = req[r].ids \ {id}
        /\ x.at \in {"terminate", "reset", "done"}
    <2>1. CASE left = {}
      <3>1. x = Resetting \/ x = Done
        BY <2>1 DEF After
      <3> HIDE DEF x
      <3> QED
        BY <2>1, <3>1, FreshHandlers
    <2>2. CASE left # {}
      <3>1. x = [req[r] EXCEPT !.ids = left]
        BY <2>2
      <3> HIDE DEF x
      <3>2. /\ x \in Handler /\ x.at = "terminate" /\ x.id = None /\ x.ok = FALSE
            /\ x.ids = req[r].ids \ {id}
        BY <1>2, <1>4, <3>1 DEF Handler
      <3>3. x.ids # {}
        BY <2>2, <3>2
      <3> QED
        BY <3>2, <3>3 DEF HandlerOK
    <2> QED
      BY <2>1, <2>2
  <1> HIDE DEF x
  <1>6. HandlersOK' /\ req'[r] = x /\ \A q \in Requests : q # r => req'[q] = req[q]
    BY <1>2, <1>5, HandlersMove
  <1>7. ExecsOK(execs') /\ \A e \in execs' : Live(e) => e \in execs /\ e.id # id
    BY <1>3, <1>4, TerminatedExecs
  <1>8. ServerTypes'
    BY <1>2 DEF ServerTypes, netVars, serverVars, historyVars
  <1>9. NoneForgotten'
    <2> SUFFICES ASSUME NEW e \in execs', Live(e)
                 PROVE  Listed(e.id)'
      BY DEF NoneForgotten, Live, Listed
    <2>1. e \in execs /\ e.id # id /\ Listed(e.id)
      BY <1>7, ForgottenMeansUnlisted
    <2>2. CASE e.id \in ids
      BY <1>2, <2>2 DEF Listed
    <2>3. CASE \E q \in Requests : e.id \in req[q].ids \/ (req[q].ok /\ req[q].id = e.id)
      <3>1. PICK q \in Requests : e.id \in req[q].ids \/ (req[q].ok /\ req[q].id = e.id)
        BY <2>3
      <3>2. CASE q = r
        BY <1>4, <1>5, <1>6, <2>1, <3>1, <3>2 DEF Listed
      <3>3. CASE q # r
        BY <1>6, <3>1, <3>3 DEF Listed
      <3> QED
        BY <3>2, <3>3
    <2> QED
      BY <2>1, <2>2, <2>3 DEF Listed
  <1>10. ASSUME ~overlapped'
         PROVE  Alone'
    <2>1. ~overlapped /\ Alone
      BY <1>2, <1>10
    <2>2. OneAtATime' /\ \A q \in Requests : q # r => ~InProgress(q)'
      BY <1>2, <1>5, <2>1, HandlerStep
    <2>3. RunReplaced'
      BY <1>2, <1>5, <1>6, <2>1, <2>2 DEF Alone, RunReplaced, InProgress
    <2>4. OneLive(execs')
      BY <1>7, <2>1 DEF Alone, OneLive
    <2> QED
      BY <1>2, <2>1, <2>2, <2>3, <2>4 DEF Alone
  <1> QED
    BY <1>6, <1>7, <1>8, <1>9, <1>10

-----------------------------------------------------------------------------
(* One action at a time: the rest of start().                              *)

\* A handler leaves, or goes on to schedule, with nothing in its hands.
LEMMA HandlerDropsNothing ==
  ASSUME HandlersOK, NEW r \in Requests, req[r].ids = {}, req[r].ok = FALSE, NEW x,
         HandlerOK(x), req' = [req EXCEPT ![r] = x], UNCHANGED ids
  PROVE  \A id \in Ids : Listed(id) => Listed(id)'
  <1>1. \A q \in Requests : q # r => req'[q] = req[q]
    BY HandlersMove
  <1> QED
    BY <1>1 DEF Listed

LEMMA ResetKeeps ==
  ASSUME SchedulingInv, NEW r \in Requests, Reset(r)
  PROVE  SchedulingInv'
  <1> USE DEF SchedulingInv
  <1> DEFINE x == [req[r] EXCEPT !.at = "schedule"]
  <1>1. /\ req[r].at = "reset" /\ InProgress(r)
        /\ req' = [req EXCEPT ![r] = x]
        /\ stopped' = FALSE /\ tag' = clock /\ loops' = loops \ {task}
        /\ UNCHANGED <<netVars, ids, task, historyVars, execs, overlapped>>
    BY DEF Reset, InProgress, historyVars
  <1>2. req[r] \in Handler /\ req[r].ids = {} /\ req[r].id = None /\ req[r].ok = FALSE
    BY <1>1, HandlerFacts
  <1>3. HandlerOK(x) /\ x.at = "schedule"
    BY <1>2 DEF HandlerOK, Handler
  <1> HIDE DEF x
  <1>4. HandlersOK' /\ req'[r] = x /\ \A q \in Requests : q # r => req'[q] = req[q]
    BY <1>1, <1>3, HandlersMove
  <1>5. ServerTypes'
    <2>1. tag' \in 0..clock'
      BY <1>1, SchedulingAssumption DEF ServerTypes, netVars
    <2>2. stopped' \in BOOLEAN /\ loops' \subseteq Requests
      BY <1>1 DEF ServerTypes
    <2> QED
      BY <1>1, <2>1, <2>2 DEF ServerTypes, netVars, historyVars
  <1>6. NoneForgotten'
    BY <1>1, <1>2, <1>3, HandlerDropsNothing, NothingForgotten
  <1>7. ASSUME ~overlapped'
        PROVE  Alone'
    <2>1. ~overlapped /\ Alone
      BY <1>1, <1>7
    <2>2. OneAtATime' /\ \A q \in Requests : q # r => ~InProgress(q)'
      BY <1>1, <1>3, <2>1, HandlerStep
    <2>3. ids' = {} /\ loops' = {}
      BY <1>1, <2>1 DEF Alone, RunReplaced
    <2>4. RunReplaced'
      BY <1>3, <1>4, <2>2, <2>3 DEF RunReplaced, InProgress
    <2> QED
      BY <1>1, <2>1, <2>2, <2>3, <2>4 DEF Alone
  <1> QED
    BY <1>1, <1>4, <1>5, <1>6, <1>7

LEMMA ResetFailsKeeps ==
  ASSUME SchedulingInv, NEW r \in Requests, ResetFails(r)
  PROVE  SchedulingInv'
  <1> USE DEF SchedulingInv
  <1>1. /\ req[r].at = "reset" /\ InProgress(r)
        /\ req' = [req EXCEPT ![r] = Done]
        /\ UNCHANGED <<netVars, serverVars, historyVars>>
        /\ UNCHANGED <<ids, task, loops, execs, overlapped>>
    BY DEF ResetFails, InProgress, historyVars, serverVars
  <1>2. req[r].ids = {} /\ req[r].ok = FALSE
    BY <1>1, HandlerFacts
  <1>3. HandlerOK(Done) /\ Done.at = "done"
    BY FreshHandlers
  <1>4. HandlersOK' /\ req'[r] = Done /\ \A q \in Requests : q # r => req'[q] = req[q]
    BY <1>1, <1>3, HandlersMove
  <1>5. ServerTypes'
    BY <1>1 DEF ServerTypes, netVars, historyVars, serverVars
  <1>6. NoneForgotten'
    BY <1>1, <1>2, <1>3, HandlerDropsNothing, NothingForgotten
  <1>7. ASSUME ~overlapped'
        PROVE  Alone'
    <2>1. ~overlapped /\ Alone
      BY <1>1, <1>7
    <2>2. OneAtATime' /\ \A q \in Requests : q # r => ~InProgress(q)'
      BY <1>1, <1>3, <2>1, HandlerStep
    <2>3. RunReplaced'
      BY <1>3, <1>4, <2>2 DEF RunReplaced, InProgress
    <2> QED
      BY <1>1, <2>1, <2>2, <2>3 DEF Alone
  <1> QED
    BY <1>1, <1>4, <1>5, <1>6, <1>7

\* What is started is in the hands of the handler until it is noted.  Its
\* account has nothing live: the handler has only scheduled earlier ones.
LEMMA PostKeeps ==
  ASSUME SchedulingInv, NEW r \in Requests, Post(r)
  PROVE  SchedulingInv'
  <1> USE DEF SchedulingInv
  <1>0. PICK id : id = <<req[r].next, tag>>
    OBVIOUS
  <1>1. /\ req[r].at = "schedule" /\ req[r].id = None /\ req[r].next <= Accounts
        /\ InProgress(r)
        /\ UNCHANGED <<netVars, serverVars, historyVars>>
        /\ UNCHANGED <<ids, task, loops, overlapped>>
    BY DEF Post, InProgress, historyVars, serverVars
  <1>2. req[r] \in Handler /\ req[r].ids = {} /\ req[r].ok = FALSE
    BY <1>1, HandlerFacts
  <1>3. id \in Ids /\ id[1] = req[r].next /\ id # None
    <2>1. req[r].next \in 1..Accounts /\ tag \in 0..MaxClock
      BY <1>1, <1>2, SchedulingAssumption DEF Handler, ServerTypes
    <2> QED
      BY <1>0, <2>1, NoIdAssumption DEF Ids
  <1>4. PICK ok \in BOOLEAN :
              /\ req' = [req EXCEPT ![r].id = id, ![r].ok = ok]
              /\ \/ ~ok /\ UNCHANGED execs
                 \/ \E h \in up : execs' = Started(id, h, ok)
    BY <1>0 DEF Post
  <1> DEFINE x == [req[r] EXCEPT !.id = id, !.ok = ok]
  <1>5. req' = [req EXCEPT ![r] = x]
    BY <1>4
  <1>6. /\ HandlerOK(x) /\ x.at = "schedule" /\ x.next = req[r].next
        /\ x.id = id /\ x.ok = ok /\ x.ids = {}
    BY <1>1, <1>2, <1>3 DEF HandlerOK, Handler
  <1> HIDE DEF x
  <1>7. HandlersOK' /\ req'[r] = x /\ \A q \in Requests : q # r => req'[q] = req[q]
    BY <1>5, <1>6, HandlersMove
  <1>8. ServerTypes'
    BY <1>1 DEF ServerTypes, netVars, historyVars, serverVars
  <1>9. /\ ExecsOK(execs')
        /\ \A e \in execs' : Live(e) => \/ \E f \in execs : Live(f) /\ f.id = e.id
                                        \/ e.id = id /\ ok
        /\ OneLive(execs) /\ (ok => \A e \in execs : Live(e) => e.id[1] # id[1])
              => OneLive(execs')
    <2>1. CASE UNCHANGED execs
      BY <2>1
    <2>2. CASE \E h \in up : execs' = Started(id, h, ok)
      <3>1. PICK h \in Hosts : execs' = Started(id, h, ok)
        BY <2>2 DEF ServerTypes
      <3> QED
        BY <1>3, <3>1, StartedExecs
    <2> QED
      BY <1>4, <2>1, <2>2
  <1>10. NoneForgotten'
    <2>1. \A i \in Ids : Listed(i) => Listed(i)'
      BY <1>1, <1>2, <1>5, <1>6, HandlerDropsNothing
    <2>2. \A f \in execs : Live(f) => Listed(f.id) /\ f.id \in Ids
      BY ForgottenMeansUnlisted DEF ExecsOK, Exec
    <2>3. ok => Listed(id)'
      BY <1>6, <1>7 DEF Listed
    <2>4. \A e \in execs' : Live(e) => Listed(e.id)'
      BY <1>9, <2>1, <2>2, <2>3
    <2> QED
      BY <2>4 DEF NoneForgotten, Live, Listed
  <1>11. ASSUME ~overlapped'
         PROVE  Alone'
    <2>1. ~overlapped /\ Alone
      BY <1>1, <1>11
    <2>2. OneAtATime' /\ \A q \in Requests : q # r => ~InProgress(q) /\ ~InProgress(q)'
      BY <1>1, <1>5, <1>6, <2>1, HandlerStep
    <2>3. loops = {} /\ \A i \in ids : i[1] < req[r].next
      BY <1>1, <2>1 DEF Alone, RunReplaced
    <2>4. RunReplaced'
      BY <1>1, <1>6, <1>7, <2>2, <2>3 DEF RunReplaced, InProgress
    <2>5. \A i : Listed(i) => i \in ids
      <3>1. \A q \in Requests : req[q].ids = {} /\ req[q].ok = FALSE
        BY <1>2, <2>2, HandlerFacts DEF InProgress
      <3> QED
        BY <3>1 DEF Listed
    <2>6. \A e \in execs : Live(e) => e.id[1] # id[1]
      <3>1. \A e \in execs : Live(e) => e.id \in ids
        BY <2>5, ForgottenMeansUnlisted
      <3>2. \A i \in ids : i[1] # req[r].next
        BY <1>2, <2>3 DEF Handler, ServerTypes, Ids
      <3> QED
        BY <1>3, <3>1, <3>2
    <2>7. OneLive(execs')
      BY <1>9, <2>1, <2>6 DEF Alone
    <2> QED
      BY <1>1, <2>1, <2>2, <2>4, <2>7 DEF Alone
  <1> QED
    BY <1>7, <1>8, <1>9, <1>10, <1>11
LEMMA AnsweredKeeps ==
  ASSUME SchedulingInv, NEW r \in Requests, Answered(r)
  PROVE  SchedulingInv'
  <1> USE DEF SchedulingInv
  <1>0. PICK id : id = req[r].id
    OBVIOUS
  <1> DEFINE x == [req[r] EXCEPT !.id = None, !.ok = FALSE, !.next = req[r].next + 1]
  <1>1. /\ id # None
        /\ req' = [req EXCEPT ![r] = x]
        /\ ids' = IF req[r].ok THEN ids \cup {id} ELSE ids
        /\ UNCHANGED <<netVars, tag, task, loops, stopped, historyVars, execs, overlapped>>
    BY <1>0 DEF Answered, historyVars
  <1>2. req[r] \in Handler /\ req[r].ids = {}
    BY <1>0, <1>1, HandlerFacts
  <1>3. /\ req[r].at = "schedule" /\ id \in Ids /\ req[r].next = id[1] /\ InProgress(r)
        /\ id[1] \in 1..Accounts
    <2>1. req[r].at = "schedule" /\ req[r].next = id[1]
      BY <1>0, <1>1 DEF HandlersOK, HandlerOK
    <2>2. id \in Ids
      BY <1>0, <1>1, <1>2 DEF Handler
    <2> QED
      BY <2>1, <2>2 DEF InProgress, Ids
  <1>4. /\ HandlerOK(x) /\ x.at = "schedule" /\ x.next = req[r].next + 1 /\ x.ids = {}
    <2>1. req[r].next + 1 \in 1..(Accounts + 1)
      BY <1>3, SchedulingAssumption
    <2> QED
      BY <1>2, <1>3, <2>1 DEF HandlerOK, Handler
  <1> HIDE DEF x
  <1>5. HandlersOK' /\ req'[r] = x /\ \A q \in Requests : q # r => req'[q] = req[q]
    BY <1>1, <1>4, HandlersMove
  <1>6. ids \subseteq ids' /\ ids' \subseteq ids \cup {id} /\ (req[r].ok => id \in ids')
    BY <1>1
  <1>7. ServerTypes'
    <2>1. ids' \subseteq Ids
      BY <1>3, <1>6 DEF ServerTypes
    <2> QED
      BY <1>1, <2>1 DEF ServerTypes, netVars, historyVars
  <1>8. NoneForgotten'
    <2>1. ASSUME NEW i \in Ids, Listed(i)
          PROVE  Listed(i)'
      <3>1. CASE i \in ids
        BY <1>6, <3>1 DEF Listed
      <3>2. ASSUME NEW q \in Requests, i \in req[q].ids \/ (req[q].ok /\ req[q].id = i)
            PROVE  Listed(i)'
        BY <1>0, <1>2, <1>5, <1>6, <3>2 DEF Listed
      <3> QED
        BY <2>1, <3>1, <3>2 DEF Listed
    <2> QED
      BY <1>1, <2>1, NothingForgotten
  <1>9. ASSUME ~overlapped'
        PROVE  Alone'
    <2>1. ~overlapped /\ Alone
      BY <1>1, <1>9
    <2>2. OneAtATime' /\ \A q \in Requests : q # r => ~InProgress(q)'
      BY <1>1, <1>3, <1>4, <2>1, HandlerStep
    <2>3. loops = {} /\ \A i \in ids : i[1] < req[r].next
      BY <1>3, <2>1 DEF Alone, RunReplaced
    <2>4. \A i \in ids' : i[1] < x.next
      <3>1. \A i \in ids : i[1] < x.next
        <4>1. \A i \in ids : i[1] \in 1..Accounts
          BY DEF ServerTypes, Ids
        <4> QED
          BY <1>3, <1>4, <2>3, <4>1, SchedulingAssumption
      <3>2. id[1] < x.next
        BY <1>3, <1>4, SchedulingAssumption
      <3> QED
        BY <1>6, <3>1, <3>2
    <2>5. RunReplaced'
      BY <1>1, <1>4, <1>5, <2>2, <2>3, <2>4 DEF RunReplaced, InProgress
    <2> QED
      BY <1>1, <2>1, <2>2, <2>5 DEF Alone
  <1> QED
    BY <1>1, <1>5, <1>7, <1>8, <1>9

\* With the stop flag cleared and the old loop gone, there is one loop.
LEMMA CreateLoopKeeps ==
  ASSUME SchedulingInv, NEW r \in Requests, CreateLoop(r)
  PROVE  SchedulingInv'
  <1> USE DEF SchedulingInv
  <1>1. /\ req[r].at = "schedule" /\ req[r].id = None /\ InProgress(r)
        /\ req' = [req EXCEPT ![r] = Done]
        /\ task' = r /\ loops' = loops \cup {r}
        /\ UNCHANGED <<netVars, ids, tag, stopped, historyVars, execs, overlapped>>
    BY DEF CreateLoop, InProgress, historyVars
  <1>2. req[r].ids = {} /\ req[r].ok = FALSE
    BY <1>1, HandlerFacts
  <1>3. HandlerOK(Done) /\ Done.at = "done"
    BY FreshHandlers
  <1>4. HandlersOK' /\ req'[r] = Done /\ \A q \in Requests : q # r => req'[q] = req[q]
    BY <1>1, <1>3, HandlersMove
  <1>5. ServerTypes'
    <2>1. task' \in Requests /\ loops' \subseteq Requests
      BY <1>1 DEF ServerTypes
    <2> QED
      BY <1>1, <2>1 DEF ServerTypes, netVars, historyVars
  <1>6. NoneForgotten'
    BY <1>1, <1>2, <1>3, HandlerDropsNothing, NothingForgotten
  <1>7. ASSUME ~overlapped'
        PROVE  Alone'
    <2>1. ~overlapped /\ Alone
      BY <1>1, <1>7
    <2>2. OneAtATime' /\ \A q \in Requests : q # r => ~InProgress(q)'
      BY <1>1, <1>3, <2>1, HandlerStep
    <2>3. RunReplaced'
      BY <1>3, <1>4, <2>2 DEF RunReplaced, InProgress
    <2>4. loops' \subseteq {task'}
      BY <1>1, <2>1 DEF Alone, RunReplaced
    <2> QED
      BY <1>1, <2>1, <2>2, <2>3, <2>4 DEF Alone
  <1> QED
    BY <1>1, <1>4, <1>5, <1>6, <1>7

-----------------------------------------------------------------------------
(* One action at a time: around the requests.                              *)

\* Instances end, lose their registration or are started without an answer:
\* none becomes one that is supposed to run.
LEMMA NoNewLive ==
  ASSUME SchedulingInv, UNCHANGED <<req, ids, task, loops, overlapped>>, ServerTypes',
         ExecsOK(execs'),
         \A x \in execs' : Live(x) => \E e \in execs : Live(e) /\ e.id = x.id,
         OneLive(execs) => OneLive(execs')
  PROVE  SchedulingInv'
  <1> USE DEF SchedulingInv
  <1>1. HandlersOK'
    BY DEF HandlersOK
  <1>2. NoneForgotten'
    BY SameList, NothingForgotten
  <1>3. ~overlapped' => Alone'
    BY DEF Alone, OneAtATime, RunReplaced, InProgress
  <1> QED
    BY <1>1, <1>2, <1>3

LEMMA EndsKeeps ==
  ASSUME SchedulingInv, NEW e \in execs, Ends(e)
  PROVE  SchedulingInv'
  <1>1. /\ UNCHANGED <<req, ids, task, loops, overlapped>> /\ ServerTypes'
        /\ execs' = execs \ {e}
    BY DEF Ends, SchedulingInv, ServerTypes, netVars, serverVars, historyVars
  <1>2. ExecsOK(execs') /\ (OneLive(execs) => OneLive(execs'))
    BY <1>1 DEF SchedulingInv, ExecsOK, OneLive
  <1>3. \A x \in execs' : Live(x) => \E f \in execs : Live(f) /\ f.id = x.id
    BY <1>1
  <1> QED
    BY <1>1, <1>2, <1>3, NoNewLive

LEMMA PurgeKeeps ==
  ASSUME SchedulingInv, NEW e \in execs, Purge(e)
  PROVE  SchedulingInv'
  <1>1. /\ UNCHANGED <<req, ids, task, loops, overlapped>>
        /\ execs' = (execs \ {e}) \cup {[e EXCEPT !.known = FALSE]}
        /\ faults' \in 0..MaxFaults
        /\ UNCHANGED <<kind, up, clock, tag, stopped, asked>>
    BY SchedulingAssumption
       DEF Purge, Fault, SchedulingInv, ServerTypes, serverVars, historyVars
  <1>2. ServerTypes'
    BY <1>1 DEF SchedulingInv, ServerTypes
  <1> DEFINE x == [e EXCEPT !.known = FALSE]
  <1>3. /\ x \in Exec /\ x.id = e.id /\ x.confirmed = e.confirmed /\ x.told = e.told
        /\ ~x.known
    BY DEF SchedulingInv, ExecsOK, Exec
  <1>4. execs' = (execs \ {e}) \cup {x}
    BY <1>1
  <1> HIDE DEF x
  <1>5. Live(x) => Live(e)
    BY <1>3 DEF Live
  <1>6. ExecsOK(execs')
    BY <1>3, <1>4 DEF SchedulingInv, ExecsOK
  <1>7. \A y \in execs' : Live(y) => \E f \in execs : Live(f) /\ f.id = y.id
    BY <1>3, <1>4, <1>5
  <1>8. OneLive(execs) => OneLive(execs')
    BY <1>3, <1>4, <1>5 DEF OneLive
  <1> QED
    BY <1>1, <1>2, <1>6, <1>7, <1>8, NoNewLive

LEMMA TriggerKeeps ==
  ASSUME SchedulingInv, NEW c \in 1..Accounts, Trigger(c)
  PROVE  SchedulingInv'
  <1>1. PICK h \in up : execs' = Started(<<c, 0>>, h, FALSE)
    BY DEF Trigger
  <1>2. /\ UNCHANGED <<req, ids, task, loops, overlapped>>
        /\ faults' \in 0..MaxFaults
        /\ UNCHANGED <<kind, up, clock, tag, stopped, asked>>
    BY SchedulingAssumption
       DEF Trigger, Fault, SchedulingInv, ServerTypes, serverVars, historyVars
  <1>3. ServerTypes'
    BY <1>2 DEF SchedulingInv, ServerTypes
  <1>4. <<c, 0>> \in Ids /\ h \in Hosts
    BY SchedulingAssumption DEF SchedulingInv, ServerTypes, Ids
  <1>5. ExecsOK(execs)
    BY DEF SchedulingInv
  <1>6. /\ ExecsOK(execs')
        /\ \A x \in execs' : Live(x) => \E e \in execs : Live(e) /\ e.id = x.id
        /\ OneLive(execs) => OneLive(execs')
    BY <1>1, <1>4, <1>5, StartedExecs
  <1> QED
    BY <1>2, <1>3, <1>6, NoNewLive

LEMMA HostDiesKeeps ==
  ASSUME SchedulingInv, NEW h \in Hosts, HostDies(h)
  PROVE  SchedulingInv'
  <1>1. /\ UNCHANGED <<req, ids, task, loops, overlapped>>
        /\ faults' \in 0..MaxFaults /\ up' = up \ {h}
        /\ execs' = {e \in execs : e.host # h}
        /\ UNCHANGED <<kind, clock, tag, stopped, asked>>
    BY SchedulingAssumption
       DEF HostDies, Fault, SchedulingInv, ServerTypes, serverVars, historyVars
  <1>2. ServerTypes'
    BY <1>1 DEF SchedulingInv, ServerTypes
  <1>3. ExecsOK(execs') /\ (OneLive(execs) => OneLive(execs'))
    BY <1>1 DEF SchedulingInv, ExecsOK, OneLive
  <1>4. \A x \in execs' : Live(x) => \E f \in execs : Live(f) /\ f.id = x.id
    BY <1>1
  <1> QED
    BY <1>1, <1>2, <1>3, <1>4, NoNewLive

\* A pod comes back, a second passes, a loop ends, or nothing happens.
LEMMA RestKeeps ==
  ASSUME SchedulingInv,
         \/ \E h \in Hosts : HostReplaced(h)
         \/ WatchEnds \/ Tick \/ UNCHANGED schedulingVars
  PROVE  SchedulingInv'
  <1> USE DEF SchedulingInv
  <1>1. UNCHANGED <<req, ids, task, execs, overlapped>> /\ loops' \subseteq loops
    BY DEF HostReplaced, WatchEnds, Tick, schedulingVars, serverVars, historyVars
  <1>2. ServerTypes'
    <2>1. CASE \E h \in Hosts : HostReplaced(h)
      BY <2>1 DEF ServerTypes, HostReplaced, serverVars, historyVars
    <2>2. CASE WatchEnds
      BY <2>2 DEF ServerTypes, WatchEnds, netVars, historyVars
    <2>3. CASE Tick
      <3>1. clock' \in 1..MaxClock /\ tag \in 0..clock' /\ tag' = tag
        BY <2>3, SchedulingAssumption DEF ServerTypes, Tick, serverVars
      <3> QED
        BY <2>3, <3>1 DEF ServerTypes, Tick, serverVars, historyVars
    <2>4. CASE UNCHANGED schedulingVars
      BY <2>4 DEF ServerTypes, schedulingVars, netVars, serverVars, historyVars
    <2> QED
      BY <2>1, <2>2, <2>3, <2>4
  <1>3. HandlersOK' /\ ExecsOK(execs')
    BY <1>1 DEF HandlersOK
  <1>4. NoneForgotten'
    BY <1>1 DEF NoneForgotten
  <1>5. ~overlapped' => Alone'
    BY <1>1 DEF Alone, OneAtATime, RunReplaced, InProgress
  <1> QED
    BY <1>1, <1>2, <1>3, <1>4, <1>5

\* The server that comes back has confirmed nothing.
LEMMA ServerRestartsKeeps ==
  ASSUME SchedulingInv, ServerRestarts
  PROVE  SchedulingInv'
  <1> USE DEF SchedulingInv
  <1>1. /\ ids' = {} /\ tag' = 0 /\ task' = None /\ loops' = {} /\ stopped' = FALSE
        /\ req' = [r \in Requests |-> IF InProgress(r) THEN Done ELSE req[r]]
        /\ execs' = {[e EXCEPT !.confirmed = FALSE] : e \in execs}
        /\ asked' = None /\ faults' \in 0..MaxFaults
        /\ UNCHANGED <<kind, up, clock, overlapped>>
    BY SchedulingAssumption DEF ServerRestarts, Fault, ServerTypes
  <1>2. ServerTypes'
    <2>1. tag' \in 0..clock' /\ clock' \in 1..MaxClock
      BY <1>1, SchedulingAssumption DEF ServerTypes
    <2>2. ids' \subseteq Ids /\ loops' \subseteq Requests /\ stopped' \in BOOLEAN
      BY <1>1
    <2> QED
      BY <1>1, <2>1, <2>2 DEF ServerTypes
  <1>3. HandlerOK(Done) /\ Done.at = "done"
    BY FreshHandlers
  <1>4. \A r \in Requests : HandlerOK(req'[r]) /\ req'[r] \in Handler /\ ~InProgress(r)'
    BY <1>1, <1>3 DEF HandlersOK, InProgress, HandlerOK
  <1>5. HandlersOK'
    BY <1>1, <1>4 DEF HandlersOK
  <1> DEFINE F(e) == [e EXCEPT !.confirmed = FALSE]
  <1>6. \A e \in execs :
           /\ F(e) \in Exec /\ F(e).id = e.id /\ F(e).host = e.host
           /\ F(e).known = e.known /\ ~F(e).confirmed
    BY DEF ExecsOK, Exec
  <1>7. \A x \in execs' : \E e \in execs : x = F(e)
    BY <1>1
  <1> HIDE DEF F
  <1>8. ExecsOK(execs')
    <2>1. execs' \subseteq Exec
      BY <1>6, <1>7
    <2>2. ASSUME NEW x \in execs', NEW y \in execs',
                 x.known, y.known, x.id = y.id, x.host = y.host
          PROVE  x = y
      <3>1. PICK e \in execs, f \in execs : x = F(e) /\ y = F(f)
        BY <1>7
      <3>2. e = f
        BY <1>6, <2>2, <3>1 DEF ExecsOK
      <3> QED
        BY <3>1, <3>2
    <2> QED
      BY <2>1, <2>2 DEF ExecsOK
  <1>9. \A x \in execs' : ~x.confirmed
    BY <1>6, <1>7
  <1>10. NoneForgotten'
    BY <1>9 DEF NoneForgotten
  <1>11. Alone'
    <2>1. OneAtATime' /\ RunReplaced'
      BY <1>4 DEF OneAtATime, RunReplaced, InProgress
    <2> QED
      BY <1>1, <1>9, <2>1 DEF Alone, OneLive, Live
  <1> QED
    BY <1>2, <1>5, <1>8, <1>10, <1>11

-----------------------------------------------------------------------------
(* The invariant, and what follows from it.                                *)

LEMMA InitSchedulingInv == SchedulingInit => SchedulingInv
  <1> SUFFICES ASSUME SchedulingInit PROVE SchedulingInv
    OBVIOUS
  <1>1. ServerTypes
    <2>1. tag \in 0..clock /\ clock \in 1..MaxClock /\ faults \in 0..MaxFaults
      BY SchedulingAssumption DEF SchedulingInit
    <2>2. /\ up \subseteq Hosts /\ ids \subseteq Ids /\ loops \subseteq Requests
          /\ stopped \in BOOLEAN /\ overlapped \in BOOLEAN
      BY DEF SchedulingInit
    <2> QED
      BY <2>1, <2>2 DEF SchedulingInit, ServerTypes
  <1>2. HandlersOK /\ \A r \in Requests : ~InProgress(r)
    <2>1. \A r \in Requests : req[r] = NewHandler
      BY DEF SchedulingInit
    <2>2. HandlerOK(NewHandler) /\ NewHandler \in Handler /\ NewHandler.at = "new"
      BY FreshHandlers DEF HandlerOK
    <2>3. req \in [Requests -> Handler]
      BY <2>2 DEF SchedulingInit
    <2> QED
      BY <2>1, <2>2, <2>3 DEF HandlersOK, InProgress
  <1>3. ExecsOK(execs) /\ NoneForgotten
    BY DEF SchedulingInit, ExecsOK, NoneForgotten
  <1>4. Alone
    BY <1>2 DEF SchedulingInit, Alone, OneAtATime, RunReplaced, OneLive, InProgress
  <1> QED
    BY <1>1, <1>2, <1>3, <1>4 DEF SchedulingInv

LEMMA NextSchedulingInv ==
  SchedulingInv /\ [SchedulingNext]_schedulingVars => SchedulingInv'
  <1> SUFFICES ASSUME SchedulingInv, [SchedulingNext]_schedulingVars
               PROVE  SchedulingInv'
    OBVIOUS
  <1>1. ASSUME NEW r \in Requests, Start(r) \/ Stop(r) \/ Handle(r)
        PROVE  SchedulingInv'
    BY <1>1, StartKeeps, StopKeeps, TerminateKeeps, ResetKeeps, ResetFailsKeeps,
       PostKeeps, AnsweredKeeps, CreateLoopKeeps DEF Handle
  <1>2. ASSUME NEW e \in execs, Ends(e) \/ Purge(e)
        PROVE  SchedulingInv'
    BY <1>2, EndsKeeps, PurgeKeeps
  <1>3. ASSUME NEW c \in 1..Accounts, Trigger(c)
        PROVE  SchedulingInv'
    BY <1>3, TriggerKeeps
  <1>4. ASSUME NEW h \in Hosts, HostDies(h)
        PROVE  SchedulingInv'
    BY <1>4, HostDiesKeeps
  <1>5. ASSUME \/ \E h \in Hosts : HostReplaced(h)
               \/ WatchEnds \/ Tick \/ UNCHANGED schedulingVars
        PROVE  SchedulingInv'
    BY <1>5, RestKeeps
  <1>6. CASE ServerRestarts
    BY <1>6, ServerRestartsKeeps
  <1> QED
    BY <1>1, <1>2, <1>3, <1>4, <1>5, <1>6 DEF SchedulingNext

\* However requests overlap, whichever pods, engine or server fail, and with
\* the outcomes of every call, the invariant holds.
THEOREM SchedulingInvariance == SchedulingSpec => []SchedulingInv
  <1>1. SchedulingInit => SchedulingInv
    BY InitSchedulingInv
  <1>2. SchedulingInv /\ [SchedulingNext]_schedulingVars => SchedulingInv'
    BY NextSchedulingInv
  <1> QED
    BY <1>1, <1>2, PTL DEF SchedulingSpec

\* The variables of the server, its handlers and the instances stay what they
\* are meant to be; at most one instance per id and host is in a registry.
THEOREM SchedulingTypes == SchedulingSpec => []SchedulingTypeOK
  <1>1. SchedulingInv => SchedulingTypeOK
    <2> SUFFICES ASSUME SchedulingInv PROVE SchedulingTypeOK
      OBVIOUS
    <2>1. \A r \in Requests :
            /\ (req[r].at = "terminate") <=> (req[r].ids # {})
            /\ req[r].id # None => req[r].at = "schedule" /\ req[r].next = req[r].id[1]
      BY DEF SchedulingInv, HandlersOK, HandlerOK
    <2> QED
      BY <2>1 DEF SchedulingInv, ServerTypes, HandlersOK, ExecsOK, SchedulingTypeOK
  <1> QED
    BY <1>1, SchedulingInvariance, PTL

\* terminate_all reaches every instance whose scheduling was confirmed: none
\* is ever without a place in the server's lists, unless it was told to end.
THEOREM ConfirmedAreListed == SchedulingSpec => []NoneForgotten
  <1>1. SchedulingInv => NoneForgotten
    BY DEF SchedulingInv
  <1> QED
    BY <1>1, SchedulingInvariance, PTL

\* start() clears stragglers first: without overlap, one instance per account.
THEOREM OneInstancePerAccount == SchedulingSpec => []OnePerAccount
  <1>1. SchedulingInv => OnePerAccount
    BY DEF SchedulingInv, Alone, OneLive, Live, OnePerAccount
  <1> QED
    BY <1>1, SchedulingInvariance, PTL

\* One completion loop, and it is the one that stop() would cancel.
THEOREM OneCompletionLoop == SchedulingSpec => []OneWatcher
  <1>1. SchedulingInv => OneWatcher
    BY DEF SchedulingInv, Alone, OneWatcher
  <1> QED
    BY <1>1, SchedulingInvariance, PTL
=============================================================================

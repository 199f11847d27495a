------------------------------ MODULE EventLog ------------------------------
(***************************************************************************)
(* The hub's side of a timeline: the append-only table route_events, the   *)
(* status column and the map of provisioning runs that the readers of a    *)
(* route wait for (hub/server/route-orchestrator.js), and the long poll    *)
(* GET .../events?wait=1 of hub/server/routes.js.  What a run does to      *)
(* servers and panels is RouteLifecycle's; here it only writes stages.     *)
(*                                                                         *)
(* The ids of the events of all routes come from one AUTOINCREMENT column; *)
(* nothing compares the ids of two routes except for equality, and an      *)
(* event is here its route with its place among the events of the route.   *)
(***************************************************************************)
EXTENDS Integers, SequencesExt

CONSTANTS
  Routes,      \* the ids of gre_routes: a GRE connection is the same row
  Pollers,     \* API clients that follow a route with wait=1
  MaxEvents,   \* bound: events of a route, but for first and last words
  MaxAttempts, \* bound: provisioning attempts of a route
  MaxRestarts  \* bound: restarts of the hub

ASSUME LogAssumption ==
  /\ Routes \subseteq Nat \ {0}
  /\ MaxEvents \in Nat /\ MaxAttempts \in Nat /\ MaxRestarts \in Nat

VARIABLES
  log,       \* route_events: route -> the number of its rows
  status,    \* route -> its status column; "none" before the row exists
  attempt,   \* route -> attempt_no
  running,   \* routes in the `running` map
  executing, \* <<route, attempt>> of the runs still executing, timed out or not
  waiters,   \* poller -> its promise in eventWaiters, or NoWait
  heard,     \* poller -> route -> the events its replies have brought it
  restarts

hubVars == <<log, status, attempt, running, executing>>
pollVars == <<waiters, heard>>

NoWait == [route |-> 0, after |-> 0]
(* Mutant of Terminal: the statuses a run ends with.                       *)
TerminalOfRun == {"ACTIVE", "FAILED"}

(* TERMINAL_STATUSES of the page.                                          *)
Terminal == {"ACTIVE", "FAILED", "STALE", "NEEDS_REVIEW"}

(* A route of the past is one whose last attempt has failed.               *)
LogInit ==
  /\ status \in [Routes -> {"none", "FAILED"}]
  /\ attempt   = [r \in Routes |-> IF status[r] = "none" THEN 0 ELSE 1]
  /\ log       = attempt
  /\ running   = {} /\ executing = {}
  /\ waiters   = [p \in Pollers |-> NoWait]
  /\ heard     = [p \in Pollers |-> [r \in Routes |-> <<>>]]
  /\ restarts  = 0

-----------------------------------------------------------------------------
(* events(routeId, afterId).                                               *)
EventsAfter(history, r, after) == [n \in 1..(history[r] - after) |-> <<r, after + n>>]

(* The waiters of a route, all of them woken by its next event.            *)
Woken(r) == {p \in Pollers : waiters[p].route = r}

(* event: append the row and, in the same turn of the event loop, resolve  *)
(* every waiter of the route with what is now newer than its after_id.     *)
Event(r) ==
  LET woken == Woken(r) IN
  /\ log' = [log EXCEPT ![r] = @ + 1]
  /\ heard' = [p \in Pollers |-> IF p \in woken
                 THEN [heard[p] EXCEPT ![r] = @ \o EventsAfter(log', r, waiters[p].after)]
                 ELSE heard[p]]
  /\ waiters' = [p \in Pollers |-> IF p \in woken THEN NoWait ELSE waiters[p]]

Quiet == UNCHANGED <<log, pollVars>>

(* POST /gre-routes and POST .../retry, from the reservation on: the row   *)
(* is RESERVED, its first stage is logged and the run is in the map.       *)
StartRun(r) ==
  /\ status[r] # "ACTIVE" /\ r \notin running /\ attempt[r] < MaxAttempts
  /\ status'    = [status EXCEPT ![r] = "RESERVED"]
  /\ attempt'   = [attempt EXCEPT ![r] = @ + 1]
  /\ running'   = running \cup {r}
  /\ executing' = executing \cup {<<r, attempt[r] + 1>>}
  /\ Event(r)
  /\ UNCHANGED restarts

(* A stage of a run, or of an operation on the connection of the route     *)
(* (PUT /gre-connections/:id is refused while the route is provisioning).  *)
Stage(r) ==
  /\ \/ \E a \in 1..MaxAttempts : <<r, a>> \in executing
     \/ status[r] # "none" /\ r \notin running
  /\ log[r] < MaxEvents
  /\ Event(r)
  /\ UNCHANGED <<status, attempt, running, executing, restarts>>

(* run's last transaction, with the event of the same turn.                *)
Publish(r, a, verdict) ==
  /\ <<r, a>> \in executing
  /\ status'    = [status EXCEPT ![r] = verdict]
  /\ executing' = executing \ {<<r, a>>}
  /\ Event(r)
  /\ UNCHANGED <<attempt, running, restarts>>

(* startProvisioning: the promise of the run, or of its 15 minutes, has    *)
(* settled, and .finally removes it from the map.  The timeout writes the  *)
(* last word of a run that goes on executing.                              *)
Settle(r) ==
  /\ r \in running /\ <<r, attempt[r]>> \notin executing
  /\ running' = running \ {r}
  /\ UNCHANGED <<log, status, attempt, executing, pollVars, restarts>>

TimeOut(r) ==
  /\ r \in running /\ <<r, attempt[r]>> \in executing
  /\ running' = running \ {r}
  /\ IF status[r] = "RESERVED"
     THEN status' = [status EXCEPT ![r] = "FAILED"] /\ Event(r)
     ELSE UNCHANGED status /\ Quiet
  /\ UNCHANGED <<attempt, executing, restarts>>

(* The process is gone with its runs and waiters; a row RESERVED for more  *)
(* than 15 minutes is swept at the start of the next one (sweepAbandoned), *)
(* a younger one is left as it is.                                         *)
RestartHub(swept) ==
  /\ restarts < MaxRestarts
  /\ swept \in {{}} \cup {{r} : r \in {x \in Routes : status[x] = "RESERVED"}}
  /\ restarts'  = restarts + 1
  /\ status'    = [r \in Routes |-> IF r \in swept THEN "STALE" ELSE status[r]]
  /\ log'       = [r \in Routes |-> IF r \in swept THEN log[r] + 1 ELSE log[r]]
  /\ running'   = {} /\ executing' = {}
  /\ waiters'   = [p \in Pollers |-> NoWait]
  /\ UNCHANGED <<attempt, heard>>

-----------------------------------------------------------------------------
(* Mutant of WaitForEvent: the log is not read before the waiter is set.   *)
WaitUnread(p, r, after) ==
  /\ waiters' = [waiters EXCEPT ![p] = [route |-> r, after |-> after]]
  /\ UNCHANGED heard

(* waitForEvent: what is there already is the reply; otherwise the promise *)
(* is left in eventWaiters.                                                *)
WaitForEvent(p, r, after) ==
  LET immediate == EventsAfter(log, r, after) IN
  IF immediate # <<>>
  THEN heard' = [heard EXCEPT ![p][r] = @ \o immediate] /\ UNCHANGED waiters
  ELSE /\ waiters' = [waiters EXCEPT ![p] = [route |-> r, after |-> after]]
       /\ UNCHANGED heard

LastOf(events, before) == IF events = <<>> THEN before ELSE Last(events)[2]

(* A client asks with the last id it has; the wait window may close on it. *)
Poll(p, r) ==
  /\ waiters[p] = NoWait /\ status[r] # "none"
  /\ WaitForEvent(p, r, LastOf(heard[p][r], 0))
  /\ UNCHANGED <<hubVars, restarts>>

WaitExpires(p) ==
  LET r == waiters[p].route IN
  /\ waiters[p] # NoWait
  /\ heard' = [heard EXCEPT ![p][r] = @ \o EventsAfter(log, r, waiters[p].after)]
  /\ waiters' = [waiters EXCEPT ![p] = NoWait]
  /\ UNCHANGED <<hubVars, restarts>>

-----------------------------------------------------------------------------
(* A client that waits has every event of the route so far, once: none was *)
(* written between its reading the log and its being put on the list, and  *)
(* none passed it over (waitForEvent, event).                              *)
NoLostWakeup ==
  \A p \in Pollers : waiters[p] # NoWait =>
    LET r == waiters[p].route
    IN  heard[p][r] = EventsAfter(log, r, 0)
=============================================================================

--------------------------- MODULE RouteLifecycle ---------------------------
(***************************************************************************)
(* The requests of the hub's API on a GRE route (routes.js: create, PATCH, *)
(* retry, reconcile, delete) and the methods of the orchestrator they      *)
(* call, interleaved with the provisioning runs of RouteRuns, and a        *)
(* restart of the hub.                                                     *)
(*                                                                         *)
(* A request works on the copy of the row it read at its start; each step  *)
(* below ends at an await.                                                 *)
(***************************************************************************)
EXTENDS RouteRuns

CONSTANTS
  Handlers,           \* requests that can be in progress at once
  Requests,           \* the kinds of requests the operator makes
  OneRequestPerRoute, \* whether the operator waits for the end of a request,
                      \* and of a run, before the next one on the same route
  MaxRestarts         \* bound: restarts of the hub

ASSUME RequestSwitchesAssumption ==
  /\ Requests \subseteq {"edit", "reconcile", "retry", "delete"}
  /\ OneRequestPerRoute \in BOOLEAN /\ MaxRestarts \in Nat

VARIABLES
  ops,      \* handler -> the request it serves
  restarts

vars == <<runVars, ops, restarts>>

IdleOp == [kind |-> "idle", route |-> None, step |-> "none", row |-> NoRow,
           verdict |-> FALSE, blocked |-> FALSE, failed |-> FALSE]

Idle(h)          == ops[h].kind = "idle"
At(h, kind, s)   == ops[h].kind = kind /\ ops[h].step = s
Finish(h)        == ops' = [ops EXCEPT ![h] = IdleOp]
Begin(h, kind, r, s, row) ==
  ops' = [ops EXCEPT ![h] = [IdleOp EXCEPT !.kind = kind, !.route = r,
                                           !.step = s, !.row = row]]

(* The columns of the copy that a request uses after its first await.      *)
PortOnly(row)   == [NoRow EXCEPT !.port = row.port]
Owned(row)      == [NoRow EXCEPT !.peer = row.peer, !.inbound = row.inbound,
                                 !.owned = row.owned]
Judged(row)     == [row EXCEPT !.deleted = FALSE]

MayRequest(r, kind) ==
  /\ kind \in Requests
  /\ route[r].status # "none"
  /\ OneRequestPerRoute =>
       r \notin running /\ \A g \in Handlers : ops[g].route # r

Init == RunsInit /\ ops = [h \in Handlers |-> IdleOp] /\ restarts = 0

-----------------------------------------------------------------------------
(* POST /gre-routes: livePrepare, reserve and startProvisioning run        *)
(* without an await between them.                                          *)
Create(r, p) ==
  /\ route[r].status = "none"
  /\ ~AnyConflict(p)
  /\ route' = [route EXCEPT ![r].status = "RESERVED", ![r].port = p]
  /\ alloc' = [alloc EXCEPT ![r] = [status |-> "RESERVED", port |-> p]]
  /\ StartRun(r)
  /\ UNCHANGED <<remoteVars, ops, restarts, faults>>

-----------------------------------------------------------------------------
(* Mutants: of StartEdit, an ACTIVE route may be edited; of EditPort, the  *)
(* port is not checked against the registry, and the allocation is left.   *)
StartEditAlways(h, r) ==
  /\ Idle(h) /\ MayRequest(r, "edit")
  /\ ~route[r].deleted /\ r \notin running
  /\ Begin(h, "edit", r, "preflight", PortOnly(route[r]))
  /\ UNCHANGED <<runVars, restarts>>

EditPortUnchecked(h, p) ==
  LET r == ops[h].route IN
  /\ At(h, "edit", "preflight") /\ p # ops[h].row.port
  /\ route' = [route EXCEPT ![r].port = p]
  /\ alloc' = [alloc EXCEPT ![r].port = p]
  /\ Finish(h)
  /\ UNCHANGED <<remoteVars, runs, started, running, restarts, faults>>

EditRowOnly(h, p) ==
  LET r == ops[h].route IN
  /\ At(h, "edit", "preflight")
  /\ p # ops[h].row.port /\ ~Conflict(r, p)
  /\ route' = [route EXCEPT ![r].port = p]
  /\ Finish(h)
  /\ UNCHANGED <<alloc, remoteVars, runs, started, running, restarts, faults>>

(* PATCH /gre-routes/:id with a new port: the guards, the panel's          *)
(* preflight, then the conflict check and the two UPDATEs.                 *)
StartEdit(h, r) ==
  /\ Idle(h) /\ MayRequest(r, "edit")
  /\ ~route[r].deleted /\ r \notin running /\ route[r].status # "ACTIVE"
  /\ Begin(h, "edit", r, "preflight", PortOnly(route[r]))
  /\ UNCHANGED <<runVars, restarts>>

EditPort(h, p) ==
  LET r == ops[h].route IN
  /\ At(h, "edit", "preflight")
  /\ p # ops[h].row.port /\ ~Conflict(r, p)
  /\ route' = [route EXCEPT ![r].port = p]
  /\ alloc' = [alloc EXCEPT ![r].port = p]
  /\ Finish(h)
  /\ UNCHANGED <<remoteVars, runs, started, running, restarts, faults>>

EditRefused(h) ==
  /\ At(h, "edit", "preflight")
  /\ Finish(h)
  /\ UNCHANGED <<runVars, restarts>>

-----------------------------------------------------------------------------
(* reconcile(), alone or as the first half of prepareForRetry().           *)
StartReconcile(h, r) ==
  /\ Idle(h) /\ MayRequest(r, "reconcile")
  /\ Begin(h, "reconcile", r, "probe", Judged(route[r]))
  /\ UNCHANGED <<runVars, restarts>>

StartRetry(h, r) ==
  /\ Idle(h) /\ MayRequest(r, "retry")
  /\ ~route[r].deleted /\ route[r].status # "ACTIVE" /\ r \notin running
  /\ Begin(h, "retry", r, "probe", Judged(route[r]))
  /\ UNCHANGED <<runVars, restarts>>

(* What the read-only probes answer: usage (both servers and the panel),   *)
(* the interface on IRAN, and whether the client is as it should be.       *)
Answers ==
  IF Disturbed THEN [usage : BOOLEAN, gre : {"fails", "down", "answers"},
                     client : BOOLEAN, others : BOOLEAN]
  ELSE [usage : {TRUE}, gre : {"answers"}, client : {TRUE}, others : {FALSE}]

(* component() compares an expectation with what was found: here, which    *)
(* components PASS.  A FAILED route is expected to have nothing left; a    *)
(* peer name that was never recorded is UNKNOWN, which is not ABSENT, and  *)
(* a client without an ownership flag never matches KEEP.  The node on     *)
(* FOREIGN is not looked at.                                               *)
CleanupPass(row, registry, a) ==
  [registry  |-> registry.status = "RELEASED",
   iran_peer |-> /\ row.peer # None /\ a.gre # "fails"
                 /\ peers[row.peer] = None \/ a.gre = "down",
   iran_forwarding  |-> ~(a.usage /\ (a.others \/ Forwarded(row.port))),
   foreign_listener |-> ~(a.usage /\ (a.others \/ Listening(row.port))),
   xui_inbound      |-> ~(a.usage /\ row.inbound \in inbounds),
   client           |-> row.owned /\ a.client]

(* Every other status expects everything to be there, the registry ACTIVE. *)
PresentPass(row, registry, a) ==
  [registry  |-> registry.status = "ACTIVE",
   iran_peer |-> /\ row.peer # None /\ a.gre = "answers"
                 /\ peers[row.peer] # None,
   iran_forwarding  |-> a.usage /\ (a.others \/ Forwarded(row.port)),
   foreign_listener |-> a.usage /\ (a.others \/ Listening(row.port)),
   xui_inbound      |-> /\ a.usage /\ row.inbound \in inbounds
                        /\ runs[row.inbound].port = row.port,
   client           |-> a.client]

Fails(row, registry, a) ==
  LET pass == IF row.status = "FAILED" THEN CleanupPass(row, registry, a)
                                       ELSE PresentPass(row, registry, a)
  IN  {c \in DOMAIN pass : ~pass[c]}

(* A STALE route is not judged, but each of its components is "expected    *)
(* UNKNOWN", so the registry always counts as a leftover for a retry.      *)
Probe(h) ==
  LET row == ops[h].row IN
  /\ ops[h].step = "probe"
  /\ \E a \in Answers :
       LET fails == Fails(row, alloc[ops[h].route], a) IN
       ops' = [ops EXCEPT ![h].step = "commit",
                 ![h].verdict = row.status = "STALE" \/ fails = {},
                 ![h].blocked = row.status = "STALE" \/ fails \ {"client"} # {}]
  /\ UNCHANGED <<runVars, restarts>>

NextStatus(row, healthy) ==
  IF row.status = "STALE" THEN "STALE"
  ELSE IF ~healthy THEN "NEEDS_REVIEW"
  ELSE IF row.status \in {"RESERVED", "FAILED"} THEN row.status ELSE "ACTIVE"

(* What the transaction leaves in port_allocations.                        *)
NextAlloc(row, current, healthy) ==
  IF row.status = "STALE" THEN current
  ELSE IF row.status = "FAILED" THEN "RELEASED" ELSE NextStatus(row, healthy)

(* The transaction throws when it makes a released port live again that    *)
(* another route holds by now.                                             *)
CommitThrows(r, next) == next # "RELEASED" /\ Conflict(r, alloc[r].port)

ReconcileCommit(h) ==
  LET r    == ops[h].route
      row  == ops[h].row
      next == NextAlloc(row, alloc[r].status, ops[h].verdict)
      retries == ops[h].kind = "retry" /\ ~ops[h].blocked
  IN
  /\ ops[h].step = "commit"
  /\ IF row.status # "STALE" /\ CommitThrows(r, next)
     THEN UNCHANGED rowVars /\ Finish(h)
     ELSE /\ SetStatus(r, NextStatus(row, ops[h].verdict),
                       IF retries THEN "RELEASED" ELSE next)
          /\ IF retries THEN Begin(h, "retry", r, "recommend", PortOnly(row))
                        ELSE Finish(h)
  /\ UNCHANGED <<remoteVars, runs, started, running, restarts, faults>>

(* The rest of prepareForRetry: the old port if it is free, or another;    *)
(* the row and the allocation are RESERVED again and a run starts.         *)
RetryReserve(h, p) ==
  LET r == ops[h].route IN
  /\ At(h, "retry", "recommend")
  /\ \E usage \in Usages :
       /\ p \notin usage /\ ~AnyConflict(p)
       /\ p # ops[h].row.port => \/ ops[h].row.port \in usage
                                 \/ AnyConflict(ops[h].row.port)
  /\ route' = [route EXCEPT ![r].status = "RESERVED", ![r].port = p,
                            ![r].inbound = None]
  /\ alloc' = [alloc EXCEPT ![r] = [status |-> "RESERVED", port |-> p]]
  /\ StartRun(r)
  /\ Finish(h)
  /\ UNCHANGED <<remoteVars, restarts, faults>>

(* recommend() throws: no port, or a probe failed.                         *)
RetryFails(h) ==
  /\ At(h, "retry", "recommend")
  /\ Disturbed \/ \A p \in Ports : p \in InUse \/ AnyConflict(p)
  /\ Finish(h)
  /\ UNCHANGED <<runVars, restarts>>

-----------------------------------------------------------------------------
(* DELETE /gre-routes/:id: client, inbound, peer, node, then the rows.     *)
StartDelete(h, r) ==
  /\ Idle(h) /\ MayRequest(r, "delete")
  /\ ~route[r].deleted /\ r \notin running
  /\ Begin(h, "delete", r, "client", Owned(route[r]))
  /\ UNCHANGED <<runVars, restarts>>

(* Each remote component is inspected first.  An inspection that fails     *)
(* answers present: null, which is taken for "already absent".             *)
Deletes(present, reply) ==
  IF present THEN reply \in Replies \cup (IF Disturbed THEN {"unseen"} ELSE {})
  ELSE reply = "absent"

After(h, s, reply) ==
  ops' = [ops EXCEPT ![h].step = s,
                     ![h].failed = @ \/ reply \in {"refused", "lost"}]

(* The client's flags are cleared, unless it is shared and only detached.  *)
DeleteClient(h, reply, keep) ==
  /\ At(h, "delete", "client")
  /\ Deletes(ops[h].row.owned, reply)
  /\ keep => reply = "ok"
  /\ route' = IF reply \in {"ok", "unseen"} /\ ~keep
              THEN [route EXCEPT ![ops[h].route].owned = FALSE] ELSE route
  /\ After(h, "inbound", reply)
  /\ Cost(reply)
  /\ UNCHANGED <<alloc, remoteVars, runs, started, running, restarts>>

DeleteInbound(h, reply) ==
  LET w == ops[h].row.inbound IN
  /\ At(h, "delete", "inbound")
  /\ Deletes(w \in inbounds, reply)
  /\ inbounds' = IF reply \in {"ok", "lost"} THEN inbounds \ {w} ELSE inbounds
  /\ After(h, "peer", reply)
  /\ Cost(reply)
  /\ UNCHANGED <<rowVars, peers, nodes, runs, started, running, restarts>>

DeletePeer(h, reply) ==
  LET n == ops[h].row.peer IN
  /\ At(h, "delete", "peer")
  /\ Deletes(n # None /\ peers[n] # None, reply)
  /\ peers' = IF reply \in {"ok", "lost"}
              THEN [peers EXCEPT ![n] = None] ELSE peers
  /\ After(h, "node", reply)
  /\ Cost(reply)
  /\ UNCHANGED <<rowVars, nodes, inbounds, runs, started, running, restarts>>

DeleteNode(h, reply) ==
  LET n == ops[h].row.peer IN
  /\ At(h, "delete", "node")
  /\ Deletes(n # None /\ nodes[n] # None, reply)
  /\ nodes' = IF reply \in {"ok", "lost"}
              THEN [nodes EXCEPT ![n] = None] ELSE nodes
  /\ After(h, "rows", reply)
  /\ Cost(reply)
  /\ UNCHANGED <<rowVars, peers, inbounds, runs, started, running, restarts>>

(* The allocation is released in any case; the row is soft-deleted only if *)
(* every component succeeded.                                              *)
DeleteRows(h) ==
  LET r == ops[h].route IN
  /\ At(h, "delete", "rows")
  /\ alloc' = [alloc EXCEPT ![r].status = "RELEASED"]
  /\ route' = IF ops[h].failed
              THEN [route EXCEPT ![r].status = "NEEDS_REVIEW"]
              ELSE [route EXCEPT ![r].status = "STALE", ![r].deleted = TRUE]
  /\ Finish(h)
  /\ UNCHANGED <<remoteVars, runs, started, running, restarts, faults>>

-----------------------------------------------------------------------------
(* The hub stops and starts: runs and requests are gone, sweepAbandoned    *)
(* marks those RESERVED routes that were last touched 15 minutes ago.      *)
Restart ==
  /\ restarts < MaxRestarts
  /\ restarts' = restarts + 1
  /\ runs'    = [u \in Runs |-> IF Live(u) THEN [runs[u] EXCEPT !.pc = "dead"]
                                ELSE runs[u]]
  /\ running' = {}
  /\ ops'     = [h \in Handlers |-> IdleOp]
  /\ \E old \in SUBSET {r \in Routes : route[r].status = "RESERVED"} :
       route' = [r \in Routes |-> IF r \in old
                                  THEN [route[r] EXCEPT !.status = "STALE"]
                                  ELSE route[r]]
  /\ UNCHANGED <<alloc, remoteVars, started, faults>>

Provision(u) == (RunStep(u) \/ TimeOut(u)) /\ UNCHANGED <<ops, restarts>>

RequestStarts(h, r) ==
  StartEdit(h, r) \/ StartReconcile(h, r) \/ StartRetry(h, r)
  \/ StartDelete(h, r)

RequestStep(h) ==
  \/ \E p \in Ports : EditPort(h, p) \/ RetryReserve(h, p)
  \/ EditRefused(h) \/ Probe(h) \/ ReconcileCommit(h) \/ RetryFails(h)
  \/ \E reply \in Replies \cup {"absent", "unseen"} :
       \/ \E keep \in BOOLEAN : DeleteClient(h, reply, keep)
       \/ DeleteInbound(h, reply) \/ DeletePeer(h, reply) \/ DeleteNode(h, reply)
  \/ DeleteRows(h)

Next ==
  \/ \E r \in Routes, p \in Ports : Create(r, p)
  \/ \E u \in Runs : Provision(u)
  \/ \E h \in Handlers, r \in Routes : RequestStarts(h, r)
  \/ \E h \in Handlers : RequestStep(h)
  \/ Restart

Spec == Init /\ [][Next]_vars

(* Every remote call of a run has its own timeout.                         *)
FairSpec == Spec /\ \A u \in Runs : WF_vars(RunStep(u) /\ UNCHANGED <<ops, restarts>>)

-----------------------------------------------------------------------------
Rows == [status : Statuses, port : Ports \cup {None},
         peer : Names \cup {None}, inbound : Runs \cup {None},
         owned : BOOLEAN, deleted : BOOLEAN]

RunRecords ==
  [route : Routes \cup {None}, pc : {"none"} \cup LivePcs \cup EndPcs,
   port : Ports \cup {None}, peer : Names \cup {None},
   made : SUBSET Parts, undone : SUBSET Parts, lost : SUBSET Parts,
   dirty : BOOLEAN, late : BOOLEAN]

AllocRows == [status : AllocStatuses, port : Ports \cup {None}]

Requested ==
  [kind : {"idle", "edit", "reconcile", "retry", "delete"},
   route : Routes \cup {None},
   step : {"none", "preflight", "probe", "commit", "recommend", "client",
           "inbound", "peer", "node", "rows"},
   row : Rows, verdict : BOOLEAN, blocked : BOOLEAN, failed : BOOLEAN]

RouteTypeOK ==
  /\ route \in [Routes -> Rows]
  /\ alloc \in [Routes -> AllocRows]
  /\ runs \in [Runs -> RunRecords]
  /\ started \in 0..MaxRuns
  /\ running \subseteq Routes
  /\ peers \in [Names -> Runs \cup {None}]
  /\ nodes \in [Names -> Runs \cup {None}]
  /\ inbounds \subseteq Runs
  /\ ops \in [Handlers -> Requested]
  /\ faults \in 0..MaxFaults
  /\ restarts \in 0..MaxRestarts

(* The objects of a run that exist on the servers and the panel.           *)
Objects(u) ==
  {part \in Parts : \/ part = "peer" /\ \E n \in Names : peers[n] = u
                    \/ part = "node" /\ \E n \in Names : nodes[n] = u
                    \/ part = "inbound" /\ u \in inbounds}

RunsOf(r) == {u \in Runs : runs[u].route = r}

(* registryConflict and the unique indexes: whatever overlaps, no two      *)
(* routes of a server pair hold the same port at the same time.            *)
PortExclusive ==
  \A q, r \in Routes : \A p \in Ports :
     HoldsPort(q, p) /\ HoldsPort(r, p) => q = r

(* "Keep the allocation row consistent with the spec it mirrors": the port *)
(* that is guarded in the registry is the one on the route's row, also     *)
(* when a preflight moved it, a retry chose another or an edit replaced it *)
(* under a run.                                                            *)
PortMirror == \A r \in Routes : alloc[r].port = route[r].port

(* A run that ended with rollback_state CLEAN left nothing behind except   *)
(* what was created without an acknowledgement.                            *)
RollbackComplete ==
  \A u \in Runs : runs[u].pc = "clean" => Objects(u) \subseteq runs[u].lost

(* As long as requests on one route do not overlap, the registry says what *)
(* the route's status says.                                                *)
AllocationFollowsStatus ==
  \A r \in Routes :
    /\ route[r].status = "ACTIVE"   => alloc[r].status = "ACTIVE"
    /\ route[r].status = "RESERVED" => alloc[r].status = "RESERVED"
    /\ route[r].status = "FAILED"   => alloc[r].status = "RELEASED"
    /\ route[r].deleted             => alloc[r].status = "RELEASED"

(* The port, name and inbound of an ACTIVE route are those of the          *)
(* run that activated it: what is published is what was built.             *)
ActiveIsWhatWasBuilt ==
  \A r \in Routes : route[r].status = "ACTIVE" =>
    \E u \in RunsOf(r) : /\ runs[u].pc = "active"
                         /\ route[r].port = runs[u].port
                         /\ route[r].peer = runs[u].peer
                         /\ route[r].inbound = u

(* A reservation ends: a RESERVED route becomes ACTIVE, FAILED or is put   *)
(* up for review, as long as the hub is not restarted.                     *)
ReservationEnds ==
  \A r \in Routes :
    route[r].status = "RESERVED" ~> route[r].status # "RESERVED"

(* The ledger of the ports that the rows of the routes name, in so far as  *)
(* the registry guards them.                                               *)
Guarded(r) == alloc[r].status \notin {"none", "RELEASED"}
Ledger == INSTANCE PortLedger WITH
  held <- [r \in Routes |-> IF Guarded(r) THEN route[r].port ELSE None]

(* Whatever requests, runs, timers and restarts overlap, the rows of the   *)
(* routes are such a ledger, although every check before a write (the      *)
(* conflict query, the unique indexes) is of the registry, and an await    *)
(* lies between the reading of a row and the writing of both.              *)
ImplementsLedger == Ledger!LedgerSpec

-----------------------------------------------------------------------------
(* CHANGELOG: "Delete removes only the resources the route owns".          *)
DeleteRemovesOwn ==
  [][\A h \in Handlers, n \in Names :
       At(h, "delete", "peer") /\ ops'[h].step = "node"
         /\ peers[n] # None /\ peers'[n] = None
       => runs[peers[n]].route = ops[h].route]_vars
=============================================================================

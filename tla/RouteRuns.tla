------------------------------ MODULE RouteRuns ------------------------------
(***************************************************************************)
(* hub/server/route-orchestrator.js with route-live-preflight.js applied:  *)
(* the rows of gre_routes and port_allocations, and the background run     *)
(* that provisions a route.  The requests that start, edit, retry,         *)
(* reconcile and delete routes are in RouteLifecycle.                      *)
(*                                                                         *)
(* All routes are on one pair of servers and one panel in external_proxy   *)
(* mode.  A remote object is known by the run that created it: an inbound  *)
(* carries the run as its id (the panel never reuses ids), the GRE peer    *)
(* (IRAN) and the GRE node (FOREIGN) are found by name, and names are      *)
(* reused: the CLI suggests the lowest free one, with a subnet that goes   *)
(* with it.                                                                *)
(***************************************************************************)
EXTENDS Naturals, FiniteSets

CONSTANTS
  Routes,     \* route ids
  Ports,      \* the port range
  MaxNames,   \* the names ir01, ir02, ... the CLI hands out
  MaxRuns,    \* bound: provisioning runs in a behaviour
  MaxFaults,  \* bound: lost replies, failed removals and inspections, and
              \* timeouts in a behaviour
  FirstClass, \* whether the panel has first-class clients
  Disturbed,  \* whether probes may fail and other software may hold ports
  Timeouts    \* whether the 15 minute timer may fire before a run ends

ASSUME RunBoundsAssumption ==
  MaxNames \in Nat \ {0} /\ MaxRuns \in Nat /\ MaxFaults \in Nat
ASSUME PortsAssumption == 0 \notin Ports /\ Ports # {}
ASSUME RunSwitchesAssumption ==
  FirstClass \in BOOLEAN /\ Disturbed \in BOOLEAN /\ Timeouts \in BOOLEAN

None  == 0
Names == 1..MaxNames
Runs  == 1..MaxRuns
Parts == {"node", "peer", "inbound", "client"}

VARIABLES
  route,    \* route -> its gre_routes row
  alloc,    \* route -> its port_allocations row
  runs,     \* run -> its local variables
  started,  \* runs started so far
  running,  \* the keys of the orchestrator's `running` map
  peers,    \* IRAN: name -> the run whose `peer add` made the peer, or None
  nodes,    \* FOREIGN: name -> the run whose `node add` made it, or None
  inbounds, \* the panel's inbounds
  faults    \* what has been spent of MaxFaults

rowVars    == <<route, alloc>>
remoteVars == <<peers, nodes, inbounds>>
runVars    == <<rowVars, remoteVars, runs, started, running, faults>>

Statuses == {"none", "RESERVED", "ACTIVE", "FAILED", "NEEDS_REVIEW", "STALE"}
AllocStatuses == {"none", "RESERVED", "ACTIVE", "NEEDS_REVIEW", "RELEASED"}

NoRow == [status |-> "none", port |-> None, peer |-> None, inbound |-> None,
          owned |-> FALSE, deleted |-> FALSE]
NoRun == [route |-> None, pc |-> "none", port |-> None, peer |-> None,
          made |-> {}, undone |-> {}, lost |-> {}, dirty |-> FALSE,
          late |-> FALSE]

Preflights == {"preflight", "port_check", "connectivity"}
Building   == {"pairing", "node_add", "peer_add", "inbound_add", "client",
               "validate", "activate"}
LivePcs    == Preflights \cup Building \cup {"undo"}
EndPcs     == {"aborted", "active", "clean", "partial", "dead"}

RunsInit ==
  /\ route    = [r \in Routes |-> NoRow]
  /\ alloc    = [r \in Routes |-> [status |-> "none", port |-> None]]
  /\ runs     = [u \in Runs |-> NoRun]
  /\ started  = 0
  /\ running  = {}
  /\ peers    = [n \in Names |-> None]
  /\ nodes    = [n \in Names |-> None]
  /\ inbounds = {}
  /\ faults   = 0

-----------------------------------------------------------------------------
(* registryConflict, and the two partial unique indexes on                 *)
(* port_allocations: live is every status but RELEASED.                    *)
HoldsPort(r, p) ==
  alloc[r].status \notin {"none", "RELEASED"} /\ alloc[r].port = p
Conflict(r, p)  == \E q \in Routes \ {r} : HoldsPort(q, p)
AnyConflict(p)  == \E q \in Routes : HoldsPort(q, p)

(* What the probes of a port find: the NAT rules of a peer on IRAN, the    *)
(* listener of an inbound on FOREIGN.                                      *)
Forwarded(p) == \E n \in Names : peers[n] # None /\ runs[peers[n]].port = p
Listening(p) == \E w \in inbounds : runs[w].port = p
InUse        == {p \in Ports : Forwarded(p) \/ Listening(p)}

(* A port usage snapshot: other software's ports come on top.              *)
Usages == IF Disturbed THEN {s \in SUBSET Ports : InUse \subseteq s}
          ELSE {InUse}

(* A remote mutation is acknowledged, refused before any effect, or its    *)
(* reply is lost (timeout, dropped session) after the effect.              *)
Replies == {"ok", "refused", "lost"}

Fault == faults < MaxFaults /\ faults' = faults + 1
Cost(reply) == IF reply \in {"ok", "absent"} THEN UNCHANGED faults ELSE Fault

SetStatus(r, status, allocStatus) ==
  /\ route' = [route EXCEPT ![r].status = status]
  /\ alloc' = [alloc EXCEPT ![r].status = allocStatus]

Step(u, pc) == runs' = [runs EXCEPT ![u].pc = pc]

(* The locals of a run that has ended are gone, except what its objects    *)
(* carry on the servers, and what the outside never learned of.            *)
End(u, pc) ==
  runs' = [runs EXCEPT ![u] = [NoRun EXCEPT
             !.route = runs[u].route, !.pc = pc, !.port = runs[u].port,
             !.peer = runs[u].peer, !.lost = runs[u].lost]]

Live(u) == runs[u].pc \in LivePcs

(* task.finally, which runs once: when the race settled at the timeout the *)
(* end of the run itself changes nothing any more.                         *)
LeaveMap(u) ==
  running' = IF runs[u].late THEN running ELSE running \ {runs[u].route}

(* startProvisioning.                                                      *)
StartRun(r) ==
  /\ started < MaxRuns
  /\ started' = started + 1
  /\ runs' = [runs EXCEPT ![started + 1] =
                [NoRun EXCEPT !.route = r, !.pc = "preflight"]]
  /\ running' = running \cup {r}

-----------------------------------------------------------------------------
(* liveRun: the panel and the client answer, then the row is read again.   *)
Preflight(u) ==
  /\ runs[u].pc = "preflight"
  /\ runs' = [runs EXCEPT ![u].pc = "port_check",
                          ![u].port = route[runs[u].route].port]
  /\ UNCHANGED <<rowVars, remoteVars, started, running, faults>>

(* verifyPort, with the port read before its await.                        *)
Occupied(u, usage) ==
  runs[u].port \in usage \/ Conflict(runs[u].route, runs[u].port)

KeepPort(u) ==
  /\ runs[u].pc = "port_check"
  /\ \E usage \in Usages : ~Occupied(u, usage)
  /\ Step(u, "connectivity")
  /\ UNCHANGED <<rowVars, remoteVars, started, running, faults>>

MovePort(u, p) ==
  LET r == runs[u].route IN
  /\ runs[u].pc = "port_check"
  /\ \E usage \in Usages : Occupied(u, usage) /\ p \notin usage
  /\ p # runs[u].port /\ ~AnyConflict(p)
  /\ route' = [route EXCEPT ![r].port = p]
  /\ alloc' = [alloc EXCEPT ![r] = [status |-> "RESERVED", port |-> p]]
  /\ Step(u, "connectivity")
  /\ UNCHANGED <<remoteVars, started, running, faults>>

(* Both directions answer; originalRun reads the row once more.            *)
Reach(u) ==
  /\ runs[u].pc = "connectivity"
  /\ runs' = [runs EXCEPT ![u].pc = "pairing",
                          ![u].port = route[runs[u].route].port]
  /\ UNCHANGED <<rowVars, remoteVars, started, running, faults>>

(* Mutant of Abort: the catch of startProvisioning writes nothing.         *)
AbortSilently(u) ==
  /\ runs[u].pc \in Preflights
  /\ End(u, "aborted")
  /\ LeaveMap(u)
  /\ UNCHANGED <<rowVars, remoteVars, started, faults>>

(* A preflight step throws: only the catch of startProvisioning sees it,   *)
(* and only if the race was still open.                                    *)
Abort(u) ==
  LET r == runs[u].route IN
  /\ runs[u].pc \in Preflights
  /\ End(u, "aborted")
  /\ IF ~runs[u].late /\ route[r].status = "RESERVED"
     THEN SetStatus(r, "FAILED", "RELEASED") ELSE UNCHANGED rowVars
  /\ LeaveMap(u)
  /\ UNCHANGED <<remoteVars, started, faults>>

(* The timer wins the race: the same catch runs, the run goes on.          *)
TimeOut(u) ==
  LET r == runs[u].route IN
  /\ Timeouts /\ Live(u) /\ ~runs[u].late
  /\ runs' = [runs EXCEPT ![u].late = TRUE]
  /\ IF route[r].status = "RESERVED"
     THEN SetStatus(r, "FAILED", "RELEASED") ELSE UNCHANGED rowVars
  /\ running' = running \ {r}
  /\ Fault
  /\ UNCHANGED <<remoteVars, started>>

-----------------------------------------------------------------------------
(* originalRun inside its try.  Any step may throw into the catch block.   *)
Throw(u) ==
  /\ runs[u].pc \in Building
  /\ Step(u, "undo")
  /\ UNCHANGED <<rowVars, remoteVars, started, running, faults>>

(* pairing(): the lowest name free on IRAN, refused when FOREIGN's pool    *)
(* disagrees.  The name is stored on the row before anything is created.   *)
Pair(u) ==
  /\ runs[u].pc = "pairing"
  /\ \E n \in Names :
       /\ peers[n] = None /\ nodes[n] = None
       /\ \A m \in Names : m < n => peers[m] # None
       /\ runs'  = [runs EXCEPT ![u].pc = "node_add", ![u].peer = n]
       /\ route' = [route EXCEPT ![runs[u].route].peer = n]
  /\ UNCHANGED <<alloc, remoteVars, started, running, faults>>

(* Mutant of Made: `foreignCreated = true` is missing.                     *)
MadeUnflagged(u, part, next, reply) ==
  runs' = IF reply = "ok"
          THEN [runs EXCEPT ![u].pc = next, ![u].made = @ \cup ({part} \ {"node"})]
          ELSE [runs EXCEPT ![u].pc = "undo", ![u].lost = @ \cup {part}]

(* What the run remembers of a mutation that took effect.                  *)
Made(u, part, next, reply) ==
  runs' = IF reply = "ok"
          THEN [runs EXCEPT ![u].pc = next, ![u].made = @ \cup {part}]
          ELSE [runs EXCEPT ![u].pc = "undo", ![u].lost = @ \cup {part}]

(* `gre node add`, which refuses a name that exists.                       *)
AddNode(u, reply) ==
  /\ runs[u].pc = "node_add" /\ reply # "refused"
  /\ nodes[runs[u].peer] = None
  /\ nodes' = [nodes EXCEPT ![runs[u].peer] = u]
  /\ Made(u, "node", "peer_add", reply)
  /\ Cost(reply)
  /\ UNCHANGED <<rowVars, peers, inbounds, started, running>>

(* `gre iran peer add`: check_peer_collisions also refuses a port that     *)
(* another peer forwards.                                                  *)
AddPeer(u, reply) ==
  /\ runs[u].pc = "peer_add" /\ reply # "refused"
  /\ peers[runs[u].peer] = None /\ ~Forwarded(runs[u].port)
  /\ peers' = [peers EXCEPT ![runs[u].peer] = u]
  /\ Made(u, "peer", "inbound_add", reply)
  /\ Cost(reply)
  /\ UNCHANGED <<rowVars, nodes, inbounds, started, running>>

AddInbound(u, reply) ==
  /\ runs[u].pc = "inbound_add" /\ reply # "refused"
  /\ inbounds' = inbounds \cup {u}
  /\ Made(u, "inbound", "client", reply)
  /\ route' = IF reply = "ok"
              THEN [route EXCEPT ![runs[u].route].inbound = u] ELSE route
  /\ Cost(reply)
  /\ UNCHANGED <<alloc, peers, nodes, started, running>>

(* The client is attached or created; an embedded one came with the        *)
(* inbound and leaves no ownership flag.                                   *)
AddClient(u) ==
  /\ runs[u].pc = "client"
  /\ IF FirstClass
     THEN /\ Made(u, "client", "validate", "ok")
          /\ route' = [route EXCEPT ![runs[u].route].owned = TRUE]
     ELSE Step(u, "validate") /\ UNCHANGED route
  /\ UNCHANGED <<alloc, remoteVars, started, running, faults>>

(* validateRuntime: the interfaces are looked up by name.                  *)
Validate(u) ==
  /\ runs[u].pc = "validate"
  /\ peers[runs[u].peer] # None /\ nodes[runs[u].peer] # None
  /\ Forwarded(runs[u].port) /\ Listening(runs[u].port)
  /\ u \in inbounds
  /\ Step(u, "activate")
  /\ UNCHANGED <<rowVars, remoteVars, started, running, faults>>

(* The final transaction.  A violated unique index lands in the catch.     *)
Activate(u) ==
  LET r == runs[u].route IN
  /\ runs[u].pc = "activate"
  /\ ~Conflict(r, alloc[r].port)
  /\ route' = [route EXCEPT ![r].status = "ACTIVE", ![r].inbound = u]
  /\ alloc' = [alloc EXCEPT ![r].status = "ACTIVE"]
  /\ End(u, "active")
  /\ LeaveMap(u)
  /\ UNCHANGED <<remoteVars, started, faults>>

-----------------------------------------------------------------------------
(* rollback(): client, inbound, peer, node, each only if the creation was  *)
(* acknowledged; a failing step is noted and never stops the rest.  The    *)
(* peer and the node are removed by name.                                  *)
ToUndo(u) == runs[u].made \ runs[u].undone

UndoPart(u, part, reply) ==
  /\ runs' = [runs EXCEPT ![u].undone = @ \cup {part},
                          ![u].dirty  = @ \/ reply # "ok"]
  /\ peers'    = IF part = "peer" /\ reply # "refused"
                 THEN [peers EXCEPT ![runs[u].peer] = None] ELSE peers
  /\ nodes'    = IF part = "node" /\ reply # "refused"
                 THEN [nodes EXCEPT ![runs[u].peer] = None] ELSE nodes
  /\ inbounds' = IF part = "inbound" /\ reply # "refused"
                 THEN inbounds \ {u} ELSE inbounds

Rollback(u, part, reply) ==
  /\ runs[u].pc = "undo" /\ part \in ToUndo(u)
  /\ part = "inbound" => "client" \notin ToUndo(u)
  /\ part = "peer"    => ToUndo(u) \subseteq {"peer", "node"}
  /\ part = "node"    => ToUndo(u) = {"node"}
  /\ UndoPart(u, part, reply)
  /\ Cost(reply)
  /\ UNCHANGED <<rowVars, started, running>>

(* Mutant of Fail: the port is not released.                               *)
FailKeepsPort(u) ==
  /\ runs[u].pc = "undo" /\ ToUndo(u) = {}
  /\ route' = [route EXCEPT ![runs[u].route].status = "FAILED",
                            ![runs[u].route].inbound = IF "inbound" \in runs[u].made
                                                       THEN u ELSE None]
  /\ End(u, IF runs[u].dirty THEN "partial" ELSE "clean")
  /\ LeaveMap(u)
  /\ UNCHANGED <<alloc, remoteVars, started, faults>>

(* ... and then FAILED with rollback_state CLEAN or PARTIAL, whatever the  *)
(* row says by now.                                                        *)
Fail(u) ==
  LET r == runs[u].route IN
  /\ runs[u].pc = "undo" /\ ToUndo(u) = {}
  /\ route' = [route EXCEPT ![r].status = "FAILED",
                            ![r].inbound = IF "inbound" \in runs[u].made
                                           THEN u ELSE None]
  /\ alloc' = [alloc EXCEPT ![r].status = "RELEASED"]
  /\ End(u, IF runs[u].dirty THEN "partial" ELSE "clean")
  /\ LeaveMap(u)
  /\ UNCHANGED <<remoteVars, started, faults>>

(* The steps a run takes by itself: every remote call has a timeout.       *)
RunStep(u) ==
  \/ Preflight(u) \/ KeepPort(u) \/ (\E p \in Ports : MovePort(u, p))
  \/ Reach(u) \/ Abort(u)
  \/ Throw(u) \/ Pair(u)
  \/ \E reply \in Replies :
       AddNode(u, reply) \/ AddPeer(u, reply) \/ AddInbound(u, reply)
  \/ AddClient(u) \/ Validate(u) \/ Activate(u)
  \/ \E part \in Parts, reply \in Replies : Rollback(u, part, reply)
  \/ Fail(u)

=============================================================================

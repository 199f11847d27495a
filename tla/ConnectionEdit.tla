---------------------------- MODULE ConnectionEdit ----------------------------
(***************************************************************************)
(* hub/server/connections.js with connection-planner.js and the requests   *)
(* of hub/server/routes.js that reach them: planning and applying an edit  *)
(* of a connection, moving it to other servers, and re-applying the state  *)
(* an earlier operation started from.                                      *)
(*                                                                         *)
(* A connection is a gre_routes row and, on its two servers, a peer (IRAN) *)
(* and a node (FOREIGN) of one name.  The operations reach the servers by  *)
(* CLI commands only, so a server is the table of configurations its gre   *)
(* CLI keeps; each command is a transaction there.  An address stands for  *)
(* the server that has it; params stand for subnet base, index and GRE     *)
(* key, ports for the two port lists and the MSS clamp.                    *)
(***************************************************************************)
EXTENDS Naturals

CONSTANTS
  Conns,      \* connections: gre_routes rows
  Irans,      \* IRAN servers
  Foreigns,   \* FOREIGN servers
  Names,      \* names of connections, peers and nodes
  Params,     \* subnet base, index and key
  PortLists,  \* port lists; different ones do not overlap
  None,       \* no value: not requested, not known, not configured
  Start,      \* connection -> its row before the first request
  Edits,      \* the requests clients may make
  MaxOps,     \* bound: requests in a behaviour
  MaxFaults   \* bound: lost replies, failed commands and checks, restarts

Servers == Irans \cup Foreigns

Fields == [iran: Irans \cup {None}, foreign: Foreigns \cup {None},
           name: Names \cup {None}, params: Params \cup {None},
           ports: PortLists \cup {None}, iranIp: Irans \cup {None},
           foreignIp: Foreigns \cup {None}]
\* A row holds the tunnel parameters and both addresses, or none of them.
RowsWith(params, irans, foreigns) ==
  [iran: Irans, foreign: Foreigns, name: Names, peer: Names, params: params,
   ports: PortLists, iranIp: irans, foreignIp: foreigns]
KnownRows == RowsWith(Params, Irans, Foreigns)
Rows == KnownRows \cup RowsWith({None}, {None}, {None})

ASSUME SortsAssumption ==
  /\ Irans \cap Foreigns = {} /\ Conns \cap Servers = {}
  /\ None \notin Conns \cup Servers \cup Names \cup Params \cup PortLists
ASSUME EditBoundsAssumption == MaxOps \in Nat /\ MaxFaults \in Nat
ASSUME StartAssumption == Start \in [Conns -> KnownRows] /\ Edits \subseteq Fields

Ops == 1..MaxOps

VARIABLES
  rows,    \* connection -> its gre_routes row
  peers,   \* IRAN server -> name -> configuration of the peer, or None
  nodes,   \* FOREIGN server -> name -> configuration of the node, or None
  ops,     \* request -> its local variables and its edit_operations row
  started, \* requests so far
  locks,   \* connection or server -> the operation that locked it, or 0
  faults   \* what has been spent of MaxFaults

vars == <<rows, peers, nodes, ops, started, locks, faults>>

PeerConf(v) == [iran |-> v.iranIp, foreign |-> v.foreignIp,
                params |-> v.params, ports |-> v.ports]
NodeConf(v) == [iran |-> v.iranIp, params |-> v.params]

\* Both servers hold what row v says; the tunnel works when, besides, the
\* addresses in it are those of the two servers.
InPlace(v) == /\ peers[v.iran][v.peer] = PeerConf(v)
              /\ nodes[v.foreign][v.peer] = NodeConf(v)
Addressed(v) == v.iranIp = v.iran /\ v.foreignIp = v.foreign
Works(v) == InPlace(v) /\ Addressed(v)

NoFields == [iran |-> None, foreign |-> None, name |-> None, params |-> None,
             ports |-> None, iranIp |-> None, foreignIp |-> None]
NoOp == [conn |-> None, kind |-> "none", pc |-> "none", status |-> "none",
         row |-> None, req |-> NoFields, seen |-> None,
         cur |-> None, want |-> None, sound |-> FALSE]

\* Rows written by the orchestrator hold neither addresses nor tunnel
\* parameters: iran_endpoint is a bare address there.  Others have been read
\* from the IRAN server, or committed, before.
Unlearned(v) == [v EXCEPT !.params = None, !.iranIp = None, !.foreignIp = None]

Init ==
  /\ \E known \in SUBSET Conns :
       rows = [c \in Conns |-> IF c \in known THEN Start[c]
                              ELSE Unlearned(Start[c])]
  /\ peers = [s \in Irans |-> [n \in Names |->
       IF \E c \in Conns : Start[c].iran = s /\ Start[c].peer = n
       THEN PeerConf(Start[CHOOSE c \in Conns : Start[c].iran = s
                                                /\ Start[c].peer = n])
       ELSE None]]
  /\ nodes = [s \in Foreigns |-> [n \in Names |->
       IF \E c \in Conns : Start[c].foreign = s /\ Start[c].peer = n
       THEN NodeConf(Start[CHOOSE c \in Conns : Start[c].foreign = s
                                                /\ Start[c].peer = n])
       ELSE None]]
  /\ ops = [o \in Ops |-> NoOp]
  /\ started = 0
  /\ locks = [k \in Conns \cup Servers |-> 0]
  /\ faults = 0

-----------------------------------------------------------------------------
(* The gre CLI of a server: each command refuses or is done as a whole.    *)

Fault == faults < MaxFaults /\ faults' = faults + 1

Renamed(table, s, n, m, conf) ==
  [table EXCEPT ![s] = [@ EXCEPT ![n] = None, ![m] = conf]]

\* gre iran peer edit: no other peer may have the tunnel or the ports.
CanEditPeer(s, n, m, conf) ==
  /\ peers[s][n] # None
  /\ m # n => peers[s][m] = None
  /\ \A k \in Names \ {n} : peers[s][k] # None =>
       peers[s][k].params # conf.params /\ peers[s][k].ports # conf.ports

\* gre node edit: no other node may have the tunnel.
CanEditNode(s, n, m, conf) ==
  /\ nodes[s][n] # None
  /\ m # n => nodes[s][m] = None
  /\ \A k \in Names \ {n} : nodes[s][k] # None =>
       nodes[s][k].params # conf.params

CanAddNode(s, n, conf) ==
  /\ nodes[s][n] = None
  /\ \A k \in Names : nodes[s][k] # None => nodes[s][k].params # conf.params

\* gre iran peer add: repeating an identical peer succeeds.
CanAddPeer(s, n, conf) ==
  \/ peers[s][n] = conf
  \/ /\ peers[s][n] = None
     /\ \A k \in Names : peers[s][k] # None =>
          peers[s][k].params # conf.params /\ peers[s][k].ports # conf.ports

-----------------------------------------------------------------------------
(* Planning.                                                               *)

Asked(a, b) == IF a = None THEN b ELSE a

\* What the connection is to become: the requested fields over the current.
Wanted(cur, req) == [f \in DOMAIN cur |-> IF f = "peer" THEN cur.peer
                                          ELSE Asked(req[f], cur[f])]

TunnelFields == {"name", "params", "iranIp", "foreignIp"}

\* Ports come with the MSS clamp, which is given as "on" or "off" and then
\* always compares as changed.
EditClass(cur, req) ==
  LET changed == {f \in DOMAIN req : req[f] # None
                                      /\ (f = "ports" \/ req[f] # cur[f])}
  IN IF changed = {} THEN "none"
     ELSE IF changed \cap {"iran", "foreign"} # {} THEN "C"
     ELSE IF changed \cap TunnelFields # {} THEN "B"
     ELSE "A"

\* The other connections of the hub leave the tunnel, the requested ports and
\* the requested name free.  Two unknown tunnels compare equal.
PreflightPasses(c, cur, req) ==
  \A d \in Conns \ {c} :
    /\ rows[d].params # Wanted(cur, req).params
    /\ req.ports # None => rows[d].ports # req.ports
    /\ req.name # None => rows[d].name # req.name

CanApply(c, cur, req, class) ==
  /\ class # "none"
  /\ class \in {"B", "C"} => cur.params # None
  /\ PreflightPasses(c, cur, req)

-----------------------------------------------------------------------------
(* Locks and the journal.                                                  *)

Live(o) == ops[o].pc \notin {"none", "learn", "read", "done"}

TargetsOf(op) == {op.row.iran, op.row.foreign, op.want.iran, op.want.foreign}
KeysOf(op) == {op.conn} \cup TargetsOf(op)

GoesReleasingOnSuccess(o, op) ==
  /\ ops' = [ops EXCEPT ![o] = op]
  /\ locks' = IF op.status = "SUCCEEDED"
              THEN [k \in DOMAIN locks |-> IF locks[k] = o THEN 0 ELSE locks[k]]
              ELSE locks

Goes(o, op) ==
  /\ ops' = [ops EXCEPT ![o] = op]
  /\ locks' = IF op.pc = "done"
              THEN [k \in DOMAIN locks |->
                      IF locks[k] = o /\ k \in KeysOf(ops[o]) THEN 0
                      ELSE locks[k]]
              ELSE locks

Ended(op, status) == [op EXCEPT !.pc = "done", !.status = status,
                                !.row = None, !.req = NoFields,
                                !.seen = None, !.want = None]

\* journalStart and acquire: all the locks or none.  The operation works on
\* the servers of the row the request read, from the state read since.
Acquire(o, op) ==
  IF \A k \in KeysOf(op) : locks[k] = 0
  THEN /\ ops' = [ops EXCEPT ![o] = op]
       /\ locks' = [k \in DOMAIN locks |-> IF k \in KeysOf(op) THEN o
                                           ELSE locks[k]]
  ELSE /\ ops' = [ops EXCEPT ![o] = Ended(op, "REJECTED")]
       /\ UNCHANGED locks

\* apply() and migrate() from the plan on.  A move points each side at the
\* address of the server it is to meet.
Begin(o, op, cur, class) ==
  LET w    == Wanted(cur, op.req)
      move == class = "C"
      to   == [w EXCEPT !.iran = IF move THEN @ ELSE op.row.iran,
                        !.foreign = IF move THEN @ ELSE op.row.foreign,
                        !.iranIp = IF move /\ w.iran # op.row.iran
                                   THEN w.iran ELSE @,
                        !.foreignIp = IF move /\ w.foreign # op.row.foreign
                                      THEN w.foreign ELSE @]
  IN Acquire(o, [op EXCEPT
       !.kind = IF move THEN "move" ELSE "edit",
       !.pc = CASE class = "A" -> "peer" [] class = "B" -> "node"
                [] class = "C" -> "preflight",
       !.status = "RUNNING", !.seen = None, !.req = NoFields,
       !.cur = cur, !.want = to,
       !.sound = /\ cur.iran = op.row.iran /\ cur.foreign = op.row.foreign
                 /\ Works(cur)])

-----------------------------------------------------------------------------
(* Requests.                                                               *)

\* A request that finds the tunnel parameters recorded goes on at once; one
\* that does not asks the IRAN server first.
NewRequest(o, c, kind, req) ==
  /\ o = started + 1 /\ o \in Ops /\ started' = o
  /\ LET op == [NoOp EXCEPT !.conn = c, !.kind = kind, !.row = rows[c],
                            !.req = req]
     IN IF rows[c].params = None
        THEN /\ ops' = [ops EXCEPT ![o] = [op EXCEPT !.pc = "learn"]]
             /\ UNCHANGED locks
        ELSE LET class == EditClass(rows[c], req)
             IN IF kind # "plan" /\ CanApply(c, rows[c], req, class)
                THEN Begin(o, op, rows[c], class)
                ELSE /\ ops' = [ops EXCEPT ![o] = Ended(op, "none")]
                     /\ UNCHANGED locks
  /\ UNCHANGED <<rows, peers, nodes, faults>>

\* POST /gre-connections/:id/plan-edit.  With the parameters recorded it
\* changes nothing.
PlanEdit(o, c) == rows[c].params = None /\ NewRequest(o, c, "plan", NoFields)

\* PUT /gre-connections/:id, as far as the runner's plan.
PutEdit(o, c, req) ==
  /\ CanApply(c, rows[c], req, EditClass(rows[c], req))
  /\ NewRequest(o, c, "edit", req)

\* POST /gre-connections/:id/rollback re-applies the state that operation p
\* recorded, servers excepted.
PutBack(o, c, p) ==
  /\ ops[p].conn = c /\ ops[p].status \notin {"none", "RUNNING"}
  /\ ops[p].cur \in KnownRows
  /\ NewRequest(o, c, "edit",
       [f \in DOMAIN NoFields |->
          IF f \in {"iran", "foreign"} THEN None ELSE ops[p].cur[f]])

\* The answer of gre iran peer list leaves the server.
ReadPeer(o) ==
  /\ ops[o].pc = "learn"
  /\ \/ /\ ops' = [ops EXCEPT ![o].pc = "read",
              ![o].seen = peers[ops[o].row.iran][ops[o].row.peer]]
        /\ UNCHANGED faults
     \/ /\ Fault
        /\ ops' = [ops EXCEPT ![o].pc = "read", ![o].seen = None]
  /\ UNCHANGED <<rows, peers, nodes, started, locks>>

\* learnStateFromServers records the answer, whatever has happened to the row
\* meanwhile; then apply() plans the request from the row as it is now.  Sent
\* as a change of ports, it has become one of servers when the row has moved
\* since: apply() lets that pass, whatever the plan says, and runs it on the
\* servers of the row the request read.  (Without an answer the row it plans
\* from is that one too, and the class is the one it was sent with.)
Learn(o) ==
  LET op    == ops[o]
      c     == op.conn
      seen  == op.seen
      fresh == IF seen = None THEN op.row
               ELSE [rows[c] EXCEPT !.params = seen.params,
                                    !.iranIp = seen.iran,
                                    !.foreignIp = seen.foreign]
      class == EditClass(fresh, op.req)
  IN /\ op.pc = "read"
     /\ rows' = IF seen = None THEN rows ELSE [rows EXCEPT ![c] = fresh]
     /\ IF op.kind = "edit" /\ IF class = "C" THEN seen # None
                               ELSE CanApply(c, fresh, op.req, class)
        THEN Begin(o, op, fresh, IF class = "C" THEN "A" ELSE class)
        ELSE /\ ops' = [ops EXCEPT ![o] = Ended(op, "none")]
             /\ UNCHANGED locks
     /\ UNCHANGED <<peers, nodes, started, faults>>

-----------------------------------------------------------------------------
(* The steps of an operation.                                              *)

\* One command: done; done with the reply lost; refused; or failed and put
\* back by the CLI.
Command(o, can, newPeers, newNodes, ok, failed) ==
  /\ \/ /\ can /\ UNCHANGED faults
        /\ peers' = newPeers /\ nodes' = newNodes /\ Goes(o, ok)
     \/ /\ can /\ Fault
        /\ peers' = newPeers /\ nodes' = newNodes /\ Goes(o, failed)
     \/ /\ IF can THEN Fault ELSE UNCHANGED faults
        /\ UNCHANGED <<peers, nodes>> /\ Goes(o, failed)
  /\ UNCHANGED <<rows, started>>

At(o, pc) == [ops[o] EXCEPT !.pc = pc]

\* A failed edit: the rollback stops at its first statement, which names a
\* variable of the try block, and no command is sent.
EditFailed(o) == Ended(ops[o], "ROLLBACK_FAILED")

\* An option that is not given keeps its value.
Overlaid(old, new) == [f \in DOMAIN new |-> Asked(new[f], old[f])]

NewName(op) == IF op.want.name # op.cur.name THEN op.want.name ELSE op.cur.peer

EditNode(o) ==
  LET op   == ops[o]
      s    == op.row.foreign
      conf == Overlaid(nodes[s][op.cur.peer], NodeConf(op.want))
  IN
  /\ op.pc = "node"
  /\ Command(o, CanEditNode(s, op.cur.peer, NewName(op), conf), peers,
             Renamed(nodes, s, op.cur.peer, NewName(op), conf),
             At(o, "peer"), EditFailed(o))

EditPeer(o) ==
  LET op   == ops[o]
      s    == op.row.iran
      conf == Overlaid(peers[s][op.cur.peer], PeerConf(op.want))
  IN
  /\ op.pc = "peer"
  /\ Command(o, CanEditPeer(s, op.cur.peer, NewName(op), conf),
             Renamed(peers, s, op.cur.peer, NewName(op), conf), nodes,
             At(o, "verify"), EditFailed(o))

\* verifySide: what is known of v is compared, the port lists are not.
Agrees(conf, v) ==
  /\ conf # None
  /\ \A f \in DOMAIN v : v[f] # None => conf[f] = v[f]
PeerSeen(s, n, v) == Agrees(peers[s][n],
  [params |-> v.params, iran |-> v.iranIp, foreign |-> v.foreignIp])
NodeSeen(s, n, v) == Agrees(nodes[s][n], NodeConf(v))

\* gre_routes.name is UNIQUE: an UPDATE to the name of another row throws.
NameFree(c, n) == \A d \in Conns \ {c} : rows[d].name # n

\* Verification, doctor and commitRow.  Doctor exits with 0 or 1, and only an
\* exit above 1 is taken for a failure: what it finds decides nothing.
FinishEdit(o) ==
  LET op == ops[o]  w == op.want
      good == /\ PeerSeen(op.row.iran, w.name, w)
              /\ NodeSeen(op.row.foreign, w.name, w)
              /\ NameFree(op.conn, w.name)
  IN /\ op.pc = "verify"
     /\ \/ /\ good /\ UNCHANGED faults
           /\ rows' = [rows EXCEPT ![op.conn] =
                [w EXCEPT !.peer = w.name, !.iran = rows[op.conn].iran,
                          !.foreign = rows[op.conn].foreign]]
           /\ Goes(o, Ended(op, "SUCCEEDED"))
        \/ /\ IF good THEN Fault ELSE UNCHANGED faults
           /\ UNCHANGED rows /\ Goes(o, EditFailed(o))
     /\ UNCHANGED <<peers, nodes, started>>

-----------------------------------------------------------------------------
(* migrate: the new side is built and checked before the old one goes.     *)

IranMoves(op)    == op.want.iran # op.row.iran
ForeignMoves(op) == op.want.foreign # op.row.foreign

\* gre status on both targets.
CheckTargets(o) ==
  LET op == ops[o] IN
  /\ op.pc = "preflight"
  /\ \/ /\ Goes(o, At(o, IF ForeignMoves(op) THEN "make_node" ELSE "make_peer"))
        /\ UNCHANGED faults
     \/ Fault /\ Goes(o, At(o, "undo"))
  /\ UNCHANGED <<rows, peers, nodes, started>>

\* node_edit first; node_add when it fails, for whatever reason.
MakeNode(o) ==
  LET op   == ops[o]
      s    == op.want.foreign
      n    == op.cur.peer
      conf == NodeConf(op.want)
  IN /\ op.pc = "make_node"
     /\ Command(o, CanEditNode(s, n, n, conf), peers,
                Renamed(nodes, s, n, n, conf),
                At(o, "check_node"), At(o, "add_node"))

AddNode(o) ==
  LET op   == ops[o]
      s    == op.want.foreign
      n    == op.cur.peer
      conf == NodeConf(op.want)
  IN /\ op.pc = "add_node"
     /\ Command(o, CanAddNode(s, n, conf), peers,
                Renamed(nodes, s, n, n, conf),
                At(o, "check_node"), At(o, "undo"))

CheckNode(o) ==
  LET op   == ops[o]
      seen == NodeSeen(op.want.foreign, op.cur.peer, op.want)
  IN /\ op.pc = "check_node"
     /\ \/ /\ seen /\ UNCHANGED faults
           /\ Goes(o, At(o, IF IranMoves(op) THEN "make_peer" ELSE "cutover"))
        \/ /\ IF seen THEN Fault ELSE UNCHANGED faults
           /\ Goes(o, At(o, "undo"))
     /\ UNCHANGED <<rows, peers, nodes, started>>

MakePeer(o) ==
  LET op   == ops[o]
      s    == op.want.iran
      n    == op.cur.peer
      conf == PeerConf(op.want)
  IN /\ op.pc = "make_peer"
     /\ Command(o, CanAddPeer(s, n, conf), Renamed(peers, s, n, n, conf), nodes,
                At(o, "cutover"), At(o, "undo"))

\* Point the old peer, or the node when only the IRAN server moves, at v.
Point(o, v, ok, failed) ==
  LET op == ops[o]  n == op.cur.peer IN
  IF ForeignMoves(op)
  THEN LET s == op.row.iran
       IN Command(o, CanEditPeer(s, n, n, PeerConf(v)),
                  Renamed(peers, s, n, n, PeerConf(v)), nodes, ok, failed)
  ELSE LET s == op.row.foreign
       IN Command(o, CanEditNode(s, n, n, NodeConf(v)), peers,
                  Renamed(nodes, s, n, n, NodeConf(v)), ok, failed)

Cutover(o) ==
  /\ ops[o].pc = "cutover"
  /\ Point(o, ops[o].want, At(o, "prove"), At(o, "undo"))

\* Both sides read back, and pings both ways, which reach the other end only
\* when each side has the other's address; doctor decides nothing here either.
ProvePath(o) ==
  LET op   == ops[o]
      seen == /\ PeerSeen(op.want.iran, op.cur.peer, op.want)
              /\ NodeSeen(op.want.foreign, op.cur.peer, op.want)
              /\ Addressed(op.want)
  IN /\ op.pc = "prove"
     /\ \/ seen /\ UNCHANGED faults /\ Goes(o, At(o, "remove"))
        \/ /\ IF seen THEN Fault ELSE UNCHANGED faults
           /\ Goes(o, At(o, "undo"))
     /\ UNCHANGED <<rows, peers, nodes, started>>

Without(table, s, n) == [table EXCEPT ![s] = [@ EXCEPT ![n] = None]]

CommitKeepsServers(o) ==
  LET op == ops[o]  n == op.cur.peer IN
  /\ op.pc = "remove"
  /\ \/ /\ UNCHANGED faults
        /\ IF ForeignMoves(op)
           THEN nodes' = Without(nodes, op.row.foreign, n) /\ UNCHANGED peers
           ELSE peers' = Without(peers, op.row.iran, n) /\ UNCHANGED nodes
     \/ Fault /\ UNCHANGED <<peers, nodes>>
  /\ rows' = [rows EXCEPT ![op.conn] =
               [op.want EXCEPT !.iran = op.row.iran, !.foreign = op.row.foreign]]
  /\ Goes(o, Ended(op, "SUCCEEDED"))
  /\ UNCHANGED started

\* The old node, or the old peer when only the IRAN server moves, is removed;
\* a failure is a warning.  Then the row names the new pair, and the
\* requested name as that of the peer; if that name is taken by now, the
\* UPDATE throws and the move is rolled back, without its old side.
RemoveOldAndCommit(o) ==
  LET op == ops[o]  n == op.cur.peer IN
  /\ op.pc = "remove"
  /\ \/ /\ UNCHANGED faults
        /\ IF ForeignMoves(op)
           THEN nodes' = Without(nodes, op.row.foreign, n) /\ UNCHANGED peers
           ELSE peers' = Without(peers, op.row.iran, n) /\ UNCHANGED nodes
     \/ Fault /\ UNCHANGED <<peers, nodes>>
  /\ IF NameFree(op.conn, op.want.name)
     THEN /\ rows' = [rows EXCEPT ![op.conn] =
                        [op.want EXCEPT !.peer = op.want.name]]
          /\ Goes(o, Ended(op, "SUCCEEDED"))
     ELSE UNCHANGED rows /\ Goes(o, At(o, "undo"))
  /\ UNCHANGED started

UndoIranSideOnly(o) ==
  /\ ops[o].pc = "undo"
  /\ IF ForeignMoves(ops[o])
     THEN Point(o, ops[o].cur, At(o, "clean"), At(o, "clean_failed"))
     ELSE /\ Goes(o, At(o, "clean"))
          /\ UNCHANGED <<rows, peers, nodes, started, faults>>

UndoNothing(o) ==
  /\ ops[o].pc = "undo"
  /\ Goes(o, At(o, "clean"))
  /\ UNCHANGED <<rows, peers, nodes, started, faults>>

\* The rollback of a move: the old pair is pointed back, then the node (or
\* the peer) on the new server removed, whether or not the first took effect.
Undo(o) ==
  /\ ops[o].pc = "undo"
  /\ Point(o, ops[o].cur, At(o, "clean"), At(o, "clean_failed"))

CleanUp(o) ==
  LET op   == ops[o]
      n    == op.cur.peer
      next == IF op.pc = "clean" THEN At(o, "recheck")
              ELSE Ended(op, "ROLLBACK_FAILED")
  IN /\ op.pc \in {"clean", "clean_failed"}
     /\ \/ /\ UNCHANGED faults
           /\ IF ForeignMoves(op)
              THEN nodes' = Without(nodes, op.want.foreign, n) /\ UNCHANGED peers
              ELSE peers' = Without(peers, op.want.iran, n) /\ UNCHANGED nodes
        \/ Fault /\ UNCHANGED <<peers, nodes>>
     /\ Goes(o, next)
     /\ UNCHANGED <<rows, started>>

\* Only the IRAN side is verified, and under the connection's name.
Recheck(o) ==
  LET op   == ops[o]
      seen == Agrees(peers[op.row.iran][op.cur.name],
                     [params |-> op.cur.params, foreign |-> op.cur.foreignIp])
  IN /\ op.pc = "recheck"
     /\ \/ seen /\ UNCHANGED faults /\ Goes(o, Ended(op, "ROLLED_BACK"))
        \/ /\ IF seen THEN Fault ELSE UNCHANGED faults
           /\ Goes(o, Ended(op, "ROLLBACK_FAILED"))
     /\ UNCHANGED <<rows, peers, nodes, started>>

\* The hub stops and starts: requests and locks are gone, the journal stays.
Restart ==
  /\ \E o \in Ops : ops[o].pc \notin {"none", "done"}
  /\ Fault
  /\ ops' = [o \in Ops |-> IF ops[o].pc \in {"none", "done"} THEN ops[o]
                           ELSE Ended(ops[o], ops[o].status)]
  /\ locks' = [k \in DOMAIN locks |-> 0]
  /\ UNCHANGED <<rows, peers, nodes, started>>

StepOf(o) ==
  \/ ReadPeer(o) \/ Learn(o)
  \/ EditNode(o) \/ EditPeer(o) \/ FinishEdit(o)
  \/ CheckTargets(o) \/ MakeNode(o) \/ AddNode(o) \/ CheckNode(o)
  \/ MakePeer(o) \/ Cutover(o) \/ ProvePath(o) \/ RemoveOldAndCommit(o)
  \/ Undo(o) \/ CleanUp(o) \/ Recheck(o)

RequestOf(o, c) ==
  \/ PlanEdit(o, c)
  \/ \E req \in Edits : PutEdit(o, c, req)
  \/ \E p \in Ops : PutBack(o, c, p)

Next ==
  \/ \E o \in Ops, c \in Conns : RequestOf(o, c)
  \/ \E o \in Ops : StepOf(o)
  \/ Restart

Spec == Init /\ [][Next]_vars

-----------------------------------------------------------------------------
(* Properties.                                                             *)

Statuses == {"none", "RUNNING", "REJECTED", "SUCCEEDED", "ROLLED_BACK",
             "ROLLBACK_FAILED"}
EditPcs  == {"node", "peer", "verify"}
MovePcs  == {"preflight", "make_node", "add_node", "check_node", "make_peer",
             "cutover", "prove", "remove", "undo", "clean", "clean_failed",
             "recheck"}
PeerConfs == [iran: Irans, foreign: Foreigns, params: Params, ports: PortLists]
NodeConfs == [iran: Irans, params: Params]
ASSUME NoConfAssumption == None \notin PeerConfs \cup NodeConfs

OpRecords ==
  [conn: Conns \cup {None}, kind: {"none", "plan", "edit", "move"},
   pc: {"none", "learn", "read", "done"} \cup EditPcs \cup MovePcs,
   status: Statuses, row: Rows \cup {None}, req: Fields,
   seen: PeerConfs \cup {None}, cur: Rows \cup {None},
   want: Rows \cup {None}, sound: BOOLEAN]

\* Every variable has its type: rows and configurations are whole, and an
\* operation of each kind is at one of its own steps.
EditTypeOK ==
  /\ rows \in [Conns -> Rows]
  /\ peers \in [Irans -> [Names -> PeerConfs \cup {None}]]
  /\ nodes \in [Foreigns -> [Names -> NodeConfs \cup {None}]]
  /\ started \in 0..MaxOps /\ faults \in 0..MaxFaults
  /\ locks \in [Conns \cup Servers -> 0..MaxOps]
  /\ ops \in [Ops -> OpRecords]
  /\ \A o \in Ops : /\ ops[o].pc \in EditPcs => ops[o].kind = "edit"
                    /\ ops[o].pc \in MovePcs => ops[o].kind = "move"

\* connections.js: "one mutation per connection, and one per server".  Two
\* operations under way never share a connection or a server, whatever
\* servers each of them moves between and however old the rows are that they
\* took their servers from.
OneMutationPerServer ==
  \A o, q \in Ops : o # q /\ Live(o) /\ Live(q) =>
    KeysOf(ops[o]) \cap KeysOf(ops[q]) = {}

\* The lock table is exactly what the live operations need: an operation that
\* ends, however it ends, leaves nothing locked.
LocksExact ==
  \A k \in Conns \cup Servers, o \in Ops :
    locks[k] = o <=> Live(o) /\ k \in KeysOf(ops[o])

\* An operation ends in this step with this status.
Ends(o, status) == ops[o].status # status /\ ops'[o].status = status

\* Operations that started from a working connection, except moves that give
\* it another name: these commit a name that no server has, and lose the old
\* side when another connection has taken the name meanwhile.
Renames(op) == op.kind = "move" /\ op.want.name # op.cur.name
Plain(op)   == op.sound /\ ~Renames(op)

\* An operation that reports SUCCEEDED leaves a row whose two servers hold
\* exactly what it says.
CommitInPlace ==
  [][\A o \in Ops : Ends(o, "SUCCEEDED") /\ Plain(ops[o]) =>
       InPlace(rows[ops[o].conn])']_vars

\* Some pair of the servers of a move is configured, each end for the other.
PathOf(op) ==
  \E i \in {op.row.iran, op.want.iran}, f \in {op.row.foreign, op.want.foreign} :
    LET p == peers[i][op.cur.peer]
        n == nodes[f][op.cur.peer]
    IN /\ p # None /\ n # None
       /\ p.foreign = f /\ n.iran = p.iran /\ n.params = p.params
       /\ p.iran = i

\* migrate: make before break.  A move has a working pair at every step,
\* through its cutover, the removal of the old side and the rollback, if one
\* command, reply or check fails.
MoveKeepsAPath ==
  \A o \in Ops : ops[o].kind = "move" /\ Live(o) /\ Plain(ops[o]) =>
    PathOf(ops[o])

\* A move that reports ROLLED_BACK has both sides of the old pair back as they
\* were, although only the IRAN side is read back.
CleanRollback ==
  [][\A o \in Ops : Ends(o, "ROLLED_BACK") /\ Plain(ops[o]) =>
       InPlace(ops[o].cur)']_vars

\* connections.js: "ROLLBACK: restore the previous values by applying them,
\* then verify."  An edit of a working connection that fails leaves it as it
\* was.  (Checked with one fault, so no command of a rollback fails.)
FailedEditRestored ==
  [][\A o \in Ops :
       ops[o].kind = "edit" /\ Ends(o, "ROLLBACK_FAILED") /\ ops[o].sound =>
         InPlace(ops[o].cur)']_vars
=============================================================================

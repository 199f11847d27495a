------------------------ MODULE RouteLifecycleProofs ------------------------
(***************************************************************************)
(* What holds of the routes for every number of routes, ports, names, runs *)
(* and concurrent requests, whatever overlaps, times out or fails: the     *)
(* types, the exclusiveness of ports, the mirror of a route's port, and    *)
(* what a rollback leaves.  With one request at a time on a route and no   *)
(* timer: registry and status agree, and what is ACTIVE was built.         *)
(***************************************************************************)
EXTENDS RouteLifecycle, TLAPS

(* A run and a request are always about a route.                           *)
Shape ==
  /\ \A u \in Runs : Live(u) => runs[u].route \in Routes
  /\ \A h \in Handlers : ops[h].step # "none" => ops[h].route \in Routes

RouteInv == RouteTypeOK /\ Shape

-----------------------------------------------------------------------------
(* The initial rows, runs and requests are well-typed.                     *)
LEMMA Blanks ==
  NoRow \in Rows /\ NoRun \in RunRecords /\ IdleOp \in Requested
BY DEF NoRow, NoRun, IdleOp, Rows, RunRecords, Requested, Statuses, None

LEMMA InitInv == Init => RouteInv
BY Blanks, RunBoundsAssumption, RequestSwitchesAssumption
   DEF Init, RunsInit, RouteInv, RouteTypeOK, Shape, Live, LivePcs, Preflights,
       Building, Idle, IdleOp, NoRun, AllocRows, AllocStatuses, None, Runs, Names

(* The five parts of the invariant that a step can disturb separately.    *)
RunsFine ==
  /\ runs \in [Runs -> RunRecords]
  /\ \A u \in Runs : Live(u) => runs[u].route \in Routes

RowsFine == route \in [Routes -> Rows] /\ alloc \in [Routes -> AllocRows]

RemoteFine ==
  /\ peers \in [Names -> Runs \cup {None}]
  /\ nodes \in [Names -> Runs \cup {None}]
  /\ inbounds \subseteq Runs

CountsFine ==
  started \in 0..MaxRuns /\ running \subseteq Routes /\ faults \in 0..MaxFaults

OpsFine ==
  /\ ops \in [Handlers -> Requested]
  /\ \A h \in Handlers : ops[h].step # "none" => ops[h].route \in Routes
  /\ restarts \in 0..MaxRestarts

LEMMA InvParts ==
  RouteInv <=> RunsFine /\ RowsFine /\ RemoteFine /\ CountsFine /\ OpsFine
BY DEF RouteInv, RouteTypeOK, Shape, RunsFine, RowsFine, RemoteFine,
       CountsFine, OpsFine

LEMMA InvParts2 ==
  (RunsFine /\ RowsFine /\ RemoteFine /\ CountsFine /\ OpsFine)' => RouteInv'
BY DEF RouteInv, RouteTypeOK, Shape, RunsFine, RowsFine, RemoteFine,
       CountsFine, OpsFine, Live

-----------------------------------------------------------------------------
(* What the helpers of RouteRuns do to the types.                          *)
LEMMA StepFine ==
  ASSUME RunsFine, NEW u \in Runs, Live(u), NEW pc \in LivePcs, Step(u, pc)
  PROVE  RunsFine'
<1>1. runs' = [runs EXCEPT ![u].pc = pc]
  BY DEF Step
<1>2. runs' \in [Runs -> RunRecords]
  BY <1>1 DEF RunsFine, RunRecords
<1>3. \A v \in Runs : runs'[v].route = runs[v].route
                     /\ (v # u => runs'[v].pc = runs[v].pc)
  BY <1>1 DEF RunsFine, RunRecords
<1> QED BY <1>2, <1>3 DEF RunsFine, Live

(* A run's record is overwritten by one that is about the same route.      *)
LEMMA RunWritten ==
  ASSUME RunsFine, NEW u \in Runs, NEW rec \in RunRecords,
         runs' = [runs EXCEPT ![u] = rec], rec.route = runs[u].route,
         rec.pc \in LivePcs => Live(u)
  PROVE  RunsFine'
<1>1. runs' \in [Runs -> RunRecords] /\ runs'[u] = rec
  BY DEF RunsFine
<1>2. \A v \in Runs : v # u => runs'[v] = runs[v]
  BY DEF RunsFine
<1> QED BY <1>1, <1>2 DEF RunsFine, Live

LEMMA EndFine ==
  ASSUME RunsFine, NEW u \in Runs, NEW pc \in EndPcs, End(u, pc)
  PROVE  RunsFine'
<1> DEFINE rec == [NoRun EXCEPT
             !.route = runs[u].route, !.pc = pc, !.port = runs[u].port,
             !.peer = runs[u].peer, !.lost = runs[u].lost]
<1>1. runs[u] \in RunRecords
  BY DEF RunsFine
<1>2. /\ runs[u].route \in Routes \cup {None} /\ runs[u].port \in Ports \cup {None}
      /\ runs[u].peer \in Names \cup {None} /\ runs[u].lost \in SUBSET Parts
  BY <1>1 DEF RunRecords
<1>3. rec \in RunRecords /\ rec.pc = pc
  BY <1>2 DEF NoRun, RunRecords
<1> HIDE DEF rec
<1>4. runs' = [runs EXCEPT ![u] = rec]
  BY DEF End, rec
<1>5. runs' \in [Runs -> RunRecords] /\ runs'[u] = rec
  BY <1>3, <1>4 DEF RunsFine
<1>6. \A v \in Runs : v # u => runs'[v] = runs[v]
  BY <1>4 DEF RunsFine
<1>7. pc \notin LivePcs
  BY DEF EndPcs, LivePcs, Preflights, Building
<1> QED BY <1>3, <1>5, <1>6, <1>7 DEF RunsFine, Live

LEMMA StatusFine ==
  ASSUME RowsFine, NEW r \in Routes, NEW s \in Statuses,
         NEW a \in AllocStatuses, SetStatus(r, s, a)
  PROVE  RowsFine'
BY DEF RowsFine, SetStatus, Rows, AllocRows

LEMMA RowWritten ==
  ASSUME RowsFine, NEW r \in Routes, NEW row \in Rows,
         route' = [route EXCEPT ![r] = row]
  PROVE  route' \in [Routes -> Rows]
BY DEF RowsFine

LEMMA AllocStatusFine ==
  ASSUME RowsFine, NEW r \in Routes, NEW a \in AllocStatuses,
         alloc' = [alloc EXCEPT ![r].status = a]
  PROVE  alloc' \in [Routes -> AllocRows]
BY DEF RowsFine, AllocRows

LEMMA PortFine ==
  ASSUME RowsFine, NEW r \in Routes, NEW p \in Ports,
         route' = [route EXCEPT ![r].port = p],
         alloc' = [alloc EXCEPT ![r].port = p]
  PROVE  RowsFine'
<1>1. route' \in [Routes -> Rows]
  BY DEF RowsFine, Rows
<1>2. alloc' \in [Routes -> AllocRows]
  BY DEF RowsFine, AllocRows
<1> QED BY <1>1, <1>2 DEF RowsFine

LEMMA OwnedFine ==
  ASSUME RowsFine, NEW r \in Routes, NEW b \in BOOLEAN,
         route' = [route EXCEPT ![r].owned = b] \/ UNCHANGED route,
         UNCHANGED alloc
  PROVE  RowsFine'
<1> DEFINE row == [route[r] EXCEPT !.owned = b]
<1>1. row \in Rows
  BY DEF RowsFine, Rows
<1>2. route' = [route EXCEPT ![r] = row] \/ UNCHANGED route
  OBVIOUS
<1> HIDE DEF row
<1>3. route' \in [Routes -> Rows]
  BY <1>1, <1>2, RowWritten DEF RowsFine
<1> QED BY <1>3 DEF RowsFine

LEMMA FaultFine ==
  ASSUME faults \in 0..MaxFaults, Fault PROVE faults' \in 0..MaxFaults
BY RunBoundsAssumption DEF Fault

LEMMA CostFine ==
  ASSUME faults \in 0..MaxFaults, NEW reply, Cost(reply)
  PROVE  faults' \in 0..MaxFaults
BY FaultFine DEF Cost

LEMMA MadeFine ==
  ASSUME RunsFine, NEW u \in Runs, Live(u), NEW part \in Parts,
         NEW next \in LivePcs, NEW reply, Made(u, part, next, reply)
  PROVE  RunsFine'
<1>0. "undo" \in LivePcs
  BY DEF LivePcs
<1>r. runs[u] \in RunRecords
  BY DEF RunsFine
<1>1. CASE reply = "ok"
  <2> DEFINE rec == [runs[u] EXCEPT !.pc = next, !.made = @ \cup {part}]
  <2>1. rec \in RunRecords /\ rec.route = runs[u].route
    BY <1>r DEF RunRecords
  <2>2. runs' = [runs EXCEPT ![u] = rec]
    BY <1>1 DEF Made
  <2> QED BY <2>1, <2>2, RunWritten
<1>2. CASE reply # "ok"
  <2> DEFINE rec == [runs[u] EXCEPT !.pc = "undo", !.lost = @ \cup {part}]
  <2>1. rec \in RunRecords /\ rec.route = runs[u].route
    BY <1>r, <1>0 DEF RunRecords
  <2>2. runs' = [runs EXCEPT ![u] = rec]
    BY <1>2 DEF Made
  <2> QED BY <2>1, <2>2, RunWritten
<1> QED BY <1>1, <1>2

LEMMA LeaveFine ==
  ASSUME running \subseteq Routes, NEW u, LeaveMap(u)
  PROVE  running' \subseteq Routes
BY DEF LeaveMap

-----------------------------------------------------------------------------
(* Every step of a run keeps the types: one named step per action.         *)
LEMMA RunStepTypes ==
  ASSUME RouteInv, NEW u \in Runs, Provision(u)
  PROVE  RouteInv'
<1> DEFINE r == runs[u].route
           Ok == (RunsFine /\ RowsFine /\ RemoteFine /\ CountsFine)'
<1>0. RunsFine /\ RowsFine /\ RemoteFine /\ CountsFine /\ OpsFine
  BY InvParts
<1>o. OpsFine'
  BY <1>0 DEF Provision, OpsFine
<1>r. Live(u) => r \in Routes
  BY <1>0 DEF RunsFine
<1>p. runs[u].pc \in LivePcs <=> Live(u)
  BY DEF Live
<1>t. /\ route[r] \in Rows \/ r \notin Routes
      /\ runs[u] \in RunRecords
  BY <1>0 DEF RowsFine, RunsFine
<1>f. faults \in 0..MaxFaults /\ running \subseteq Routes /\ started \in 0..MaxRuns
  BY <1>0 DEF CountsFine
<1>s. Statuses = {"none", "RESERVED", "ACTIVE", "FAILED", "NEEDS_REVIEW", "STALE"}
      /\ AllocStatuses = {"none", "RESERVED", "ACTIVE", "NEEDS_REVIEW", "RELEASED"}
  BY DEF Statuses, AllocStatuses
<1> HIDE DEF r
<1>1. ASSUME Preflight(u) PROVE Ok
  <2>1. Live(u) /\ "port_check" \in LivePcs
    BY <1>1 DEF Preflight, Live, LivePcs, Preflights, Building
  <2>2. route[r] \in Rows /\ route[r].port \in Ports \cup {None}
    BY <2>1, <1>r, <1>t DEF Rows
  <2> DEFINE rec == [runs[u] EXCEPT !.pc = "port_check", !.port = route[r].port]
  <2>3. runs' = [runs EXCEPT ![u] = rec]
    BY <1>1 DEF Preflight, r
  <2>4. rec \in RunRecords /\ rec.route = runs[u].route
    BY <2>1, <2>2, <1>t DEF RunRecords
  <2> HIDE DEF rec
  <2>6. RunsFine'
    BY <1>0, <2>1, <2>3, <2>4, RunWritten
  <2> QED BY <2>6, <1>0, <1>1 DEF Preflight, RowsFine, RemoteFine, CountsFine, rowVars, remoteVars
<1>2. ASSUME KeepPort(u) PROVE Ok
  <2>1. Live(u) /\ "connectivity" \in LivePcs
    BY <1>2 DEF KeepPort, Live, LivePcs, Preflights, Building
  <2>2. RunsFine'
    BY <1>0, <1>2, <2>1, StepFine DEF KeepPort
  <2> QED BY <2>2, <1>0, <1>2 DEF KeepPort, RowsFine, RemoteFine, CountsFine, rowVars, remoteVars
<1>3. ASSUME NEW p \in Ports, MovePort(u, p) PROVE Ok
  <2>1. Live(u) /\ "connectivity" \in LivePcs
    BY <1>3 DEF MovePort, Live, LivePcs, Preflights, Building
  <2>2. RunsFine'
    BY <1>0, <1>3, <2>1, StepFine DEF MovePort
  <2>3. r \in Routes
    BY <2>1, <1>r
  <2>4. /\ route' = [route EXCEPT ![r].port = p]
        /\ alloc' = [alloc EXCEPT ![r] = [status |-> "RESERVED", port |-> p]]
    BY <1>3 DEF MovePort, r
  <2>5. RowsFine'
    BY <1>0, <1>s, <2>3, <2>4 DEF RowsFine, Rows, AllocRows
  <2> QED BY <2>2, <2>5, <1>0, <1>3 DEF MovePort, RemoteFine, CountsFine, remoteVars
<1>4. ASSUME Reach(u) PROVE Ok
  <2>1. Live(u) /\ "pairing" \in LivePcs
    BY <1>4 DEF Reach, Live, LivePcs, Preflights, Building
  <2>2. route[r] \in Rows /\ route[r].port \in Ports \cup {None}
    BY <2>1, <1>r, <1>t DEF Rows
  <2> DEFINE rec == [runs[u] EXCEPT !.pc = "pairing", !.port = route[r].port]
  <2>3. runs' = [runs EXCEPT ![u] = rec]
    BY <1>4 DEF Reach, r
  <2>4. rec \in RunRecords /\ rec.route = runs[u].route
    BY <2>1, <2>2, <1>t DEF RunRecords
  <2> HIDE DEF rec
  <2>6. RunsFine'
    BY <1>0, <2>1, <2>3, <2>4, RunWritten
  <2> QED BY <2>6, <1>0, <1>4 DEF Reach, RowsFine, RemoteFine, CountsFine, rowVars, remoteVars
<1>5. ASSUME Abort(u) PROVE Ok
  <2>1. Live(u) /\ "aborted" \in EndPcs /\ End(u, "aborted")
    BY <1>5 DEF Abort, Live, LivePcs, EndPcs
  <2>2. RunsFine'
    BY <1>0, <2>1, EndFine
  <2>3. RowsFine'
    BY <1>0, <1>5, <1>s, <2>1, <1>r, StatusFine DEF Abort, RowsFine, rowVars, r
  <2>4. CountsFine'
    BY <1>f, <1>5, LeaveFine DEF Abort, CountsFine
  <2> QED BY <2>2, <2>3, <2>4, <1>0, <1>5 DEF Abort, RemoteFine, remoteVars
<1>6. ASSUME Throw(u) PROVE Ok
  <2>1. Live(u) /\ "undo" \in LivePcs
    BY <1>6 DEF Throw, Live, LivePcs, Preflights, Building
  <2>2. RunsFine'
    BY <1>0, <1>6, <2>1, StepFine DEF Throw
  <2> QED BY <2>2, <1>0, <1>6 DEF Throw, RowsFine, RemoteFine, CountsFine, rowVars, remoteVars
<1>7. ASSUME Pair(u) PROVE Ok
  <2>1. Live(u) /\ "node_add" \in LivePcs
    BY <1>7 DEF Pair, Live, LivePcs, Preflights, Building
  <2>2. PICK n \in Names :
          /\ runs'  = [runs EXCEPT ![u].pc = "node_add", ![u].peer = n]
          /\ route' = [route EXCEPT ![r].peer = n]
    BY <1>7 DEF Pair, r
  <2> DEFINE rec == [runs[u] EXCEPT !.pc = "node_add", !.peer = n]
             row == [route[r] EXCEPT !.peer = n]
  <2>3. runs' = [runs EXCEPT ![u] = rec]
    BY <2>2
  <2>4. rec \in RunRecords /\ rec.route = runs[u].route
    BY <2>1, <1>t DEF RunRecords
  <2>5. row \in Rows /\ route' = [route EXCEPT ![r] = row]
    BY <2>1, <2>2, <1>r, <1>t DEF Rows
  <2> HIDE DEF rec, row
  <2>6. RunsFine'
    BY <1>0, <2>1, <2>3, <2>4, RunWritten
  <2>7. RowsFine'
    BY <1>0, <1>7, <2>5 DEF RowsFine, Pair
  <2> QED BY <2>6, <2>7, <1>0, <1>7 DEF Pair, RemoteFine, CountsFine, remoteVars
<1>8. ASSUME NEW reply \in Replies, AddNode(u, reply) PROVE Ok
  <2>1. Live(u) /\ "peer_add" \in LivePcs /\ "node" \in Parts
    BY <1>8 DEF AddNode, Live, LivePcs, Preflights, Building, Parts
  <2>2. RunsFine'
    BY <1>0, <1>8, <2>1, MadeFine DEF AddNode
  <2>3. RemoteFine'
    BY <1>0, <1>8 DEF AddNode, RemoteFine
  <2>4. RowsFine'
    BY <1>0, <1>8 DEF AddNode, RowsFine, rowVars
  <2>5. CountsFine'
    BY <1>f, <1>8, CostFine DEF AddNode, CountsFine
  <2> QED BY <2>2, <2>3, <2>4, <2>5
<1>9. ASSUME NEW reply \in Replies, AddPeer(u, reply) PROVE Ok
  <2>1. Live(u) /\ "inbound_add" \in LivePcs /\ "peer" \in Parts
    BY <1>9 DEF AddPeer, Live, LivePcs, Preflights, Building, Parts
  <2>2. RunsFine'
    BY <1>0, <1>9, <2>1, MadeFine DEF AddPeer
  <2>3. RemoteFine'
    BY <1>0, <1>9 DEF AddPeer, RemoteFine
  <2>4. RowsFine'
    BY <1>0, <1>9 DEF AddPeer, RowsFine, rowVars
  <2>5. CountsFine'
    BY <1>f, <1>9, CostFine DEF AddPeer, CountsFine
  <2> QED BY <2>2, <2>3, <2>4, <2>5
<1>10. ASSUME NEW reply \in Replies, AddInbound(u, reply) PROVE Ok
  <2>1. Live(u) /\ "client" \in LivePcs /\ "inbound" \in Parts
    BY <1>10 DEF AddInbound, Live, LivePcs, Preflights, Building, Parts
  <2>2. RunsFine'
    BY <1>0, <1>10, <2>1, MadeFine DEF AddInbound
  <2>3. RemoteFine'
    BY <1>0, <1>10 DEF AddInbound, RemoteFine
  <2>4. RowsFine'
    <3>1. r \in Routes
      BY <2>1, <1>r
    <3>2. route' \in [Routes -> Rows]
      BY <1>0, <1>10, <3>1 DEF AddInbound, RowsFine, Rows, r
    <3> QED BY <1>0, <1>10, <3>2 DEF AddInbound, RowsFine
  <2>5. CountsFine'
    BY <1>f, <1>10, CostFine DEF AddInbound, CountsFine
  <2> QED BY <2>2, <2>3, <2>4, <2>5
<1>11. ASSUME AddClient(u) PROVE Ok
  <2>1. Live(u) /\ "validate" \in LivePcs /\ "client" \in Parts
    BY <1>11 DEF AddClient, Live, LivePcs, Preflights, Building, Parts
  <2>2. RunsFine'
    BY <1>0, <1>11, <2>1, MadeFine, StepFine DEF AddClient
  <2>3. route' = [route EXCEPT ![r].owned = TRUE] \/ UNCHANGED route
    BY <1>11 DEF AddClient, r
  <2>4. RowsFine'
    BY <1>0, <1>11, <1>r, <2>1, <2>3, OwnedFine DEF AddClient
  <2> QED BY <2>2, <2>4, <1>0, <1>11 DEF AddClient, RemoteFine, CountsFine, remoteVars
<1>12. ASSUME Validate(u) PROVE Ok
  <2>1. Live(u) /\ "activate" \in LivePcs
    BY <1>12 DEF Validate, Live, LivePcs, Preflights, Building
  <2>2. RunsFine'
    BY <1>0, <1>12, <2>1, StepFine DEF Validate
  <2> QED BY <2>2, <1>0, <1>12 DEF Validate, RowsFine, RemoteFine, CountsFine, rowVars, remoteVars
<1>13. ASSUME Activate(u) PROVE Ok
  <2>1. Live(u) /\ "active" \in EndPcs /\ End(u, "active")
    BY <1>13 DEF Activate, Live, LivePcs, Building, EndPcs
  <2>2. RunsFine'
    BY <1>0, <2>1, EndFine
  <2>3. /\ route' = [route EXCEPT ![r].status = "ACTIVE", ![r].inbound = u]
        /\ alloc' = [alloc EXCEPT ![r].status = "ACTIVE"]
    BY <1>13 DEF Activate, r
  <2> DEFINE row == [route[r] EXCEPT !.status = "ACTIVE", !.inbound = u]
  <2>4. row \in Rows /\ route' = [route EXCEPT ![r] = row]
    BY <2>1, <2>3, <1>r, <1>t, <1>s DEF Rows
  <2>5. alloc' \in [Routes -> AllocRows]
    BY <1>0, <1>s, <2>3 DEF RowsFine, AllocRows
  <2> HIDE DEF row
  <2>6. RowsFine'
    BY <1>0, <2>4, <2>5 DEF RowsFine
  <2>7. CountsFine'
    BY <1>f, <1>13, LeaveFine DEF Activate, CountsFine
  <2> QED BY <2>2, <2>6, <2>7, <1>0, <1>13 DEF Activate, RemoteFine, remoteVars
<1>14. ASSUME NEW part \in Parts, NEW reply \in Replies, Rollback(u, part, reply) PROVE Ok
  <2>1. Live(u)
    BY <1>14 DEF Rollback, Live, LivePcs
  <2>2. runs' = [runs EXCEPT ![u].undone = @ \cup {part},
                             ![u].dirty  = @ \/ reply # "ok"]
    BY <1>14 DEF Rollback, UndoPart
  <2> DEFINE rec == [runs[u] EXCEPT !.undone = @ \cup {part},
                                    !.dirty = @ \/ reply # "ok"]
  <2>3. runs' = [runs EXCEPT ![u] = rec]
    BY <2>2
  <2>4. rec \in RunRecords /\ rec.route = runs[u].route
    BY <1>t DEF RunRecords
  <2> HIDE DEF rec
  <2>5. RunsFine'
    BY <1>0, <2>1, <2>3, <2>4, RunWritten
  <2>6. RemoteFine'
    BY <1>0, <1>14 DEF Rollback, UndoPart, RemoteFine
  <2>7. CountsFine'
    BY <1>f, <1>14, CostFine DEF Rollback, CountsFine
  <2> QED BY <2>5, <2>6, <2>7, <1>0, <1>14 DEF Rollback, RowsFine, rowVars
<1>15. ASSUME Fail(u) PROVE Ok
  <2>1. /\ Live(u) /\ "partial" \in EndPcs /\ "clean" \in EndPcs
        /\ End(u, IF runs[u].dirty THEN "partial" ELSE "clean")
    BY <1>15 DEF Fail, Live, LivePcs, EndPcs
  <2>2. RunsFine'
    BY <1>0, <2>1, EndFine
  <2>3. /\ route' = [route EXCEPT ![r].status = "FAILED",
                        ![r].inbound = IF "inbound" \in runs[u].made
                                       THEN u ELSE None]
        /\ alloc' = [alloc EXCEPT ![r].status = "RELEASED"]
    BY <1>15 DEF Fail, r
  <2> DEFINE row == [route[r] EXCEPT !.status = "FAILED",
                       !.inbound = IF "inbound" \in runs[u].made
                                   THEN u ELSE None]
  <2>4. row \in Rows /\ route' = [route EXCEPT ![r] = row]
    BY <2>1, <2>3, <1>r, <1>t, <1>s DEF Rows
  <2>5. alloc' \in [Routes -> AllocRows]
    BY <1>0, <1>s, <2>3 DEF RowsFine, AllocRows
  <2> HIDE DEF row
  <2>6. RowsFine'
    BY <1>0, <2>4, <2>5 DEF RowsFine
  <2>7. CountsFine'
    BY <1>f, <1>15, LeaveFine DEF Fail, CountsFine
  <2> QED BY <2>2, <2>6, <2>7, <1>0, <1>15 DEF Fail, RemoteFine, remoteVars
<1>16. ASSUME TimeOut(u) PROVE Ok
  <2>1. Live(u) /\ runs' = [runs EXCEPT ![u].late = TRUE]
    BY <1>16 DEF TimeOut
  <2> DEFINE rec == [runs[u] EXCEPT !.late = TRUE]
  <2>a. rec \in RunRecords /\ rec.route = runs[u].route /\ rec.pc = runs[u].pc
    BY <1>0 DEF RunsFine, RunRecords
  <2>b. runs' = [runs EXCEPT ![u] = rec]
    BY <2>1
  <2> HIDE DEF rec
  <2>2. runs' \in [Runs -> RunRecords]
    BY <1>0, <2>a, <2>b DEF RunsFine
  <2>3. \A v \in Runs : runs'[v].route = runs[v].route /\ runs'[v].pc = runs[v].pc
    BY <1>0, <2>a, <2>b DEF RunsFine
  <2>4. RunsFine'
    BY <1>0, <2>2, <2>3 DEF RunsFine, Live
  <2>5. RowsFine'
    BY <1>0, <1>16, <1>s, <2>1, <1>r, StatusFine DEF TimeOut, RowsFine, rowVars, r
  <2>6. CountsFine'
    BY <1>f, <1>16, FaultFine DEF TimeOut, CountsFine
  <2> QED BY <2>4, <2>5, <2>6, <1>0, <1>16 DEF TimeOut, RemoteFine, remoteVars
<1>17. Ok
  BY <1>1, <1>2, <1>3, <1>4, <1>5, <1>6, <1>7, <1>8, <1>9, <1>10, <1>11,
     <1>12, <1>13, <1>14, <1>15, <1>16 DEF Provision, RunStep
<1> QED BY <1>17, <1>o, InvParts2
-----------------------------------------------------------------------------
(* The requests.                                                           *)
LEMMA FinishFine ==
  ASSUME OpsFine, NEW h \in Handlers, Finish(h), UNCHANGED restarts
  PROVE  OpsFine'
<1>1. ops' \in [Handlers -> Requested]
  BY Blanks DEF Finish, OpsFine
<1>2. \A g \in Handlers : ops'[g] = ops[g] \/ ops'[g] = IdleOp
  BY DEF Finish, OpsFine
<1> QED BY <1>1, <1>2 DEF OpsFine, IdleOp

LEMMA BeginFine ==
  ASSUME OpsFine, NEW h \in Handlers, NEW r \in Routes, NEW row \in Rows,
         NEW kind \in {"edit", "reconcile", "retry", "delete"},
         NEW s \in {"preflight", "probe", "recommend", "client"},
         Begin(h, kind, r, s, row), UNCHANGED restarts
  PROVE  OpsFine'
<1> DEFINE op == [IdleOp EXCEPT !.kind = kind, !.route = r, !.step = s, !.row = row]
<1>1. op \in Requested /\ op.route = r
  BY Blanks DEF Requested, IdleOp
<1> HIDE DEF op
<1>2. ops' = [ops EXCEPT ![h] = op]
  BY DEF Begin, op
<1>3. ops' \in [Handlers -> Requested]
  BY <1>1, <1>2 DEF OpsFine
<1>4. \A g \in Handlers : ops'[g] = IF g = h THEN op ELSE ops[g]
  BY <1>2 DEF OpsFine
<1> QED BY <1>1, <1>3, <1>4 DEF OpsFine

(* A request moves on to its next step.                                    *)
LEMMA OpWritten ==
  ASSUME OpsFine, NEW h \in Handlers, NEW op \in Requested,
         op.route = ops[h].route, ops[h].step # "none",
         ops' = [ops EXCEPT ![h] = op], UNCHANGED restarts
  PROVE  OpsFine'
<1>1. ops' \in [Handlers -> Requested]
  BY DEF OpsFine
<1>2. \A g \in Handlers : ops'[g] = IF g = h THEN op ELSE ops[g]
  BY DEF OpsFine
<1> QED BY <1>1, <1>2 DEF OpsFine

(* The copies that requests keep are rows.                                 *)
LEMMA Copies ==
  ASSUME NEW row \in Rows
  PROVE  PortOnly(row) \in Rows /\ Owned(row) \in Rows /\ Judged(row) \in Rows
BY DEF Rows, PortOnly, Owned, Judged, NoRow, Statuses, None

LEMMA StartFine ==
  ASSUME RunsFine, CountsFine, UNCHANGED faults, NEW r \in Routes, StartRun(r)
  PROVE  RunsFine' /\ CountsFine'
<1>1. [NoRun EXCEPT !.route = r, !.pc = "preflight"] \in RunRecords
  BY DEF NoRun, RunRecords, LivePcs, Preflights, None
<1>2. runs' \in [Runs -> RunRecords]
  BY <1>1 DEF StartRun, RunsFine
<1>3. CountsFine'
  BY RunBoundsAssumption DEF StartRun, CountsFine
<1>4. ASSUME NEW u \in Runs, Live(u)' PROVE runs'[u].route \in Routes
  <2>1. CASE u = started + 1
    BY <2>1, <1>4 DEF StartRun, RunsFine, NoRun
  <2>2. CASE u # started + 1
    <3>1. runs'[u] = runs[u]
      BY <2>2 DEF StartRun, RunsFine
    <3> QED BY <3>1, <1>4 DEF RunsFine, Live
  <2> QED BY <2>1, <2>2
<1> QED BY <1>2, <1>3, <1>4 DEF RunsFine

LEMMA ReservedFine ==
  ASSUME RowsFine, NEW r \in Routes, NEW p \in Ports, NEW row \in Rows,
         route' = [route EXCEPT ![r] = row],
         alloc' = [alloc EXCEPT ![r] = [status |-> "RESERVED", port |-> p]]
  PROVE  RowsFine'
BY DEF RowsFine, AllocRows, AllocStatuses

LEMMA CreateTypes ==
  ASSUME RouteInv, NEW r \in Routes, NEW p \in Ports, Create(r, p)
  PROVE  RouteInv'
<1>0. RunsFine /\ RowsFine /\ RemoteFine /\ CountsFine /\ OpsFine
  BY InvParts
<1> DEFINE row == [route[r] EXCEPT !.status = "RESERVED", !.port = p]
<1>1. row \in Rows
  BY <1>0 DEF RowsFine, Rows, Statuses
<1>2. route' = [route EXCEPT ![r] = row]
  BY DEF Create
<1> HIDE DEF row
<1>3. RowsFine'
  BY <1>0, <1>1, <1>2, ReservedFine DEF Create
<1>4. RunsFine' /\ CountsFine'
  BY <1>0, StartFine DEF Create
<1> QED BY <1>0, <1>3, <1>4, InvParts2 DEF Create, RemoteFine, OpsFine, remoteVars

LEMMA RequestStartTypes ==
  ASSUME RouteInv, NEW h \in Handlers, NEW r \in Routes, RequestStarts(h, r)
  PROVE  RouteInv'
<1>0. RunsFine /\ RowsFine /\ RemoteFine /\ CountsFine /\ OpsFine
  BY InvParts
<1>1. route[r] \in Rows
  BY <1>0 DEF RowsFine
<1>2. PortOnly(route[r]) \in Rows /\ Owned(route[r]) \in Rows /\ Judged(route[r]) \in Rows
  BY <1>1, Copies
<1>3. OpsFine'
  <2>1. CASE StartEdit(h, r)
    BY <1>0, <1>2, <2>1, BeginFine DEF StartEdit
  <2>2. CASE StartReconcile(h, r)
    BY <1>0, <1>2, <2>2, BeginFine DEF StartReconcile
  <2>3. CASE StartRetry(h, r)
    BY <1>0, <1>2, <2>3, BeginFine DEF StartRetry
  <2>4. CASE StartDelete(h, r)
    BY <1>0, <1>2, <2>4, BeginFine DEF StartDelete
  <2> QED BY <2>1, <2>2, <2>3, <2>4 DEF RequestStarts
<1>4. UNCHANGED runVars
  BY DEF RequestStarts, StartEdit, StartReconcile, StartRetry, StartDelete
<1>5. (RunsFine /\ RowsFine /\ RemoteFine /\ CountsFine)'
  BY <1>0, <1>4 DEF runVars, rowVars, remoteVars, RunsFine, RowsFine,
     RemoteFine, CountsFine, Live
<1> QED BY <1>3, <1>5, InvParts2

LEMMA AfterFine ==
  ASSUME OpsFine, NEW h \in Handlers, NEW reply,
         NEW s \in {"inbound", "peer", "node", "rows"}, ops[h].step # "none", After(h, s, reply), UNCHANGED restarts
  PROVE  OpsFine'
<1> DEFINE op == [ops[h] EXCEPT !.step = s,
                     !.failed = @ \/ reply \in {"refused", "lost"}]
<1>1. ops[h] \in Requested
  BY DEF OpsFine
<1>2. op \in Requested /\ op.route = ops[h].route
  BY <1>1 DEF Requested
<1>3. ops' = [ops EXCEPT ![h] = op]
  BY DEF After
<1> HIDE DEF op
<1> QED BY <1>2, <1>3, OpWritten

LEMMA RequestStepTypes ==
  ASSUME RouteInv, NEW h \in Handlers, RequestStep(h)
  PROVE  RouteInv'
<1> DEFINE r == ops[h].route
           Ok == (RunsFine /\ RowsFine /\ RemoteFine /\ CountsFine /\ OpsFine)'
<1>0. RunsFine /\ RowsFine /\ RemoteFine /\ CountsFine /\ OpsFine
  BY InvParts
<1>o. ops[h] \in Requested /\ ops[h].row \in Rows
  BY <1>0 DEF OpsFine, Requested
<1>r. ops[h].step # "none" => r \in Routes
  BY <1>0 DEF OpsFine
<1>s. Statuses = {"none", "RESERVED", "ACTIVE", "FAILED", "NEEDS_REVIEW", "STALE"}
      /\ AllocStatuses = {"none", "RESERVED", "ACTIVE", "NEEDS_REVIEW", "RELEASED"}
  BY DEF Statuses, AllocStatuses
<1>f. faults \in 0..MaxFaults
  BY <1>0 DEF CountsFine
<1>1. ASSUME NEW p \in Ports, EditPort(h, p) PROVE Ok
  <2>1. r \in Routes
    BY <1>1, <1>r DEF EditPort, At
  <2>2. /\ route' = [route EXCEPT ![r].port = p]
        /\ alloc' = [alloc EXCEPT ![r].port = p]
    BY <1>1 DEF EditPort
  <2>3. RowsFine'
    BY <1>0, <2>1, <2>2, PortFine
  <2>4. OpsFine'
    BY <1>0, <1>1, FinishFine DEF EditPort
  <2> QED BY <1>0, <1>1, <2>3, <2>4
          DEF EditPort, RunsFine, RemoteFine, CountsFine, remoteVars, Live
<1>2. ASSUME NEW p \in Ports, RetryReserve(h, p) PROVE Ok
  <2>1. r \in Routes
    BY <1>2, <1>r DEF RetryReserve, At
  <2>2. StartRun(r) /\ UNCHANGED faults
    BY <1>2 DEF RetryReserve
  <2>3. RunsFine' /\ CountsFine'
    BY <1>0, <2>1, <2>2, StartFine
  <2> DEFINE row == [route[r] EXCEPT !.status = "RESERVED", !.port = p,
                                     !.inbound = None]
  <2>4. route[r] \in Rows
    BY <1>0, <2>1 DEF RowsFine
  <2>5. row \in Rows
    BY <2>4 DEF Rows, Statuses
  <2>6. /\ route' = [route EXCEPT ![r] = row]
        /\ alloc' = [alloc EXCEPT ![r] = [status |-> "RESERVED", port |-> p]]
    BY <1>2 DEF RetryReserve
  <2> HIDE DEF row
  <2>7. RowsFine'
    BY <1>0, <2>1, <2>5, <2>6, ReservedFine
  <2>8. OpsFine'
    BY <1>0, <1>2, FinishFine DEF RetryReserve
  <2> QED BY <1>0, <1>2, <2>3, <2>7, <2>8 DEF RetryReserve, RemoteFine, remoteVars
<1>3. ASSUME EditRefused(h) \/ RetryFails(h) PROVE Ok
  <2>1. OpsFine' /\ UNCHANGED runVars
    BY <1>0, <1>3, FinishFine DEF EditRefused, RetryFails
  <2> QED BY <1>0, <2>1 DEF runVars, rowVars, remoteVars, RunsFine, RowsFine,
             RemoteFine, CountsFine, Live
<1>4. ASSUME Probe(h) PROVE Ok
  <2>1. PICK v \in BOOLEAN, b \in BOOLEAN :
          ops' = [ops EXCEPT ![h].step = "commit", ![h].verdict = v, ![h].blocked = b]
    BY <1>4 DEF Probe
  <2> DEFINE op == [ops[h] EXCEPT !.step = "commit", !.verdict = v, !.blocked = b]
  <2>2. op \in Requested /\ op.route = r
    BY <1>o DEF Requested
  <2>3. ops' = [ops EXCEPT ![h] = op]
    BY <2>1
  <2> HIDE DEF op
  <2>4. OpsFine'
    BY <1>0, <1>4, <2>2, <2>3, OpWritten DEF Probe
  <2> QED BY <1>0, <1>4, <2>4 DEF Probe, runVars, rowVars, remoteVars, RunsFine,
             RowsFine, RemoteFine, CountsFine, Live
<1>5. ASSUME ReconcileCommit(h) PROVE Ok
  <2> DEFINE row     == ops[h].row
             verdict == ops[h].verdict
             next    == NextAlloc(row, alloc[r].status, verdict)
             status  == NextStatus(row, verdict)
             retries == ops[h].kind = "retry" /\ ~ops[h].blocked
  <2>0. r \in Routes /\ alloc[r].status \in AllocStatuses
    BY <1>0, <1>5, <1>r DEF ReconcileCommit, RowsFine, AllocRows
  <2>1. CASE row.status # "STALE" /\ CommitThrows(r, next)
    <3>1. OpsFine' /\ UNCHANGED runVars
      BY <1>0, <1>5, <2>1, FinishFine DEF ReconcileCommit, runVars
    <3> QED BY <1>0, <3>1 DEF runVars, rowVars, remoteVars, RunsFine, RowsFine,
               RemoteFine, CountsFine, Live
  <2>2. CASE ~(row.status # "STALE" /\ CommitThrows(r, next))
    <3>1. /\ SetStatus(r, status, IF retries THEN "RELEASED" ELSE next)
          /\ IF retries THEN Begin(h, "retry", r, "recommend", PortOnly(row))
                        ELSE Finish(h)
          /\ UNCHANGED <<remoteVars, runs, started, running, restarts, faults>>
      BY <1>5, <2>2 DEF ReconcileCommit
    <3>2. status \in {"RESERVED", "ACTIVE", "FAILED", "NEEDS_REVIEW", "STALE"}
      BY DEF NextStatus
    <3>3. next \in AllocStatuses
      BY <2>0, <1>s DEF NextAlloc, NextStatus
    <3>4. RowsFine'
      <4>1. (IF retries THEN "RELEASED" ELSE next) \in AllocStatuses
        BY <3>3, <1>s
      <4>2. status \in Statuses
        BY <3>2, <1>s
      <4> HIDE DEF status, next
      <4> QED BY <1>0, <2>0, <3>1, <4>1, <4>2, StatusFine
    <3>5. OpsFine'
      BY <1>0, <1>o, <2>0, <3>1, Copies, BeginFine, FinishFine
    <3> QED BY <1>0, <3>1, <3>4, <3>5 DEF RunsFine, RemoteFine, CountsFine,
               remoteVars, Live
  <2> QED BY <2>1, <2>2
<1>6. ASSUME NEW reply \in Replies \cup {"absent", "unseen"}, NEW keep \in BOOLEAN,
             DeleteClient(h, reply, keep) PROVE Ok
  <2>1. r \in Routes
    BY <1>6, <1>r DEF DeleteClient, At
  <2>2. route' = [route EXCEPT ![r].owned = FALSE] \/ UNCHANGED route
    BY <1>6 DEF DeleteClient
  <2>3. RowsFine'
    BY <1>0, <1>6, <2>1, <2>2, OwnedFine DEF DeleteClient
  <2>4. OpsFine'
    BY <1>0, <1>o, <1>6, AfterFine DEF DeleteClient, At
  <2>5. CountsFine'
    BY <1>0, <1>f, <1>6, CostFine DEF DeleteClient, CountsFine
  <2> QED BY <1>0, <1>6, <2>3, <2>4, <2>5 DEF DeleteClient, RunsFine, RemoteFine,
             remoteVars, Live
<1>7. ASSUME NEW reply \in Replies \cup {"absent", "unseen"},
             DeleteInbound(h, reply) PROVE Ok
  <2>1. OpsFine'
    BY <1>0, <1>o, <1>7, AfterFine DEF DeleteInbound, At
  <2>2. CountsFine'
    BY <1>0, <1>f, <1>7, CostFine DEF DeleteInbound, CountsFine
  <2>3. RemoteFine'
    BY <1>0, <1>7 DEF DeleteInbound, RemoteFine
  <2> QED BY <1>0, <1>7, <2>1, <2>2, <2>3 DEF DeleteInbound, RunsFine, RowsFine,
             rowVars, Live
<1>8. ASSUME NEW reply \in Replies \cup {"absent", "unseen"},
             DeletePeer(h, reply) PROVE Ok
  <2>1. OpsFine'
    BY <1>0, <1>o, <1>8, AfterFine DEF DeletePeer, At
  <2>2. CountsFine'
    BY <1>0, <1>f, <1>8, CostFine DEF DeletePeer, CountsFine
  <2>3. RemoteFine'
    BY <1>0, <1>8 DEF DeletePeer, RemoteFine
  <2> QED BY <1>0, <1>8, <2>1, <2>2, <2>3 DEF DeletePeer, RunsFine, RowsFine,
             rowVars, Live
<1>9. ASSUME NEW reply \in Replies \cup {"absent", "unseen"},
             DeleteNode(h, reply) PROVE Ok
  <2>1. OpsFine'
    BY <1>0, <1>o, <1>9, AfterFine DEF DeleteNode, At
  <2>2. CountsFine'
    BY <1>0, <1>f, <1>9, CostFine DEF DeleteNode, CountsFine
  <2>3. RemoteFine'
    BY <1>0, <1>9 DEF DeleteNode, RemoteFine
  <2> QED BY <1>0, <1>9, <2>1, <2>2, <2>3 DEF DeleteNode, RunsFine, RowsFine,
             rowVars, Live
<1>10. ASSUME DeleteRows(h) PROVE Ok
  <2>1. r \in Routes
    BY <1>10, <1>r DEF DeleteRows, At
  <2>2. /\ alloc' = [alloc EXCEPT ![r].status = "RELEASED"]
        /\ \/ route' = [route EXCEPT ![r].status = "NEEDS_REVIEW"]
           \/ route' = [route EXCEPT ![r].status = "STALE", ![r].deleted = TRUE]
    BY <1>10 DEF DeleteRows
  <2>3. route[r] \in Rows
    BY <1>0, <2>1 DEF RowsFine
  <2> DEFINE reviewed == [route[r] EXCEPT !.status = "NEEDS_REVIEW"]
             gone     == [route[r] EXCEPT !.status = "STALE", !.deleted = TRUE]
  <2>4. reviewed \in Rows /\ gone \in Rows
    BY <2>3, <1>s DEF Rows
  <2>5. route' = [route EXCEPT ![r] = reviewed] \/ route' = [route EXCEPT ![r] = gone]
    BY <2>2
  <2> HIDE DEF reviewed, gone
  <2>a. alloc' \in [Routes -> AllocRows]
    BY <1>0, <1>s, <2>1, <2>2, AllocStatusFine
  <2>b. route' \in [Routes -> Rows]
    BY <1>0, <2>1, <2>4, <2>5, RowWritten
  <2>6. RowsFine'
    BY <2>a, <2>b DEF RowsFine
  <2>7. OpsFine'
    BY <1>0, <1>10, FinishFine DEF DeleteRows
  <2> QED BY <1>0, <1>10, <2>6, <2>7 DEF DeleteRows, RunsFine, RemoteFine,
             CountsFine, remoteVars, Live
<1>11. Ok
  BY <1>1, <1>2, <1>3, <1>4, <1>5, <1>6, <1>7, <1>8, <1>9, <1>10 DEF RequestStep
<1> QED BY <1>11, InvParts2

LEMMA RestartTypes ==
  ASSUME RouteInv, Restart
  PROVE  RouteInv'
<1>0. RunsFine /\ RowsFine /\ RemoteFine /\ CountsFine /\ OpsFine
  BY InvParts
<1>1. \A u \in Runs : Live(u) => [runs[u] EXCEPT !.pc = "dead"] \in RunRecords
  BY <1>0 DEF RunsFine, RunRecords, EndPcs
<1>2. runs' = [u \in Runs |-> IF Live(u) THEN [runs[u] EXCEPT !.pc = "dead"]
                              ELSE runs[u]]
  BY DEF Restart
<1>3. runs' \in [Runs -> RunRecords]
  BY <1>0, <1>1, <1>2 DEF RunsFine
<1>4. \A u \in Runs : ~(runs'[u].pc \in LivePcs)
  BY <1>0, <1>2 DEF RunsFine, RunRecords, Live, LivePcs, Preflights, Building
<1>5. RunsFine'
  BY <1>3, <1>4 DEF RunsFine, Live
<1>6. PICK old \in SUBSET Routes :
        route' = [r \in Routes |-> IF r \in old
                                   THEN [route[r] EXCEPT !.status = "STALE"]
                                   ELSE route[r]]
  BY DEF Restart
<1>7. \A r \in Routes : [route[r] EXCEPT !.status = "STALE"] \in Rows
  BY <1>0 DEF RowsFine, Rows, Statuses
<1>8. RowsFine'
  BY <1>0, <1>6, <1>7 DEF RowsFine, Restart
<1>9. ops' = [h \in Handlers |-> IdleOp]
  BY DEF Restart
<1>10. restarts' \in 0..MaxRestarts
  BY <1>0, RequestSwitchesAssumption DEF Restart, OpsFine
<1>11. OpsFine'
  BY <1>9, <1>10, Blanks DEF OpsFine, IdleOp
<1>12. RemoteFine' /\ CountsFine'
  BY <1>0 DEF Restart, RemoteFine, CountsFine, remoteVars
<1> QED BY <1>5, <1>8, <1>11, <1>12, InvParts2

LEMMA NextTypes == RouteInv /\ [Next]_vars => RouteInv'
<1> SUFFICES ASSUME RouteInv, [Next]_vars PROVE RouteInv'
  OBVIOUS
<1>1. CASE UNCHANGED vars
  BY <1>1 DEF RouteInv, RouteTypeOK, Shape, vars, runVars, rowVars, remoteVars,
              Live
<1>2. CASE Next
  BY <1>2, CreateTypes, RunStepTypes, RequestStartTypes, RequestStepTypes,
     RestartTypes DEF Next
<1> QED BY <1>1, <1>2

(* The rows, the allocations, the local state of runs and requests and the *)
(* remote objects have their types in every reachable state: no step of a  *)
(* run, request or restart writes a status, port or name that is none.     *)
THEOREM RouteTypes == Spec => []RouteTypeOK
<1>1. RouteInv => RouteTypeOK
  BY DEF RouteInv
<1> QED BY InitInv, NextTypes, <1>1, PTL DEF Spec
-----------------------------------------------------------------------------
(* The ports.  A step writes at most one route's port and allocation.      *)
PortsFine == RowsFine /\ PortExclusive /\ PortMirror

LEMMA PortWritten ==
  ASSUME PortsFine, NEW r \in Routes,
         \A q \in Routes \ {r} : alloc'[q] = alloc[q]
                                /\ route'[q].port = route[q].port,
         alloc'[r].port = route'[r].port,
         \/ alloc'[r].status \in {"none", "RELEASED"}
         \/ ~Conflict(r, alloc'[r].port)
  PROVE  (PortExclusive /\ PortMirror)'
<1>1. PortMirror'
  BY DEF PortsFine, PortMirror
<1>2. \A q \in Routes \ {r} : \A p \in Ports : HoldsPort(q, p)' <=> HoldsPort(q, p)
  BY DEF HoldsPort
<1>3. \A p \in Ports : HoldsPort(r, p)' => ~Conflict(r, p)
  BY DEF HoldsPort
<1>4. ASSUME NEW q \in Routes, NEW t \in Routes, NEW p \in Ports,
             HoldsPort(q, p)', HoldsPort(t, p)'
      PROVE  q = t
  <2>1. CASE q # r /\ t # r
    BY <1>2, <1>4, <2>1 DEF PortsFine, PortExclusive
  <2>2. CASE q = r /\ t # r
    BY <1>2, <1>3, <1>4, <2>2 DEF Conflict
  <2>3. CASE q # r /\ t = r
    BY <1>2, <1>3, <1>4, <2>3 DEF Conflict
  <2> QED BY <2>1, <2>2, <2>3
<1> QED BY <1>1, <1>4 DEF PortExclusive

LEMMA PortsKept ==
  ASSUME PortsFine, UNCHANGED alloc,
         \A q \in Routes : route'[q].port = route[q].port
  PROVE  (PortExclusive /\ PortMirror)'
BY DEF PortsFine, PortExclusive, PortMirror, HoldsPort

LEMMA StatusPorts ==
  ASSUME PortsFine, NEW r \in Routes, NEW s, NEW a, SetStatus(r, s, a),
         a = "RELEASED" \/ ~Conflict(r, alloc[r].port)
  PROVE  (PortExclusive /\ PortMirror)'
<1>1. /\ \A q \in Routes \ {r} : alloc'[q] = alloc[q] /\ route'[q] = route[q]
      /\ alloc'[r].port = alloc[r].port /\ alloc'[r].status = a
      /\ route'[r].port = route[r].port
  BY DEF SetStatus, PortsFine, RowsFine, Rows, AllocRows
<1>2. alloc'[r].port = route'[r].port
  BY <1>1 DEF PortsFine, PortMirror
<1> QED BY <1>1, <1>2, PortWritten

(* A row and its allocation are written whole.                             *)
LEMMA PairPorts ==
  ASSUME PortsFine, NEW r \in Routes, NEW row, NEW a,
         route' = [route EXCEPT ![r] = row], alloc' = [alloc EXCEPT ![r] = a],
         row.port = a.port,
         a.status \in {"none", "RELEASED"} \/ ~Conflict(r, a.port)
  PROVE  (PortExclusive /\ PortMirror)'
<1>1. /\ \A q \in Routes \ {r} : alloc'[q] = alloc[q] /\ route'[q] = route[q]
      /\ alloc'[r] = a /\ route'[r] = row
  BY DEF PortsFine, RowsFine
<1> QED BY <1>1, PortWritten

LEMMA FreePort ==
  ASSUME NEW r \in Routes, NEW p, ~AnyConflict(p) PROVE ~Conflict(r, p)
BY DEF AnyConflict, Conflict

LEMMA RunStepPorts ==
  ASSUME RouteInv, PortsFine, NEW u \in Runs, Provision(u)
  PROVE  (PortExclusive /\ PortMirror)'
<1> DEFINE r == runs[u].route
           Ok == (PortExclusive /\ PortMirror)'
<1>r. Live(u) => r \in Routes
  BY InvParts DEF RunsFine
<1>v. \A q \in Routes : route[q] \in Rows /\ alloc[q] \in AllocRows
  BY DEF PortsFine, RowsFine
<1>k. UNCHANGED rowVars => Ok
  BY PortsKept DEF rowVars
<1>l. runs[u].pc \in LivePcs => Live(u)
  BY DEF Live
<1> HIDE DEF r, Ok
<1>1. ASSUME NEW p \in Ports, MovePort(u, p) PROVE Ok
  <2>1. r \in Routes
    BY <1>1, <1>r, <1>l DEF MovePort, LivePcs, Preflights
  <2>2. /\ route' = [route EXCEPT ![r] = [route[r] EXCEPT !.port = p]]
        /\ alloc' = [alloc EXCEPT ![r] = [status |-> "RESERVED", port |-> p]]
    BY <1>1 DEF MovePort, r
  <2>3. [route[r] EXCEPT !.port = p].port = p
    BY <2>1, <1>v DEF Rows
  <2>4. ~Conflict(r, p)
    BY <1>1, <2>1, FreePort DEF MovePort
  <2> QED BY <2>1, <2>2, <2>3, <2>4, PairPorts DEF Ok
<1>2. ASSUME Abort(u) \/ TimeOut(u) PROVE Ok
  <2>1. r \in Routes
    BY <1>2, <1>r, <1>l DEF Abort, TimeOut, LivePcs
  <2>2. UNCHANGED rowVars \/ SetStatus(r, "FAILED", "RELEASED")
    BY <1>2 DEF Abort, TimeOut, r
  <2> QED BY <1>k, <2>1, <2>2, StatusPorts DEF Ok
<1>3. ASSUME NEW n \in Names, route' = [route EXCEPT ![r].peer = n], UNCHANGED alloc
      PROVE  Ok
  <2>1. \A q \in Routes : route'[q].port = route[q].port
    BY <1>3, <1>v DEF Rows, PortsFine, RowsFine
  <2> QED BY <1>3, <2>1, PortsKept DEF Ok
<1>4. ASSUME NEW reply \in Replies, AddInbound(u, reply) PROVE Ok
  <2>1. \A q \in Routes : route'[q].port = route[q].port
    BY <1>4, <1>v DEF Rows, PortsFine, RowsFine, AddInbound, r
  <2> QED BY <1>4, <2>1, PortsKept DEF Ok, AddInbound
<1>5. ASSUME AddClient(u) PROVE Ok
  <2>1. \A q \in Routes : route'[q].port = route[q].port
    BY <1>5, <1>v DEF Rows, PortsFine, RowsFine, AddClient, r
  <2> QED BY <1>5, <2>1, PortsKept DEF Ok, AddClient
<1>6. ASSUME Activate(u) PROVE Ok
  <2>1. r \in Routes /\ ~Conflict(r, alloc[r].port)
    BY <1>6, <1>r, <1>l DEF Activate, LivePcs, Building, r
  <2>2. /\ route' = [route EXCEPT ![r] = [route[r] EXCEPT !.status = "ACTIVE", !.inbound = u]]
        /\ alloc' = [alloc EXCEPT ![r] = [alloc[r] EXCEPT !.status = "ACTIVE"]]
    BY <1>6 DEF Activate, r
  <2>3. /\ [route[r] EXCEPT !.status = "ACTIVE", !.inbound = u].port = route[r].port
        /\ [alloc[r] EXCEPT !.status = "ACTIVE"].port = alloc[r].port
    BY <2>1, <1>v DEF Rows, AllocRows
  <2>4. alloc[r].port = route[r].port
    BY <2>1 DEF PortsFine, PortMirror
  <2> QED BY <2>1, <2>2, <2>3, <2>4, PairPorts DEF Ok
<1>7. ASSUME Fail(u) PROVE Ok
  <2>1. r \in Routes
    BY <1>7, <1>r, <1>l DEF Fail, LivePcs
  <2> DEFINE i == IF "inbound" \in runs[u].made THEN u ELSE None
  <2>2. /\ route' = [route EXCEPT ![r] = [route[r] EXCEPT !.status = "FAILED", !.inbound = i]]
        /\ alloc' = [alloc EXCEPT ![r] = [alloc[r] EXCEPT !.status = "RELEASED"]]
    BY <1>7 DEF Fail, r
  <2>3. /\ [route[r] EXCEPT !.status = "FAILED", !.inbound = i].port = route[r].port
        /\ [alloc[r] EXCEPT !.status = "RELEASED"].port = alloc[r].port
        /\ [alloc[r] EXCEPT !.status = "RELEASED"].status = "RELEASED"
    BY <2>1, <1>v DEF Rows, AllocRows
  <2>4. alloc[r].port = route[r].port
    BY <2>1 DEF PortsFine, PortMirror
  <2> QED BY <2>1, <2>2, <2>3, <2>4, PairPorts DEF Ok
<1>8. Preflight(u) \/ KeepPort(u) \/ Reach(u) \/ Throw(u) \/ Validate(u) => Ok
  BY <1>k DEF Preflight, KeepPort, Reach, Throw, Validate
<1>9. /\ \A reply \in Replies : AddNode(u, reply) \/ AddPeer(u, reply) => Ok
      /\ \A reply \in Replies, part \in Parts : Rollback(u, part, reply) => Ok
  BY <1>k DEF AddNode, AddPeer, Rollback
<1>10. Pair(u) => Ok
  BY <1>3 DEF Pair, r
<1>11. Ok
  BY <1>1, <1>2, <1>4, <1>5, <1>6, <1>7, <1>8, <1>9, <1>10
     DEF Provision, RunStep
<1> QED BY <1>11 DEF Ok

LEMMA RequestPorts ==
  ASSUME RouteInv, PortsFine, NEW h \in Handlers, RequestStep(h)
  PROVE  (PortExclusive /\ PortMirror)'
<1> DEFINE r == ops[h].route
           Ok == (PortExclusive /\ PortMirror)'
<1>r. ops[h].step # "none" => r \in Routes
  BY InvParts DEF OpsFine
<1>v. \A q \in Routes : route[q] \in Rows /\ alloc[q] \in AllocRows
  BY DEF PortsFine, RowsFine
<1>k. UNCHANGED rowVars => Ok
  BY PortsKept DEF rowVars
<1> HIDE DEF r, Ok
<1>1. ASSUME NEW p \in Ports, EditPort(h, p) PROVE Ok
  <2>1. r \in Routes /\ ~Conflict(r, p)
    BY <1>1, <1>r DEF EditPort, At, r
  <2>2. /\ route' = [route EXCEPT ![r] = [route[r] EXCEPT !.port = p]]
        /\ alloc' = [alloc EXCEPT ![r] = [alloc[r] EXCEPT !.port = p]]
    BY <1>1 DEF EditPort, r
  <2>3. /\ [route[r] EXCEPT !.port = p].port = p
        /\ [alloc[r] EXCEPT !.port = p].port = p
    BY <2>1, <1>v DEF Rows, AllocRows
  <2> QED BY <2>1, <2>2, <2>3, PairPorts DEF Ok
<1>2. ASSUME NEW p \in Ports, RetryReserve(h, p) PROVE Ok
  <2> DEFINE row == [route[r] EXCEPT !.status = "RESERVED", !.port = p,
                                     !.inbound = None]
  <2>1. r \in Routes
    BY <1>2, <1>r DEF RetryReserve, At
  <2>2. /\ route' = [route EXCEPT ![r] = row]
        /\ alloc' = [alloc EXCEPT ![r] = [status |-> "RESERVED", port |-> p]]
    BY <1>2 DEF RetryReserve, r
  <2>3. row.port = p
    BY <2>1, <1>v DEF Rows
  <2>4. ~Conflict(r, p)
    BY <1>2, <2>1, FreePort DEF RetryReserve
  <2> HIDE DEF row
  <2> QED BY <2>1, <2>2, <2>3, <2>4, PairPorts DEF Ok
<1>3. ASSUME ReconcileCommit(h) PROVE Ok
  <2> DEFINE row  == ops[h].row
             next == NextAlloc(row, alloc[r].status, ops[h].verdict)
             retries == ops[h].kind = "retry" /\ ~ops[h].blocked
             given == IF retries THEN "RELEASED" ELSE next
  <2>1. r \in Routes
    BY <1>3, <1>r DEF ReconcileCommit
  <2>2. CASE row.status # "STALE" /\ CommitThrows(r, next)
    BY <1>3, <2>2, <1>k DEF ReconcileCommit, r
  <2>3. CASE row.status = "STALE"
    <3>1. SetStatus(r, NextStatus(row, ops[h].verdict), given)
      BY <1>3, <2>3 DEF ReconcileCommit, r
    <3>2. given \in {"RELEASED", alloc[r].status}
      BY <2>3 DEF NextAlloc
    <3>3. CASE given = "RELEASED"
      BY <2>1, <3>1, <3>3, StatusPorts DEF Ok
    <3>4. CASE given = alloc[r].status
      <4>1. /\ \A q \in Routes : route'[q].port = route[q].port
            /\ \A q \in Routes : alloc'[q] = alloc[q]
        BY <3>1, <3>4, <1>v, <2>1 DEF SetStatus, PortsFine, RowsFine, Rows, AllocRows
      <4> HIDE DEF given
      <4> QED BY <4>1 DEF Ok, PortsFine, PortExclusive, PortMirror, HoldsPort
    <3> QED BY <3>2, <3>3, <3>4
  <2>4. CASE row.status # "STALE" /\ ~CommitThrows(r, next)
    <3>1. SetStatus(r, NextStatus(row, ops[h].verdict), given)
      BY <1>3, <2>4 DEF ReconcileCommit, r
    <3>2. given = "RELEASED" \/ ~Conflict(r, alloc[r].port)
      BY <2>4 DEF CommitThrows
    <3> QED BY <2>1, <3>1, <3>2, StatusPorts DEF Ok
  <2> QED BY <2>2, <2>3, <2>4
<1>4. ASSUME NEW reply \in Replies \cup {"absent", "unseen"}, NEW keep \in BOOLEAN,
             DeleteClient(h, reply, keep) PROVE Ok
  <2>1. route' = [route EXCEPT ![r].owned = FALSE] \/ UNCHANGED route
    BY <1>4 DEF DeleteClient, r
  <2>2. \A q \in Routes : route'[q].port = route[q].port
    BY <2>1, <1>v DEF Rows, PortsFine, RowsFine
  <2> QED BY <1>4, <2>2, PortsKept DEF Ok, DeleteClient
<1>5. ASSUME DeleteRows(h) PROVE Ok
  <2>1. r \in Routes
    BY <1>5, <1>r DEF DeleteRows, At
  <2>2. /\ alloc' = [alloc EXCEPT ![r].status = "RELEASED"]
        /\ \/ route' = [route EXCEPT ![r].status = "NEEDS_REVIEW"]
           \/ route' = [route EXCEPT ![r].status = "STALE", ![r].deleted = TRUE]
    BY <1>5 DEF DeleteRows, r
  <2>3. \A q \in Routes : route'[q].port = route[q].port
    BY <2>2, <1>v DEF Rows, PortsFine, RowsFine
  <2>4. /\ \A q \in Routes \ {r} : alloc'[q] = alloc[q]
        /\ alloc'[r].port = alloc[r].port /\ alloc'[r].status = "RELEASED"
    BY <2>1, <2>2, <1>v DEF AllocRows, PortsFine, RowsFine
  <2>5. alloc'[r].port = route'[r].port
    BY <2>1, <2>3, <2>4 DEF PortsFine, PortMirror
  <2> QED BY <2>1, <2>3, <2>4, <2>5, PortWritten DEF Ok
<1>6. EditRefused(h) \/ Probe(h) \/ RetryFails(h) => Ok
  BY <1>k DEF EditRefused, Probe, RetryFails, runVars
<1>7. \A reply \in Replies \cup {"absent", "unseen"} :
        DeleteInbound(h, reply) \/ DeletePeer(h, reply) \/ DeleteNode(h, reply) => Ok
  BY <1>k DEF DeleteInbound, DeletePeer, DeleteNode
<1>8. Ok
  BY <1>1, <1>2, <1>3, <1>4, <1>5, <1>6, <1>7 DEF RequestStep
<1> QED BY <1>8 DEF Ok

LEMMA NextPorts ==
  RouteInv /\ PortExclusive /\ PortMirror /\ [Next]_vars
    => (PortExclusive /\ PortMirror)'
<1> SUFFICES ASSUME RouteInv, PortExclusive, PortMirror, [Next]_vars
             PROVE  (PortExclusive /\ PortMirror)'
  OBVIOUS
<1>p. PortsFine
  BY InvParts DEF PortsFine
<1>k. UNCHANGED rowVars => (PortExclusive /\ PortMirror)'
  BY <1>p, PortsKept DEF rowVars
<1>1. CASE UNCHANGED vars
  BY <1>1, <1>k DEF vars, runVars
<1>2. ASSUME NEW r \in Routes, NEW p \in Ports, Create(r, p)
      PROVE  (PortExclusive /\ PortMirror)'
  <2>1. /\ route' = [route EXCEPT ![r] = [route[r] EXCEPT !.status = "RESERVED", !.port = p]]
        /\ alloc' = [alloc EXCEPT ![r] = [status |-> "RESERVED", port |-> p]]
    BY <1>2 DEF Create
  <2>2. [route[r] EXCEPT !.status = "RESERVED", !.port = p].port = p
    BY <1>p DEF PortsFine, RowsFine, Rows
  <2>3. ~Conflict(r, p)
    BY <1>2, FreePort DEF Create
  <2> QED BY <1>p, <2>1, <2>2, <2>3, PairPorts
<1>3. ASSUME NEW h \in Handlers, NEW r \in Routes, RequestStarts(h, r)
      PROVE  (PortExclusive /\ PortMirror)'
  BY <1>3, <1>k DEF RequestStarts, StartEdit, StartReconcile, StartRetry,
     StartDelete, runVars
<1>4. ASSUME Restart PROVE (PortExclusive /\ PortMirror)'
  <2>1. PICK old \in SUBSET Routes :
          route' = [r \in Routes |-> IF r \in old
                                     THEN [route[r] EXCEPT !.status = "STALE"]
                                     ELSE route[r]]
    BY <1>4 DEF Restart
  <2>2. \A r \in Routes : [route[r] EXCEPT !.status = "STALE"].port = route[r].port
    BY <1>p DEF PortsFine, RowsFine, Rows
  <2>3. \A r \in Routes : route'[r].port = route[r].port
    BY <2>1, <2>2
  <2> QED BY <1>4, <1>p, <2>3, PortsKept DEF Restart
<1> QED BY <1>1, <1>2, <1>3, <1>4, <1>p, RunStepPorts, RequestPorts DEF Next

LEMMA InitPorts == Init => PortExclusive /\ PortMirror
BY DEF Init, RunsInit, PortExclusive, PortMirror, HoldsPort, NoRow

(* Whatever overlaps -- several runs of one route after a timeout, edits,  *)
(* retries and reconciles under a run, restarts -- no two routes hold the  *)
(* same port: every write of a live allocation was checked against the     *)
(* registry after the last await before it, or is stopped by the index.    *)
THEOREM PortsAreExclusive == Spec => []PortExclusive
<1>1. Init => RouteInv /\ PortExclusive /\ PortMirror
  BY InitInv, InitPorts
<1>2. RouteInv /\ PortExclusive /\ PortMirror /\ [Next]_vars
        => (RouteInv /\ PortExclusive /\ PortMirror)'
  BY NextTypes, NextPorts
<1> QED BY <1>1, <1>2, PTL DEF Spec

(* The port in the registry is the port on the route's row in every        *)
(* reachable state: each of the four places that choose one write both.    *)
THEOREM PortsAreMirrored == Spec => []PortMirror
<1>1. Init => RouteInv /\ PortExclusive /\ PortMirror
  BY InitInv, InitPorts
<1>2. RouteInv /\ PortExclusive /\ PortMirror /\ [Next]_vars
        => (RouteInv /\ PortExclusive /\ PortMirror)'
  BY NextTypes, NextPorts
<1> QED BY <1>1, <1>2, PTL DEF Spec
-----------------------------------------------------------------------------
(* The rollback.  What a run has created is found by the name it holds,    *)
(* remembered in made or lost, and leaves the servers part by part: the    *)
(* invariant follows the objects of a run from its first creation to the   *)
(* verdict CLEAN.                                                          *)
Untouched == {"none", "aborted", "pairing"} \cup Preflights

Traced(u) ==
  /\ \A n \in Names : peers[n] = u \/ nodes[n] = u => n = runs[u].peer
  /\ u > started => runs[u].pc = "none"
  /\ runs[u].pc \in Untouched => Objects(u) = {}
  /\ runs[u].pc \in Preflights \cup Building => runs[u].undone = {}
  /\ runs[u].pc \in Building \cup {"undo"} =>
       Objects(u) \subseteq runs[u].made \cup runs[u].lost
  /\ runs[u].pc = "undo" /\ ~runs[u].dirty => Objects(u) \cap runs[u].undone = {}
  /\ runs[u].pc = "clean" => Objects(u) \subseteq runs[u].lost

TraceInv == \A u \in Runs : Traced(u)

(* Nothing new exists on the servers or the panel that is run u's.         *)
Spared(u) ==
  /\ \A n \in Names : peers'[n] = u => peers[n] = u
  /\ \A n \in Names : nodes'[n] = u => nodes[n] = u
  /\ u \in inbounds' => u \in inbounds

LEMMA SparedObjects ==
  ASSUME NEW u, Spared(u) PROVE Objects(u)' \subseteq Objects(u)
BY DEF Spared, Objects

LEMMA SparedTrace ==
  ASSUME NEW u \in Runs, Traced(u), Spared(u), runs'[u] = runs[u],
         started \in Nat, started' \in Nat, started' >= started
  PROVE  Traced(u)'
<1>1. Objects(u)' \subseteq Objects(u)
  BY SparedObjects
<1>2. u > started' => u > started
  BY RunBoundsAssumption DEF Runs
<1> HIDE DEF Objects
<1> QED BY <1>1, <1>2 DEF Traced, Spared

(* A run moves on without touching anything: its record says which of the  *)
(* phases it enters.                                                       *)
LEMMA MovesOn ==
  ASSUME NEW u \in Runs, Traced(u), Spared(u), u <= started', started' \in Nat,
         runs'[u].peer = runs[u].peer, runs'[u].lost = runs[u].lost,
         \/ /\ runs[u].pc \in Untouched \cup Building
            /\ runs'[u].pc \in Untouched \cup {"dead", "active"}
            /\ runs'[u].pc \in Preflights \cup {"pairing"} =>
                 runs[u].pc \in Preflights /\ runs'[u].undone = runs[u].undone
            /\ runs'[u].pc \in Untouched => runs[u].pc \in Untouched
         \/ /\ runs[u].pc \in Building /\ runs'[u].pc \in Building \cup {"undo"}
            /\ runs'[u].pc # "pairing" /\ runs[u].made \subseteq runs'[u].made
            /\ runs'[u].undone = runs[u].undone
         \/ runs'[u].pc \in {"dead", "partial"}
  PROVE  Traced(u)'
<1>1. Objects(u)' \subseteq Objects(u)
  BY SparedObjects
<1>2. ~(u > started')
  BY RunBoundsAssumption DEF Runs
<1> HIDE DEF Objects
<1> QED BY <1>1, <1>2 DEF Traced, Spared, Untouched, Building, Preflights

(* A run writes only its own record and creates only its own objects.      *)
LEMMA OthersUntouched ==
  ASSUME RouteInv, NEW u \in Runs, Provision(u), NEW v \in Runs \ {u}
  PROVE  Spared(v) /\ runs'[v] = runs[v] /\ started' = started
<1>0. RunsFine /\ RemoteFine
  BY InvParts
<1>1. v # None /\ u # None
  BY RunBoundsAssumption DEF Runs, None
<1>2. CASE UNCHANGED remoteVars
  <2>1. Spared(v)
    BY <1>2 DEF Spared, remoteVars
  <2>2. runs'[v] = runs[v] /\ started' = started
    BY <1>0, <1>2 DEF RunsFine, Provision, RunStep, Preflight, KeepPort, MovePort,
       Reach, Abort, Throw, Pair, AddNode, AddPeer, AddInbound, AddClient, Validate,
       Activate, Rollback, UndoPart, Fail, TimeOut, Step, End, Made
  <2> QED BY <2>1, <2>2
<1>3. ASSUME NEW reply \in Replies, AddNode(u, reply) \/ AddPeer(u, reply) \/ AddInbound(u, reply)
      PROVE  Spared(v) /\ runs'[v] = runs[v] /\ started' = started
  <2>1. Spared(v)
    BY <1>0, <1>1, <1>3 DEF Spared, RemoteFine, AddNode, AddPeer, AddInbound
  <2>2. runs'[v] = runs[v] /\ started' = started
    BY <1>0, <1>3 DEF RunsFine, AddNode, AddPeer, AddInbound, Made
  <2> QED BY <2>1, <2>2
<1>4. ASSUME NEW part \in Parts, NEW reply \in Replies, Rollback(u, part, reply)
      PROVE  Spared(v) /\ runs'[v] = runs[v] /\ started' = started
  <2>1. Spared(v)
    BY <1>0, <1>1, <1>4 DEF Spared, RemoteFine, Rollback, UndoPart
  <2>2. runs'[v] = runs[v] /\ started' = started
    BY <1>0, <1>4 DEF RunsFine, Rollback, UndoPart
  <2> QED BY <2>1, <2>2
<1> QED BY <1>2, <1>3, <1>4
        DEF Provision, RunStep, Preflight, KeepPort, MovePort, Reach, Abort, Throw,
            Pair, AddClient, Validate, Activate, Fail, TimeOut

(* A creation, acknowledged or not, is remembered.                         *)
LEMMA CreationTraced ==
  ASSUME NEW u \in Runs, runs \in [Runs -> RunRecords], Traced(u),
         u <= started, started \in Nat, UNCHANGED started,
         NEW part \in Parts, NEW next \in Building \ {"pairing"}, NEW reply,
         runs[u].pc \in Building \ {"pairing"}, Made(u, part, next, reply),
         Objects(u)' \subseteq Objects(u) \cup {part},
         \A n \in Names : (peers[n] = u \/ nodes[n] = u)' =>
            peers[n] = u \/ nodes[n] = u \/ n = runs[u].peer
  PROVE  Traced(u)'
<1>1. /\ runs'[u].peer = runs[u].peer /\ runs'[u].undone = runs[u].undone
      /\ runs'[u].pc = IF reply = "ok" THEN next ELSE "undo"
      /\ runs'[u].made \cup runs'[u].lost = runs[u].made \cup runs[u].lost \cup {part}
  BY DEF Made, RunRecords
<1>2. ~(u > started')
  BY RunBoundsAssumption DEF Runs
<1>3. runs[u].undone = {} /\ Objects(u) \subseteq runs[u].made \cup runs[u].lost
  BY DEF Traced
<1>4. \A n \in Names : (peers[n] = u \/ nodes[n] = u)' => n = runs[u].peer
  BY DEF Traced
<1> HIDE DEF Objects
<1>5. Objects(u)' \subseteq runs'[u].made \cup runs'[u].lost
  BY <1>1, <1>3
<1>6. runs'[u].pc \in (Building \cup {"undo"}) \ {"pairing"}
  BY <1>1
<1> QED BY <1>1, <1>2, <1>3, <1>4, <1>5, <1>6 DEF Traced, Untouched, Building, Preflights

LEMMA RunStepTrace ==
  ASSUME RouteInv, TraceInv, NEW u \in Runs, Provision(u)
  PROVE  Traced(u)'
<1>0. RunsFine /\ RemoteFine /\ CountsFine /\ runs \in [Runs -> RunRecords]
  BY InvParts DEF RunsFine
<1>1. Traced(u) /\ u # None
  BY RunBoundsAssumption DEF TraceInv, Runs, None
<1>2. runs[u].pc # "none"
  BY DEF Provision, RunStep, Preflight, KeepPort, MovePort, Reach, Abort, Throw,
     Pair, AddNode, AddPeer, AddInbound, AddClient, Validate, Activate, Rollback,
     Fail, TimeOut, Live, LivePcs, Preflights, Building
<1>3. started' = started /\ u <= started /\ started \in Nat
  <2>1. started' = started
    BY DEF Provision, RunStep, Preflight, KeepPort, MovePort, Reach, Abort, Throw,
       Pair, AddNode, AddPeer, AddInbound, AddClient, Validate, Activate, Rollback,
       Fail, TimeOut
  <2>2. started \in Nat
    BY <1>0, RunBoundsAssumption DEF CountsFine
  <2> QED BY <1>1, <1>2, <2>1, <2>2, RunBoundsAssumption DEF Traced, Runs
<1>k. UNCHANGED remoteVars => Spared(u)
  BY DEF remoteVars, Spared
<1>4. CASE Preflight(u) \/ KeepPort(u) \/ Reach(u) \/ (\E p \in Ports : MovePort(u, p))
  <2>1. /\ runs'[u].peer = runs[u].peer /\ runs'[u].lost = runs[u].lost
        /\ runs'[u].undone = runs[u].undone
        /\ runs[u].pc \in Preflights /\ runs'[u].pc \in Preflights \cup {"pairing"}
    <3>1. \E pc \in {"port_check", "connectivity", "pairing"} :
            \/ runs' = [runs EXCEPT ![u].pc = pc]
            \/ runs' = [runs EXCEPT ![u].pc = pc, ![u].port = route[runs[u].route].port]
      BY <1>4 DEF Preflight, KeepPort, Reach, MovePort, Step
    <3>2. runs[u].pc \in Preflights
      BY <1>4 DEF Preflight, KeepPort, Reach, MovePort, Preflights
    <3> QED BY <1>0, <3>1, <3>2 DEF Preflights, RunRecords
  <2>2. Spared(u)
    BY <1>k, <1>4 DEF Preflight, KeepPort, Reach, MovePort
  <2>3. runs[u].pc \in Untouched /\ runs'[u].pc \in Untouched
    BY <2>1 DEF Untouched
  <2>4. runs'[u].pc \notin {"dead", "active"}
    BY <2>1 DEF Preflights
  <2> QED BY <1>1, <1>3, <2>1, <2>2, <2>3, <2>4, MovesOn
<1>5. CASE Abort(u)
  <2>1. /\ runs'[u].peer = runs[u].peer /\ runs'[u].lost = runs[u].lost
        /\ runs[u].pc \in Preflights /\ runs'[u].pc = "aborted"
    BY <1>0, <1>5 DEF Abort, End, NoRun
  <2>2. Spared(u)
    BY <1>k, <1>5 DEF Abort
  <2>3. runs[u].pc \in Untouched /\ runs'[u].pc \in Untouched
    BY <2>1 DEF Untouched
  <2>4. runs'[u].pc \notin Preflights \cup {"pairing"}
    BY <2>1 DEF Preflights
  <2> QED BY <1>1, <1>3, <2>1, <2>2, <2>3, <2>4, MovesOn
<1>6. CASE Throw(u) \/ Validate(u)
  <2>1. /\ runs'[u].peer = runs[u].peer /\ runs'[u].lost = runs[u].lost
        /\ runs'[u].undone = runs[u].undone /\ runs'[u].made = runs[u].made
        /\ runs[u].pc \in Building /\ runs'[u].pc \in {"undo", "activate"}
    BY <1>0, <1>6 DEF Throw, Validate, Step, Building, RunRecords
  <2>2. Spared(u)
    BY <1>k, <1>6 DEF Throw, Validate
  <2>3. runs'[u].pc \in Building \cup {"undo"} /\ runs'[u].pc # "pairing"
    BY <2>1 DEF Building
  <2> QED BY <1>1, <1>3, <2>1, <2>2, <2>3, MovesOn
<1>7. CASE Pair(u)
  <2>1. /\ runs[u].pc = "pairing" /\ runs'[u].pc = "node_add"
        /\ runs'[u].undone = runs[u].undone
    BY <1>0, <1>7 DEF Pair, RunRecords
  <2>2. UNCHANGED remoteVars
    BY <1>7 DEF Pair
  <2>3. Objects(u) = {} /\ runs[u].undone = {}
    BY <1>1, <2>1 DEF Traced, Untouched, Building
  <2>4. /\ \A n \in Names : peers[n] # u /\ nodes[n] # u
        /\ u \notin inbounds
    BY <2>3 DEF Objects, Parts
  <2>5. Objects(u)' = {}
    BY <2>2, <2>4 DEF Objects, remoteVars
  <2>6. ~(u > started')
    BY <1>3, RunBoundsAssumption DEF Runs
  <2> HIDE DEF Objects
  <2> QED BY <2>1, <2>2, <2>3, <2>4, <2>5, <2>6 DEF Traced, remoteVars, Untouched, Building, Preflights
<1>8. ASSUME NEW reply \in Replies, AddNode(u, reply) PROVE Traced(u)'
  <2>1. /\ Made(u, "node", "peer_add", reply)
        /\ runs[u].pc \in Building \ {"pairing"} /\ "peer_add" \in Building \ {"pairing"}
        /\ "node" \in Parts /\ started' = started
    BY <1>8 DEF AddNode, Building, Parts
  <2>2. Objects(u)' \subseteq Objects(u) \cup {"node"}
    BY <1>8 DEF AddNode, Objects
  <2>3. \A n \in Names : (peers[n] = u \/ nodes[n] = u)' =>
            peers[n] = u \/ nodes[n] = u \/ n = runs[u].peer
    BY <1>0, <1>8 DEF AddNode, RemoteFine
  <2> QED BY <1>0, <1>1, <1>3, <2>1, <2>2, <2>3, CreationTraced
<1>9. ASSUME NEW reply \in Replies, AddPeer(u, reply) PROVE Traced(u)'
  <2>1. /\ Made(u, "peer", "inbound_add", reply)
        /\ runs[u].pc \in Building \ {"pairing"} /\ "inbound_add" \in Building \ {"pairing"}
        /\ "peer" \in Parts /\ started' = started
    BY <1>9 DEF AddPeer, Building, Parts
  <2>2. Objects(u)' \subseteq Objects(u) \cup {"peer"}
    BY <1>9 DEF AddPeer, Objects
  <2>3. \A n \in Names : (peers[n] = u \/ nodes[n] = u)' =>
            peers[n] = u \/ nodes[n] = u \/ n = runs[u].peer
    BY <1>0, <1>9 DEF AddPeer, RemoteFine
  <2> QED BY <1>0, <1>1, <1>3, <2>1, <2>2, <2>3, CreationTraced
<1>10. ASSUME NEW reply \in Replies, AddInbound(u, reply) PROVE Traced(u)'
  <2>1. /\ Made(u, "inbound", "client", reply)
        /\ runs[u].pc \in Building \ {"pairing"} /\ "client" \in Building \ {"pairing"}
        /\ "inbound" \in Parts /\ started' = started
    BY <1>10 DEF AddInbound, Building, Parts
  <2>2. Objects(u)' \subseteq Objects(u) \cup {"inbound"}
    BY <1>10 DEF AddInbound, Objects
  <2>3. \A n \in Names : (peers[n] = u \/ nodes[n] = u)' =>
            peers[n] = u \/ nodes[n] = u \/ n = runs[u].peer
    BY <1>10 DEF AddInbound
  <2> QED BY <1>0, <1>1, <1>3, <2>1, <2>2, <2>3, CreationTraced
<1>11. CASE AddClient(u)
  <2>1. /\ runs'[u].peer = runs[u].peer /\ runs'[u].lost = runs[u].lost
        /\ runs'[u].undone = runs[u].undone /\ runs[u].made \subseteq runs'[u].made
        /\ runs[u].pc = "client" /\ runs'[u].pc = "validate"
    BY <1>0, <1>11 DEF AddClient, Made, Step, RunRecords
  <2>2. Spared(u)
    BY <1>k, <1>11 DEF AddClient
  <2>3. /\ runs[u].pc \in Building /\ runs'[u].pc \in Building \cup {"undo"}
        /\ runs'[u].pc # "pairing"
    BY <2>1 DEF Building
  <2> QED BY <1>1, <1>3, <2>1, <2>2, <2>3, MovesOn
<1>12. CASE Activate(u)
  <2>1. /\ runs'[u].peer = runs[u].peer /\ runs'[u].lost = runs[u].lost
        /\ runs[u].pc \in Building /\ runs'[u].pc = "active"
    BY <1>0, <1>12 DEF Activate, End, NoRun, Building
  <2>2. Spared(u)
    BY <1>k, <1>12 DEF Activate
  <2>3. runs'[u].pc \notin Preflights \cup {"pairing"} /\ runs'[u].pc \notin Untouched
    BY <2>1 DEF Preflights, Untouched
  <2> QED BY <1>1, <1>3, <2>1, <2>2, <2>3, MovesOn
<1>13. ASSUME NEW part \in Parts, NEW reply \in Replies, Rollback(u, part, reply)
       PROVE  Traced(u)'
  <2>1. /\ runs'[u].peer = runs[u].peer /\ runs'[u].lost = runs[u].lost
        /\ runs'[u].made = runs[u].made /\ runs'[u].undone = runs[u].undone \cup {part}
        /\ runs'[u].dirty = (runs[u].dirty \/ reply # "ok")
        /\ runs[u].pc = "undo" /\ runs'[u].pc = "undo"
    BY <1>0, <1>13 DEF Rollback, UndoPart, RunRecords
  <2>2. Spared(u)
    BY <1>0, <1>1, <1>13 DEF Spared, Rollback, UndoPart, RemoteFine
  <2>3. Objects(u)' \subseteq Objects(u)
    BY <2>2, SparedObjects
  <2>4. reply = "ok" => part \notin Objects(u)'
    <3>1. \A n \in Names : peers[n] = u \/ nodes[n] = u => n = runs[u].peer
      BY <1>1 DEF Traced
    <3>2. ASSUME reply = "ok", part = "peer" PROVE \A n \in Names : peers'[n] # u
      BY <1>0, <1>1, <1>13, <3>1, <3>2 DEF Rollback, UndoPart, RemoteFine
    <3>3. ASSUME reply = "ok", part = "node" PROVE \A n \in Names : nodes'[n] # u
      BY <1>0, <1>1, <1>13, <3>1, <3>3 DEF Rollback, UndoPart, RemoteFine
    <3>4. ASSUME reply = "ok", part = "inbound" PROVE u \notin inbounds'
      BY <1>13, <3>4 DEF Rollback, UndoPart
    <3> QED BY <3>2, <3>3, <3>4 DEF Objects
  <2>5. ~(u > started')
    BY <1>3, RunBoundsAssumption DEF Runs
  <2>6. \A n \in Names : (peers[n] = u \/ nodes[n] = u)' => n = runs'[u].peer
    BY <1>1, <2>1, <2>2 DEF Traced, Spared
  <2>7. Objects(u) \subseteq runs[u].made \cup runs[u].lost
    BY <1>1, <2>1 DEF Traced
  <2>8. ~runs[u].dirty => Objects(u) \cap runs[u].undone = {}
    BY <1>1, <2>1 DEF Traced
  <2> HIDE DEF Objects
  <2>9. Objects(u)' \subseteq runs'[u].made \cup runs'[u].lost
    BY <2>1, <2>3, <2>7
  <2>10. ~runs'[u].dirty => Objects(u)' \cap runs'[u].undone = {}
    BY <2>1, <2>3, <2>4, <2>8
  <2> QED BY <2>1, <2>5, <2>6, <2>9, <2>10 DEF Traced, Untouched, Building, Preflights
<1>14. CASE Fail(u)
  <2>1. /\ runs'[u].peer = runs[u].peer /\ runs'[u].lost = runs[u].lost
        /\ runs'[u].pc = IF runs[u].dirty THEN "partial" ELSE "clean"
        /\ runs[u].pc = "undo" /\ runs[u].made \subseteq runs[u].undone
    BY <1>0, <1>14 DEF Fail, End, NoRun, ToUndo
  <2>2. Spared(u)
    BY <1>k, <1>14 DEF Fail
  <2>3. CASE runs[u].dirty
    BY <1>1, <1>3, <2>1, <2>2, <2>3, MovesOn
  <2>4. CASE ~runs[u].dirty
    <3>1. Objects(u)' \subseteq Objects(u)
      BY <2>2, SparedObjects
    <3>2. /\ Objects(u) \subseteq runs[u].made \cup runs[u].lost
          /\ Objects(u) \cap runs[u].undone = {}
      BY <1>1, <2>1, <2>4 DEF Traced
    <3> HIDE DEF Objects
    <3>3. Objects(u)' \subseteq runs'[u].lost
      BY <2>1, <3>1, <3>2
    <3>4. ~(u > started')
      BY <1>3, RunBoundsAssumption DEF Runs
    <3>5. \A n \in Names : (peers[n] = u \/ nodes[n] = u)' => n = runs'[u].peer
      BY <1>1, <2>1, <2>2 DEF Traced, Spared
    <3> QED BY <2>1, <2>4, <3>3, <3>4, <3>5 DEF Traced, Untouched, Building, Preflights
  <2> QED BY <2>3, <2>4
<1>15. CASE TimeOut(u)
  <2>1. /\ runs'[u].peer = runs[u].peer /\ runs'[u].lost = runs[u].lost
        /\ runs'[u].made = runs[u].made /\ runs'[u].undone = runs[u].undone
        /\ runs'[u].dirty = runs[u].dirty /\ runs'[u].pc = runs[u].pc
    BY <1>0, <1>15 DEF TimeOut, RunRecords
  <2>2. UNCHANGED <<peers, nodes, inbounds>>
    BY <1>15 DEF TimeOut, remoteVars
  <2>3. Objects(u)' = Objects(u)
    BY <2>2 DEF Objects
  <2> HIDE DEF Objects
  <2> QED BY <1>1, <1>3, <2>1, <2>2, <2>3 DEF Traced
<1> QED BY <1>4, <1>5, <1>6, <1>7, <1>8, <1>9, <1>10, <1>11, <1>12, <1>13, <1>14, <1>15
        DEF Provision, RunStep

LEMMA StartTrace ==
  ASSUME RouteInv, TraceInv, NEW r \in Routes, StartRun(r), UNCHANGED remoteVars
  PROVE  TraceInv'
<1>0. runs \in [Runs -> RunRecords] /\ started \in Nat
  BY InvParts, RunBoundsAssumption DEF RunsFine, CountsFine
<1>1. started' \in Nat /\ started' >= started
  BY <1>0 DEF StartRun
<1>2. ASSUME NEW v \in Runs, v # started + 1 PROVE Traced(v)'
  <2>1. runs'[v] = runs[v]
    BY <1>0, <1>2 DEF StartRun
  <2>2. Spared(v) /\ Traced(v)
    BY DEF Spared, remoteVars, TraceInv
  <2> QED BY <1>0, <1>1, <2>1, <2>2, SparedTrace
<1>3. ASSUME NEW v \in Runs, v = started + 1 PROVE Traced(v)'
  <2>1. Traced(v) /\ v > started
    BY <1>0, <1>3 DEF TraceInv
  <2>2. Objects(v) = {}
    BY <2>1 DEF Traced, Untouched
  <2>3. /\ \A n \in Names : peers[n] # v /\ nodes[n] # v
        /\ v \notin inbounds
    BY <2>2 DEF Objects, Parts
  <2>4. /\ \A n \in Names : peers'[n] # v /\ nodes'[n] # v
        /\ Objects(v)' = {}
    BY <2>3 DEF Objects, remoteVars
  <2>5. runs'[v].pc = "preflight" /\ runs'[v].undone = {} /\ ~(v > started')
    BY <1>0, <1>3 DEF StartRun, NoRun
  <2> HIDE DEF Objects
  <2> QED BY <2>4, <2>5 DEF Traced, Building, Untouched, Preflights
<1> QED BY <1>2, <1>3 DEF TraceInv

(* A request only removes objects, whosever they are.                      *)
LEMMA RequestTrace ==
  ASSUME RouteInv, TraceInv, NEW h \in Handlers, RequestStep(h)
  PROVE  TraceInv'
<1>0. RunsFine /\ RemoteFine /\ OpsFine /\ started \in Nat
  BY InvParts, RunBoundsAssumption DEF CountsFine
<1>1. ASSUME NEW p \in Ports, RetryReserve(h, p) PROVE TraceInv'
  <2>1. ops[h].route \in Routes
    BY <1>0, <1>1 DEF RetryReserve, At, OpsFine
  <2>2. StartRun(ops[h].route) /\ UNCHANGED remoteVars
    BY <1>1 DEF RetryReserve
  <2> QED BY <2>1, <2>2, StartTrace
<1>2. ASSUME UNCHANGED <<runs, started>>, \A v \in Runs : Spared(v) PROVE TraceInv'
  <2>1. ASSUME NEW v \in Runs PROVE Traced(v)'
    <3>1. Traced(v) /\ Spared(v) /\ runs'[v] = runs[v]
      BY <1>2 DEF TraceInv
    <3>2. started' \in Nat /\ started' >= started
      BY <1>0, <1>2
    <3> QED BY <1>0, <3>1, <3>2, SparedTrace
  <2> QED BY <2>1 DEF TraceInv
<1>3. UNCHANGED remoteVars => \A v \in Runs : Spared(v)
  BY DEF remoteVars, Spared
<1>4. CASE \/ \E p \in Ports : EditPort(h, p)
           \/ EditRefused(h) \/ Probe(h) \/ ReconcileCommit(h) \/ RetryFails(h)
           \/ DeleteRows(h)
  <2>1. UNCHANGED <<remoteVars, runs, started>>
    BY <1>4 DEF EditPort, EditRefused, Probe, ReconcileCommit, RetryFails, DeleteRows, runVars
  <2> QED BY <2>1, <1>2, <1>3
<1>5. ASSUME NEW reply, NEW keep, DeleteClient(h, reply, keep) PROVE TraceInv'
  BY <1>2, <1>3, <1>5 DEF DeleteClient
<1>6. ASSUME NEW reply, DeleteInbound(h, reply) PROVE TraceInv'
  <2>1. \A v \in Runs : Spared(v)
    BY <1>6 DEF DeleteInbound, Spared
  <2> QED BY <1>2, <1>6, <2>1 DEF DeleteInbound
<1>n. \A v \in Runs : v # None
  BY RunBoundsAssumption DEF Runs, None
<1>7. ASSUME NEW reply, DeletePeer(h, reply) PROVE TraceInv'
  <2>1. \A v \in Runs : Spared(v)
    BY <1>0, <1>7, <1>n DEF DeletePeer, Spared, RemoteFine
  <2> QED BY <1>2, <1>7, <2>1 DEF DeletePeer
<1>8. ASSUME NEW reply, DeleteNode(h, reply) PROVE TraceInv'
  <2>1. \A v \in Runs : Spared(v)
    BY <1>0, <1>8, <1>n DEF DeleteNode, Spared, RemoteFine
  <2> QED BY <1>2, <1>8, <2>1 DEF DeleteNode
<1> QED BY <1>1, <1>4, <1>5, <1>6, <1>7, <1>8 DEF RequestStep

LEMMA NextTrace ==
  RouteInv /\ TraceInv /\ [Next]_vars => TraceInv'
<1> SUFFICES ASSUME RouteInv, TraceInv, [Next]_vars PROVE TraceInv'
  OBVIOUS
<1>0. RunsFine /\ started \in Nat
  BY InvParts, RunBoundsAssumption DEF CountsFine
<1>1. ASSUME UNCHANGED <<runs, started, remoteVars>> PROVE TraceInv'
  <2>1. ASSUME NEW v \in Runs PROVE Traced(v)'
    <3>1. Traced(v) /\ Spared(v) /\ runs'[v] = runs[v]
      BY <1>1 DEF TraceInv, Spared, remoteVars
    <3>2. started' \in Nat /\ started' >= started
      BY <1>0, <1>1
    <3> QED BY <1>0, <3>1, <3>2, SparedTrace
  <2> QED BY <2>1 DEF TraceInv
<1>2. CASE UNCHANGED vars
  BY <1>1, <1>2 DEF vars, runVars
<1>3. ASSUME NEW r \in Routes, NEW p \in Ports, Create(r, p) PROVE TraceInv'
  <2>1. StartRun(r) /\ UNCHANGED remoteVars
    BY <1>3 DEF Create
  <2> QED BY <2>1, StartTrace
<1>4. ASSUME NEW u \in Runs, Provision(u) PROVE TraceInv'
  <2>1. Traced(u)'
    BY <1>4, RunStepTrace
  <2>2. ASSUME NEW v \in Runs \ {u} PROVE Traced(v)'
    <3>1. Spared(v) /\ runs'[v] = runs[v] /\ started' = started /\ Traced(v)
      BY <1>4, OthersUntouched DEF TraceInv
    <3>2. started' \in Nat /\ started' >= started
      BY <1>0, <3>1
    <3> QED BY <1>0, <3>1, <3>2, SparedTrace
  <2> QED BY <2>1, <2>2 DEF TraceInv
<1>5. ASSUME NEW h \in Handlers, NEW r \in Routes, RequestStarts(h, r) PROVE TraceInv'
  BY <1>1, <1>5 DEF RequestStarts, StartEdit, StartReconcile, StartRetry, StartDelete, runVars
<1>6. ASSUME NEW h \in Handlers, RequestStep(h) PROVE TraceInv'
  BY <1>6, RequestTrace
<1>7. ASSUME Restart PROVE TraceInv'
  <2>1. ASSUME NEW v \in Runs PROVE Traced(v)'
    <3>1. Traced(v) /\ Spared(v) /\ started' = started
      BY <1>7 DEF Restart, TraceInv, Spared, remoteVars
    <3>2. runs'[v] = IF Live(v) THEN [runs[v] EXCEPT !.pc = "dead"] ELSE runs[v]
      BY <1>7 DEF Restart
    <3>3. CASE ~Live(v)
      <4>1. runs'[v] = runs[v] /\ started' \in Nat /\ started' >= started
        BY <1>0, <3>1, <3>2, <3>3
      <4> QED BY <1>0, <3>1, <4>1, SparedTrace
    <3>4. CASE Live(v)
      <4>1. /\ runs'[v].peer = runs[v].peer /\ runs'[v].lost = runs[v].lost
            /\ runs'[v].pc = "dead"
        BY <1>0, <3>2, <3>4 DEF RunsFine, RunRecords
      <4>2. runs[v].pc # "none"
        BY <3>4 DEF Live, LivePcs, Preflights, Building
      <4>3. v <= started' /\ started' \in Nat
        BY <1>0, <3>1, <4>2, RunBoundsAssumption DEF Traced, Runs
      <4> QED BY <3>1, <4>1, <4>3, MovesOn
    <3> QED BY <3>3, <3>4
  <2> QED BY <2>1 DEF TraceInv
<1> QED BY <1>2, <1>3, <1>4, <1>5, <1>6, <1>7 DEF Next

LEMMA InitTrace == Init => TraceInv
<1> SUFFICES ASSUME Init, NEW u \in Runs PROVE Traced(u)
  BY DEF TraceInv
<1>1. u # None /\ runs[u].pc = "none" /\ runs[u].undone = {}
  BY RunBoundsAssumption DEF Init, RunsInit, NoRun, Runs, None
<1>2. \A n \in Names : peers[n] # u /\ nodes[n] # u
  BY <1>1 DEF Init, RunsInit
<1>3. Objects(u) = {}
  BY <1>2 DEF Init, RunsInit, Objects
<1> HIDE DEF Objects
<1> QED BY <1>1, <1>2, <1>3 DEF Traced, Building, Preflights

(* A run that ended with rollback_state CLEAN left nothing of its own on   *)
(* the servers or the panel except what was created without an             *)
(* acknowledgement: also when names were reused, another run removed the   *)
(* object of the same name, requests deleted under the run, or the hub was *)
(* restarted meanwhile.                                                    *)
THEOREM RollbackLeavesNothing == Spec => []RollbackComplete
<1>1. Init => RouteInv /\ TraceInv
  BY InitInv, InitTrace
<1>2. RouteInv /\ TraceInv /\ [Next]_vars => (RouteInv /\ TraceInv)'
  BY NextTypes, NextTrace
<1>3. TraceInv => RollbackComplete
  BY DEF TraceInv, Traced, RollbackComplete
<1> QED BY <1>1, <1>2, <1>3, PTL DEF Spec
-----------------------------------------------------------------------------
(* One request at a time on a route, and no timeout: the hub may still be  *)
(* restarted at any time, and requests on different routes still overlap.  *)
Serial == OneRequestPerRoute /\ ~Timeouts

(* A live run has its route for itself, and the row says what the run read *)
(* from it or wrote to it last.                                            *)
Exclusive(u) ==
  Live(u) => LET r == runs[u].route IN
    /\ r \in running /\ ~runs[u].late
    /\ route[r].status = "RESERVED" /\ alloc[r].status = "RESERVED"
    /\ \A v \in Runs \ {u} : Live(v) => runs[v].route # r
    /\ runs[u].pc \in Building => runs[u].port = route[r].port
    /\ runs[u].pc \in Building \ {"pairing"} => runs[u].peer = route[r].peer

(* What the registry says of a route in each of its statuses.              *)
Kept(r) ==
  /\ route[r].status = "none" => alloc[r].status = "none" /\ r \notin running
  /\ route[r].status = "ACTIVE"   => alloc[r].status = "ACTIVE"
  /\ route[r].status = "RESERVED" => alloc[r].status = "RESERVED"
  /\ route[r].status = "FAILED"   => alloc[r].status = "RELEASED"
  /\ route[r].status = "NEEDS_REVIEW" => alloc[r].status # "ACTIVE"
  /\ route[r].deleted => alloc[r].status = "RELEASED" /\ route[r].status = "STALE"

(* A request has its route for itself, and the status it copied is still   *)
(* the status of the row: a verdict "healthy" cannot turn a route that was *)
(* never active, or is under review, into an ACTIVE one.                   *)
Alone(h) ==
  /\ ops[h].kind = "idle" => ops[h].route = None
  /\ ops[h].step # "none" => LET r == ops[h].route IN
       /\ r # None /\ r \notin running /\ route[r].status # "none"
       /\ \A g \in Handlers \ {h} : ops[g].route # r
       /\ ops[h].kind \in {"edit", "retry"} => route[r].status # "ACTIVE"
       /\ ops[h].kind # "reconcile" => ~route[r].deleted
       /\ ops[h].step \in {"probe", "commit"} =>
            /\ ops[h].kind \in {"retry", "reconcile"}
            /\ ops[h].row.status = route[r].status
       /\ ops[h].step = "commit" /\ ops[h].row.status \in {"NEEDS_REVIEW", "RESERVED"}
            => ~ops[h].verdict

Built(r) ==
  route[r].status = "ACTIVE" =>
    \E u \in Runs : /\ runs[u].route = r /\ runs[u].pc = "active"
                    /\ route[r].port = runs[u].port
                    /\ route[r].peer = runs[u].peer
                    /\ route[r].inbound = u

SerialInv ==
  /\ \A u \in Runs : Exclusive(u)
  /\ \A r \in Routes : Kept(r) /\ Built(r)
  /\ \A h \in Handlers : Alone(h)

Same(q) == /\ route'[q] = route[q] /\ alloc'[q] = alloc[q]
           /\ q \in running' <=> q \in running

(* A step that leaves a route, the live runs and the requests on it alone  *)
(* leaves what is known of them.                                           *)
LEMMA SameKept ==
  ASSUME NEW q \in Routes, Kept(q), Same(q) PROVE Kept(q)'
BY DEF Kept, Same

LEMMA SameBuilt ==
  ASSUME NEW q \in Routes, Built(q), Same(q),
         \A u \in Runs : runs[u].pc = "active" => runs'[u] = runs[u]
  PROVE  Built(q)'
BY DEF Built, Same

LEMMA SameAlone ==
  ASSUME NEW h \in Handlers, Alone(h), ops'[h] = ops[h],
         ops[h].step # "none" => Same(ops[h].route),
         \A g \in Handlers \ {h} : ops'[g].route \in {ops[g].route, None}
                                   \/ ops'[g].route # ops[h].route
  PROVE  Alone(h)'
BY DEF Alone, Same

LEMMA SameExclusive ==
  ASSUME NEW u \in Runs, Exclusive(u), runs'[u] = runs[u],
         Live(u) => Same(runs[u].route),
         \A v \in Runs \ {u} : Live(v)' =>
            \/ Live(v) /\ runs'[v].route = runs[v].route
            \/ Live(u) => runs'[v].route # runs[u].route
  PROVE  Exclusive(u)'
BY DEF Exclusive, Same, Live

(* What a run may write: its own record, and the row, the allocation and   *)
(* the membership in `running` of its own route.                           *)
LEMMA RunStepLocal ==
  ASSUME RouteInv, NEW u \in Runs, Provision(u)
  PROVE  /\ Live(u) /\ runs[u].route \in Routes
         /\ \A q \in Routes : q # runs[u].route => Same(q)
         /\ \A v \in Runs \ {u} : runs'[v] = runs[v]
         /\ runs'[u].route = runs[u].route
         /\ UNCHANGED <<ops, started>>
<1>0. RunsFine /\ RowsFine
  BY InvParts
<1>1. Live(u)
  BY DEF Provision, RunStep, Preflight, KeepPort, MovePort, Reach, Abort, Throw,
     Pair, AddNode, AddPeer, AddInbound, AddClient, Validate, Activate, Rollback,
     Fail, TimeOut, Live, LivePcs, Preflights, Building
<1>2. runs[u].route \in Routes
  BY <1>0, <1>1 DEF RunsFine
<1>3. UNCHANGED <<ops, started>> /\ \A v \in Runs \ {u} : runs'[v] = runs[v]
  BY OthersUntouched DEF Provision, RunStep, Preflight, KeepPort, MovePort, Reach, Abort, Throw,
     Pair, AddNode, AddPeer, AddInbound, AddClient, Validate, Activate, Rollback,
     Fail, TimeOut
<1> DEFINE r == runs[u].route
           Home == \A q \in Routes : q # r => Same(q)
<1>4. Home
  <2>1. CASE Preflight(u) \/ KeepPort(u) \/ Reach(u) \/ Throw(u) \/ Validate(u)
    BY <2>1 DEF Preflight, KeepPort, Reach, Throw, Validate, rowVars, Same
  <2>2. ASSUME NEW p \in Ports, MovePort(u, p) PROVE Home
    BY <1>0, <1>2, <2>2 DEF MovePort, RowsFine, Same
  <2>3. CASE Abort(u) \/ TimeOut(u)
    <3>1. UNCHANGED rowVars \/ SetStatus(r, "FAILED", "RELEASED")
      BY <2>3 DEF Abort, TimeOut
    <3>2. running' \in {running, running \ {r}}
      BY <2>3 DEF Abort, TimeOut, LeaveMap
    <3> QED BY <1>0, <1>2, <3>1, <3>2 DEF SetStatus, rowVars, RowsFine, Same
  <2>4. CASE Pair(u) \/ AddClient(u)
    <3>1. /\ running' = running /\ alloc' = alloc
          /\ \/ \E n \in Names : route' = [route EXCEPT ![r].peer = n]
             \/ route' = [route EXCEPT ![r].owned = TRUE]
             \/ route' = route
      BY <2>4 DEF Pair, AddClient
    <3> QED BY <1>0, <1>2, <3>1 DEF RowsFine, Same
  <2>5. ASSUME NEW reply \in Replies, AddNode(u, reply) \/ AddPeer(u, reply) \/ AddInbound(u, reply)
        PROVE  Home
    <3>1. /\ running' = running /\ alloc' = alloc
          /\ route' = [route EXCEPT ![r].inbound = u] \/ route' = route
      BY <2>5 DEF AddNode, AddPeer, AddInbound, rowVars
    <3> QED BY <1>0, <1>2, <3>1 DEF RowsFine, Same
  <2>6. CASE Activate(u) \/ Fail(u)
    <3>1. running' \in {running, running \ {r}}
      BY <2>6 DEF Activate, Fail, LeaveMap
    <3>2. \A q \in Routes : q # r => route'[q] = route[q] /\ alloc'[q] = alloc[q]
      BY <1>0, <1>2, <2>6 DEF Activate, Fail, RowsFine
    <3> QED BY <3>1, <3>2 DEF Same
  <2>7. ASSUME NEW part \in Parts, NEW reply \in Replies, Rollback(u, part, reply) PROVE Home
    BY <2>7 DEF Rollback, rowVars, Same
  <2> QED BY <2>1, <2>2, <2>3, <2>4, <2>5, <2>6, <2>7 DEF Provision, RunStep
<1>5. runs'[u].route = runs[u].route
  <2>1. CASE Preflight(u) \/ KeepPort(u) \/ Reach(u) \/ Throw(u) \/ Validate(u)
             \/ Pair(u) \/ AddClient(u) \/ TimeOut(u) \/ \E p \in Ports : MovePort(u, p)
    <3>1. CASE Preflight(u) \/ Reach(u)
      BY <1>0, <3>1 DEF Preflight, Reach, RunsFine, RunRecords
    <3>2. CASE KeepPort(u) \/ Throw(u) \/ Validate(u) \/ \E p \in Ports : MovePort(u, p)
      <4>1. \E pc : runs' = [runs EXCEPT ![u].pc = pc]
        BY <3>2 DEF KeepPort, Throw, Validate, MovePort, Step
      <4> QED BY <1>0, <4>1 DEF RunsFine, RunRecords
    <3>3. CASE Pair(u)
      <4>1. \E n \in Names : runs' = [runs EXCEPT ![u].pc = "node_add", ![u].peer = n]
        BY <3>3 DEF Pair
      <4> QED BY <1>0, <4>1 DEF RunsFine, RunRecords
    <3>4. CASE TimeOut(u)
      <4>1. runs' = [runs EXCEPT ![u].late = TRUE]
        BY <3>4 DEF TimeOut
      <4> QED BY <1>0, <4>1 DEF RunsFine, RunRecords
    <3>5. CASE AddClient(u)
      BY <1>0, <3>5 DEF AddClient, Made, Step, RunsFine, RunRecords
    <3> QED BY <2>1, <3>1, <3>2, <3>3, <3>4, <3>5
  <2>2. ASSUME NEW reply \in Replies, AddNode(u, reply) \/ AddPeer(u, reply) \/ AddInbound(u, reply)
        PROVE  runs'[u].route = runs[u].route
    BY <1>0, <2>2 DEF AddNode, AddPeer, AddInbound, Made, RunsFine, RunRecords
  <2>3. CASE Abort(u) \/ Activate(u) \/ Fail(u)
    <3>1. \E pc : End(u, pc)
      BY <2>3 DEF Abort, Activate, Fail
    <3> QED BY <1>0, <3>1 DEF End, RunsFine, NoRun
  <2>4. ASSUME NEW part \in Parts, NEW reply \in Replies, Rollback(u, part, reply)
        PROVE  runs'[u].route = runs[u].route
    BY <1>0, <2>4 DEF Rollback, UndoPart, RunsFine, RunRecords
  <2> QED BY <2>1, <2>2, <2>3, <2>4 DEF Provision, RunStep
<1> QED BY <1>1, <1>2, <1>3, <1>4, <1>5

(* What a run's step leaves on its own route, when it has it for itself:   *)
(* it is still RESERVED and agrees with the run, or the run has ended and  *)
(* the registry follows.                                                   *)
Agrees(u, r) ==
  /\ r \in running /\ ~runs[u].late
  /\ route[r].status = "RESERVED" /\ alloc[r].status = "RESERVED"
  /\ runs[u].pc \in Building => runs[u].port = route[r].port
  /\ runs[u].pc \in Building \ {"pairing"} => runs[u].peer = route[r].peer

Ends(u, r) ==
  \/ /\ route[r].status = "FAILED" /\ alloc[r].status = "RELEASED"
     /\ runs[u].pc \in EndPcs \ {"active"}
  \/ /\ route[r].status = "ACTIVE" /\ alloc[r].status = "ACTIVE"
     /\ runs[u].pc = "active"
     /\ route[r].port = runs[u].port /\ route[r].peer = runs[u].peer
     /\ route[r].inbound = u

LEMMA RunStepEffect ==
  ASSUME Serial, RouteInv, NEW u \in Runs, Exclusive(u), Provision(u)
  PROVE  /\ (Live(u) /\ Agrees(u, runs[u].route))' \/ Ends(u, runs[u].route)'
         /\ route'[runs[u].route].deleted = route[runs[u].route].deleted
<1> DEFINE r == runs[u].route
           Del == route'[r].deleted = route[r].deleted
           Goes == (Live(u) /\ Agrees(u, r))' /\ Del
           Stops == Ends(u, r)' /\ Del
<1>0. RunsFine /\ RowsFine
  BY InvParts
<1>1. r \in Routes /\ runs'[u].route = r /\ Live(u)
  BY RunStepLocal
<1>2. /\ r \in running /\ ~runs[u].late
      /\ route[r].status = "RESERVED" /\ alloc[r].status = "RESERVED"
      /\ runs[u].pc \in Building => runs[u].port = route[r].port
      /\ runs[u].pc \in Building \ {"pairing"} => runs[u].peer = route[r].peer
  BY <1>1 DEF Exclusive
<1>3. route[r] \in Rows /\ alloc[r] \in AllocRows /\ runs[u] \in RunRecords
  BY <1>0, <1>1 DEF RowsFine, RunsFine
<1>a. ASSUME UNCHANGED <<route, alloc, running>>, Live(u)', ~runs'[u].late,
             runs'[u].pc \in Building => runs'[u].port = route[r].port,
             runs'[u].pc \in Building \ {"pairing"} => runs'[u].peer = route[r].peer
      PROVE  Goes
  BY <1>1, <1>2, <1>a DEF Agrees
<1>u. ASSUME UNCHANGED <<route, alloc, running>>, Live(u)', ~runs'[u].late,
             runs'[u].port = runs[u].port, runs'[u].peer = runs[u].peer,
             \/ runs[u].pc \in Building \ {"pairing"}
             \/ runs'[u].pc \notin Building
      PROVE  Goes
  BY <1>2, <1>a, <1>u DEF Building
<1>4. ASSUME Preflight(u) \/ KeepPort(u) PROVE Goes
  <2>1. runs'[u].pc \in {"port_check", "connectivity"} /\ runs'[u].late = runs[u].late
    BY <1>0, <1>3, <1>4 DEF Preflight, KeepPort, Step, RunsFine, RunRecords
  <2>2. runs'[u].pc \in LivePcs /\ runs'[u].pc \notin Building
    BY <2>1 DEF LivePcs, Preflights, Building
  <2>3. UNCHANGED <<route, alloc, running>>
    BY <1>4 DEF Preflight, KeepPort, rowVars
  <2> HIDE DEF Goes
  <2> QED BY <1>2, <1>a, <2>1, <2>2, <2>3 DEF Live
<1>5. ASSUME Reach(u) PROVE Goes
  <2>1. /\ runs'[u].pc = "pairing" /\ runs'[u].late = runs[u].late
        /\ runs'[u].port = route[r].port
    BY <1>0, <1>3, <1>5 DEF Reach, RunsFine, RunRecords
  <2>2. runs'[u].pc \in LivePcs
    BY <2>1 DEF LivePcs, Building
  <2>3. UNCHANGED <<route, alloc, running>>
    BY <1>5 DEF Reach, rowVars
  <2> HIDE DEF Goes
  <2> QED BY <1>2, <1>a, <2>1, <2>2, <2>3 DEF Live
<1>6. ASSUME NEW p \in Ports, MovePort(u, p) PROVE Goes
  <2>1. runs'[u].pc = "connectivity" /\ runs'[u].late = runs[u].late
    BY <1>0, <1>3, <1>6 DEF MovePort, Step, RunsFine, RunRecords
  <2>2. runs'[u].pc \in LivePcs /\ runs'[u].pc \notin Building
    BY <2>1 DEF LivePcs, Preflights, Building
  <2>3. /\ route'[r].status = route[r].status /\ route'[r].deleted = route[r].deleted
        /\ alloc'[r].status = "RESERVED"
    BY <1>0, <1>1, <1>3, <1>6 DEF MovePort, RowsFine, Rows
  <2>4. running' = running
    BY <1>6 DEF MovePort
  <2> QED BY <1>1, <1>2, <2>1, <2>2, <2>3, <2>4 DEF Live, Agrees
<1>7. ASSUME Abort(u) PROVE Stops
  <2>1. runs'[u].pc = "aborted" /\ SetStatus(r, "FAILED", "RELEASED")
    BY <1>0, <1>2, <1>7 DEF Abort, End, RunsFine, NoRun
  <2>2. /\ route'[r].status = "FAILED" /\ route'[r].deleted = route[r].deleted
        /\ alloc'[r].status = "RELEASED"
    BY <1>0, <1>1, <1>3, <2>1 DEF SetStatus, RowsFine, Rows, AllocRows
  <2> QED BY <1>1, <2>1, <2>2 DEF Ends, EndPcs
<1>8. ASSUME Throw(u) \/ Validate(u) PROVE Goes
  <2>1. /\ runs'[u].pc = IF Throw(u) THEN "undo" ELSE "activate"
        /\ runs'[u].late = runs[u].late
        /\ runs'[u].port = runs[u].port /\ runs'[u].peer = runs[u].peer
    <3>1. CASE Throw(u)
      BY <1>0, <1>3, <3>1 DEF Throw, Step, RunsFine, RunRecords
    <3>2. CASE ~Throw(u)
      BY <1>0, <1>3, <1>8, <3>2 DEF Validate, Step, RunsFine, RunRecords
    <3> QED BY <3>1, <3>2
  <2>2. runs'[u].pc \in LivePcs
    BY <2>1 DEF LivePcs, Building
  <2>3. UNCHANGED <<route, alloc, running>>
    BY <1>8 DEF Throw, Validate, rowVars
  <2>4. runs[u].pc \in Building \ {"pairing"} \/ runs'[u].pc \notin Building
    BY <1>8, <2>1 DEF Throw, Validate, Building
  <2> HIDE DEF Goes
  <2> QED BY <1>2, <1>u, <2>1, <2>2, <2>3, <2>4 DEF Live
<1>9. ASSUME Pair(u) PROVE Goes
  <2>1. PICK n \in Names :
          /\ runs'  = [runs EXCEPT ![u].pc = "node_add", ![u].peer = n]
          /\ route' = [route EXCEPT ![r].peer = n]
          /\ runs[u].pc = "pairing" /\ alloc' = alloc /\ running' = running
    BY <1>9 DEF Pair
  <2>2. /\ runs'[u].pc = "node_add" /\ runs'[u].late = runs[u].late
        /\ runs'[u].port = runs[u].port /\ runs'[u].peer = n
    BY <1>0, <1>3, <2>1 DEF RunsFine, RunRecords
  <2>3. /\ route'[r].status = route[r].status /\ route'[r].deleted = route[r].deleted
        /\ route'[r].peer = n /\ route'[r].port = route[r].port
    BY <1>0, <1>1, <1>3, <2>1 DEF RowsFine, Rows
  <2>4. runs'[u].pc \in LivePcs /\ runs[u].pc \in Building
    BY <2>1, <2>2 DEF LivePcs, Building
  <2> QED BY <1>1, <1>2, <2>1, <2>2, <2>3, <2>4 DEF Live, Agrees
<1>10. ASSUME NEW part \in Parts, NEW next \in Building, NEW reply,
              runs[u].pc \in Building \ {"pairing"},
              Made(u, part, next, reply), UNCHANGED <<alloc, running>>,
              route'[r].status = route[r].status, route'[r].deleted = route[r].deleted,
              route'[r].port = route[r].port, route'[r].peer = route[r].peer
       PROVE  Goes
  <2>1. /\ runs'[u].pc \in {next, "undo"} /\ runs'[u].late = runs[u].late
        /\ runs'[u].port = runs[u].port /\ runs'[u].peer = runs[u].peer
    BY <1>0, <1>3, <1>10 DEF Made, RunsFine, RunRecords
  <2>2. runs'[u].pc \in LivePcs
    BY <2>1 DEF LivePcs
  <2> QED BY <1>1, <1>2, <1>10, <2>1, <2>2 DEF Live, Agrees
<1>11. ASSUME NEW reply \in Replies, AddNode(u, reply) PROVE Goes
  <2>1. /\ runs[u].pc \in Building \ {"pairing"} /\ "node" \in Parts /\ "peer_add" \in Building
        /\ Made(u, "node", "peer_add", reply) /\ UNCHANGED <<alloc, running, route>>
    BY <1>11 DEF AddNode, Building, Parts, rowVars
  <2> HIDE DEF Goes
  <2> QED BY <1>10, <2>1
<1>12. ASSUME NEW reply \in Replies, AddPeer(u, reply) PROVE Goes
  <2>1. /\ runs[u].pc \in Building \ {"pairing"} /\ "peer" \in Parts /\ "inbound_add" \in Building
        /\ Made(u, "peer", "inbound_add", reply) /\ UNCHANGED <<alloc, running, route>>
    BY <1>12 DEF AddPeer, Building, Parts, rowVars
  <2> HIDE DEF Goes
  <2> QED BY <1>10, <2>1
<1>13. ASSUME NEW reply \in Replies, AddInbound(u, reply) PROVE Goes
  <2>1. /\ runs[u].pc \in Building \ {"pairing"} /\ "inbound" \in Parts /\ "client" \in Building
        /\ Made(u, "inbound", "client", reply) /\ UNCHANGED <<alloc, running>>
    BY <1>13 DEF AddInbound, Building, Parts
  <2>2. /\ route'[r].status = route[r].status /\ route'[r].deleted = route[r].deleted
        /\ route'[r].port = route[r].port /\ route'[r].peer = route[r].peer
    BY <1>0, <1>1, <1>3, <1>13 DEF AddInbound, RowsFine, Rows
  <2> HIDE DEF Goes
  <2> QED BY <1>10, <2>1, <2>2
<1>14. ASSUME AddClient(u) PROVE Goes
  <2>1. /\ runs'[u].pc = "validate" /\ runs'[u].late = runs[u].late
        /\ runs'[u].port = runs[u].port /\ runs'[u].peer = runs[u].peer
        /\ runs[u].pc = "client" /\ alloc' = alloc /\ running' = running
    BY <1>0, <1>3, <1>14 DEF AddClient, Made, Step, RunsFine, RunRecords
  <2>2. /\ route'[r].status = route[r].status /\ route'[r].deleted = route[r].deleted
        /\ route'[r].port = route[r].port /\ route'[r].peer = route[r].peer
    BY <1>0, <1>1, <1>3, <1>14 DEF AddClient, RowsFine, Rows
  <2>3. runs'[u].pc \in LivePcs /\ runs[u].pc \in Building \ {"pairing"}
    BY <2>1 DEF LivePcs, Building
  <2> QED BY <1>1, <1>2, <2>1, <2>2, <2>3 DEF Live, Agrees
<1>15. ASSUME Activate(u) PROVE Stops
  <2>1. /\ runs'[u].pc = "active" /\ runs'[u].port = runs[u].port
        /\ runs'[u].peer = runs[u].peer /\ runs[u].pc \in Building \ {"pairing"}
    BY <1>0, <1>15 DEF Activate, End, RunsFine, NoRun, Building
  <2>2. /\ route'[r].status = "ACTIVE" /\ route'[r].deleted = route[r].deleted
        /\ route'[r].port = route[r].port /\ route'[r].peer = route[r].peer
        /\ route'[r].inbound = u /\ alloc'[r].status = "ACTIVE"
    BY <1>0, <1>1, <1>3, <1>15 DEF Activate, RowsFine, Rows, AllocRows
  <2> QED BY <1>1, <1>2, <2>1, <2>2 DEF Ends
<1>16. ASSUME NEW part \in Parts, NEW reply \in Replies, Rollback(u, part, reply) PROVE Goes
  <2>1. /\ runs'[u].pc = "undo" /\ runs'[u].late = runs[u].late
        /\ runs'[u].port = runs[u].port /\ runs'[u].peer = runs[u].peer
    BY <1>0, <1>3, <1>16 DEF Rollback, UndoPart, RunsFine, RunRecords
  <2>2. runs'[u].pc \in LivePcs /\ runs'[u].pc \notin Building
    BY <2>1 DEF LivePcs, Building
  <2>3. UNCHANGED <<route, alloc, running>>
    BY <1>16 DEF Rollback, rowVars
  <2> HIDE DEF Goes
  <2> QED BY <1>2, <1>u, <2>1, <2>2, <2>3 DEF Live
<1>17. ASSUME Fail(u) PROVE Stops
  <2>1. runs'[u].pc \in {"partial", "clean"}
    BY <1>0, <1>17 DEF Fail, End, RunsFine, NoRun
  <2>2. /\ route'[r].status = "FAILED" /\ route'[r].deleted = route[r].deleted
        /\ alloc'[r].status = "RELEASED"
    BY <1>0, <1>1, <1>3, <1>17 DEF Fail, RowsFine, Rows, AllocRows
  <2> QED BY <1>1, <2>1, <2>2 DEF Ends, EndPcs
<1>18. ~TimeOut(u)
  BY DEF TimeOut, Serial
<1>19. Goes \/ Stops
  <2> HIDE DEF Goes, Stops
  <2> QED BY <1>4, <1>5, <1>6, <1>7, <1>8, <1>9, <1>11, <1>12, <1>13, <1>14,
             <1>15, <1>16, <1>17, <1>18 DEF Provision, RunStep
<1> QED BY <1>1, <1>19

LEMMA SerialRun ==
  ASSUME Serial, RouteInv, SerialInv, NEW u \in Runs, Provision(u)
  PROVE  SerialInv'
<1>r. PICK r \in Routes : r = runs[u].route
  BY RunStepLocal
<1>1. /\ Live(u) /\ r \in Routes
      /\ \A q \in Routes : q # r => Same(q)
      /\ \A v \in Runs \ {u} : runs'[v] = runs[v]
      /\ runs'[u].route = r
      /\ UNCHANGED <<ops, started>>
  BY <1>r, RunStepLocal
<1>2. Exclusive(u)
  BY DEF SerialInv
<1>3. /\ (Live(u) /\ Agrees(u, r))' \/ Ends(u, r)'
      /\ route'[r].deleted = route[r].deleted
  <2>1. /\ (Live(u) /\ Agrees(u, runs[u].route))' \/ Ends(u, runs[u].route)'
        /\ route'[runs[u].route].deleted = route[runs[u].route].deleted
    BY <1>2, RunStepEffect
  <2> QED BY <1>1, <1>r, <2>1 DEF Agrees, Ends
<1>4. route[r].status = "RESERVED" /\ r \in running
      /\ \A v \in Runs \ {u} : Live(v) => runs[v].route # r
  BY <1>1, <1>2, <1>r DEF Exclusive
<1>5. ~route[r].deleted
  BY <1>1, <1>4 DEF SerialInv, Kept
<1>i. RunsFine /\ RowsFine
  BY InvParts
<1>d. ~route'[r].deleted
  BY <1>3, <1>5
<1>6. ASSUME NEW v \in Runs PROVE Exclusive(v)'
  <2>1. CASE v = u
    <3>1. \A w \in Runs \ {u} : ~(Live(w)' /\ runs'[w].route = r)
      BY <1>1, <1>4, <1>r DEF Live
    <3>2. Live(u)' => Agrees(u, r)'
      BY <1>3 DEF Ends, Live, LivePcs, EndPcs, Preflights, Building
    <3> QED BY <1>1, <2>1, <3>1, <3>2 DEF Agrees, Exclusive
  <2>2. CASE v # u
    <3>1. Exclusive(v) /\ runs'[v] = runs[v]
      BY <1>1, <2>2 DEF SerialInv
    <3>2. Live(v) => Same(runs[v].route)
      BY <1>1, <1>4, <1>i, <2>2 DEF RunsFine
    <3>3. \A w \in Runs \ {v} : Live(w)' =>
            \/ Live(w) /\ runs'[w].route = runs[w].route
            \/ Live(v) => runs'[w].route # runs[v].route
      BY <1>1, <1>r, <2>2 DEF Live
    <3> QED BY <3>1, <3>2, <3>3, SameExclusive
  <2> QED BY <2>1, <2>2
<1>7. ASSUME NEW q \in Routes PROVE Kept(q)' /\ Built(q)'
  <2>1. CASE q = r
    <3>1. Kept(r)'
      BY <1>3, <1>d DEF Agrees, Ends, Kept
    <3>2. Built(r)'
      BY <1>1, <1>3 DEF Agrees, Ends, Built
    <3> QED BY <2>1, <3>1, <3>2
  <2>2. CASE q # r
    <3>1. Kept(q) /\ Built(q) /\ Same(q)
      BY <1>1, <2>2 DEF SerialInv
    <3>2. \A v \in Runs : runs[v].pc = "active" => runs'[v] = runs[v]
      <4>1. runs[u].pc # "active"
        BY <1>1 DEF Live, LivePcs, Preflights, Building
      <4> QED BY <1>1, <4>1
    <3> QED BY <3>1, <3>2, SameKept, SameBuilt
  <2> QED BY <2>1, <2>2
<1>8. ASSUME NEW h \in Handlers PROVE Alone(h)'
  <2>1. Alone(h) /\ ops' = ops
    BY <1>1 DEF SerialInv
  <2>2. ops[h].step # "none" => Same(ops[h].route)
    <3>1. ops[h].step # "none" => ops[h].route \in Routes /\ ops[h].route # r
      BY <1>4, <2>1, InvParts DEF Alone, OpsFine
    <3> QED BY <1>1, <3>1
  <2>3. \A g \in Handlers \ {h} : ops'[g].route = ops[g].route
    BY <2>1
  <2> QED BY <2>1, <2>2, <2>3, SameAlone
<1> QED BY <1>6, <1>7, <1>8 DEF SerialInv

(* A run starts on a route that has none, and whose requests are over.     *)
LEMMA SerialStart ==
  ASSUME RouteInv, TraceInv, SerialInv, NEW r \in Routes, StartRun(r),
         r \notin running, \A v \in Runs : Live(v) => runs[v].route # r,
         \A q \in Routes \ {r} : route'[q] = route[q] /\ alloc'[q] = alloc[q],
         route'[r].status = "RESERVED", alloc'[r].status = "RESERVED",
         ~route'[r].deleted,
         \A h \in Handlers : ops'[h] = ops[h] \/ ops'[h] = IdleOp,
         \A h \in Handlers : ops'[h].step # "none" => ops[h].route # r
  PROVE  SerialInv'
<1> DEFINE s == started + 1
<1>0. RunsFine /\ started \in Nat /\ running \subseteq Routes
  BY InvParts, RunBoundsAssumption DEF CountsFine
<1>1. s \in Runs /\ runs[s].pc = "none"
  <2>1. s \in Runs
    BY <1>0, RunBoundsAssumption DEF StartRun, Runs
  <2> QED BY <1>0, <2>1 DEF TraceInv, Traced
<1>2. /\ \A v \in Runs \ {s} : runs'[v] = runs[v]
      /\ runs'[s] = [NoRun EXCEPT !.route = r, !.pc = "preflight"]
      /\ running' = running \cup {r}
  BY <1>0, <1>1 DEF StartRun, RunsFine
<1>3. /\ runs'[s].route = r /\ runs'[s].pc = "preflight" /\ ~runs'[s].late
  BY <1>2 DEF NoRun
<1>4. \A q \in Routes \ {r} : Same(q)
  BY <1>2 DEF Same
<1> HIDE DEF s
<1>5. ASSUME NEW v \in Runs PROVE Exclusive(v)'
  <2>1. CASE v = s
    <3>1. \A w \in Runs \ {s} : Live(w)' => runs'[w].route # r
      BY <1>2 DEF Live
    <3> QED BY <1>2, <1>3, <2>1, <3>1 DEF Exclusive, Building
  <2>2. CASE v # s
    <3>1. Exclusive(v) /\ runs'[v] = runs[v]
      BY <1>2, <2>2 DEF SerialInv
    <3>2. Live(v) => Same(runs[v].route)
      BY <1>0, <1>4 DEF RunsFine
    <3>3. \A w \in Runs \ {v} : Live(w)' =>
            \/ Live(w) /\ runs'[w].route = runs[w].route
            \/ Live(v) => runs'[w].route # runs[v].route
      BY <1>2, <1>3 DEF Live
    <3> QED BY <3>1, <3>2, <3>3, SameExclusive
  <2> QED BY <2>1, <2>2
<1>6. ASSUME NEW q \in Routes PROVE Kept(q)' /\ Built(q)'
  <2>1. CASE q = r
    BY <2>1 DEF Kept, Built
  <2>2. CASE q # r
    <3>1. Kept(q) /\ Built(q) /\ Same(q)
      BY <1>4, <2>2 DEF SerialInv
    <3>2. \A v \in Runs : runs[v].pc = "active" => runs'[v] = runs[v]
      BY <1>1, <1>2
    <3> QED BY <3>1, <3>2, SameKept, SameBuilt
  <2> QED BY <2>1, <2>2
<1>7. ASSUME NEW h \in Handlers PROVE Alone(h)'
  <2>1. CASE ops'[h] = IdleOp
    BY <2>1 DEF Alone, IdleOp
  <2>2. CASE ops'[h] = ops[h]
    <3>1. Alone(h)
      BY DEF SerialInv
    <3>2. ops[h].step # "none" => Same(ops[h].route)
      BY <1>4, <2>2, InvParts DEF OpsFine
    <3>3. \A g \in Handlers \ {h} : ops'[g].route \in {ops[g].route, None}
      BY DEF IdleOp
    <3> QED BY <2>2, <3>1, <3>2, <3>3, SameAlone
  <2> QED BY <2>1, <2>2
<1> QED BY <1>5, <1>6, <1>7 DEF SerialInv

(* A request that starts or writes on a route no run is on.                *)
LEMMA SerialRequest ==
  ASSUME RouteInv, SerialInv, NEW h \in Handlers, NEW r \in Routes,
         UNCHANGED <<runs, running>>, r \notin running,
         \A q \in Routes \ {r} : route'[q] = route[q] /\ alloc'[q] = alloc[q],
         Kept(r)', Built(r)',
         \A g \in Handlers \ {h} : ops'[g] = ops[g] /\ ops[g].route # r,
         ops'[h].route \in {r, None}, Alone(h)'
  PROVE  SerialInv'
<1>1. \A q \in Routes \ {r} : Same(q)
  BY DEF Same
<1>2. ASSUME NEW v \in Runs PROVE Exclusive(v)'
  <2>1. Exclusive(v) /\ runs'[v] = runs[v]
    BY DEF SerialInv
  <2>2. Live(v) => Same(runs[v].route)
    <3>1. Live(v) => runs[v].route \in Routes /\ runs[v].route # r
      BY <2>1, InvParts DEF RunsFine, Exclusive
    <3> QED BY <1>1, <3>1
  <2>3. \A w \in Runs \ {v} : Live(w)' => Live(w) /\ runs'[w].route = runs[w].route
    BY DEF Live
  <2> QED BY <2>1, <2>2, <2>3, SameExclusive
<1>3. ASSUME NEW q \in Routes PROVE Kept(q)' /\ Built(q)'
  <2>1. CASE q # r
    <3>1. Kept(q) /\ Built(q) /\ Same(q)
      BY <1>1, <2>1 DEF SerialInv
    <3>2. \A v \in Runs : runs[v].pc = "active" => runs'[v] = runs[v]
      OBVIOUS
    <3> QED BY <3>1, <3>2, SameKept, SameBuilt
  <2> QED BY <2>1
<1>4. ASSUME NEW g \in Handlers PROVE Alone(g)'
  <2>1. CASE g # h
    <3>1. Alone(g) /\ ops'[g] = ops[g]
      BY <2>1 DEF SerialInv
    <3>2. ops[g].step # "none" => Same(ops[g].route)
      BY <1>1, <2>1, InvParts DEF OpsFine
    <3>3. \A f \in Handlers \ {g} : ops'[f].route \in {ops[f].route, None}
                                   \/ ops'[f].route # ops[g].route
      BY <2>1
    <3> QED BY <3>1, <3>2, <3>3, SameAlone
  <2> QED BY <2>1
<1> QED BY <1>2, <1>3, <1>4 DEF SerialInv

LEMMA NoRunOn ==
  ASSUME SerialInv, NEW r, r \notin running
  PROVE  \A v \in Runs : Live(v) => runs[v].route # r
BY DEF SerialInv, Exclusive

LEMMA SerialCreate ==
  ASSUME RouteInv, TraceInv, SerialInv, NEW r \in Routes, NEW p \in Ports, Create(r, p)
  PROVE  SerialInv'
<1>0. RowsFine
  BY InvParts
<1>1. StartRun(r) /\ ops' = ops
  BY DEF Create
<1>2. Kept(r) /\ route[r].status = "none"
  BY DEF SerialInv, Create
<1>3. r \notin running /\ ~route[r].deleted
  BY <1>2 DEF Kept
<1>4. \A q \in Routes \ {r} : route'[q] = route[q] /\ alloc'[q] = alloc[q]
  BY <1>0 DEF Create, RowsFine
<1>5. /\ route'[r].status = "RESERVED" /\ alloc'[r].status = "RESERVED"
      /\ route'[r].deleted = route[r].deleted
  BY <1>0 DEF Create, RowsFine, Rows
<1>6. \A h \in Handlers : ops[h].step # "none" => ops[h].route # r
  BY <1>2 DEF SerialInv, Alone
<1> QED BY <1>1, <1>3, <1>4, <1>5, <1>6, NoRunOn, SerialStart

LEMMA SerialBegin ==
  ASSUME Serial, RouteInv, SerialInv, NEW h \in Handlers, NEW r \in Routes,
         RequestStarts(h, r)
  PROVE  SerialInv'
<1>0. /\ RowsFine /\ OpsFine /\ route[r] \in Rows
  BY InvParts DEF RowsFine
<1>1. /\ UNCHANGED <<route, alloc, runs, running>> /\ Idle(h)
      /\ \E kind \in Requests : MayRequest(r, kind)
  BY DEF RequestStarts, StartEdit, StartReconcile, StartRetry, StartDelete, runVars, rowVars,
     MayRequest
<1>2. /\ route[r].status # "none" /\ r \notin running
      /\ \A g \in Handlers : ops[g].route # r
  BY <1>1 DEF MayRequest, Serial
<1>3. r # None
  BY <1>1, <1>2 DEF SerialInv, Alone, Idle
<1>4. Kept(r) /\ Built(r) /\ Kept(r)' /\ Built(r)'
  BY <1>1 DEF SerialInv, Kept, Built
<1>5. \E kind \in {"edit", "reconcile", "retry", "delete"},
         s \in {"preflight", "probe", "client"},
         row \in {PortOnly(route[r]), Judged(route[r]), Owned(route[r])} :
        /\ ops' = [ops EXCEPT ![h] = [IdleOp EXCEPT !.kind = kind, !.route = r,
                                                    !.step = s, !.row = row]]
        /\ kind \in {"edit", "retry"} => route[r].status # "ACTIVE"
        /\ kind # "reconcile" => ~route[r].deleted
        /\ s = "probe" => kind \in {"retry", "reconcile"} /\ row = Judged(route[r])
  BY DEF RequestStarts, StartEdit, StartReconcile, StartRetry, StartDelete, Begin
<1>6. /\ ops'[h].route = r
      /\ ops'[h].kind \in {"edit", "reconcile", "retry", "delete"}
      /\ ops'[h].kind \in {"edit", "retry"} => route[r].status # "ACTIVE"
      /\ ops'[h].kind # "reconcile" => ~route[r].deleted
      /\ ops'[h].step # "commit"
      /\ ops'[h].step = "probe" => /\ ops'[h].kind \in {"retry", "reconcile"}
                                   /\ ops'[h].row.status = route[r].status
  BY <1>0, <1>5 DEF OpsFine, IdleOp, Judged, Rows
<1>7. \A g \in Handlers \ {h} : ops'[g] = ops[g]
  BY <1>0, <1>5 DEF OpsFine
<1>8. Alone(h)'
  BY <1>1, <1>2, <1>3, <1>6, <1>7 DEF Alone
<1> QED BY <1>1, <1>2, <1>4, <1>6, <1>7, <1>8, SerialRequest

(* A healthy verdict needs an ACTIVE allocation, unless cleanup was what   *)
(* was expected.                                                           *)
LEMMA RegistryFails ==
  ASSUME NEW row, NEW registry, NEW a, row.status # "FAILED",
         registry.status # "ACTIVE"
  PROVE  Fails(row, registry, a) # {}
<1>1. "registry" \in Fails(row, registry, a)
  BY DEF Fails, PresentPass
<1> QED BY <1>1

LEMMA SerialStep ==
  ASSUME Serial, RouteInv, TraceInv, SerialInv, NEW h \in Handlers, RequestStep(h)
  PROVE  SerialInv'
<1>0. RowsFine /\ OpsFine /\ ops[h] \in Requested
  BY InvParts DEF OpsFine
<1>1. ops[h].step # "none"
  BY DEF RequestStep, EditPort, RetryReserve, EditRefused, Probe, ReconcileCommit,
     RetryFails, DeleteClient, DeleteInbound, DeletePeer, DeleteNode, DeleteRows, At
<1>2. PICK r \in Routes : r = ops[h].route
  BY <1>0, <1>1 DEF OpsFine
<1>3. /\ r # None /\ r \notin running /\ route[r].status # "none"
      /\ \A g \in Handlers \ {h} : ops[g].route # r
      /\ ops[h].kind \in {"edit", "retry"} => route[r].status # "ACTIVE"
      /\ ops[h].kind # "reconcile" => ~route[r].deleted
      /\ ops[h].step \in {"probe", "commit"} =>
            /\ ops[h].kind \in {"retry", "reconcile"}
            /\ ops[h].row.status = route[r].status
      /\ ops[h].step = "commit" /\ ops[h].row.status \in {"NEEDS_REVIEW", "RESERVED"}
            => ~ops[h].verdict
  BY <1>1, <1>2 DEF SerialInv, Alone
<1>4. Kept(r) /\ Built(r) /\ route[r] \in Rows /\ alloc[r] \in AllocRows
  BY <1>0 DEF SerialInv, RowsFine
<1>w. ASSUME NEW op, ops' = [ops EXCEPT ![h] = op], op.route \in {r, None}, Alone(h)',
             UNCHANGED <<runs, running>>,
             \A q \in Routes \ {r} : route'[q] = route[q] /\ alloc'[q] = alloc[q],
             Kept(r)', Built(r)'
      PROVE  SerialInv'
  <2>1. /\ \A g \in Handlers \ {h} : ops'[g] = ops[g] /\ ops[g].route # r
        /\ ops'[h].route \in {r, None}
    BY <1>0, <1>3, <1>w DEF OpsFine
  <2> QED BY <1>3, <1>w, <2>1, SerialRequest
<1>f. ASSUME Finish(h), UNCHANGED <<runs, running>>,
             \A q \in Routes \ {r} : route'[q] = route[q] /\ alloc'[q] = alloc[q],
             Kept(r)', Built(r)'
      PROVE  SerialInv'
  <2>1. ops' = [ops EXCEPT ![h] = IdleOp] /\ IdleOp.route \in {r, None}
    BY <1>f DEF Finish, IdleOp
  <2>2. ops'[h] = IdleOp
    BY <1>0, <2>1 DEF OpsFine
  <2>3. Alone(h)'
    BY <2>2 DEF Alone, IdleOp
  <2> QED BY <1>f, <1>w, <2>1, <2>3
<1>k. UNCHANGED <<route, alloc, runs, running>> => Kept(r)' /\ Built(r)'
  BY <1>4 DEF Kept, Built
<1>5. ASSUME NEW p \in Ports, EditPort(h, p) PROVE SerialInv'
  <2>1. /\ \A q \in Routes \ {r} : route'[q] = route[q] /\ alloc'[q] = alloc[q]
        /\ route'[r].status = route[r].status /\ route'[r].deleted = route[r].deleted
        /\ alloc'[r].status = alloc[r].status
    BY <1>0, <1>2, <1>4, <1>5 DEF EditPort, RowsFine, Rows, AllocRows
  <2>2. Finish(h) /\ UNCHANGED <<runs, running>> /\ route[r].status # "ACTIVE"
    BY <1>3, <1>5 DEF EditPort, At
  <2>3. Kept(r)' /\ Built(r)'
    BY <1>4, <2>1, <2>2 DEF Kept, Built
  <2> QED BY <1>f, <2>1, <2>2, <2>3
<1>6. ASSUME NEW p \in Ports, RetryReserve(h, p) PROVE SerialInv'
  <2>1. /\ \A q \in Routes \ {r} : route'[q] = route[q] /\ alloc'[q] = alloc[q]
        /\ route'[r].status = "RESERVED" /\ route'[r].deleted = route[r].deleted
        /\ alloc'[r].status = "RESERVED"
    BY <1>0, <1>2, <1>4, <1>6 DEF RetryReserve, RowsFine, Rows, AllocRows
  <2>2. /\ StartRun(r) /\ ~route[r].deleted /\ ops' = [ops EXCEPT ![h] = IdleOp]
    BY <1>2, <1>3, <1>6 DEF RetryReserve, At, Finish
  <2>3. /\ \A g \in Handlers : ops'[g] = ops[g] \/ ops'[g] = IdleOp
        /\ \A g \in Handlers : ops'[g].step # "none" => ops[g].route # r
    BY <1>0, <1>3, <2>2 DEF OpsFine, IdleOp
  <2>4. \A v \in Runs : Live(v) => runs[v].route # r
    BY <1>3, NoRunOn
  <2>5. ~route'[r].deleted
    BY <2>1, <2>2
  <2> QED BY <1>3, <2>1, <2>2, <2>3, <2>4, <2>5, SerialStart
<1>7. CASE EditRefused(h) \/ RetryFails(h)
  <2>1. Finish(h) /\ UNCHANGED <<route, alloc, runs, running>>
    BY <1>7 DEF EditRefused, RetryFails, runVars, rowVars
  <2> QED BY <1>f, <1>k, <2>1
<1>8. CASE Probe(h)
  <2> DEFINE row == ops[h].row
  <2>1. PICK a \in Answers :
          ops' = [ops EXCEPT ![h].step = "commit",
             ![h].verdict = row.status = "STALE" \/ Fails(row, alloc[r], a) = {},
             ![h].blocked = row.status = "STALE"
                              \/ Fails(row, alloc[r], a) \ {"client"} # {}]
    BY <1>2, <1>8 DEF Probe
  <2> DEFINE op == [ops[h] EXCEPT !.step = "commit",
               !.verdict = row.status = "STALE" \/ Fails(row, alloc[r], a) = {},
               !.blocked = row.status = "STALE"
                              \/ Fails(row, alloc[r], a) \ {"client"} # {}]
  <2>2. /\ ops' = [ops EXCEPT ![h] = op]
        /\ op.route = r /\ op.row = row /\ op.kind = ops[h].kind
        /\ op.step = "commit"
        /\ op.verdict <=> row.status = "STALE" \/ Fails(row, alloc[r], a) = {}
    BY <1>0, <1>2, <2>1 DEF Requested
  <2> HIDE DEF op
  <2>3. UNCHANGED <<route, alloc, runs, running>> /\ ops[h].step = "probe"
    BY <1>8 DEF Probe, runVars, rowVars
  <2>4. row.status \in {"NEEDS_REVIEW", "RESERVED"} => ~op.verdict
    <3>1. row.status = route[r].status
      BY <1>3, <2>3
    <3>2. row.status \in {"NEEDS_REVIEW", "RESERVED"} => alloc[r].status # "ACTIVE"
      BY <1>4, <3>1 DEF Kept
    <3>3. row.status \in {"NEEDS_REVIEW", "RESERVED"} => Fails(row, alloc[r], a) # {}
      BY <3>2, RegistryFails
    <3> QED BY <2>2, <3>3
  <2>5. ops'[h] = op /\ \A g \in Handlers \ {h} : ops'[g] = ops[g]
    BY <1>0, <2>2 DEF OpsFine
  <2>6. op.kind \in {"retry", "reconcile"} /\ op.row.status = route[r].status
    BY <1>3, <2>2, <2>3
  <2>7. Alone(h)'
    BY <1>3, <2>2, <2>3, <2>4, <2>5, <2>6 DEF Alone
  <2> QED BY <1>k, <1>w, <2>2, <2>3, <2>7
<1>9. CASE ReconcileCommit(h)
  <2> DEFINE row     == ops[h].row
             verdict == ops[h].verdict
             next    == NextAlloc(row, alloc[r].status, verdict)
             status  == NextStatus(row, verdict)
             retries == ops[h].kind = "retry" /\ ~ops[h].blocked
             given   == IF retries THEN "RELEASED" ELSE next
  <2>0. /\ ops[h].step = "commit" /\ row.status = route[r].status
        /\ UNCHANGED <<runs, running>>
    BY <1>3, <1>9 DEF ReconcileCommit
  <2>1. CASE row.status # "STALE" /\ CommitThrows(r, next)
    <3>1. Finish(h) /\ UNCHANGED <<route, alloc, runs, running>>
      BY <1>2, <1>9, <2>1 DEF ReconcileCommit, rowVars
    <3> QED BY <1>f, <1>k, <3>1
  <2>2. CASE ~(row.status # "STALE" /\ CommitThrows(r, next))
    <3>1. /\ SetStatus(r, status, given)
          /\ IF retries THEN Begin(h, "retry", r, "recommend", PortOnly(row))
                        ELSE Finish(h)
      BY <1>2, <1>9, <2>2 DEF ReconcileCommit
    <3>2. /\ \A q \in Routes \ {r} : route'[q] = route[q] /\ alloc'[q] = alloc[q]
          /\ route'[r] = [route[r] EXCEPT !.status = status]
          /\ alloc'[r].status = given
      BY <1>0, <3>1 DEF SetStatus, RowsFine, AllocRows
    <3>3. /\ route'[r].status = status /\ route'[r].deleted = route[r].deleted
          /\ route'[r].port = route[r].port /\ route'[r].peer = route[r].peer
          /\ route'[r].inbound = route[r].inbound
      BY <1>4, <3>2 DEF Rows
    <3>4. row.status \in {"RESERVED", "ACTIVE", "FAILED", "NEEDS_REVIEW", "STALE"}
      BY <1>3, <1>4, <2>0 DEF Rows, Statuses
    <3>5. row.status \in {"NEEDS_REVIEW", "RESERVED"} => ~verdict
      BY <1>3, <2>0
    <3>6. /\ status = "ACTIVE" => row.status = "ACTIVE"
          /\ status # "RESERVED" /\ status # "none"
      BY <3>4, <3>5 DEF NextStatus
    <3>7. Kept(r)'
      <4>1. status = "ACTIVE" => given = "ACTIVE"
        <5>1. status = "ACTIVE" => row.status = "ACTIVE" /\ ~retries
          BY <1>3, <2>0, <3>6
        <5> QED BY <5>1 DEF NextAlloc
      <4>2. status = "FAILED" => given = "RELEASED"
        BY <3>4 DEF NextStatus, NextAlloc
      <4>3. status = "NEEDS_REVIEW" => given # "ACTIVE"
        BY <3>4 DEF NextStatus, NextAlloc
      <4>4. route[r].deleted => given = "RELEASED" /\ status = "STALE"
        BY <1>4, <2>0 DEF Kept, NextStatus, NextAlloc
      <4> HIDE DEF status, given
      <4> QED BY <3>2, <3>3, <3>6, <4>1, <4>2, <4>3, <4>4 DEF Kept
    <3>8. Built(r)'
      BY <1>4, <2>0, <3>3, <3>6 DEF Built
    <3>9. CASE ~retries
      BY <1>f, <2>0, <3>1, <3>2, <3>7, <3>8, <3>9
    <3>10. CASE retries
      <4> DEFINE op == [IdleOp EXCEPT !.kind = "retry", !.route = r,
                                      !.step = "recommend", !.row = PortOnly(row)]
      <4>1. /\ ops' = [ops EXCEPT ![h] = op] /\ op.route = r
            /\ op.kind = "retry" /\ op.step = "recommend"
        BY <3>1, <3>10 DEF Begin, IdleOp
      <4> HIDE DEF op
      <4>2. ops'[h] = op /\ \A g \in Handlers \ {h} : ops'[g] = ops[g]
        BY <1>0, <4>1 DEF OpsFine
      <4>3. status # "ACTIVE" /\ ~route[r].deleted
        BY <1>3, <2>0, <3>6, <3>10
      <4>4. /\ route'[r].status # "ACTIVE" /\ ~route'[r].deleted
            /\ route'[r].status # "none" /\ r \notin running'
        BY <1>3, <2>0, <3>3, <3>6, <4>3
      <4>5. Alone(h)'
        BY <1>3, <4>1, <4>2, <4>4 DEF Alone
      <4> QED BY <1>w, <2>0, <3>2, <3>7, <3>8, <4>1, <4>5
    <3> QED BY <3>9, <3>10
  <2> QED BY <2>1, <2>2
<1>10. ASSUME NEW s \in {"inbound", "peer", "node", "rows"}, NEW reply,
              ops[h].kind = "delete", After(h, s, reply),
              UNCHANGED <<alloc, runs, running>>,
              route' = [route EXCEPT ![r].owned = FALSE] \/ UNCHANGED route
       PROVE  SerialInv'
  <2> DEFINE op == [ops[h] EXCEPT !.step = s, !.failed = @ \/ reply \in {"refused", "lost"}]
  <2>1. /\ ops' = [ops EXCEPT ![h] = op]
        /\ op.route = r /\ op.kind = "delete" /\ op.step = s
    BY <1>0, <1>2, <1>10 DEF After, Requested
  <2> HIDE DEF op
  <2>2. /\ \A q \in Routes \ {r} : route'[q] = route[q] /\ alloc'[q] = alloc[q]
        /\ route'[r].status = route[r].status /\ route'[r].deleted = route[r].deleted
        /\ route'[r].port = route[r].port /\ route'[r].peer = route[r].peer
        /\ route'[r].inbound = route[r].inbound
    BY <1>0, <1>4, <1>10 DEF RowsFine, Rows
  <2>3. Kept(r)' /\ Built(r)'
    BY <1>4, <1>10, <2>2 DEF Kept, Built
  <2>4. ops'[h] = op /\ \A g \in Handlers \ {h} : ops'[g] = ops[g]
    BY <1>0, <2>1 DEF OpsFine
  <2>5. Alone(h)'
    BY <1>3, <1>10, <2>1, <2>2, <2>4 DEF Alone
  <2> QED BY <1>w, <1>10, <2>1, <2>2, <2>3, <2>5
<1>11. ASSUME NEW reply, NEW keep, DeleteClient(h, reply, keep) PROVE SerialInv'
  <2>1. /\ ops[h].kind = "delete" /\ After(h, "inbound", reply)
        /\ UNCHANGED <<alloc, runs, running>>
        /\ route' = [route EXCEPT ![r].owned = FALSE] \/ UNCHANGED route
    BY <1>2, <1>11 DEF DeleteClient, At
  <2> QED BY <1>10, <2>1
<1>12. ASSUME NEW reply, DeleteInbound(h, reply) \/ DeletePeer(h, reply) \/ DeleteNode(h, reply)
       PROVE  SerialInv'
  <2>1. /\ ops[h].kind = "delete"
        /\ \E s \in {"peer", "node", "rows"} : After(h, s, reply)
        /\ UNCHANGED <<route, alloc, runs, running>>
    BY <1>12 DEF DeleteInbound, DeletePeer, DeleteNode, At, rowVars
  <2> QED BY <1>10, <2>1
<1>13. CASE DeleteRows(h)
  <2>1. /\ alloc' = [alloc EXCEPT ![r].status = "RELEASED"]
        /\ \/ route' = [route EXCEPT ![r].status = "NEEDS_REVIEW"]
           \/ route' = [route EXCEPT ![r].status = "STALE", ![r].deleted = TRUE]
        /\ Finish(h) /\ UNCHANGED <<runs, running>> /\ ~route[r].deleted
    BY <1>2, <1>3, <1>13 DEF DeleteRows, At
  <2>2. /\ \A q \in Routes \ {r} : route'[q] = route[q] /\ alloc'[q] = alloc[q]
        /\ alloc'[r].status = "RELEASED"
        /\ \/ route'[r].status = "NEEDS_REVIEW" /\ ~route'[r].deleted
           \/ route'[r].status = "STALE"
    BY <1>0, <1>4, <2>1 DEF RowsFine, Rows, AllocRows
  <2>3. Kept(r)' /\ Built(r)'
    BY <2>2 DEF Kept, Built
  <2> QED BY <1>f, <2>1, <2>2, <2>3
<1> QED BY <1>5, <1>6, <1>7, <1>8, <1>9, <1>11, <1>12, <1>13 DEF RequestStep

(* A restart ends every run and request; the sweep marks some of the       *)
(* reservations STALE.                                                     *)
LEMMA SerialRestart ==
  ASSUME RouteInv, SerialInv, Restart
  PROVE  SerialInv'
<1>0. RunsFine /\ RowsFine
  BY InvParts
<1>1. \A u \in Runs : ~Live(u)'
  <2>1. \A u \in Runs : runs'[u] = IF Live(u) THEN [runs[u] EXCEPT !.pc = "dead"] ELSE runs[u]
    BY DEF Restart
  <2>2. \A u \in Runs : Live(u) => runs'[u].pc = "dead"
    BY <1>0, <2>1 DEF RunsFine, RunRecords
  <2> QED BY <2>1, <2>2 DEF Live, LivePcs, Preflights, Building
<1>2. ASSUME NEW q \in Routes PROVE Kept(q)' /\ Built(q)'
  <2>1. /\ alloc' = alloc /\ running' = {}
        /\ \/ route'[q] = route[q]
           \/ route'[q] = [route[q] EXCEPT !.status = "STALE"] /\ route[q].status = "RESERVED"
    BY DEF Restart
  <2>2. Kept(q) /\ Built(q) /\ route[q] \in Rows
    BY <1>0 DEF SerialInv, RowsFine
  <2>3. \A u \in Runs : runs[u].pc = "active" => runs'[u] = runs[u]
    BY DEF Restart, Live, LivePcs, Preflights, Building
  <2>4. CASE route'[q] = route[q]
    BY <2>1, <2>2, <2>3, <2>4 DEF Kept, Built
  <2>5. CASE /\ route'[q] = [route[q] EXCEPT !.status = "STALE"]
             /\ route[q].status = "RESERVED"
    <3>1. route'[q].status = "STALE" /\ route'[q].deleted = route[q].deleted
      BY <2>2, <2>5 DEF Rows
    <3> QED BY <2>1, <2>2, <2>5, <3>1 DEF Kept, Built
  <2> QED BY <2>1, <2>4, <2>5
<1>3. \A h \in Handlers : Alone(h)'
  BY DEF Restart, Alone, IdleOp
<1> QED BY <1>1, <1>2, <1>3 DEF SerialInv, Exclusive

LEMMA NextSerial ==
  ASSUME Serial
  PROVE  RouteInv /\ TraceInv /\ SerialInv /\ [Next]_vars => SerialInv'
<1> SUFFICES ASSUME RouteInv, TraceInv, SerialInv, [Next]_vars PROVE SerialInv'
  OBVIOUS
<1>1. CASE UNCHANGED vars
  BY <1>1 DEF SerialInv, Exclusive, Kept, Built, Alone, Live, vars, runVars, rowVars
<1>2. CASE Next
  BY <1>2, SerialCreate, SerialRun, SerialBegin, SerialStep, SerialRestart DEF Next
<1> QED BY <1>1, <1>2

LEMMA InitSerial == Init => SerialInv
BY DEF Init, RunsInit, SerialInv, Exclusive, Kept, Built, Alone, Live, LivePcs,
   Preflights, Building, NoRun, NoRow, IdleOp

(* As long as the operator waits for the end of a request, and of a run,   *)
(* before the next one on the same route, and no run outlives its timer,   *)
(* the registry follows the status of every route: through preflights,     *)
(* rollbacks, retries, verdicts, deletes and restarts at any point.        *)
THEOREM RegistryFollows ==
  ASSUME Serial PROVE Spec => []AllocationFollowsStatus
<1>1. Init => RouteInv /\ TraceInv /\ SerialInv
  BY InitInv, InitTrace, InitSerial
<1>2. RouteInv /\ TraceInv /\ SerialInv /\ [Next]_vars
        => (RouteInv /\ TraceInv /\ SerialInv)'
  BY NextTypes, NextTrace, NextSerial
<1>3. SerialInv => AllocationFollowsStatus
  BY DEF SerialInv, Kept, AllocationFollowsStatus
<1> QED BY <1>1, <1>2, <1>3, PTL DEF Spec

(* Under the same discipline an ACTIVE route publishes what was built: its *)
(* port, peer name and inbound are those of a run that ended by activating *)
(* this very route, and neither an edit, a verdict nor a restart can make  *)
(* another row ACTIVE.                                                     *)
THEOREM ActiveWasBuilt ==
  ASSUME Serial PROVE Spec => []ActiveIsWhatWasBuilt
<1>1. Init => RouteInv /\ TraceInv /\ SerialInv
  BY InitInv, InitTrace, InitSerial
<1>2. RouteInv /\ TraceInv /\ SerialInv /\ [Next]_vars
        => (RouteInv /\ TraceInv /\ SerialInv)'
  BY NextTypes, NextTrace, NextSerial
<1>3. SerialInv => ActiveIsWhatWasBuilt
  BY DEF SerialInv, Built, ActiveIsWhatWasBuilt, RunsOf
<1> QED BY <1>1, <1>2, <1>3, PTL DEF Spec
-----------------------------------------------------------------------------
(* The ledger.  A step writes the port and the allocation of at most one   *)
(* route; what the others have is the same before and after, and so the    *)
(* port that the one has after the step was free before it.                *)
OneRowOnly ==
  \E r \in Routes : \A q \in Routes \ {r} :
    alloc'[q] = alloc[q] /\ route'[q].port = route[q].port

LEMMA RequestWritesOneRow ==
  ASSUME RouteInv, NEW h \in Handlers, RequestStep(h), ~UNCHANGED rowVars
  PROVE  OneRowOnly
<1> DEFINE r == ops[h].route
           Others == \A q \in Routes \ {r} : alloc'[q] = alloc[q] /\ route'[q].port = route[q].port
<1>1. RowsFine /\ OpsFine
  BY InvParts
<1>2. ops[h].step # "none"
  BY DEF RequestStep, At, EditPort, RetryReserve, EditRefused, Probe, ReconcileCommit, RetryFails,
         DeleteClient, DeleteInbound, DeletePeer, DeleteNode, DeleteRows
<1>3. r \in Routes
  BY <1>1, <1>2 DEF OpsFine
<1>4. Others
  <2>1. ASSUME NEW p \in Ports, EditPort(h, p) \/ RetryReserve(h, p) PROVE Others
    BY <1>1, <2>1 DEF EditPort, RetryReserve, RowsFine
  <2>2. CASE ReconcileCommit(h)
    <3>1. UNCHANGED rowVars \/ \E s, a : SetStatus(r, s, a)
      BY <2>2 DEF ReconcileCommit
    <3> QED BY <1>1, <3>1 DEF SetStatus, RowsFine, rowVars
  <2>3. ASSUME NEW reply, NEW keep, DeleteClient(h, reply, keep) PROVE Others
    BY <1>1, <2>3 DEF DeleteClient, RowsFine
  <2>4. CASE DeleteRows(h)
    BY <1>1, <2>4 DEF DeleteRows, RowsFine
  <2>5. ~EditRefused(h) /\ ~Probe(h) /\ ~RetryFails(h)
    BY DEF EditRefused, Probe, RetryFails, runVars
  <2>6. \A reply : ~DeleteInbound(h, reply) /\ ~DeletePeer(h, reply) /\ ~DeleteNode(h, reply)
    BY DEF DeleteInbound, DeletePeer, DeleteNode
  <2> QED BY <2>1, <2>2, <2>3, <2>4, <2>5, <2>6 DEF RequestStep
<1> QED BY <1>3, <1>4 DEF OneRowOnly

PortsStay == UNCHANGED alloc /\ \A q \in Routes : route'[q].port = route[q].port

LEMMA StepWritesOneRow ==
  ASSUME RouteInv, [Next]_vars
  PROVE  OneRowOnly \/ PortsStay
<1>1. RowsFine
  BY InvParts
<1>2. UNCHANGED rowVars => PortsStay
  BY DEF rowVars, PortsStay
<1>3. ASSUME NEW r \in Routes, NEW p \in Ports, Create(r, p) PROVE OneRowOnly
  <2>1. \A q \in Routes \ {r} : alloc'[q] = alloc[q] /\ route'[q].port = route[q].port
    BY <1>1, <1>3 DEF Create, RowsFine
  <2> QED BY <2>1 DEF OneRowOnly
<1>4. ASSUME NEW u \in Runs, Provision(u) PROVE OneRowOnly
  <2>1. runs[u].route \in Routes /\ \A q \in Routes : q # runs[u].route => Same(q)
    BY <1>4, RunStepLocal
  <2> QED BY <2>1 DEF OneRowOnly, Same
<1>5. CASE Restart
  <2>1. PICK old \in SUBSET Routes :
          route' = [r \in Routes |-> IF r \in old THEN [route[r] EXCEPT !.status = "STALE"]
                                     ELSE route[r]]
    BY <1>5 DEF Restart
  <2>2. \A r \in Routes : [route[r] EXCEPT !.status = "STALE"].port = route[r].port
    BY <1>1 DEF RowsFine, Rows
  <2>3. \A r \in Routes : route'[r].port = route[r].port
    BY <2>1, <2>2
  <2> QED BY <1>5, <2>3 DEF Restart, PortsStay
<1>6. ASSUME NEW h \in Handlers, NEW r \in Routes, RequestStarts(h, r) PROVE UNCHANGED rowVars
  BY <1>6 DEF RequestStarts, StartEdit, StartReconcile, StartRetry, StartDelete, runVars
<1>7. CASE UNCHANGED vars
  BY <1>2, <1>7 DEF vars, runVars
<1> QED BY <1>2, <1>3, <1>4, <1>5, <1>6, <1>7, RequestWritesOneRow DEF Next

(* The ports on the rows are a ledger of their own, although only the      *)
(* registry is ever asked, whatever requests, runs, timers and restarts    *)
(* overlap.                                                                *)
THEOREM RoutesImplementLedger == Spec => ImplementsLedger
<1> DEFINE Inv  == RouteInv /\ PortExclusive /\ PortMirror
           held == [r \in Routes |-> IF Guarded(r) THEN route[r].port ELSE None]
<1>1. Init => Inv
  BY InitInv, InitPorts
<1>2. Inv /\ [Next]_vars => Inv'
  BY NextTypes, NextPorts
<1>3. Init => Ledger!LedgerInit
  BY DEF Init, RunsInit, Guarded, Ledger!LedgerInit
<1>4. Inv /\ Inv' /\ [Next]_vars => [Ledger!LedgerNext]_held
  <2> SUFFICES ASSUME Inv, Inv', [Next]_vars PROVE Ledger!LedgerNext \/ held' = held
    OBVIOUS
  <2>1. CASE PortsStay
    BY <2>1 DEF PortsStay, Guarded
  <2>2. CASE OneRowOnly
    <3>1. PICK r \in Routes : \A q \in Routes \ {r} :
                                alloc'[q] = alloc[q] /\ route'[q].port = route[q].port
      BY <2>2 DEF OneRowOnly
    <3>2. \A q \in Routes \ {r} : held'[q] = held[q]
      BY <3>1 DEF Guarded
    <3>3. held' = [held EXCEPT ![r] = held'[r]]
      BY <3>2
    <3>4. CASE ~Guarded(r)' \/ route'[r].port = None
      <4>1. held'[r] = None
        BY <3>4
      <4>2. Ledger!GiveBack(r)
        BY <3>3, <4>1 DEF Ledger!GiveBack
      <4> QED BY <4>2 DEF Ledger!LedgerNext
    <3>5. CASE Guarded(r)' /\ route'[r].port # None
      <4>0. route'[r].port \in Ports
        BY <3>5 DEF RouteInv, RouteTypeOK, Rows
      <4>1. PICK p \in Ports : p = route'[r].port /\ p = held'[r]
        BY <3>5, <4>0
      <4>2. ASSUME NEW q \in Routes \ {r} PROVE held[q] # p
        <5>1. alloc'[r].port = p /\ alloc'[q].port = route'[q].port
          BY <4>1 DEF PortMirror
        <5>2. CASE Guarded(q)' /\ route'[q].port = p
          <6>1. HoldsPort(r, p)' /\ HoldsPort(q, p)'
            BY <3>5, <5>1, <5>2 DEF HoldsPort, Guarded
          <6>2. q = r
            BY <4>1, <6>1 DEF PortExclusive
          <6> QED BY <6>2
        <5>3. CASE ~Guarded(q)' \/ route'[q].port # p
          <6>1. held'[q] # p
            BY <3>5, <4>1, <5>3
          <6> QED BY <3>2, <6>1
        <5> QED BY <5>2, <5>3
      <4>3. Ledger!Take(r, p)
        BY <3>3, <4>1, <4>2 DEF Ledger!Take
      <4> QED BY <4>3 DEF Ledger!LedgerNext
    <3> QED BY <3>4, <3>5
  <2> QED BY <2>1, <2>2, StepWritesOneRow
<1> QED BY <1>1, <1>2, <1>3, <1>4, PTL DEF Spec, ImplementsLedger, Ledger!LedgerSpec
=============================================================================

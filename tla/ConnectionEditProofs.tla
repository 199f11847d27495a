-------------------------- MODULE ConnectionEditProofs --------------------------
(***************************************************************************)
(* Theorems of ConnectionEdit: type correctness, exactness of the lock     *)
(* table and exclusion of operations that share a server, what a rollback  *)
(* restores and a commit has in place, and the path that a move keeps, for *)
(* any number of connections, servers, names, requests and faults.         *)
(***************************************************************************)
EXTENDS ConnectionEdit, TLAPS

LivePcs == EditPcs \cup MovePcs

\* What the types leave open about a request: one under way is about a
\* connection and its row, and a move knows all parameters.
Formed(op) ==
  /\ op \in OpRecords
  /\ op.pc \in EditPcs => op.kind = "edit"
  /\ op.pc \in MovePcs => op.kind = "move"
  /\ op.pc \in {"learn", "read"} \cup LivePcs =>
       op.conn \in Conns /\ op.row \in Rows
  /\ op.pc \in LivePcs => op.cur \in Rows /\ op.want \in Rows
  /\ op.pc \in MovePcs => op.cur \in KnownRows /\ op.want \in KnownRows

\* The hub's rows and the servers' tables.
Tables ==
  /\ rows \in [Conns -> Rows]
  /\ peers \in [Irans -> [Names -> PeerConfs \cup {None}]]
  /\ nodes \in [Foreigns -> [Names -> NodeConfs \cup {None}]]
  /\ faults \in 0..MaxFaults

\* The requests and the locks.  Requests not yet made are untouched.
Requests ==
  /\ started \in 0..MaxOps
  /\ locks \in [Conns \cup Servers -> 0..MaxOps]
  /\ ops \in [Ops -> OpRecords]
  /\ \A o \in Ops : Formed(ops[o]) /\ (o > started => ops[o].pc = "none")

EditInv == Tables /\ Requests /\ LocksExact

LEMMA InvTypes == ASSUME EditInv PROVE EditTypeOK
  BY DEF EditInv, Tables, Requests, Formed, EditTypeOK

\* "live" is what the program counters say it is.
LEMMA LiveIsPc ==
  ASSUME Requests, NEW o \in Ops
  PROVE  Live(o) <=> ops[o].pc \in LivePcs
  BY DEF Requests, OpRecords, Live, LivePcs, EditPcs, MovePcs

-----------------------------------------------------------------------------
(* Rows and configurations.                                                *)

\* None is not an address, a parameter or a list of ports.
LEMMA NoneApart ==
  /\ None \notin Irans /\ None \notin Foreigns /\ None \notin Params
  /\ None \notin Names /\ None \notin PortLists /\ None \notin Conns
  BY SortsAssumption DEF Servers

LEMMA KnownIsRow == KnownRows \subseteq Rows
  BY DEF Rows

\* A row whose parameters are known has all of them.
LEMMA RowKnown ==
  ASSUME NEW v \in Rows, v.params # None
  PROVE  v \in KnownRows
  BY DEF Rows, KnownRows, RowsWith

LEMMA UnlearnedIsRow ==
  ASSUME NEW v \in KnownRows
  PROVE  Unlearned(v) \in Rows
  BY DEF Rows, KnownRows, RowsWith, Unlearned

LEMMA ConfTypes ==
  ASSUME NEW v \in KnownRows
  PROVE  PeerConf(v) \in PeerConfs /\ NodeConf(v) \in NodeConfs
  BY DEF KnownRows, RowsWith, PeerConf, NodeConf, PeerConfs, NodeConfs

\* An edit without all parameters keeps those that the CLI has.
LEMMA OverlaidTypes ==
  ASSUME NEW v \in Rows
  PROVE  /\ \A p \in PeerConfs : Overlaid(p, PeerConf(v)) \in PeerConfs
         /\ \A n \in NodeConfs : Overlaid(n, NodeConf(v)) \in NodeConfs
  BY NoneApart DEF Rows, KnownRows, RowsWith, PeerConf, NodeConf, PeerConfs,
     NodeConfs, Overlaid, Asked

\* What is wanted of a known row is known.
LEMMA WantedKnown ==
  ASSUME NEW v \in KnownRows, NEW req \in Fields
  PROVE  Wanted(v, req) \in KnownRows
  BY NoneApart DEF KnownRows, RowsWith, Fields, Wanted, Asked

\* A change of class A asks for no parameter and no address, so that what is
\* wanted of an unknown row is unknown in the same fields.
LEMMA WantedUnknown ==
  ASSUME NEW v \in Rows, v.params = None, NEW req \in Fields,
         EditClass(v, req) = "A"
  PROVE  Wanted(v, req) \in Rows
<1>1. v \in RowsWith({None}, {None}, {None})
  BY NoneApart DEF Rows, KnownRows, RowsWith
<1>2. /\ req.params = None \/ req.params = v.params
      /\ req.iranIp = None \/ req.iranIp = v.iranIp
      /\ req.foreignIp = None \/ req.foreignIp = v.foreignIp
  BY DEF EditClass, TunnelFields, Fields
<1>3. Wanted(v, req) \in RowsWith({None}, {None}, {None})
  BY <1>1, <1>2, NoneApart DEF RowsWith, Fields, Wanted, Asked
<1> QED BY <1>3 DEF Rows

-----------------------------------------------------------------------------
(* Requests and locks.                                                     *)

\* An operation that goes on keeps its connection and its servers; one that
\* does not is done.
Continues(o, op) ==
  /\ Formed(op)
  /\ \/ op.pc = "done"
     \/ op.pc \in LivePcs /\ KeysOf(op) = KeysOf(ops[o])

LEMMA PcsApart ==
  /\ EditPcs \cap MovePcs = {}
  /\ {"none", "learn", "read", "done"} \cap LivePcs = {}
  BY DEF LivePcs, EditPcs, MovePcs

LEMMA EndedFormed ==
  ASSUME NEW op, Formed(op), NEW status \in Statuses
  PROVE  Formed(Ended(op, status)) /\ Ended(op, status).pc = "done"
<1>1. NoFields \in Fields
  BY DEF NoFields, Fields
<1>2. Ended(op, status) \in OpRecords /\ Ended(op, status).pc = "done"
  BY <1>1 DEF Ended, OpRecords, Formed
<1> QED BY <1>2, PcsApart DEF Formed, LivePcs

LEMMA EndedContinues ==
  ASSUME Requests, NEW o \in Ops, NEW status \in Statuses
  PROVE  Continues(o, Ended(ops[o], status))
<1>1. Formed(ops[o])
  BY DEF Requests
<1>2. Formed(Ended(ops[o], status)) /\ Ended(ops[o], status).pc = "done"
  BY <1>1, EndedFormed, Zenon
<1> QED BY <1>2 DEF Continues

LEMMA AtContinues ==
  ASSUME Requests, NEW o \in Ops, NEW pc,
         \/ ops[o].pc \in EditPcs /\ pc \in EditPcs
         \/ ops[o].pc \in MovePcs /\ pc \in MovePcs
  PROVE  Continues(o, At(o, pc))
<1> DEFINE op == At(o, pc)
<1>1. Formed(ops[o])
  BY DEF Requests
<1>2. op \in OpRecords /\ op.pc = pc
  BY <1>1 DEF At, Formed, OpRecords
<1>3. /\ op.kind = ops[o].kind /\ op.conn = ops[o].conn /\ op.row = ops[o].row
      /\ op.cur = ops[o].cur /\ op.want = ops[o].want
  BY <1>1 DEF At, Formed, OpRecords
<1>4. KeysOf(op) = KeysOf(ops[o])
  BY <1>3 DEF KeysOf, TargetsOf
<1> HIDE DEF op
<1>5. Formed(op) /\ op.pc \in LivePcs
  BY <1>1, <1>2, <1>3, PcsApart DEF Formed, LivePcs
<1> QED BY <1>4, <1>5 DEF Continues, op

LEMMA RequestsWritten ==
  ASSUME Requests, NEW o \in Ops, NEW op, Formed(op),
         ops' = [ops EXCEPT ![o] = op],
         locks' \in [Conns \cup Servers -> 0..MaxOps],
         \/ started' = started /\ ops[o].pc # "none"
         \/ started' = started + 1 /\ o = started'
  PROVE  Requests'
<1>1. started' \in 0..MaxOps
  BY EditBoundsAssumption DEF Requests, Ops
<1>2. ops' \in [Ops -> OpRecords]
  BY DEF Requests, Formed
<1>3. ASSUME NEW p \in Ops
      PROVE  Formed(ops'[p]) /\ (p > started' => ops'[p].pc = "none")
  <2>1. CASE p = o
    BY <2>1 DEF Requests, Ops
  <2>2. CASE p # o
    <3>1. ops'[p] = ops[p]
      BY <2>2 DEF Requests
    <3>2. p > started' => p > started
      BY EditBoundsAssumption DEF Requests, Ops
    <3> QED BY <3>1, <3>2 DEF Requests
  <2> QED BY <2>1, <2>2
<1>4. \A p \in Ops : Formed(ops[p])' /\ (p > started => ops[p].pc = "none")'
  BY <1>3
<1> QED BY <1>1, <1>2, <1>4 DEF Requests

\* A step of a live operation keeps the lock table exact, whether it goes on
\* with the locks it has or ends and gives them back.
LEMMA GoesKeeps ==
  ASSUME EditInv, NEW o \in Ops, Live(o), NEW op, Continues(o, op),
         Goes(o, op), started' = started
  PROVE  Requests' /\ LocksExact'
<1>1. /\ Requests /\ LocksExact /\ ops \in [Ops -> OpRecords]
      /\ locks \in [Conns \cup Servers -> 0..MaxOps]
      /\ Formed(op) /\ ops' = [ops EXCEPT ![o] = op]
  BY DEF EditInv, Requests, Continues, Goes
<1>2. 0 \notin Ops /\ 0 \in 0..MaxOps
  BY EditBoundsAssumption DEF Ops
<1>3. locks' \in [Conns \cup Servers -> 0..MaxOps]
  BY <1>1, <1>2 DEF Goes
<1>4. Requests'
  BY <1>1, <1>3, RequestsWritten DEF Live
<1>5. \A p \in Ops \ {o} : ops'[p] = ops[p]
  BY <1>1
<1>6. \A p \in Ops \ {o}, k \in Conns \cup Servers :
        Live(p)' /\ k \in KeysOf(ops[p])' <=> Live(p) /\ k \in KeysOf(ops[p])
  BY <1>5 DEF Live, KeysOf, TargetsOf
<1>7. \A k \in Conns \cup Servers : locks[k] = o <=> k \in KeysOf(ops[o])
  BY <1>1 DEF LocksExact
<1>8. ops'[o] = op
  BY <1>1
<1>9. CASE op.pc = "done"
  <2>1. ~Live(o)'
    BY <1>8, <1>9 DEF Live
  <2>2. \A k \in Conns \cup Servers :
          locks'[k] = IF locks[k] = o THEN 0 ELSE locks[k]
    BY <1>1, <1>7, <1>9 DEF Goes
  <2> QED BY <1>1, <1>2, <1>4, <1>6, <2>1, <2>2 DEF LocksExact
<1>10. CASE op.pc # "done"
  <2>1. locks' = locks
    BY <1>10 DEF Goes
  <2>2. Live(o)' /\ KeysOf(ops'[o]) = KeysOf(ops[o])
    BY <1>8, <1>10, PcsApart DEF Live, Continues
  <2>3. KeysOf(ops[o])' = KeysOf(ops[o])
    BY <2>2 DEF KeysOf, TargetsOf
  <2> QED BY <1>1, <1>4, <1>6, <1>7, <2>1, <2>2, <2>3 DEF LocksExact
<1> QED BY <1>9, <1>10

\* A request that takes no locks leaves the table as it is.
LEMMA IdleKeeps ==
  ASSUME EditInv, NEW o \in Ops, ~Live(o), NEW op, Formed(op),
         op.pc \notin LivePcs, ops' = [ops EXCEPT ![o] = op], locks' = locks,
         \/ started' = started /\ ops[o].pc # "none"
         \/ started' = started + 1 /\ o = started'
  PROVE  Requests' /\ LocksExact'
<1>1. /\ Requests /\ LocksExact /\ ops \in [Ops -> OpRecords]
      /\ locks \in [Conns \cup Servers -> 0..MaxOps]
  BY DEF EditInv, Requests
<1>2. Requests'
  BY <1>1, RequestsWritten
<1>3. \A p \in Ops \ {o} : ops'[p] = ops[p]
  BY <1>1
<1>4. \A p \in Ops \ {o}, k \in Conns \cup Servers :
        Live(p)' /\ k \in KeysOf(ops[p])' <=> Live(p) /\ k \in KeysOf(ops[p])
  BY <1>3 DEF Live, KeysOf, TargetsOf
<1>5. ~Live(o)'
  BY <1>1, <1>2, LiveIsPc DEF Live, LivePcs, EditPcs, MovePcs, Formed, OpRecords
<1> QED BY <1>1, <1>2, <1>4, <1>5 DEF LocksExact

\* An operation takes all its locks, which are then its own, or none.
LEMMA AcquireKeeps ==
  ASSUME EditInv, NEW o \in Ops, ~Live(o), NEW op, Formed(op),
         op.pc \in LivePcs, Acquire(o, op),
         \/ started' = started /\ ops[o].pc # "none"
         \/ started' = started + 1 /\ o = started'
  PROVE  Requests' /\ LocksExact'
<1>1. /\ Requests /\ LocksExact /\ ops \in [Ops -> OpRecords]
      /\ locks \in [Conns \cup Servers -> 0..MaxOps]
  BY DEF EditInv, Requests
<1>2. CASE \A k \in KeysOf(op) : locks[k] = 0
  <2>1. /\ ops' = [ops EXCEPT ![o] = op]
        /\ locks' = [k \in Conns \cup Servers |->
                       IF k \in KeysOf(op) THEN o ELSE locks[k]]
    BY <1>1, <1>2 DEF Acquire
  <2>2. 0 \notin Ops /\ o \in 0..MaxOps
    BY EditBoundsAssumption DEF Ops
  <2>3. locks' \in [Conns \cup Servers -> 0..MaxOps]
    BY <1>1, <2>1, <2>2
  <2>4. Requests'
    BY <1>1, <2>1, <2>3, RequestsWritten
  <2>5. \A p \in Ops \ {o} : ops'[p] = ops[p]
    BY <1>1, <2>1
  <2>6. \A p \in Ops \ {o}, k \in Conns \cup Servers :
          Live(p)' /\ k \in KeysOf(ops[p])' <=> Live(p) /\ k \in KeysOf(ops[p])
    BY <2>5 DEF Live, KeysOf, TargetsOf
  <2>7. ops'[o] = op
    BY <1>1, <2>1
  <2>8. Live(o)' /\ KeysOf(ops[o])' = KeysOf(op)
    BY <2>7, PcsApart DEF Live, KeysOf, TargetsOf
  <2>9. ASSUME NEW k \in Conns \cup Servers, NEW p \in Ops
        PROVE  locks'[k] = p <=> Live(p)' /\ k \in KeysOf(ops[p])'
    <3>1. locks[k] = p <=> Live(p) /\ k \in KeysOf(ops[p])
      BY <1>1 DEF LocksExact
    <3>2. locks[k] # o
      BY <1>1 DEF LocksExact
    <3>3. k \in KeysOf(op) => locks[k] = 0 /\ locks'[k] = o
      BY <1>2, <2>1
    <3>4. k \notin KeysOf(op) => locks'[k] = locks[k]
      BY <2>1
    <3> QED BY <2>2, <2>6, <2>8, <3>1, <3>2, <3>3, <3>4
  <2> QED BY <2>4, <2>9 DEF LocksExact
<1>3. CASE ~ \A k \in KeysOf(op) : locks[k] = 0
  <2> DEFINE end == Ended(op, "REJECTED")
  <2>1. Formed(end) /\ end.pc = "done"
    BY EndedFormed DEF Statuses
  <2>2. ops' = [ops EXCEPT ![o] = end] /\ locks' = locks
    BY <1>3 DEF Acquire
  <2> HIDE DEF end
  <2> QED BY <2>1, <2>2, IdleKeeps, PcsApart
<1> QED BY <1>2, <1>3

\* A request is run as a change of ports, of the tunnel or of servers: of
\* servers only if it is one, and without parameters only as one of ports.
RunsAs(cur, req, class) ==
  /\ class \in {"A", "B", "C"}
  /\ class = "C" => EditClass(cur, req) = "C"
  /\ cur.params = None => class = "A" /\ EditClass(cur, req) = "A"

LEMMA PlannedRuns ==
  ASSUME NEW c, NEW cur, NEW req, CanApply(c, cur, req, EditClass(cur, req))
  PROVE  RunsAs(cur, req, EditClass(cur, req))
<1>1. EditClass(cur, req) \in {"A", "B", "C"}
  BY DEF EditClass, CanApply
<1> QED BY <1>1 DEF RunsAs, CanApply

\* What apply() goes on with once the servers have been asked.
LEMMA LearntRuns ==
  ASSUME NEW o, Learn(o)
  PROVE  LET op    == ops[o]
             fresh == IF op.seen = None THEN op.row
                      ELSE [rows[op.conn] EXCEPT !.params = op.seen.params,
                                                 !.iranIp = op.seen.iran,
                                                 !.foreignIp = op.seen.foreign]
         IN \/ \E class : /\ Begin(o, op, fresh, class)
                          /\ \/ RunsAs(fresh, op.req, class)
                             \/ op.seen # None /\ class = "A"
            \/ ops' = [ops EXCEPT ![o] = Ended(op, "none")] /\ locks' = locks
<1> DEFINE op    == ops[o]
           fresh == IF op.seen = None THEN op.row
                    ELSE [rows[op.conn] EXCEPT !.params = op.seen.params,
                                               !.iranIp = op.seen.iran,
                                               !.foreignIp = op.seen.foreign]
           class == EditClass(fresh, op.req)
<1>1. \/ class = "C" /\ op.seen # None /\ Begin(o, op, fresh, "A")
      \/ CanApply(op.conn, fresh, op.req, class) /\ Begin(o, op, fresh, class)
      \/ ops' = [ops EXCEPT ![o] = Ended(op, "none")] /\ locks' = locks
  BY DEF Learn
<1>2. CanApply(op.conn, fresh, op.req, class) => RunsAs(fresh, op.req, class)
  BY PlannedRuns
<1> HIDE DEF fresh, class
<1>3. \/ \E run : /\ Begin(o, op, fresh, run)
                  /\ \/ RunsAs(fresh, op.req, run)
                     \/ op.seen # None /\ run = "A"
      \/ ops' = [ops EXCEPT ![o] = Ended(op, "none")] /\ locks' = locks
  BY <1>1, <1>2
<1> QED BY <1>3 DEF fresh

\* An operation that begins has a row of each kind it needs: all parameters
\* are known unless it changes nothing but ports.
LEMMA BeginKeeps ==
  ASSUME EditInv, NEW o \in Ops, ~Live(o), NEW op, Formed(op),
         op.conn \in Conns, op.row \in Rows, NEW cur \in Rows, NEW class,
         RunsAs(cur, op.req, class), Begin(o, op, cur, class),
         \/ started' = started /\ ops[o].pc # "none"
         \/ started' = started + 1 /\ o = started'
  PROVE  Requests' /\ LocksExact'
<1> DEFINE w    == Wanted(cur, op.req)
           move == class = "C"
           to   == [w EXCEPT !.iran = IF move THEN @ ELSE op.row.iran,
                       !.foreign = IF move THEN @ ELSE op.row.foreign,
                       !.iranIp = IF move /\ w.iran # op.row.iran
                                  THEN w.iran ELSE @,
                       !.foreignIp = IF move /\ w.foreign # op.row.foreign
                                     THEN w.foreign ELSE @]
           sound == /\ cur.iran = op.row.iran /\ cur.foreign = op.row.foreign
                    /\ Works(cur)
           kind == IF move THEN "move" ELSE "edit"
           pc   == CASE class = "A" -> "peer" [] class = "B" -> "node"
                     [] class = "C" -> "preflight"
           begun == [op EXCEPT
             !.kind = kind, !.pc = pc,
             !.status = "RUNNING", !.seen = None, !.req = NoFields,
             !.cur = cur, !.want = to, !.sound = sound]
<1>1. Acquire(o, begun)
  BY DEF Begin
<1>2. class \in {"A", "B", "C"}
  BY DEF RunsAs
<1>3. class \in {"B", "C"} => cur \in KnownRows
  BY RowKnown DEF RunsAs
<1>4. op.req \in Fields
  BY DEF Formed, OpRecords
<1>5. class \in {"B", "C"} => w \in KnownRows
  BY <1>3, <1>4, WantedKnown
<1>6. w \in Rows
  <2>1. CASE cur.params # None
    BY <1>4, <2>1, RowKnown, WantedKnown, KnownIsRow
  <2>2. CASE cur.params = None
    <3>1. EditClass(cur, op.req) = "A"
      BY <2>2 DEF RunsAs
    <3> QED BY <1>4, <2>2, <3>1, WantedUnknown
  <2> QED BY <2>1, <2>2
<1>7. op.row.iran \in Irans /\ op.row.foreign \in Foreigns
  BY DEF Rows, KnownRows, RowsWith
<1>8. class \in {"B", "C"} => to \in KnownRows
  <2> HIDE DEF w
  <2>1. CASE w \in KnownRows
    BY <1>7, <2>1 DEF KnownRows, RowsWith
  <2> QED BY <1>5, <2>1
<1>9. to \in Rows
  <2> HIDE DEF w
  <2>1. CASE ~move
    <3> QED BY <1>6, <1>7, <2>1 DEF Rows, KnownRows, RowsWith
  <2>2. CASE move
    BY <1>8, <2>2, KnownIsRow
  <2> QED BY <2>1, <2>2
<1>10. sound \in BOOLEAN
  BY DEF Works, InPlace, Addressed
<1> HIDE DEF to, sound
<1>11. begun \in OpRecords
  <2>1. NoFields \in Fields
    BY DEF NoFields, Fields
  <2>2. op \in OpRecords
    BY DEF Formed
  <2>3. kind \in {"edit", "move"} /\ pc \in {"peer", "node", "preflight"}
    BY <1>2
  <2> HIDE DEF kind, pc
  <2> QED BY <1>9, <1>10, <2>1, <2>2, <2>3
       DEF OpRecords, Statuses, EditPcs, MovePcs
<1>12. /\ begun.pc \in EditPcs => begun.kind = "edit"
       /\ begun.pc \in MovePcs => begun.kind = "move"
       /\ begun.pc \in LivePcs
       /\ begun.pc \in MovePcs => class = "C"
       /\ begun.conn \in Conns /\ begun.row \in Rows
       /\ begun.cur = cur /\ begun.want = to
  <2>1. op \in OpRecords
    BY DEF Formed
  <2> QED BY <1>2, <2>1 DEF OpRecords, LivePcs, EditPcs, MovePcs
<1>13. Formed(begun)
  <2> HIDE DEF begun
  <2> QED BY <1>3, <1>8, <1>9, <1>11, <1>12 DEF Formed
<1> HIDE DEF begun
<1> QED BY <1>1, <1>12, <1>13, AcquireKeeps

-----------------------------------------------------------------------------
(* Requests, up to the plan.                                               *)

LEMMA NewRequestKeeps ==
  ASSUME EditInv, NEW o \in Ops, NEW c \in Conns, NEW kind \in {"plan", "edit"},
         NEW req \in Fields, NewRequest(o, c, kind, req)
  PROVE  EditInv'
<1> DEFINE op == [NoOp EXCEPT !.conn = c, !.kind = kind, !.row = rows[c],
                              !.req = req]
           asking == [op EXCEPT !.pc = "learn"]
           end == Ended(op, "none")
           class == EditClass(rows[c], req)
<1>1. o = started + 1 /\ started' = o /\ ops[o].pc = "none"
  BY EditBoundsAssumption DEF NewRequest, EditInv, Requests, Ops
<1>2. ~Live(o)
  BY <1>1 DEF Live
<1>3. rows[c] \in Rows
  BY DEF EditInv, Tables
<1>4. /\ op \in OpRecords /\ op.pc = "none" /\ op.conn = c
      /\ op.row = rows[c] /\ op.req = req
  BY <1>3 DEF OpRecords, NoOp, Statuses
<1>5. Formed(op)
  <2> HIDE DEF op
  <2> QED BY <1>4, PcsApart DEF Formed, LivePcs
<1>6. /\ asking \in OpRecords /\ asking.pc = "learn"
      /\ asking.conn = c /\ asking.row = rows[c]
  <2> HIDE DEF op
  <2> QED BY <1>4 DEF OpRecords
<1>7. Formed(asking)
  <2> HIDE DEF asking
  <2> QED BY <1>3, <1>6, PcsApart DEF Formed, LivePcs
<1>8. Formed(end) /\ end.pc = "done"
  <2> HIDE DEF op
  <2> QED BY <1>5, EndedFormed DEF Statuses
<1>9. UNCHANGED <<rows, peers, nodes, faults>>
  BY DEF NewRequest
<1>10. \/ ops' = [ops EXCEPT ![o] = asking] /\ locks' = locks
       \/ CanApply(c, rows[c], req, class) /\ Begin(o, op, rows[c], class)
       \/ ops' = [ops EXCEPT ![o] = end] /\ locks' = locks
  BY DEF NewRequest
<1> HIDE DEF asking, end, op, class
<1>11. Requests' /\ LocksExact'
  <2>1. CASE ops' = [ops EXCEPT ![o] = asking] /\ locks' = locks
    BY <1>1, <1>2, <1>6, <1>7, <2>1, IdleKeeps, PcsApart
  <2>2. CASE CanApply(c, rows[c], req, class) /\ Begin(o, op, rows[c], class)
    <3>1. RunsAs(rows[c], op.req, class)
      BY <1>4, <2>2, PlannedRuns DEF class
    <3> QED BY <1>1, <1>2, <1>3, <1>4, <1>5, <2>2, <3>1, BeginKeeps
  <2>3. CASE ops' = [ops EXCEPT ![o] = end] /\ locks' = locks
    BY <1>1, <1>2, <1>8, <2>3, IdleKeeps, PcsApart
  <2> QED BY <1>10, <2>1, <2>2, <2>3
<1> QED BY <1>9, <1>11 DEF EditInv, Tables

LEMMA RequestKeeps ==
  ASSUME EditInv, NEW o \in Ops, NEW c \in Conns, RequestOf(o, c)
  PROVE  EditInv'
<1>1. CASE PlanEdit(o, c)
  <2>1. NoFields \in Fields
    BY DEF NoFields, Fields
  <2> QED BY <1>1, <2>1, NewRequestKeeps DEF PlanEdit
<1>2. ASSUME NEW req \in Edits, PutEdit(o, c, req)
      PROVE  EditInv'
  BY <1>2, StartAssumption, NewRequestKeeps DEF PutEdit
<1>3. ASSUME NEW p \in Ops, PutBack(o, c, p)
      PROVE  EditInv'
  <2> DEFINE req == [f \in DOMAIN NoFields |->
                IF f \in {"iran", "foreign"} THEN None ELSE ops[p].cur[f]]
  <2>1. ops[p].cur \in KnownRows
    BY <1>3 DEF PutBack
  <2>2. req \in Fields
    BY <2>1 DEF KnownRows, RowsWith, Fields, NoFields
  <2>3. NewRequest(o, c, "edit", req)
    BY <1>3 DEF PutBack
  <2> HIDE DEF req
  <2> QED BY <2>2, <2>3, NewRequestKeeps
<1> QED BY <1>1, <1>2, <1>3 DEF RequestOf

LEMMA ReadPeerKeeps ==
  ASSUME EditInv, NEW o \in Ops, ReadPeer(o)
  PROVE  EditInv'
<1>1. PICK seen \in {None, peers[ops[o].row.iran][ops[o].row.peer]} :
        ops' = [ops EXCEPT ![o] = [ops[o] EXCEPT !.pc = "read", !.seen = seen]]
  BY DEF ReadPeer
<1> DEFINE op == [ops[o] EXCEPT !.pc = "read", !.seen = seen]
<1>2. /\ Formed(ops[o]) /\ ops[o].pc = "learn"
      /\ ops[o].conn \in Conns /\ ops[o].row \in Rows
  BY DEF ReadPeer, EditInv, Requests, Formed
<1>3. ops[o].row.iran \in Irans /\ ops[o].row.peer \in Names
  BY <1>2 DEF Rows, KnownRows, RowsWith
<1>4. seen \in PeerConfs \cup {None}
  BY <1>1, <1>3 DEF EditInv, Tables
<1>5. /\ op \in OpRecords /\ op.pc = "read"
      /\ op.conn \in Conns /\ op.row \in Rows
  BY <1>2, <1>4 DEF Formed, OpRecords
<1>6. ops' = [ops EXCEPT ![o] = op]
  BY <1>1
<1> HIDE DEF op
<1>7. Formed(op)
  BY <1>5, PcsApart DEF Formed, LivePcs
<1>8. Requests' /\ LocksExact'
  <2>1. ~Live(o)
    BY <1>2 DEF Live
  <2>2. locks' = locks /\ started' = started
    BY DEF ReadPeer
  <2> QED BY <1>2, <1>5, <1>6, <1>7, <2>1, <2>2, IdleKeeps, PcsApart
<1>9. Tables'
  BY EditBoundsAssumption DEF ReadPeer, EditInv, Tables, Fault
<1> QED BY <1>8, <1>9 DEF EditInv

LEMMA LearnKeeps ==
  ASSUME EditInv, NEW o \in Ops, Learn(o)
  PROVE  EditInv'
<1> DEFINE op    == ops[o]
           c     == op.conn
           seen  == op.seen
           fresh == IF seen = None THEN op.row
                    ELSE [rows[c] EXCEPT !.params = seen.params,
                                         !.iranIp = seen.iran,
                                         !.foreignIp = seen.foreign]
           end   == Ended(op, "none")
<1>1. /\ Formed(op) /\ op.pc = "read" /\ c \in Conns /\ op.row \in Rows
      /\ seen \in PeerConfs \cup {None}
  BY DEF Learn, EditInv, Requests, Formed, OpRecords
<1>2. fresh \in Rows /\ (seen # None => fresh \in KnownRows)
  <2>1. CASE seen = None
    BY <1>1, <2>1
  <2>2. CASE seen # None
    <3>1. rows[c] \in Rows /\ seen \in PeerConfs
      BY <1>1, <2>2 DEF EditInv, Tables
    <3>2. fresh \in KnownRows
      BY <2>2, <3>1 DEF Rows, KnownRows, RowsWith, PeerConfs
    <3> QED BY <3>2, KnownIsRow
  <2> QED BY <2>1, <2>2
<1>3. Tables'
  <2>1. rows' = rows \/ rows' = [rows EXCEPT ![c] = fresh]
    BY DEF Learn
  <2> HIDE DEF fresh
  <2> QED BY <1>1, <1>2, <2>1 DEF Learn, EditInv, Tables
<1>4. \/ \E class : Begin(o, op, fresh, class) /\ RunsAs(fresh, op.req, class)
      \/ ops' = [ops EXCEPT ![o] = end] /\ locks' = locks
  <2>1. seen # None => RunsAs(fresh, op.req, "A")
    <3> HIDE DEF fresh
    <3> QED BY <1>2, NoneApart DEF RunsAs, KnownRows, RowsWith
  <2> QED BY <2>1, LearntRuns
<1>5. ~Live(o) /\ started' = started /\ ops[o].pc # "none"
  BY <1>1 DEF Live, Learn
<1>6. Formed(end) /\ end.pc = "done"
  BY <1>1, EndedFormed DEF Statuses
<1> HIDE DEF fresh, end
<1>7. ASSUME NEW class, Begin(o, op, fresh, class), RunsAs(fresh, op.req, class)
      PROVE  EditInv'
  <2>1. Requests' /\ LocksExact'
    BY <1>1, <1>2, <1>5, <1>7, BeginKeeps
  <2> QED BY <1>3, <2>1 DEF EditInv
<1>8. CASE ops' = [ops EXCEPT ![o] = end] /\ locks' = locks
  <2>1. Requests' /\ LocksExact'
    BY <1>5, <1>6, <1>8, IdleKeeps, PcsApart
  <2> QED BY <1>3, <2>1 DEF EditInv
<1> QED BY <1>4, <1>7, <1>8

-----------------------------------------------------------------------------
(* The steps of a live operation.                                          *)

LEMMA RenamedTyped ==
  ASSUME NEW S, NEW T, NEW table \in [S -> [Names -> T]], None \in T,
         NEW s \in S, NEW n \in Names, NEW m \in Names, NEW conf \in T
  PROVE  /\ Renamed(table, s, n, m, conf) \in [S -> [Names -> T]]
         /\ Without(table, s, n) \in [S -> [Names -> T]]
<1>1. [table[s] EXCEPT ![n] = None, ![m] = conf] \in [Names -> T]
  OBVIOUS
<1>2. [table[s] EXCEPT ![n] = None] \in [Names -> T]
  OBVIOUS
<1> QED BY <1>1, <1>2 DEF Renamed, Without

PeerTables == [Irans -> [Names -> PeerConfs \cup {None}]]
NodeTables == [Foreigns -> [Names -> NodeConfs \cup {None}]]

\* What a live operation works with.
LEMMA OpFields ==
  ASSUME EditInv, NEW o \in Ops, ops[o].pc \in LivePcs
  PROVE  /\ Live(o) /\ Requests /\ ops[o].conn \in Conns
         /\ ops[o].row.iran \in Irans /\ ops[o].row.foreign \in Foreigns
         /\ ops[o].want \in Rows
         /\ ops[o].want.iran \in Irans /\ ops[o].want.foreign \in Foreigns
         /\ ops[o].want.name \in Names
         /\ ops[o].cur.peer \in Names
         /\ peers \in PeerTables /\ nodes \in NodeTables
         /\ ops[o].pc \in MovePcs =>
              /\ PeerConf(ops[o].want) \in PeerConfs
              /\ NodeConf(ops[o].want) \in NodeConfs
              /\ PeerConf(ops[o].cur) \in PeerConfs
              /\ NodeConf(ops[o].cur) \in NodeConfs
<1>1. Requests /\ Formed(ops[o])
  BY DEF EditInv, Requests
<1>2. Live(o)
  BY <1>1, LiveIsPc
<1>3. /\ ops[o].conn \in Conns /\ ops[o].row \in Rows
      /\ ops[o].want \in Rows /\ ops[o].cur \in Rows
  BY <1>1 DEF Formed
<1>4. \A v \in Rows : /\ v.iran \in Irans /\ v.foreign \in Foreigns
                      /\ v.name \in Names /\ v.peer \in Names
  BY DEF Rows, KnownRows, RowsWith
<1>5. ops[o].pc \in MovePcs =>
        ops[o].cur \in KnownRows /\ ops[o].want \in KnownRows
  BY <1>1 DEF Formed
<1>6. peers \in PeerTables /\ nodes \in NodeTables
  BY DEF EditInv, Tables, PeerTables, NodeTables
<1> QED BY <1>1, <1>2, <1>3, <1>4, <1>5, <1>6, ConfTypes

\* A step of an operation that writes tables of the right type.
LEMMA StepKeeps ==
  ASSUME EditInv, NEW o \in Ops, Live(o), NEW op, Continues(o, op), Goes(o, op),
         rows' \in [Conns -> Rows], peers' \in PeerTables,
         nodes' \in NodeTables, Fault \/ UNCHANGED faults,
         started' = started
  PROVE  EditInv'
<1>1. Requests' /\ LocksExact'
  BY GoesKeeps
<1>2. faults' \in 0..MaxFaults
  BY EditBoundsAssumption DEF EditInv, Tables, Fault
<1> QED BY <1>1, <1>2 DEF EditInv, Tables, PeerTables, NodeTables

\* A command, however it ends.
LEMMA CommandKeeps ==
  ASSUME EditInv, NEW o \in Ops, Live(o), NEW can \in BOOLEAN,
         NEW newPeers, can => newPeers \in PeerTables,
         NEW newNodes, can => newNodes \in NodeTables,
         NEW ok, NEW failed, Continues(o, ok), Continues(o, failed),
         Command(o, can, newPeers, newNodes, ok, failed)
  PROVE  EditInv'
<1>1. /\ rows' = rows /\ started' = started
      /\ Fault \/ UNCHANGED faults
      /\ Goes(o, ok) \/ Goes(o, failed)
      /\ \/ can /\ peers' = newPeers /\ nodes' = newNodes
         \/ peers' = peers /\ nodes' = nodes
  BY DEF Command
<1>2. peers' \in PeerTables /\ nodes' \in NodeTables
  BY <1>1 DEF EditInv, Tables, PeerTables, NodeTables
<1>3. rows' \in [Conns -> Rows]
  BY <1>1 DEF EditInv, Tables
<1>4. CASE Goes(o, ok)
  BY <1>1, <1>2, <1>3, <1>4, StepKeeps
<1>5. CASE Goes(o, failed)
  BY <1>1, <1>2, <1>3, <1>5, StepKeeps
<1> QED BY <1>1, <1>4, <1>5

LEMMA NewNameIsName ==
  ASSUME EditInv, NEW o \in Ops, ops[o].pc \in LivePcs
  PROVE  NewName(ops[o]) \in Names
  BY OpFields DEF NewName

LEMMA EditFailedContinues ==
  ASSUME Requests, NEW o \in Ops
  PROVE  Continues(o, EditFailed(o))
  BY EndedContinues DEF EditFailed, Statuses

LEMMA EditNodeKeeps ==
  ASSUME EditInv, NEW o \in Ops, EditNode(o)
  PROVE  EditInv'
<1> DEFINE s    == ops[o].row.foreign
           n    == ops[o].cur.peer
           m    == NewName(ops[o])
           conf == Overlaid(nodes[s][n], NodeConf(ops[o].want))
           can  == CanEditNode(s, n, m, conf)
           new  == Renamed(nodes, s, n, m, conf)
<1>1. ops[o].pc = "node" /\ ops[o].pc \in LivePcs /\ ops[o].pc \in EditPcs
  BY DEF EditNode, LivePcs, EditPcs
<1>2. can => new \in NodeTables
  <2> SUFFICES ASSUME can PROVE new \in NodeTables
    OBVIOUS
  <2>1. /\ s \in Foreigns /\ n \in Names /\ m \in Names
        /\ ops[o].want \in Rows /\ nodes \in NodeTables
    BY <1>1, OpFields, NewNameIsName
  <2>2. nodes[s][n] \in NodeConfs
    BY <2>1 DEF CanEditNode, NodeTables
  <2>3. conf \in NodeConfs
    BY <2>1, <2>2, OverlaidTypes
  <2> HIDE DEF conf, s, n, m
  <2> QED BY <2>1, <2>3, RenamedTyped DEF NodeTables
<1>3. can \in BOOLEAN
  BY DEF CanEditNode
<1>4. Command(o, can, peers, new, At(o, "peer"), EditFailed(o))
  BY DEF EditNode
<1>5. Continues(o, At(o, "peer")) /\ Continues(o, EditFailed(o))
  BY <1>1, AtContinues, EditFailedContinues, OpFields DEF EditPcs
<1>6. Live(o) /\ peers \in PeerTables
  BY <1>1, OpFields
<1> HIDE DEF can, new
<1> QED BY <1>2, <1>3, <1>4, <1>5, <1>6, CommandKeeps

LEMMA EditPeerKeeps ==
  ASSUME EditInv, NEW o \in Ops, EditPeer(o)
  PROVE  EditInv'
<1> DEFINE s    == ops[o].row.iran
           n    == ops[o].cur.peer
           m    == NewName(ops[o])
           conf == Overlaid(peers[s][n], PeerConf(ops[o].want))
           can  == CanEditPeer(s, n, m, conf)
           new  == Renamed(peers, s, n, m, conf)
<1>1. ops[o].pc = "peer" /\ ops[o].pc \in LivePcs /\ ops[o].pc \in EditPcs
  BY DEF EditPeer, LivePcs, EditPcs
<1>2. can => new \in PeerTables
  <2> SUFFICES ASSUME can PROVE new \in PeerTables
    OBVIOUS
  <2>1. /\ s \in Irans /\ n \in Names /\ m \in Names
        /\ ops[o].want \in Rows /\ peers \in PeerTables
    BY <1>1, OpFields, NewNameIsName
  <2>2. peers[s][n] \in PeerConfs
    BY <2>1 DEF CanEditPeer, PeerTables
  <2>3. conf \in PeerConfs
    BY <2>1, <2>2, OverlaidTypes
  <2> HIDE DEF conf, s, n, m
  <2> QED BY <2>1, <2>3, RenamedTyped DEF PeerTables
<1>3. can \in BOOLEAN
  BY DEF CanEditPeer
<1>4. Command(o, can, new, nodes, At(o, "verify"), EditFailed(o))
  BY DEF EditPeer
<1>5. Continues(o, At(o, "verify")) /\ Continues(o, EditFailed(o))
  BY <1>1, AtContinues, EditFailedContinues, OpFields DEF EditPcs
<1>6. Live(o) /\ nodes \in NodeTables
  BY <1>1, OpFields
<1> HIDE DEF can, new
<1> QED BY <1>2, <1>3, <1>4, <1>5, <1>6, CommandKeeps

LEMMA FinishEditKeeps ==
  ASSUME EditInv, NEW o \in Ops, FinishEdit(o)
  PROVE  EditInv'
<1> DEFINE w   == ops[o].want
           row == [w EXCEPT !.peer = w.name, !.iran = rows[ops[o].conn].iran,
                            !.foreign = rows[ops[o].conn].foreign]
<1>1. ops[o].pc \in LivePcs
  BY DEF FinishEdit, LivePcs, EditPcs
<1>2. /\ Live(o) /\ Requests /\ ops[o].conn \in Conns /\ w \in Rows
      /\ peers \in PeerTables /\ nodes \in NodeTables
      /\ rows \in [Conns -> Rows]
  BY <1>1, OpFields DEF EditInv, Tables
<1>3. row \in Rows
  <2>1. rows[ops[o].conn] \in Rows
    BY <1>2
  <2> QED BY <1>2, <2>1 DEF Rows, KnownRows, RowsWith
<1>4. /\ UNCHANGED <<peers, nodes, started>>
      /\ Fault \/ UNCHANGED faults
      /\ \/ /\ rows' = [rows EXCEPT ![ops[o].conn] = row]
            /\ Goes(o, Ended(ops[o], "SUCCEEDED"))
         \/ rows' = rows /\ Goes(o, EditFailed(o))
  BY DEF FinishEdit
<1> HIDE DEF row
<1>5. rows' \in [Conns -> Rows]
  BY <1>2, <1>3, <1>4
<1>6. /\ Continues(o, Ended(ops[o], "SUCCEEDED"))
      /\ Continues(o, EditFailed(o))
  BY <1>2, EndedContinues, EditFailedContinues DEF Statuses
<1>7. peers' \in PeerTables /\ nodes' \in NodeTables /\ started' = started
  BY <1>2, <1>4
<1>8. CASE Goes(o, Ended(ops[o], "SUCCEEDED"))
  BY <1>2, <1>4, <1>5, <1>6, <1>7, <1>8, StepKeeps
<1>9. CASE Goes(o, EditFailed(o))
  BY <1>2, <1>4, <1>5, <1>6, <1>7, <1>9, StepKeeps
<1> QED BY <1>4, <1>8, <1>9

\* A step of a move that writes nothing but its own program counter.
LEMMA QuietMoveKeeps ==
  ASSUME EditInv, NEW o \in Ops, ops[o].pc \in MovePcs,
         NEW pc \in MovePcs, Goes(o, At(o, pc)), Fault \/ UNCHANGED faults,
         UNCHANGED <<rows, peers, nodes, started>>
  PROVE  EditInv'
<1>1. ops[o].pc \in LivePcs
  BY DEF LivePcs
<1>2. Continues(o, At(o, pc))
  BY <1>1, OpFields, AtContinues
<1>3. /\ rows' \in [Conns -> Rows] /\ peers' \in PeerTables
      /\ nodes' \in NodeTables
  BY DEF EditInv, Tables, PeerTables, NodeTables
<1> QED BY <1>1, <1>2, <1>3, OpFields, StepKeeps

LEMMA CheckTargetsKeeps ==
  ASSUME EditInv, NEW o \in Ops, CheckTargets(o)
  PROVE  EditInv'
  BY QuietMoveKeeps DEF CheckTargets, MovePcs

LEMMA CheckNodeKeeps ==
  ASSUME EditInv, NEW o \in Ops, CheckNode(o)
  PROVE  EditInv'
<1>1. \E pc \in {"make_peer", "cutover", "undo"} : Goes(o, At(o, pc))
  BY DEF CheckNode
<1>2. Fault \/ UNCHANGED faults
  BY DEF CheckNode
<1> QED BY <1>1, <1>2, QuietMoveKeeps DEF CheckNode, MovePcs

LEMMA ProvePathKeeps ==
  ASSUME EditInv, NEW o \in Ops, ProvePath(o)
  PROVE  EditInv'
<1>1. \E pc \in {"remove", "undo"} : Goes(o, At(o, pc))
  BY DEF ProvePath
<1>2. Fault \/ UNCHANGED faults
  BY DEF ProvePath
<1> QED BY <1>1, <1>2, QuietMoveKeeps DEF ProvePath, MovePcs

LEMMA MakeNodeKeeps ==
  ASSUME EditInv, NEW o \in Ops, MakeNode(o)
  PROVE  EditInv'
<1> DEFINE s    == ops[o].want.foreign
           n    == ops[o].cur.peer
           conf == NodeConf(ops[o].want)
           can  == CanEditNode(s, n, n, conf)
           new  == Renamed(nodes, s, n, n, conf)
<1>1. ops[o].pc \in LivePcs /\ ops[o].pc \in MovePcs
  BY DEF MakeNode, LivePcs, MovePcs
<1>2. /\ Live(o) /\ Requests /\ s \in Foreigns /\ n \in Names
      /\ conf \in NodeConfs /\ peers \in PeerTables /\ nodes \in NodeTables
  BY <1>1, OpFields
<1>3. Command(o, can, peers, new, At(o, "check_node"), At(o, "add_node"))
  BY DEF MakeNode
<1>4. Continues(o, At(o, "check_node")) /\ Continues(o, At(o, "add_node"))
  BY <1>1, <1>2, AtContinues DEF MovePcs
<1>5. can \in BOOLEAN
  BY DEF CanEditNode
<1> HIDE DEF s, n, conf, can
<1>6. new \in NodeTables
  BY <1>2, RenamedTyped DEF NodeTables
<1> HIDE DEF new
<1> QED BY <1>2, <1>3, <1>4, <1>5, <1>6, CommandKeeps

LEMMA AddNodeKeeps ==
  ASSUME EditInv, NEW o \in Ops, AddNode(o)
  PROVE  EditInv'
<1> DEFINE s    == ops[o].want.foreign
           n    == ops[o].cur.peer
           conf == NodeConf(ops[o].want)
           can  == CanAddNode(s, n, conf)
           new  == Renamed(nodes, s, n, n, conf)
<1>1. ops[o].pc \in LivePcs /\ ops[o].pc \in MovePcs
  BY DEF AddNode, LivePcs, MovePcs
<1>2. /\ Live(o) /\ Requests /\ s \in Foreigns /\ n \in Names
      /\ conf \in NodeConfs /\ peers \in PeerTables /\ nodes \in NodeTables
  BY <1>1, OpFields
<1>3. Command(o, can, peers, new, At(o, "check_node"), At(o, "undo"))
  BY DEF AddNode
<1>4. Continues(o, At(o, "check_node")) /\ Continues(o, At(o, "undo"))
  BY <1>1, <1>2, AtContinues DEF MovePcs
<1>5. can \in BOOLEAN
  BY DEF CanAddNode
<1> HIDE DEF s, n, conf, can
<1>6. new \in NodeTables
  BY <1>2, RenamedTyped DEF NodeTables
<1> HIDE DEF new
<1> QED BY <1>2, <1>3, <1>4, <1>5, <1>6, CommandKeeps

LEMMA MakePeerKeeps ==
  ASSUME EditInv, NEW o \in Ops, MakePeer(o)
  PROVE  EditInv'
<1> DEFINE s    == ops[o].want.iran
           n    == ops[o].cur.peer
           conf == PeerConf(ops[o].want)
           can  == CanAddPeer(s, n, conf)
           new  == Renamed(peers, s, n, n, conf)
<1>1. ops[o].pc \in LivePcs /\ ops[o].pc \in MovePcs
  BY DEF MakePeer, LivePcs, MovePcs
<1>2. /\ Live(o) /\ Requests /\ s \in Irans /\ n \in Names
      /\ conf \in PeerConfs /\ peers \in PeerTables /\ nodes \in NodeTables
  BY <1>1, OpFields
<1>3. Command(o, can, new, nodes, At(o, "cutover"), At(o, "undo"))
  BY DEF MakePeer
<1>4. Continues(o, At(o, "cutover")) /\ Continues(o, At(o, "undo"))
  BY <1>1, <1>2, AtContinues DEF MovePcs
<1>5. can \in BOOLEAN
  BY DEF CanAddPeer
<1> HIDE DEF s, n, conf, can
<1>6. new \in PeerTables
  BY <1>2, RenamedTyped DEF PeerTables
<1> HIDE DEF new
<1> QED BY <1>2, <1>3, <1>4, <1>5, <1>6, CommandKeeps

\* The cutover and its undoing edit one side of the old pair.
LEMMA PointKeeps ==
  ASSUME EditInv, NEW o \in Ops, ops[o].pc \in MovePcs,
         NEW v, PeerConf(v) \in PeerConfs, NodeConf(v) \in NodeConfs,
         NEW ok \in MovePcs, NEW failed \in MovePcs,
         Point(o, v, At(o, ok), At(o, failed))
  PROVE  EditInv'
<1> DEFINE n == ops[o].cur.peer
           i == ops[o].row.iran
           f == ops[o].row.foreign
           p == PeerConf(v)
           q == NodeConf(v)
           canPeer == CanEditPeer(i, n, n, p)
           canNode == CanEditNode(f, n, n, q)
           newPeers == Renamed(peers, i, n, n, p)
           newNodes == Renamed(nodes, f, n, n, q)
<1>1. ops[o].pc \in LivePcs
  BY DEF LivePcs
<1>2. /\ Live(o) /\ Requests /\ i \in Irans /\ f \in Foreigns /\ n \in Names
      /\ peers \in PeerTables /\ nodes \in NodeTables
  BY <1>1, OpFields
<1>3. Continues(o, At(o, ok)) /\ Continues(o, At(o, failed))
  BY <1>2, AtContinues
<1>4. \/ Command(o, canPeer, newPeers, nodes, At(o, ok), At(o, failed))
      \/ Command(o, canNode, peers, newNodes, At(o, ok), At(o, failed))
  BY DEF Point
<1>5. canPeer \in BOOLEAN /\ canNode \in BOOLEAN
  BY DEF CanEditPeer, CanEditNode
<1>6. p \in PeerConfs /\ q \in NodeConfs
  OBVIOUS
<1> HIDE DEF n, i, f, p, q, canPeer, canNode
<1>7. newPeers \in PeerTables
  BY <1>2, <1>6, RenamedTyped DEF PeerTables
<1>8. newNodes \in NodeTables
  BY <1>2, <1>6, RenamedTyped DEF NodeTables
<1> HIDE DEF newPeers, newNodes
<1>9. CASE Command(o, canPeer, newPeers, nodes, At(o, ok), At(o, failed))
  BY <1>2, <1>3, <1>5, <1>7, <1>9, CommandKeeps
<1>10. CASE Command(o, canNode, peers, newNodes, At(o, ok), At(o, failed))
  BY <1>2, <1>3, <1>5, <1>8, <1>10, CommandKeeps
<1> QED BY <1>4, <1>9, <1>10

LEMMA CutoverKeeps ==
  ASSUME EditInv, NEW o \in Ops, Cutover(o)
  PROVE  EditInv'
<1>1. ops[o].pc \in MovePcs /\ ops[o].pc \in LivePcs
  BY DEF Cutover, LivePcs, MovePcs
<1>2. "prove" \in MovePcs /\ "undo" \in MovePcs
  BY DEF MovePcs
<1>3. /\ PeerConf(ops[o].want) \in PeerConfs
      /\ NodeConf(ops[o].want) \in NodeConfs
  BY <1>1, OpFields
<1>4. Point(o, ops[o].want, At(o, "prove"), At(o, "undo"))
  BY DEF Cutover
<1> QED BY <1>1, <1>2, <1>3, <1>4, PointKeeps

LEMMA UndoKeeps ==
  ASSUME EditInv, NEW o \in Ops, Undo(o)
  PROVE  EditInv'
<1>1. ops[o].pc \in MovePcs /\ ops[o].pc \in LivePcs
  BY DEF Undo, LivePcs, MovePcs
<1>2. "clean" \in MovePcs /\ "clean_failed" \in MovePcs
  BY DEF MovePcs
<1>3. /\ PeerConf(ops[o].cur) \in PeerConfs
      /\ NodeConf(ops[o].cur) \in NodeConfs
  BY <1>1, OpFields
<1>4. Point(o, ops[o].cur, At(o, "clean"), At(o, "clean_failed"))
  BY DEF Undo
<1> QED BY <1>1, <1>2, <1>3, <1>4, PointKeeps

\* The removal of a side, or its failure.
LEMMA WithoutTyped ==
  ASSUME EditInv, NEW i \in Irans, NEW f \in Foreigns, NEW n \in Names,
         \/ nodes' = Without(nodes, f, n) /\ UNCHANGED peers
         \/ peers' = Without(peers, i, n) /\ UNCHANGED nodes
         \/ UNCHANGED <<peers, nodes>>
  PROVE  peers' \in PeerTables /\ nodes' \in NodeTables
<1>1. peers \in PeerTables /\ nodes \in NodeTables
  BY DEF EditInv, Tables, PeerTables, NodeTables
<1>2. Without(nodes, f, n) \in NodeTables
  BY <1>1, RenamedTyped DEF NodeTables
<1>3. Without(peers, i, n) \in PeerTables
  BY <1>1, RenamedTyped DEF PeerTables
<1> QED BY <1>1, <1>2, <1>3

LEMMA RemoveOldAndCommitKeeps ==
  ASSUME EditInv, NEW o \in Ops, RemoveOldAndCommit(o)
  PROVE  EditInv'
<1> DEFINE w   == ops[o].want
           row == [w EXCEPT !.peer = w.name]
           n   == ops[o].cur.peer
           i   == ops[o].row.iran
           f   == ops[o].row.foreign
<1>1. ops[o].pc \in LivePcs /\ ops[o].pc \in MovePcs
  BY DEF RemoveOldAndCommit, LivePcs, MovePcs
<1>2. /\ Live(o) /\ Requests /\ ops[o].conn \in Conns /\ w \in Rows
      /\ i \in Irans /\ f \in Foreigns /\ n \in Names
      /\ rows \in [Conns -> Rows]
  BY <1>1, OpFields DEF EditInv, Tables
<1>3. row \in Rows
  BY <1>2 DEF Rows, KnownRows, RowsWith
<1>4. /\ started' = started
      /\ Fault \/ UNCHANGED faults
      /\ \/ nodes' = Without(nodes, f, n) /\ UNCHANGED peers
         \/ peers' = Without(peers, i, n) /\ UNCHANGED nodes
         \/ UNCHANGED <<peers, nodes>>
      /\ \/ /\ rows' = [rows EXCEPT ![ops[o].conn] = row]
            /\ Goes(o, Ended(ops[o], "SUCCEEDED"))
         \/ rows' = rows /\ Goes(o, At(o, "undo"))
  BY DEF RemoveOldAndCommit
<1> HIDE DEF row, n, i, f
<1>5. peers' \in PeerTables /\ nodes' \in NodeTables
  BY <1>2, <1>4, WithoutTyped
<1>6. rows' \in [Conns -> Rows]
  BY <1>2, <1>3, <1>4
<1>7. Continues(o, Ended(ops[o], "SUCCEEDED"))
  BY <1>2, EndedContinues DEF Statuses
<1>8. Continues(o, At(o, "undo"))
  BY <1>1, <1>2, AtContinues DEF MovePcs
<1>9. CASE Goes(o, Ended(ops[o], "SUCCEEDED"))
  BY <1>2, <1>4, <1>5, <1>6, <1>7, <1>9, StepKeeps
<1>10. CASE Goes(o, At(o, "undo"))
  BY <1>2, <1>4, <1>5, <1>6, <1>8, <1>10, StepKeeps
<1> QED BY <1>4, <1>9, <1>10

LEMMA CleanUpKeeps ==
  ASSUME EditInv, NEW o \in Ops, CleanUp(o)
  PROVE  EditInv'
<1> DEFINE next == IF ops[o].pc = "clean" THEN At(o, "recheck")
                   ELSE Ended(ops[o], "ROLLBACK_FAILED")
           n == ops[o].cur.peer
           i == ops[o].want.iran
           f == ops[o].want.foreign
<1>1. ops[o].pc \in LivePcs /\ ops[o].pc \in MovePcs
  BY DEF CleanUp, LivePcs, MovePcs
<1>2. /\ Live(o) /\ Requests
      /\ i \in Irans /\ f \in Foreigns /\ n \in Names
      /\ rows \in [Conns -> Rows]
  BY <1>1, OpFields DEF EditInv, Tables
<1>3. /\ rows' = rows /\ started' = started
      /\ Fault \/ UNCHANGED faults
      /\ \/ nodes' = Without(nodes, f, n) /\ UNCHANGED peers
         \/ peers' = Without(peers, i, n) /\ UNCHANGED nodes
         \/ UNCHANGED <<peers, nodes>>
      /\ Goes(o, next)
  BY DEF CleanUp
<1>4. Continues(o, next)
  <2>1. Continues(o, Ended(ops[o], "ROLLBACK_FAILED"))
    BY <1>2, EndedContinues DEF Statuses
  <2>2. Continues(o, At(o, "recheck"))
    BY <1>1, <1>2, AtContinues DEF MovePcs
  <2> QED BY <2>1, <2>2
<1> HIDE DEF next, n, i, f
<1>5. peers' \in PeerTables /\ nodes' \in NodeTables
  BY <1>2, <1>3, WithoutTyped
<1> QED BY <1>2, <1>3, <1>4, <1>5, StepKeeps

LEMMA RecheckKeeps ==
  ASSUME EditInv, NEW o \in Ops, Recheck(o)
  PROVE  EditInv'
<1>1. ops[o].pc \in LivePcs
  BY DEF Recheck, LivePcs, MovePcs
<1>2. /\ Live(o) /\ Requests /\ peers \in PeerTables /\ nodes \in NodeTables
      /\ rows \in [Conns -> Rows]
  BY <1>1, OpFields DEF EditInv, Tables
<1>3. PICK status \in {"ROLLED_BACK", "ROLLBACK_FAILED"} :
        Goes(o, Ended(ops[o], status))
  BY DEF Recheck
<1>4. Continues(o, Ended(ops[o], status))
  BY <1>2, EndedContinues DEF Statuses
<1>5. UNCHANGED <<rows, peers, nodes, started>>
  BY DEF Recheck
<1>6. Fault \/ UNCHANGED faults
  BY DEF Recheck
<1> QED BY <1>2, <1>3, <1>4, <1>5, <1>6, StepKeeps

LEMMA StepOfKeeps ==
  ASSUME EditInv, NEW o \in Ops, StepOf(o)
  PROVE  EditInv'
  BY ReadPeerKeeps, LearnKeeps, EditNodeKeeps, EditPeerKeeps, FinishEditKeeps,
     CheckTargetsKeeps, MakeNodeKeeps, AddNodeKeeps, CheckNodeKeeps,
     MakePeerKeeps, CutoverKeeps, ProvePathKeeps, RemoveOldAndCommitKeeps,
     UndoKeeps, CleanUpKeeps, RecheckKeeps DEF StepOf

-----------------------------------------------------------------------------
(* Start, restart and the theorems.                                        *)

LEMMA RestartKeeps ==
  ASSUME EditInv, Restart
  PROVE  EditInv'
<1>1. /\ Requests /\ Tables
      /\ locks \in [Conns \cup Servers -> 0..MaxOps]
      /\ UNCHANGED <<rows, peers, nodes, started>>
      /\ locks' = [k \in DOMAIN locks |-> 0]
  BY DEF Restart, EditInv, Requests
<1>2. Tables'
  BY <1>1, EditBoundsAssumption DEF Restart, Tables, Fault
<1>3. /\ 0 \in 0..MaxOps /\ 0 \notin Ops
      /\ locks' = [k \in Conns \cup Servers |-> 0]
  BY <1>1, EditBoundsAssumption DEF Ops
<1>4. ASSUME NEW o \in Ops
      PROVE  /\ Formed(ops'[o]) /\ ops'[o].pc \in {"none", "done"}
             /\ ops[o].pc = "none" => ops'[o].pc = "none"
  <2>1. Formed(ops[o]) /\ ops[o].status \in Statuses
    BY <1>1 DEF Requests, Formed, OpRecords
  <2>2. CASE ops[o].pc \in {"none", "done"}
    BY <2>1, <2>2 DEF Restart
  <2>3. CASE ops[o].pc \notin {"none", "done"}
    <3>1. ops'[o] = Ended(ops[o], ops[o].status)
      BY <2>3 DEF Restart
    <3>2. Formed(ops'[o]) /\ ops'[o].pc = "done"
      BY <2>1, <3>1, EndedFormed
    <3> QED BY <2>3, <3>2
  <2> QED BY <2>2, <2>3
<1>5. ops' \in [Ops -> OpRecords]
  <2>1. ops' = [o \in Ops |-> ops'[o]]
    BY DEF Restart
  <2>2. \A o \in Ops : ops'[o] \in OpRecords
    BY <1>4 DEF Formed
  <2> QED BY <2>1, <2>2
<1>6. \A o \in Ops : Formed(ops[o])' /\ (o > started => ops[o].pc = "none")'
  BY <1>1, <1>4 DEF Requests
<1>7. Requests'
  BY <1>1, <1>3, <1>5, <1>6 DEF Requests
<1>8. LocksExact'
  BY <1>3, <1>4 DEF LocksExact, Live
<1> QED BY <1>2, <1>7, <1>8 DEF EditInv

LEMMA InitKeeps ==
  ASSUME Init
  PROVE  EditInv
<1>1. rows \in [Conns -> Rows]
  <2>1. \A c \in Conns : Start[c] \in Rows /\ Unlearned(Start[c]) \in Rows
    BY StartAssumption, KnownIsRow, UnlearnedIsRow
  <2> QED BY <2>1 DEF Init
<1>2. peers \in [Irans -> [Names -> PeerConfs \cup {None}]]
  <2>1. ASSUME NEW s \in Irans, NEW n \in Names,
               \E c \in Conns : Start[c].iran = s /\ Start[c].peer = n
        PROVE  PeerConf(Start[CHOOSE c \in Conns : Start[c].iran = s
                                    /\ Start[c].peer = n]) \in PeerConfs
    <3>1. (CHOOSE c \in Conns : Start[c].iran = s /\ Start[c].peer = n)
            \in Conns
      BY <2>1
    <3> QED BY <3>1, StartAssumption, ConfTypes
  <2> QED BY <2>1 DEF Init
<1>3. nodes \in [Foreigns -> [Names -> NodeConfs \cup {None}]]
  <2>1. ASSUME NEW s \in Foreigns, NEW n \in Names,
               \E c \in Conns : Start[c].foreign = s /\ Start[c].peer = n
        PROVE  NodeConf(Start[CHOOSE c \in Conns : Start[c].foreign = s
                                    /\ Start[c].peer = n]) \in NodeConfs
    <3>1. (CHOOSE c \in Conns : Start[c].foreign = s /\ Start[c].peer = n)
            \in Conns
      BY <2>1
    <3> QED BY <3>1, StartAssumption, ConfTypes
  <2> QED BY <2>1 DEF Init
<1>4. Tables
  <2>1. faults = 0
    BY Zenon DEF Init
  <2>2. faults \in 0..MaxFaults
    BY <2>1, EditBoundsAssumption
  <2> QED BY <1>1, <1>2, <1>3, <2>2 DEF Tables
<1>5. NoOp \in OpRecords /\ NoOp.pc = "none"
  BY DEF NoOp, NoFields, OpRecords, Fields, Statuses
<1>6. Formed(NoOp)
  BY <1>5, PcsApart DEF Formed, LivePcs
<1>7. 0 \in 0..MaxOps /\ 0 \notin Ops
  BY EditBoundsAssumption DEF Ops
<1>8. Requests
  BY <1>5, <1>6, <1>7 DEF Init, Requests
<1>9. LocksExact
  BY <1>5, <1>7 DEF Init, LocksExact, Live
<1> QED BY <1>4, <1>8, <1>9 DEF EditInv

LEMMA NextKeeps ==
  ASSUME EditInv, [Next]_vars
  PROVE  EditInv'
<1>1. CASE UNCHANGED vars
  BY <1>1 DEF vars, EditInv, Tables, Requests, LocksExact, Live, KeysOf,
     TargetsOf
<1>2. CASE Next
  BY <1>2, RequestKeeps, StepOfKeeps, RestartKeeps DEF Next
<1> QED BY <1>1, <1>2

THEOREM EditInvariant == Spec => []EditInv
<1>1. Init => EditInv
  BY InitKeeps
<1>2. EditInv /\ [Next]_vars => EditInv'
  BY NextKeeps
<1> QED BY <1>1, <1>2, PTL DEF Spec

\* Rows, peers and nodes stay whole whatever edits, moves and re-applied
\* states meet, and each operation takes only steps of its own kind.
THEOREM EditTypes == Spec => []EditTypeOK
<1>1. EditInv => EditTypeOK
  BY InvTypes
<1> QED BY <1>1, EditInvariant, PTL

\* acquire and the release at the end of apply and migrate: whatever happens,
\* the locks held are those of the operations under way.
THEOREM LocksAreExact == Spec => []LocksExact
<1>1. EditInv => LocksExact
  BY DEF EditInv
<1> QED BY <1>1, EditInvariant, PTL

\* A lock has one owner: operations under way have no connection and no
\* server in common.
LEMMA LocksExclude ==
  ASSUME EditInv
  PROVE  OneMutationPerServer
<1> SUFFICES ASSUME NEW o \in Ops, NEW q \in Ops, o # q, Live(o), Live(q),
                    NEW k, k \in KeysOf(ops[o]), k \in KeysOf(ops[q])
             PROVE  FALSE
  BY DEF OneMutationPerServer
<1>1. k \in Conns \cup Servers
  <2>1. Requests /\ ops[o].pc \in LivePcs
    BY LiveIsPc DEF EditInv
  <2> QED BY <2>1, OpFields DEF KeysOf, TargetsOf, Servers
<1>2. locks[k] = o /\ locks[k] = q
  BY <1>1 DEF EditInv, LocksExact
<1> QED BY <1>2

\* connections.js: "one mutation per connection, and one per server", for any
\* number of servers and requests.
THEOREM MutationsExclude == Spec => []OneMutationPerServer
<1>1. EditInv => OneMutationPerServer
  BY LocksExclude
<1> QED BY <1>1, EditInvariant, PTL

-----------------------------------------------------------------------------
(* What a step leaves alone.  The operations under way share no server, so *)
(* that none of them disturbs another.                                     *)

\* A step changes neither the name of a connection, nor that of its peer,
\* nor its servers.
RowKept(c) ==
  /\ rows'[c].iran = rows[c].iran /\ rows'[c].foreign = rows[c].foreign
  /\ rows'[c].name = rows[c].name /\ rows'[c].peer = rows[c].peer

\* What a step of o may write.
TouchesItsOwn(o) ==
  /\ \A q \in Ops \ {o} : ops'[q] = ops[q]
  /\ \A s \in Irans : peers'[s] = peers[s]
                      \/ (Live(o) /\ s \in TargetsOf(ops[o]))
  /\ \A s \in Foreigns : nodes'[s] = nodes[s]
                         \/ (Live(o) /\ s \in TargetsOf(ops[o]))
  /\ \A c \in Conns : RowKept(c) \/ (Live(o) /\ c = ops[o].conn)
  /\ faults' >= faults

LEMMA FaultsGrow ==
  ASSUME EditInv, Fault \/ UNCHANGED faults
  PROVE  faults' >= faults
  BY EditBoundsAssumption DEF EditInv, Tables, Fault

LEMMA RenamedElsewhere ==
  ASSUME NEW table, NEW s, NEW n, NEW m, NEW conf,
         NEW t \in DOMAIN table, t # s
  PROVE  Renamed(table, s, n, m, conf)[t] = table[t]
  BY DEF Renamed

LEMMA RemovedElsewhere ==
  ASSUME NEW table, NEW s, NEW n, NEW t \in DOMAIN table, t # s
  PROVE  Without(table, s, n)[t] = table[t]
  BY DEF Without

\* A command of a live operation on one of its servers.
LEMMA CommandTouches ==
  ASSUME EditInv, NEW o \in Ops, Live(o), NEW can, NEW i, NEW f,
         NEW newPeers, NEW newNodes, NEW ok, NEW failed,
         Command(o, can, newPeers, newNodes, ok, failed),
         \A s \in Irans : newPeers[s] = peers[s] \/ s \in TargetsOf(ops[o]),
         \A s \in Foreigns : newNodes[s] = nodes[s] \/ s \in TargetsOf(ops[o])
  PROVE  TouchesItsOwn(o)
<1>1. \A q \in Ops \ {o} : ops'[q] = ops[q]
  BY DEF Command, Goes, EditInv, Requests
<1>2. /\ \/ peers' = newPeers /\ nodes' = newNodes
         \/ UNCHANGED <<peers, nodes>>
      /\ rows' = rows /\ (Fault \/ UNCHANGED faults)
  BY DEF Command
<1>3. faults' >= faults
  BY <1>2, FaultsGrow
<1> QED BY <1>1, <1>2, <1>3 DEF TouchesItsOwn, RowKept

LEMMA EditsTouch ==
  ASSUME EditInv, NEW o \in Ops, EditNode(o) \/ EditPeer(o)
  PROVE  TouchesItsOwn(o)
<1> DEFINE n == ops[o].cur.peer
           m == NewName(ops[o])
           f == ops[o].row.foreign
           i == ops[o].row.iran
           q == Overlaid(nodes[f][n], NodeConf(ops[o].want))
           p == Overlaid(peers[i][n], PeerConf(ops[o].want))
<1>1. ops[o].pc \in LivePcs
  BY DEF EditNode, EditPeer, LivePcs, EditPcs
<1>2. Live(o) /\ peers \in PeerTables /\ nodes \in NodeTables
  BY <1>1, OpFields
<1>3. i \in TargetsOf(ops[o]) /\ f \in TargetsOf(ops[o])
  BY DEF TargetsOf
<1>4. \A s \in Irans \ {i} : Renamed(peers, i, n, m, p)[s] = peers[s]
  BY <1>2, RenamedElsewhere DEF PeerTables
<1>5. \A s \in Foreigns \ {f} : Renamed(nodes, f, n, m, q)[s] = nodes[s]
  BY <1>2, RenamedElsewhere DEF NodeTables
<1>6. CASE EditNode(o)
  <2>1. Command(o, CanEditNode(f, n, m, q), peers, Renamed(nodes, f, n, m, q),
                At(o, "peer"), EditFailed(o))
    BY <1>6 DEF EditNode
  <2> HIDE DEF n, m, f, i, q, p
  <2> QED BY <1>2, <1>3, <1>5, <2>1, CommandTouches
<1>7. CASE EditPeer(o)
  <2>1. Command(o, CanEditPeer(i, n, m, p), Renamed(peers, i, n, m, p), nodes,
                At(o, "verify"), EditFailed(o))
    BY <1>7 DEF EditPeer
  <2> HIDE DEF n, m, f, i, q, p
  <2> QED BY <1>2, <1>3, <1>4, <2>1, CommandTouches
<1> QED BY <1>6, <1>7

LEMMA MakesTouch ==
  ASSUME EditInv, NEW o \in Ops, MakeNode(o) \/ AddNode(o) \/ MakePeer(o)
  PROVE  TouchesItsOwn(o)
<1> DEFINE n == ops[o].cur.peer
           f == ops[o].want.foreign
           i == ops[o].want.iran
           q == NodeConf(ops[o].want)
           p == PeerConf(ops[o].want)
<1>1. ops[o].pc \in LivePcs
  BY DEF MakeNode, AddNode, MakePeer, LivePcs, MovePcs
<1>2. Live(o) /\ peers \in PeerTables /\ nodes \in NodeTables
  BY <1>1, OpFields
<1>3. i \in TargetsOf(ops[o]) /\ f \in TargetsOf(ops[o])
  BY DEF TargetsOf
<1>4. \A s \in Irans \ {i} : Renamed(peers, i, n, n, p)[s] = peers[s]
  BY <1>2, RenamedElsewhere DEF PeerTables
<1>5. \A s \in Foreigns \ {f} : Renamed(nodes, f, n, n, q)[s] = nodes[s]
  BY <1>2, RenamedElsewhere DEF NodeTables
<1>6. \/ Command(o, CanEditNode(f, n, n, q), peers, Renamed(nodes, f, n, n, q),
                 At(o, "check_node"), At(o, "add_node"))
      \/ Command(o, CanAddNode(f, n, q), peers, Renamed(nodes, f, n, n, q),
                 At(o, "check_node"), At(o, "undo"))
      \/ Command(o, CanAddPeer(i, n, p), Renamed(peers, i, n, n, p), nodes,
                 At(o, "cutover"), At(o, "undo"))
  BY DEF MakeNode, AddNode, MakePeer
<1> HIDE DEF n, f, i, q, p
<1> QED BY <1>2, <1>3, <1>4, <1>5, <1>6, CommandTouches

LEMMA PointTouches ==
  ASSUME EditInv, NEW o \in Ops, ops[o].pc \in LivePcs, NEW v, NEW ok,
         NEW failed, Point(o, v, ok, failed)
  PROVE  TouchesItsOwn(o)
<1> DEFINE n == ops[o].cur.peer
           f == ops[o].row.foreign
           i == ops[o].row.iran
<1>1. Live(o) /\ peers \in PeerTables /\ nodes \in NodeTables
  BY OpFields
<1>2. i \in TargetsOf(ops[o]) /\ f \in TargetsOf(ops[o])
  BY DEF TargetsOf
<1>3. \A s \in Irans \ {i} : Renamed(peers, i, n, n, PeerConf(v))[s] = peers[s]
  BY <1>1, RenamedElsewhere DEF PeerTables
<1>4. \A s \in Foreigns \ {f} :
        Renamed(nodes, f, n, n, NodeConf(v))[s] = nodes[s]
  BY <1>1, RenamedElsewhere DEF NodeTables
<1>5. \/ Command(o, CanEditPeer(i, n, n, PeerConf(v)),
                 Renamed(peers, i, n, n, PeerConf(v)), nodes, ok, failed)
      \/ Command(o, CanEditNode(f, n, n, NodeConf(v)), peers,
                 Renamed(nodes, f, n, n, NodeConf(v)), ok, failed)
  BY DEF Point
<1> HIDE DEF n, f, i
<1> QED BY <1>1, <1>2, <1>3, <1>4, <1>5, CommandTouches

LEMMA RemovalsTouch ==
  ASSUME EditInv, NEW o \in Ops, RemoveOldAndCommit(o) \/ CleanUp(o)
  PROVE  TouchesItsOwn(o)
<1> DEFINE n == ops[o].cur.peer
<1>1. ops[o].pc \in LivePcs
  BY DEF RemoveOldAndCommit, CleanUp, LivePcs, MovePcs
<1>2. Live(o) /\ peers \in PeerTables /\ nodes \in NodeTables
  BY <1>1, OpFields
<1>3. \E i \in TargetsOf(ops[o]), f \in TargetsOf(ops[o]) :
        \/ nodes' = Without(nodes, f, n) /\ UNCHANGED peers
        \/ peers' = Without(peers, i, n) /\ UNCHANGED nodes
        \/ UNCHANGED <<peers, nodes>>
  BY DEF RemoveOldAndCommit, CleanUp, TargetsOf
<1>4. PICK i \in TargetsOf(ops[o]), f \in TargetsOf(ops[o]) :
        \/ nodes' = Without(nodes, f, n) /\ UNCHANGED peers
        \/ peers' = Without(peers, i, n) /\ UNCHANGED nodes
        \/ UNCHANGED <<peers, nodes>>
  BY <1>3
<1>5. \A s \in Irans \ {i} : Without(peers, i, n)[s] = peers[s]
  BY <1>2, RemovedElsewhere DEF PeerTables
<1>6. \A s \in Foreigns \ {f} : Without(nodes, f, n)[s] = nodes[s]
  BY <1>2, RemovedElsewhere DEF NodeTables
<1>7. \A q \in Ops \ {o} : ops'[q] = ops[q]
  BY DEF RemoveOldAndCommit, CleanUp, Goes, EditInv, Requests
<1>8. \A c \in Conns \ {ops[o].conn} : rows'[c] = rows[c]
  BY DEF RemoveOldAndCommit, CleanUp, EditInv, Tables
<1>9. faults' >= faults
  <2>1. Fault \/ UNCHANGED faults
    BY DEF RemoveOldAndCommit, CleanUp
  <2> QED BY <2>1, FaultsGrow
<1> HIDE DEF n
<1> QED BY <1>2, <1>4, <1>5, <1>6, <1>7, <1>8, <1>9 DEF TouchesItsOwn, RowKept

\* Steps that write no table of a server.
LEMMA ChecksTouch ==
  ASSUME EditInv, NEW o \in Ops,
         \/ FinishEdit(o) \/ CheckTargets(o) \/ CheckNode(o) \/ ProvePath(o)
         \/ Recheck(o)
  PROVE  TouchesItsOwn(o)
<1>1. ops[o].pc \in LivePcs
  BY DEF FinishEdit, CheckTargets, CheckNode, ProvePath, Recheck, LivePcs,
     EditPcs, MovePcs
<1>2. Live(o)
  BY <1>1, OpFields
<1>3. \A q \in Ops \ {o} : ops'[q] = ops[q]
  BY DEF FinishEdit, CheckTargets, CheckNode, ProvePath, Recheck, Goes,
     EditInv, Requests
<1>4. /\ UNCHANGED <<peers, nodes>>
      /\ Fault \/ UNCHANGED faults
      /\ \A c \in Conns \ {ops[o].conn} : rows'[c] = rows[c]
  BY DEF FinishEdit, CheckTargets, CheckNode, ProvePath, Recheck, EditInv,
     Tables
<1>5. faults' >= faults
  BY <1>4, FaultsGrow
<1> QED BY <1>2, <1>3, <1>4, <1>5 DEF TouchesItsOwn, RowKept

LEMMA BeginWrites ==
  ASSUME NEW o, NEW op, NEW cur, NEW class, Begin(o, op, cur, class)
  PROVE  \E r : ops' = [ops EXCEPT ![o] = r]
<1>1. \E r : Acquire(o, r)
  BY DEF Begin
<1> QED BY <1>1 DEF Acquire

\* A request writes no server, and of a row only what it has read there.
LEMMA RequestsTouch ==
  ASSUME EditInv, NEW o \in Ops,
         \/ ReadPeer(o) \/ Learn(o)
         \/ \E c \in Conns : RequestOf(o, c)
  PROVE  /\ TouchesItsOwn(o) /\ UNCHANGED <<peers, nodes>>
         /\ \A c \in Conns : RowKept(c)
<1>1. CASE ReadPeer(o)
  <2>1. Fault \/ UNCHANGED faults
    BY <1>1 DEF ReadPeer
  <2>2. faults' >= faults
    BY <2>1, FaultsGrow
  <2> QED BY <1>1, <2>2 DEF ReadPeer, TouchesItsOwn, RowKept, EditInv, Requests
<1>2. CASE Learn(o)
  <2>1. \A c \in Conns : RowKept(c)
    <3>1. \/ rows' = rows
          \/ rows' = [rows EXCEPT ![ops[o].conn] = [rows[ops[o].conn] EXCEPT
                        !.params = ops[o].seen.params,
                        !.iranIp = ops[o].seen.iran,
                        !.foreignIp = ops[o].seen.foreign]]
      BY <1>2 DEF Learn
    <3>2. rows \in [Conns -> Rows]
      BY DEF EditInv, Tables
    <3>3. ASSUME NEW c \in Conns PROVE RowKept(c)
      <4>1. rows[c] \in Rows
        BY <3>2
      <4>2. \/ rows'[c] = rows[c]
            \/ rows'[c] = [rows[c] EXCEPT !.params = ops[o].seen.params,
                                          !.iranIp = ops[o].seen.iran,
                                          !.foreignIp = ops[o].seen.foreign]
        <5>1. CASE c = ops[o].conn
          BY <3>1, <3>2, <5>1
        <5>2. CASE c # ops[o].conn
          BY <3>1, <3>2, <5>2
        <5> QED BY <5>1, <5>2
      <4> QED BY <4>1, <4>2 DEF RowKept, Rows, KnownRows, RowsWith
    <3> QED BY <3>3
  <2>2. \E op : ops' = [ops EXCEPT ![o] = op]
    <3>1. \/ \E op, cur, class : Begin(o, op, cur, class)
          \/ \E op : ops' = [ops EXCEPT ![o] = op]
      BY <1>2 DEF Learn
    <3> QED BY <3>1, BeginWrites
  <2>3. \A q \in Ops \ {o} : ops'[q] = ops[q]
    BY <2>2 DEF EditInv, Requests
  <2>4. UNCHANGED <<peers, nodes, faults>>
    BY <1>2 DEF Learn
  <2>5. faults' >= faults
    BY <2>4, FaultsGrow
  <2> QED BY <2>1, <2>3, <2>4, <2>5 DEF TouchesItsOwn
<1>3. ASSUME NEW c \in Conns, RequestOf(o, c)
      PROVE  /\ TouchesItsOwn(o) /\ UNCHANGED <<peers, nodes>>
             /\ \A d \in Conns : RowKept(d)
  <2>1. PICK kind, req : NewRequest(o, c, kind, req)
    BY <1>3 DEF RequestOf, PlanEdit, PutEdit, PutBack
  <2>2. \E op : ops' = [ops EXCEPT ![o] = op]
    <3>1. \/ \E op, cur, class : Begin(o, op, cur, class)
          \/ \E op : ops' = [ops EXCEPT ![o] = op]
      BY <2>1 DEF NewRequest
    <3> QED BY <3>1, BeginWrites
  <2>3. \A q \in Ops \ {o} : ops'[q] = ops[q]
    BY <2>2 DEF EditInv, Requests
  <2>4. UNCHANGED <<rows, peers, nodes, faults>>
    BY <2>1 DEF NewRequest
  <2>5. faults' >= faults
    BY <2>4, FaultsGrow
  <2> QED BY <2>3, <2>4, <2>5 DEF TouchesItsOwn, RowKept
<1> QED BY <1>1, <1>2, <1>3

LEMMA StepTouches ==
  ASSUME EditInv, NEW o \in Ops, StepOf(o)
  PROVE  TouchesItsOwn(o)
<1>1. CASE Cutover(o) \/ Undo(o)
  <2>1. ops[o].pc \in LivePcs
    BY <1>1 DEF Cutover, Undo, LivePcs, MovePcs
  <2> QED BY <1>1, <2>1, PointTouches DEF Cutover, Undo
<1> QED BY <1>1, EditsTouch, MakesTouch, RemovalsTouch, ChecksTouch,
           RequestsTouch DEF StepOf

\* An operation finds its servers and its row as it left them, whatever the
\* others do meanwhile.
LEMMA Undisturbed ==
  ASSUME EditInv, NEW o \in Ops, TouchesItsOwn(o),
         NEW q \in Ops, q # o, Live(q)
  PROVE  /\ ops'[q] = ops[q]
         /\ \A s \in Irans \cap TargetsOf(ops[q]) : peers'[s] = peers[s]
         /\ \A s \in Foreigns \cap TargetsOf(ops[q]) : nodes'[s] = nodes[s]
         /\ RowKept(ops[q].conn)
         /\ faults' >= faults
<1>1. Live(o) => KeysOf(ops[o]) \cap KeysOf(ops[q]) = {}
  BY LocksExclude DEF OneMutationPerServer
<1>2. ops[q].conn \in Conns
  <2>1. ops[q].pc \in LivePcs
    BY LiveIsPc DEF EditInv
  <2> QED BY <2>1, OpFields
<1>3. \A s : s \in TargetsOf(ops[q]) => s \in KeysOf(ops[q])
  BY DEF KeysOf
<1>4. \A s : s \in TargetsOf(ops[o]) => s \in KeysOf(ops[o])
  BY DEF KeysOf
<1>5. ops[q].conn \in KeysOf(ops[q]) /\ ops[o].conn \in KeysOf(ops[o])
  BY DEF KeysOf
<1> QED BY <1>1, <1>2, <1>3, <1>4, <1>5 DEF TouchesItsOwn

-----------------------------------------------------------------------------
(* Operations that began with a working connection.                        *)

\* The two sides a move starts from and the two it is to end with.
OldPeer(op) == peers[op.row.iran][op.cur.peer] = PeerConf(op.cur)
OldNode(op) == nodes[op.row.foreign][op.cur.peer] = NodeConf(op.cur)
NewPeer(op) == peers[op.want.iran][op.cur.peer] = PeerConf(op.want)
NewNode(op) == nodes[op.want.foreign][op.cur.peer] = NodeConf(op.want)
OldPair(op) == OldPeer(op) /\ OldNode(op)
NewPair(op) == NewPeer(op) /\ NewNode(op)

\* The row still names what the operation works on; an edit stays on its
\* servers, and verifies a peer that has the wanted configuration.
Grounded(op) ==
  /\ op.cur \in KnownRows /\ op.want \in KnownRows /\ Addressed(op.cur)
  /\ op.cur.iran = op.row.iran /\ op.cur.foreign = op.row.foreign
  /\ op.want.peer = op.cur.peer
  /\ rows[op.conn].iran = op.cur.iran /\ rows[op.conn].foreign = op.cur.foreign
  /\ rows[op.conn].name = op.cur.name /\ rows[op.conn].peer = op.cur.peer
  /\ op.kind = "edit" =>
       op.want.iran = op.cur.iran /\ op.want.foreign = op.cur.foreign
  /\ op.pc = "verify" =>
       peers[op.row.iran][NewName(op)] = PeerConf(op.want)

\* A request that names a server leaves the addresses to the hub.
Modest(req) == req.iran # None \/ req.foreign # None =>
                 req.iranIp = None /\ req.foreignIp = None
PlainMoves == \A req \in Edits : Modest(req)

\* A request that asks its IRAN server first has a row without parameters.
Asking == \A o \in Ops : ops[o].pc \in {"learn", "read"} =>
  ops[o].row.params = None /\ (PlainMoves => Modest(ops[o].req))

GroundInv == Asking /\ \A o \in Ops : Live(o) /\ ops[o].sound => Grounded(ops[o])

\* What an operation begins with.
BegunAs(b, op, cur) ==
  /\ b.conn = op.conn /\ b.row = op.row /\ b.cur = cur
  /\ b.kind \in {"edit", "move"}
  /\ b.sound =>
       /\ cur \in KnownRows /\ b.want \in KnownRows /\ Works(cur)
       /\ cur.iran = op.row.iran /\ cur.foreign = op.row.foreign
       /\ b.want.peer = cur.peer
       /\ b.kind = "edit" =>
            /\ b.pc \in {"node", "peer"}
            /\ b.want.iran = cur.iran /\ b.want.foreign = cur.foreign
       /\ b.kind = "move" =>
            /\ b.pc = "preflight"
            /\ b.want.iran # cur.iran \/ b.want.foreign # cur.foreign
            /\ Modest(op.req) => Addressed(b.want)

LEMMA BeginsAs ==
  ASSUME NEW o \in Ops, NEW op, Formed(op), op.row \in Rows, NEW cur \in Rows,
         NEW class, RunsAs(cur, op.req, class), Begin(o, op, cur, class),
         ops \in [Ops -> OpRecords], Live(o)'
  PROVE  BegunAs(ops'[o], op, cur)
<1> DEFINE w    == Wanted(cur, op.req)
           move == class = "C"
           to   == [w EXCEPT !.iran = IF move THEN @ ELSE op.row.iran,
                       !.foreign = IF move THEN @ ELSE op.row.foreign,
                       !.iranIp = IF move /\ w.iran # op.row.iran
                                  THEN w.iran ELSE @,
                       !.foreignIp = IF move /\ w.foreign # op.row.foreign
                                     THEN w.foreign ELSE @]
           sound == /\ cur.iran = op.row.iran /\ cur.foreign = op.row.foreign
                    /\ Works(cur)
           kind == IF move THEN "move" ELSE "edit"
           pc   == CASE class = "A" -> "peer" [] class = "B" -> "node"
                     [] class = "C" -> "preflight"
           begun == [op EXCEPT
             !.kind = kind, !.pc = pc,
             !.status = "RUNNING", !.seen = None, !.req = NoFields,
             !.cur = cur, !.want = to, !.sound = sound]
<1>1. Acquire(o, begun)
  BY DEF Begin
<1>2. class \in {"A", "B", "C"}
  BY DEF RunsAs
<1>3. op \in OpRecords /\ op.req \in Fields
  BY DEF Formed, OpRecords
<1> HIDE DEF to, sound
<1>4. /\ begun.conn = op.conn /\ begun.row = op.row /\ begun.cur = cur
      /\ begun.kind = kind /\ begun.pc = pc /\ begun.want = to
      /\ begun.sound = sound
  BY <1>3 DEF OpRecords
<1>5. ops'[o] = begun
  <2>1. \/ ops' = [ops EXCEPT ![o] = begun]
        \/ ops' = [ops EXCEPT ![o] = Ended(begun, "REJECTED")]
    BY <1>1 DEF Acquire
  <2>2. Ended(begun, "REJECTED").pc = "done"
    BY <1>3 DEF Ended, OpRecords
  <2> HIDE DEF begun
  <2> QED BY <2>1, <2>2 DEF Live
<1>6. ASSUME sound
      PROVE  /\ cur \in KnownRows /\ Works(cur)
             /\ cur.iran = op.row.iran /\ cur.foreign = op.row.foreign
  <2>1. /\ Works(cur)
        /\ cur.iran = op.row.iran /\ cur.foreign = op.row.foreign
    BY <1>6 DEF sound
  <2>2. cur.iranIp = cur.iran
    BY <2>1 DEF Works, Addressed
  <2>3. cur \in KnownRows
    BY <2>2, NoneApart DEF Rows, KnownRows, RowsWith
  <2> QED BY <2>1, <2>3
<1>7. ASSUME sound
      PROVE  /\ to \in KnownRows /\ to.peer = cur.peer
             /\ ~move => to.iran = cur.iran /\ to.foreign = cur.foreign
             /\ move => to.iran = w.iran /\ to.foreign = w.foreign
             /\ move /\ w.iran # cur.iran => to.iranIp = w.iran
             /\ ~(move /\ w.iran # cur.iran) => to.iranIp = w.iranIp
             /\ move /\ w.foreign # cur.foreign => to.foreignIp = w.foreign
             /\ ~(move /\ w.foreign # cur.foreign) => to.foreignIp = w.foreignIp
  <2>1. w \in KnownRows
    BY <1>3, <1>6, <1>7, WantedKnown
  <2>2. w.peer = cur.peer
    BY <1>6, <1>7 DEF Wanted, KnownRows, RowsWith
  <2>3. cur.iran = op.row.iran /\ cur.foreign = op.row.foreign
    BY <1>6, <1>7
  <2>4. cur.iran \in Irans /\ cur.foreign \in Foreigns
    BY <1>6, <1>7 DEF KnownRows, RowsWith
  <2> HIDE DEF w
  <2> QED BY <2>1, <2>2, <2>3, <2>4 DEF to, KnownRows, RowsWith
<1>8. ASSUME sound, move
      PROVE  /\ to.iran # cur.iran \/ to.foreign # cur.foreign
             /\ Modest(op.req) => Addressed(to)
  <2>1. cur \in KnownRows /\ Works(cur)
    BY <1>6, <1>8
  <2>2. /\ w.iran = Asked(op.req.iran, cur.iran)
        /\ w.foreign = Asked(op.req.foreign, cur.foreign)
        /\ w.iranIp = Asked(op.req.iranIp, cur.iranIp)
        /\ w.foreignIp = Asked(op.req.foreignIp, cur.foreignIp)
    BY <2>1 DEF Wanted, KnownRows, RowsWith
  <2>3. \/ op.req.iran # None /\ op.req.iran # cur.iran
        \/ op.req.foreign # None /\ op.req.foreign # cur.foreign
    BY <1>8 DEF RunsAs, EditClass
  <2>4. cur.iranIp = cur.iran /\ cur.foreignIp = cur.foreign
    BY <2>1 DEF Works, Addressed
  <2>5. Modest(op.req) => op.req.iranIp = None /\ op.req.foreignIp = None
    BY <2>3 DEF Modest
  <2> HIDE DEF w
  <2> QED BY <1>7, <1>8, <2>2, <2>3, <2>4, <2>5 DEF Asked, Addressed
<1>9. /\ move => pc = "preflight" /\ kind = "move"
      /\ ~move => pc \in {"node", "peer"} /\ kind = "edit"
  BY <1>2
<1> HIDE DEF begun, move, kind, pc, w
<1> QED BY <1>4, <1>5, <1>6, <1>7, <1>8, <1>9 DEF BegunAs

\* A begun operation is grounded in its row.
LEMMA BegunGrounded ==
  ASSUME EditInv, NEW o \in Ops, NEW op, NEW cur, BegunAs(ops'[o], op, cur),
         ops'[o].sound, rows'[op.conn].iran = cur.iran,
         rows'[op.conn].foreign = cur.foreign, rows'[op.conn].name = cur.name,
         rows'[op.conn].peer = cur.peer
  PROVE  Grounded(ops[o])'
  BY DEF BegunAs, Grounded, Works, Addressed

LEMMA OverlaidKnown ==
  ASSUME NEW v \in KnownRows, NEW old
  PROVE  /\ Overlaid(old, PeerConf(v)) = PeerConf(v)
         /\ Overlaid(old, NodeConf(v)) = NodeConf(v)
  BY NoneApart DEF KnownRows, RowsWith, Overlaid, Asked, PeerConf, NodeConf

\* A live operation that goes on keeps what it works with, and its row.
LEMMA GoesOn ==
  ASSUME EditInv, NEW o \in Ops, Live(o), StepOf(o), Live(o)'
  PROVE  /\ rows' = rows
         /\ \E pc : ops'[o] = At(o, pc)
         /\ ops'[o].pc = "verify" => EditPeer(o)
<1>1. ops \in [Ops -> OpRecords] /\ ops[o] \in OpRecords
  BY DEF EditInv, Requests
<1>2. ops[o].pc \in LivePcs
  BY LiveIsPc DEF EditInv
<1>3. \A op : Goes(o, op) => ops'[o] = op
  BY <1>1 DEF Goes
<1>4. \A status : Ended(ops[o], status).pc = "done"
  BY <1>1 DEF Ended, OpRecords
<1>5. \A status : ~Goes(o, Ended(ops[o], status)) /\ ~Goes(o, EditFailed(o))
  BY <1>3, <1>4 DEF Live, EditFailed
<1>6. \A pc : At(o, pc).pc = pc
  BY <1>1 DEF At, OpRecords
<1>7. ~ReadPeer(o) /\ ~Learn(o)
  BY <1>2, PcsApart DEF ReadPeer, Learn
<1>8. CASE EditNode(o)
  <2>1. rows' = rows /\ Goes(o, At(o, "peer"))
    BY <1>5, <1>8 DEF EditNode, Command
  <2> QED BY <1>3, <1>6, <2>1
<1>9. CASE EditPeer(o)
  <2>1. rows' = rows /\ Goes(o, At(o, "verify"))
    BY <1>5, <1>9 DEF EditPeer, Command
  <2> QED BY <1>3, <1>6, <1>9, <2>1
<1>10. ~FinishEdit(o) /\ ~Recheck(o)
  BY <1>5 DEF FinishEdit, Recheck
<1>11. CASE \/ CheckTargets(o) \/ MakeNode(o) \/ AddNode(o) \/ CheckNode(o)
            \/ MakePeer(o) \/ Cutover(o) \/ ProvePath(o) \/ Undo(o)
            \/ CleanUp(o) \/ RemoveOldAndCommit(o)
  <2>1. /\ rows' = rows
        /\ \E pc \in MovePcs : Goes(o, At(o, pc))
    BY <1>5, <1>11 DEF CheckTargets, MakeNode, AddNode, CheckNode, MakePeer,
       Cutover, ProvePath, Undo, CleanUp, RemoveOldAndCommit, Point, Command,
       MovePcs
  <2>2. "verify" \notin MovePcs
    BY DEF MovePcs
  <2> QED BY <1>3, <1>6, <2>1, <2>2
<1> QED BY <1>7, <1>8, <1>9, <1>10, <1>11 DEF StepOf

\* Fields of an operation that goes on.
LEMMA AtFields ==
  ASSUME EditInv, NEW o \in Ops, NEW pc
  PROVE  /\ At(o, pc).pc = pc /\ At(o, pc).kind = ops[o].kind
         /\ At(o, pc).conn = ops[o].conn /\ At(o, pc).row = ops[o].row
         /\ At(o, pc).cur = ops[o].cur /\ At(o, pc).want = ops[o].want
         /\ At(o, pc).sound = ops[o].sound
<1>1. ops[o] \in OpRecords
  BY DEF EditInv, Requests
<1> QED BY <1>1 DEF At, OpRecords

LEMMA StepGrounded ==
  ASSUME EditInv, NEW o \in Ops, Live(o), StepOf(o), Live(o)', ops'[o].sound,
         ops[o].sound => Grounded(ops[o])
  PROVE  Grounded(ops[o])'
<1>1. PICK pc : ops'[o] = At(o, pc)
  BY GoesOn
<1>2. /\ ops'[o].pc = pc /\ ops'[o].kind = ops[o].kind
      /\ ops'[o].conn = ops[o].conn /\ ops'[o].row = ops[o].row
      /\ ops'[o].cur = ops[o].cur /\ ops'[o].want = ops[o].want
      /\ ops'[o].sound = ops[o].sound
  <2> DEFINE next == At(o, pc)
  <2>1. /\ next.pc = pc /\ next.kind = ops[o].kind
        /\ next.conn = ops[o].conn /\ next.row = ops[o].row
        /\ next.cur = ops[o].cur /\ next.want = ops[o].want
        /\ next.sound = ops[o].sound
    BY AtFields
  <2> HIDE DEF next
  <2>2. ops'[o] = next
    BY <1>1 DEF next
  <2> QED BY <2>1, <2>2
<1>3. Grounded(ops[o]) /\ rows' = rows
  BY <1>2, GoesOn
<1>4. ASSUME pc = "verify"
      PROVE  peers'[ops[o].row.iran][NewName(ops[o])] = PeerConf(ops[o].want)
  <2> DEFINE i == ops[o].row.iran
             n == ops[o].cur.peer
             m == NewName(ops[o])
             conf == Overlaid(peers[i][n], PeerConf(ops[o].want))
  <2>1. EditPeer(o)
    BY <1>2, <1>4, GoesOn
  <2>2. conf = PeerConf(ops[o].want)
    BY <1>3, OverlaidKnown DEF Grounded
  <2>3. Command(o, CanEditPeer(i, n, m, conf), Renamed(peers, i, n, m, conf),
                nodes, At(o, "verify"), EditFailed(o))
    BY <2>1 DEF EditPeer
  <2>4. EditFailed(o).pc = "done" /\ ops \in [Ops -> OpRecords]
    BY DEF EditFailed, Ended, OpRecords, EditInv, Requests
  <2>5. ~Goes(o, EditFailed(o))
    BY <2>4 DEF Goes, Live
  <2>6. peers' = Renamed(peers, i, n, m, conf)
    BY <2>3, <2>5 DEF Command
  <2>7. i \in Irans /\ n \in Names /\ m \in Names /\ peers \in PeerTables
    <3>1. ops[o].pc \in LivePcs
      BY LiveIsPc DEF EditInv
    <3> QED BY <3>1, OpFields, NewNameIsName
  <2> HIDE DEF conf, i, n, m
  <2>8. peers'[i][m] = conf
    BY <2>6, <2>7 DEF Renamed, PeerTables
  <2> QED BY <2>2, <2>8 DEF i, m
<1>5. NewName(ops[o])' = NewName(ops[o])
  BY <1>2 DEF NewName
<1> QED BY <1>2, <1>3, <1>4, <1>5 DEF Grounded, Addressed

\* A request asks for what a client may ask, or for what an operation had.
LEMMA RequestModest ==
  ASSUME NEW o \in Ops, NEW c \in Conns, RequestOf(o, c)
  PROVE  \E kind \in {"plan", "edit"}, req \in Fields :
           NewRequest(o, c, kind, req) /\ (PlainMoves => Modest(req))
<1>1. CASE PlanEdit(o, c)
  <2>1. NoFields \in Fields /\ Modest(NoFields)
    BY DEF NoFields, Fields, Modest
  <2> QED BY <1>1, <2>1 DEF PlanEdit
<1>2. ASSUME NEW req \in Edits, PutEdit(o, c, req)
      PROVE  /\ req \in Fields /\ NewRequest(o, c, "edit", req)
             /\ PlainMoves => Modest(req)
  BY <1>2, StartAssumption DEF PutEdit, PlainMoves
<1>3. ASSUME NEW p \in Ops, PutBack(o, c, p)
      PROVE  \E req \in Fields : NewRequest(o, c, "edit", req) /\ Modest(req)
  <2> DEFINE req == [f \in DOMAIN NoFields |->
                IF f \in {"iran", "foreign"} THEN None ELSE ops[p].cur[f]]
  <2>1. ops[p].cur \in KnownRows
    BY <1>3 DEF PutBack
  <2>2. req \in Fields
    BY <2>1 DEF KnownRows, RowsWith, Fields, NoFields
  <2>3. NewRequest(o, c, "edit", req)
    BY <1>3 DEF PutBack
  <2>4. req.iran = None /\ req.foreign = None
    BY DEF NoFields
  <2> HIDE DEF req
  <2> QED BY <2>2, <2>3, <2>4 DEF Modest
<1> QED BY <1>1, <1>2, <1>3 DEF RequestOf

\* A step of a live operation continues or ends it.
LEMMA StepContinues ==
  ASSUME EditInv, NEW o \in Ops, StepOf(o), ops[o].pc \in LivePcs
  PROVE  ops'[o].pc \in {"done"} \cup LivePcs
<1>1. /\ ops \in [Ops -> OpRecords]
      /\ ~ReadPeer(o) /\ ~Learn(o)
  BY PcsApart DEF EditInv, Requests, ReadPeer, Learn
<1>2. \/ \E pc \in LivePcs : Goes(o, At(o, pc))
      \/ \E status : Goes(o, Ended(ops[o], status))
  <2>1. CASE \/ EditNode(o) \/ EditPeer(o) \/ FinishEdit(o)
    BY <2>1 DEF EditNode, EditPeer, FinishEdit, Command, EditFailed, LivePcs,
       EditPcs
  <2>2. CASE \/ CheckTargets(o) \/ CheckNode(o) \/ ProvePath(o)
            \/ CleanUp(o) \/ RemoveOldAndCommit(o) \/ Recheck(o)
    BY <2>2 DEF CheckTargets, CheckNode, ProvePath, CleanUp,
       RemoveOldAndCommit, Recheck, LivePcs, MovePcs
  <2>3. CASE \/ MakeNode(o) \/ AddNode(o) \/ MakePeer(o) \/ Cutover(o)
            \/ Undo(o)
    BY <2>3 DEF MakeNode, AddNode, MakePeer, Cutover, Undo, Point, Command,
       LivePcs, MovePcs
  <2> QED BY <1>1, <2>1, <2>2, <2>3 DEF StepOf
<1>3. \A op : Goes(o, op) => ops'[o] = op
  BY <1>1 DEF Goes
<1>4. \A status : Ended(ops[o], status).pc = "done"
  BY <1>1 DEF Ended, OpRecords
<1>5. \A pc : At(o, pc).pc = pc
  BY AtFields
<1> QED BY <1>2, <1>3, <1>4, <1>5

\* Whoever begins with a working connection begins with its row.
LEMMA BeginsSound ==
  ASSUME EditInv, Asking, NEW o \in Ops, ~Live(o),
         StepOf(o) \/ \E c \in Conns : RequestOf(o, c),
         Live(o)', ops'[o].sound
  PROVE  /\ UNCHANGED <<peers, nodes>>
         /\ \E op : /\ BegunAs(ops'[o], op, rows'[op.conn])
                    /\ op.conn \in Conns
                    /\ PlainMoves => Modest(op.req)
<1>1. /\ ops \in [Ops -> OpRecords] /\ Formed(ops[o]) /\ Requests
      /\ rows \in [Conns -> Rows]
  BY DEF EditInv, Requests, Tables
<1>2. \A op : ops' = [ops EXCEPT ![o] = op] => ops'[o] = op
  BY <1>1
<1>3. ASSUME NEW c \in Conns, NEW kind \in {"plan", "edit"}, NEW req \in Fields,
             NewRequest(o, c, kind, req),
             PlainMoves => Modest(req)
      PROVE  /\ UNCHANGED <<peers, nodes>>
             /\ \E op : /\ BegunAs(ops'[o], op, rows'[op.conn])
                        /\ op.conn \in Conns
                        /\ PlainMoves => Modest(op.req)
  <2> DEFINE op == [NoOp EXCEPT !.conn = c, !.kind = kind, !.row = rows[c],
                                !.req = req]
  <2>1. rows[c] \in Rows
    BY <1>1
  <2>2. /\ op \in OpRecords /\ op.pc = "none" /\ op.conn = c
        /\ op.row = rows[c] /\ op.req = req
    BY <1>3, <2>1 DEF OpRecords, NoOp, Statuses
  <2>3. [op EXCEPT !.pc = "learn"].pc = "learn" /\ Ended(op, "none").pc = "done"
    BY <2>2 DEF OpRecords, Ended
  <2>4. /\ \/ ops' = [ops EXCEPT ![o] = [op EXCEPT !.pc = "learn"]]
           \/ ops' = [ops EXCEPT ![o] = Ended(op, "none")]
           \/ /\ CanApply(c, rows[c], req, EditClass(rows[c], req))
              /\ Begin(o, op, rows[c], EditClass(rows[c], req))
        /\ UNCHANGED <<rows, peers, nodes>>
    BY <1>3 DEF NewRequest
  <2> HIDE DEF op
  <2>5. Formed(op)
    BY <2>2, PcsApart DEF Formed, LivePcs
  <2>6. /\ CanApply(c, rows[c], req, EditClass(rows[c], req))
        /\ Begin(o, op, rows[c], EditClass(rows[c], req))
    BY <1>2, <2>3, <2>4 DEF Live
  <2>7. BegunAs(ops'[o], op, rows[c])
    <3>1. RunsAs(rows[c], op.req, EditClass(rows[c], req))
      BY <2>2, <2>6, PlannedRuns
    <3> QED BY <1>1, <2>1, <2>2, <2>5, <2>6, <3>1, BeginsAs
  <2> QED BY <1>3, <2>2, <2>4, <2>7
<1>4. ASSUME NEW c \in Conns, RequestOf(o, c)
      PROVE  \E kind \in {"plan", "edit"}, req \in Fields :
               NewRequest(o, c, kind, req) /\ (PlainMoves => Modest(req))
  BY <1>4, RequestModest
<1>5. CASE \E c \in Conns : RequestOf(o, c)
  BY <1>3, <1>4, <1>5
<1>6. CASE StepOf(o)
  <2> DEFINE op == ops[o]
             c == op.conn
             seen == op.seen
             fresh == IF seen = None THEN op.row
                      ELSE [rows[c] EXCEPT !.params = seen.params,
                                           !.iranIp = seen.iran,
                                           !.foreignIp = seen.foreign]
  <2>1. Learn(o)
    <3>1. ops[o].pc \notin LivePcs
      BY <1>1, LiveIsPc
    <3>2. ~ReadPeer(o)
      <4> SUFFICES ASSUME ReadPeer(o) PROVE FALSE
        OBVIOUS
      <4>1. ops'[o].pc = "read"
        BY <1>1 DEF ReadPeer, OpRecords
      <4> QED BY <4>1 DEF Live
    <3> QED BY <1>6, <3>1, <3>2 DEF StepOf, EditNode, EditPeer, FinishEdit,
            CheckTargets, MakeNode, AddNode, CheckNode, MakePeer, Cutover,
            ProvePath, RemoveOldAndCommit, Undo, CleanUp, Recheck, LivePcs,
            EditPcs, MovePcs
  <2>2. /\ op.pc = "read" /\ c \in Conns /\ op.row \in Rows
        /\ seen \in PeerConfs \cup {None}
    BY <1>1, <2>1 DEF Learn, Formed, OpRecords
  <2>3. fresh \in Rows /\ (seen # None => fresh \in KnownRows)
    <3>1. CASE seen = None
      BY <2>2, <3>1
    <3>2. CASE seen # None
      <4>1. rows[c] \in Rows /\ seen \in PeerConfs
        BY <1>1, <2>2, <3>2
      <4>2. fresh \in KnownRows
        BY <3>2, <4>1 DEF Rows, KnownRows, RowsWith, PeerConfs
      <4> QED BY <4>2, KnownIsRow
    <3> QED BY <3>1, <3>2
  <2>4. /\ \/ \E class : Begin(o, op, fresh, class) /\ RunsAs(fresh, op.req, class)
           \/ ops' = [ops EXCEPT ![o] = Ended(op, "none")]
        /\ rows' = IF seen = None THEN rows ELSE [rows EXCEPT ![c] = fresh]
        /\ UNCHANGED <<peers, nodes>>
    <3>1. seen # None => RunsAs(fresh, op.req, "A")
      <4> HIDE DEF fresh
      <4> QED BY <2>3, NoneApart DEF RunsAs, KnownRows, RowsWith
    <3>2. /\ rows' = IF seen = None THEN rows ELSE [rows EXCEPT ![c] = fresh]
          /\ UNCHANGED <<peers, nodes>>
      BY <2>1 DEF Learn
    <3> QED BY <2>1, <3>1, <3>2, LearntRuns
  <2>5. Ended(op, "none").pc = "done"
    BY <1>1 DEF Ended, OpRecords
  <2> HIDE DEF fresh
  <2>6. PICK class : Begin(o, op, fresh, class) /\ RunsAs(fresh, op.req, class)
    BY <1>2, <2>4, <2>5 DEF Live
  <2>7. BegunAs(ops'[o], op, fresh)
    BY <1>1, <2>2, <2>3, <2>6, BeginsAs
  <2>8. seen # None
    <3> SUFFICES ASSUME seen = None PROVE FALSE
      OBVIOUS
    <3>1. fresh = op.row /\ op.row.params = None
      BY <2>2 DEF fresh, Asking
    <3>2. fresh \in KnownRows
      BY <2>7 DEF BegunAs
    <3> QED BY <3>1, <3>2, NoneApart DEF KnownRows, RowsWith
  <2>9. rows'[c] = fresh
    BY <1>1, <2>2, <2>4, <2>8
  <2>10. PlainMoves => Modest(op.req)
    BY <2>2 DEF Asking
  <2> QED BY <2>2, <2>4, <2>7, <2>9, <2>10
<1> QED BY <1>5, <1>6

LEMMA AskingKeeps ==
  ASSUME EditInv, Asking, NEW o \in Ops,
         StepOf(o) \/ \E c \in Conns : RequestOf(o, c)
  PROVE  Asking'
<1>1. ops \in [Ops -> OpRecords] /\ Requests /\ rows \in [Conns -> Rows]
  BY DEF EditInv, Requests, Tables
<1>2. \A q \in Ops \ {o} : ops'[q] = ops[q]
  BY StepTouches, RequestsTouch DEF TouchesItsOwn
<1> SUFFICES ASSUME ops'[o].pc \in {"learn", "read"}
             PROVE  /\ ops'[o].row.params = None
                    /\ PlainMoves => Modest(ops'[o].req)
  BY <1>2 DEF Asking
<1>3. ~Live(o)'
  BY DEF Live
<1>4. \A op : ops' = [ops EXCEPT ![o] = op] => ops'[o] = op
  BY <1>1
<1>5. ASSUME NEW op \in OpRecords, NEW cur, NEW class \in {"A", "B", "C"},
             Begin(o, op, cur, class)
      PROVE  FALSE
  <2> DEFINE w    == Wanted(cur, op.req)
             move == class = "C"
             to   == [w EXCEPT !.iran = IF move THEN @ ELSE op.row.iran,
                         !.foreign = IF move THEN @ ELSE op.row.foreign,
                         !.iranIp = IF move /\ w.iran # op.row.iran
                                    THEN w.iran ELSE @,
                         !.foreignIp = IF move /\ w.foreign # op.row.foreign
                                       THEN w.foreign ELSE @]
             sound == /\ cur.iran = op.row.iran /\ cur.foreign = op.row.foreign
                      /\ Works(cur)
             kind == IF move THEN "move" ELSE "edit"
             pc   == CASE class = "A" -> "peer" [] class = "B" -> "node"
                       [] class = "C" -> "preflight"
             b    == [op EXCEPT
               !.kind = kind, !.pc = pc,
               !.status = "RUNNING", !.seen = None, !.req = NoFields,
               !.cur = cur, !.want = to, !.sound = sound]
  <2>2. Acquire(o, b)
    BY <1>5 DEF Begin
  <2>3. pc \in {"peer", "node", "preflight"}
    OBVIOUS
  <2> HIDE DEF w, to, sound, kind, pc
  <2>4. b.pc = pc /\ Ended(b, "REJECTED").pc = "done"
    BY DEF OpRecords, Ended
  <2>5. \/ ops' = [ops EXCEPT ![o] = b]
        \/ ops' = [ops EXCEPT ![o] = Ended(b, "REJECTED")]
    BY <2>2 DEF Acquire
  <2> HIDE DEF b
  <2> QED BY <1>4, <2>3, <2>4, <2>5
<1>6. ASSUME StepOf(o)
      PROVE  /\ ops'[o].row.params = None
             /\ PlainMoves => Modest(ops'[o].req)
  <2>1. CASE ReadPeer(o)
    <3>1. PICK s : ops' = [ops EXCEPT ![o] = [ops[o] EXCEPT !.pc = "read",
                                                            !.seen = s]]
      BY <2>1 DEF ReadPeer
    <3>2. ops'[o].row = ops[o].row /\ ops'[o].req = ops[o].req
      BY <1>1, <3>1 DEF OpRecords
    <3> QED BY <2>1, <3>2 DEF ReadPeer, Asking
  <2>2. CASE Learn(o)
    <3>1. \/ \E fresh, class : class \in {"A", "B", "C"} /\ Begin(o, ops[o], fresh, class)
          \/ ops' = [ops EXCEPT ![o] = Ended(ops[o], "none")]
      BY <2>2, LearntRuns DEF RunsAs
    <3>2. Ended(ops[o], "none").pc = "done"
      BY <1>1 DEF Ended, OpRecords
    <3> QED BY <1>1, <1>4, <1>5, <3>1, <3>2
  <2>3. CASE ~ReadPeer(o) /\ ~Learn(o)
    <3>1. ops[o].pc \in LivePcs
      BY <1>6, <2>3 DEF StepOf, EditNode, EditPeer, FinishEdit,
         CheckTargets, MakeNode, AddNode, CheckNode, MakePeer, Cutover,
         ProvePath, RemoveOldAndCommit, Undo, CleanUp, Recheck, LivePcs,
         EditPcs, MovePcs
    <3> QED BY <1>6, <3>1, StepContinues, PcsApart
  <2> QED BY <2>1, <2>2, <2>3
<1>7. ASSUME NEW c \in Conns, NEW kind \in {"plan", "edit"}, NEW req \in Fields,
             NewRequest(o, c, kind, req), PlainMoves => Modest(req)
      PROVE  /\ ops'[o].row.params = None
             /\ PlainMoves => Modest(ops'[o].req)
  <2> DEFINE op == [NoOp EXCEPT !.conn = c, !.kind = kind, !.row = rows[c],
                                !.req = req]
             asking == [op EXCEPT !.pc = "learn"]
  <2>1. rows[c] \in Rows
    BY <1>1
  <2>2. /\ op \in OpRecords /\ op.conn = c
        /\ op.row = rows[c] /\ op.req = req
    BY <1>7, <2>1 DEF OpRecords, NoOp, Statuses
  <2>3. /\ asking.row = rows[c] /\ asking.req = req
        /\ Ended(op, "none").pc = "done"
    BY <2>2 DEF OpRecords, Ended
  <2>4. \/ rows[c].params = None /\ ops' = [ops EXCEPT ![o] = asking]
        \/ ops' = [ops EXCEPT ![o] = Ended(op, "none")]
        \/ \E class \in {"A", "B", "C"} : Begin(o, op, rows[c], class)
    <3>1. CanApply(c, rows[c], req, EditClass(rows[c], req))
            => EditClass(rows[c], req) \in {"A", "B", "C"}
      BY PlannedRuns DEF RunsAs
    <3> QED BY <1>7, <3>1 DEF NewRequest
  <2> HIDE DEF op, asking
  <2> QED BY <1>4, <1>5, <1>7, <2>2, <2>3, <2>4
<1>8. ASSUME NEW c \in Conns, RequestOf(o, c)
      PROVE  \E kind \in {"plan", "edit"}, req \in Fields :
               NewRequest(o, c, kind, req) /\ (PlainMoves => Modest(req))
  BY <1>8, RequestModest
<1> QED BY <1>6, <1>7, <1>8

\* A request under way makes no further request.
LEMMA RequestsAreNew ==
  ASSUME EditInv, NEW o \in Ops, Live(o), NEW c \in Conns
  PROVE  ~RequestOf(o, c)
<1> SUFFICES ASSUME RequestOf(o, c) PROVE FALSE
  OBVIOUS
<1>1. o = started + 1
  BY DEF RequestOf, PlanEdit, PutEdit, PutBack, NewRequest
<1>2. ops[o].pc = "none"
  BY <1>1, EditBoundsAssumption DEF EditInv, Requests, Ops
<1> QED BY <1>2 DEF Live

LEMMA OthersGrounded ==
  ASSUME EditInv, NEW o \in Ops, TouchesItsOwn(o),
         NEW q \in Ops, q # o, Live(q), Grounded(ops[q])
  PROVE  Grounded(ops[q])'
<1>1. /\ ops'[q] = ops[q] /\ RowKept(ops[q].conn)
      /\ \A s \in Irans \cap TargetsOf(ops[q]) : peers'[s] = peers[s]
  BY Undisturbed
<1>2. ops[q].row.iran \in Irans
  <2>1. ops[q].pc \in LivePcs
    BY LiveIsPc DEF EditInv
  <2> QED BY <2>1, OpFields
<1>3. peers'[ops[q].row.iran] = peers[ops[q].row.iran]
  BY <1>1, <1>2 DEF TargetsOf
<1>4. NewName(ops[q])' = NewName(ops[q])
  BY <1>1 DEF NewName
<1> QED BY <1>1, <1>3, <1>4 DEF Grounded, RowKept, Addressed

\* After a restart no request is left.
LEMMA Emptied ==
  ASSUME EditInv, Restart, NEW o \in Ops
  PROVE  ops'[o].pc \in {"none", "done"} /\ ~Live(o)'
<1>1. ops \in [Ops -> OpRecords]
  BY DEF EditInv, Requests
<1>2. ops'[o].pc \in {"none", "done"}
  BY <1>1 DEF Restart, Ended, OpRecords
<1> QED BY <1>2 DEF Live

LEMMA GroundStarts ==
  ASSUME Init
  PROVE  GroundInv
<1>1. \A o \in Ops : ops[o].pc = "none"
  BY DEF Init, NoOp
<1> QED BY <1>1 DEF GroundInv, Asking, Live

LEMMA GroundNext ==
  ASSUME EditInv, GroundInv, [Next]_vars
  PROVE  GroundInv'
<1>1. CASE UNCHANGED vars
  BY <1>1 DEF vars, GroundInv, Asking, Grounded, Live, Addressed, NewName
<1>2. CASE Restart
  BY <1>2, Emptied DEF GroundInv, Asking
<1>3. ASSUME NEW o \in Ops, StepOf(o) \/ \E c \in Conns : RequestOf(o, c)
      PROVE  GroundInv'
  <2>1. TouchesItsOwn(o)
    BY <1>3, StepTouches, RequestsTouch
  <2>2. Asking'
    BY <1>3, AskingKeeps DEF GroundInv
  <2>3. ASSUME NEW q \in Ops, q # o, Live(q)', ops'[q].sound
        PROVE  Grounded(ops[q])'
    <3>1. ops'[q] = ops[q]
      BY <2>1, <2>3 DEF TouchesItsOwn
    <3>2. Live(q) /\ Grounded(ops[q])
      BY <2>3, <3>1 DEF GroundInv, Live
    <3> QED BY <2>1, <2>3, <3>2, OthersGrounded
  <2>4. ASSUME Live(o)', ops'[o].sound
        PROVE  Grounded(ops[o])'
    <3>1. CASE Live(o)
      <4>1. StepOf(o)
        BY <1>3, <3>1, RequestsAreNew
      <4> QED BY <2>4, <3>1, <4>1, StepGrounded DEF GroundInv
    <3>2. CASE ~Live(o)
      <4>1. PICK op : /\ BegunAs(ops'[o], op, rows'[op.conn])
                      /\ op.conn \in Conns
        BY <1>3, <2>4, <3>2, BeginsSound DEF GroundInv
      <4> QED BY <2>4, <4>1, BegunGrounded
    <3> QED BY <3>1, <3>2
  <2> QED BY <2>2, <2>3, <2>4 DEF GroundInv
<1> QED BY <1>1, <1>2, <1>3 DEF Next

-----------------------------------------------------------------------------
(* Names are unique, so that a move that keeps its name can commit.        *)

NamesUnique == \A c, d \in Conns : c # d => rows[c].name # rows[d].name

\* gre_routes.name is UNIQUE.
NamesApart == \A c, d \in Conns : c # d => Start[c].name # Start[d].name

LEMMA NamesStart ==
  ASSUME Init, NamesApart
  PROVE  NamesUnique
<1>1. \A c \in Conns : rows[c].name = Start[c].name
  BY StartAssumption DEF Init, Unlearned, KnownRows, RowsWith
<1> QED BY <1>1 DEF NamesApart, NamesUnique

LEMMA NamesNext ==
  ASSUME EditInv, NamesUnique, [Next]_vars
  PROVE  NamesUnique'
<1>1. CASE UNCHANGED vars \/ Restart
  BY <1>1 DEF vars, Restart, NamesUnique
<1>2. ASSUME \A c \in Conns : RowKept(c)
      PROVE  NamesUnique'
  BY <1>2 DEF RowKept, NamesUnique
<1>3. ASSUME NEW o \in Ops, NEW c \in Conns, RequestOf(o, c)
      PROVE  NamesUnique'
  BY <1>2, <1>3, RequestsTouch
<1>4. ASSUME NEW o \in Ops, StepOf(o)
      PROVE  NamesUnique'
  <2>1. CASE ReadPeer(o) \/ Learn(o)
    BY <1>2, <2>1, RequestsTouch
  <2>2. CASE rows' = rows
    BY <2>2 DEF NamesUnique
  <2>3. CASE rows' # rows /\ ~ReadPeer(o) /\ ~Learn(o)
    <3>1. FinishEdit(o) \/ RemoveOldAndCommit(o)
      BY <1>4, <2>3 DEF StepOf, EditNode, EditPeer, CheckTargets,
         MakeNode, AddNode, CheckNode, MakePeer, Cutover, ProvePath, Undo,
         CleanUp, Recheck, Point, Command
    <3>2. ops[o].pc \in LivePcs
      BY <3>1 DEF FinishEdit, RemoveOldAndCommit, LivePcs, EditPcs, MovePcs
    <3>3. ops[o].conn \in Conns /\ ops[o].want \in Rows
      BY <3>2, OpFields
    <3>4. rows \in [Conns -> Rows]
      BY DEF EditInv, Tables
    <3> DEFINE c == ops[o].conn
               w == ops[o].want
    <3>5. NameFree(c, w.name)
      BY <2>3, <3>1 DEF FinishEdit, RemoveOldAndCommit
    <3>6. \/ rows' = [rows EXCEPT ![c] = [w EXCEPT !.peer = w.name,
                        !.iran = rows[c].iran, !.foreign = rows[c].foreign]]
          \/ rows' = [rows EXCEPT ![c] = [w EXCEPT !.peer = w.name]]
      BY <2>3, <3>1 DEF FinishEdit, RemoveOldAndCommit
    <3>7. rows'[c].name = w.name
      BY <3>3, <3>4, <3>6 DEF Rows, KnownRows, RowsWith
    <3>8. \A d \in Conns \ {c} : rows'[d] = rows[d]
      BY <3>4, <3>6
    <3> HIDE DEF c, w
    <3> QED BY <3>5, <3>7, <3>8 DEF NameFree, NamesUnique
  <2> QED BY <2>1, <2>2, <2>3
<1> QED BY <1>1, <1>3, <1>4 DEF Next

\* The name that a plain move commits is its own.
LEMMA PlainNameFree ==
  ASSUME NamesUnique, NEW op, op.conn \in Conns, Grounded(op), Plain(op),
         op.kind = "move"
  PROVE  NameFree(op.conn, op.want.name)
  BY DEF NamesUnique, Grounded, Plain, Renames, NameFree

-----------------------------------------------------------------------------
(* A move of a working connection: which of its two pairs is in place.     *)

\* The side that is not pointed elsewhere stays as it was until the new pair
\* is proved, and the pointed one is never missing.
Moving(op) ==
  /\ ForeignMoves(op) \/ IranMoves(op)
  /\ op.pc \in {"make_node", "add_node", "check_node"} => ForeignMoves(op)
  /\ op.pc = "make_peer" => IranMoves(op)
  /\ IF ForeignMoves(op)
     THEN OldNode(op) /\ peers[op.row.iran][op.cur.peer] # None
     ELSE OldPeer(op) /\ nodes[op.row.foreign][op.cur.peer] # None
  /\ op.pc \notin {"prove", "remove", "undo", "clean_failed"} => OldPair(op)
  /\ op.pc \in {"check_node", "make_peer", "cutover"} /\ ForeignMoves(op) =>
       NewNode(op)
  /\ op.pc = "cutover" /\ IranMoves(op) => NewPeer(op)
  /\ op.pc \in {"prove", "remove"} => NewPair(op)

\* A move that began with a working connection and keeps its name.
PlainMove(o) == Live(o) /\ ops[o].kind = "move" /\ Plain(ops[o])

MoveInv == \A o \in Ops : PlainMove(o) => Moving(ops[o])

LEMMA ConfsAreSome ==
  ASSUME NEW v \in KnownRows
  PROVE  PeerConf(v) # None /\ NodeConf(v) # None
  BY ConfTypes, NoConfAssumption

\* A command on the tables of a server, under one name.
LEMMA TableWritten ==
  ASSUME NEW table, NEW s \in DOMAIN table, NEW n \in DOMAIN table[s], NEW conf
  PROVE  /\ Renamed(table, s, n, n, conf)[s][n] = conf
         /\ \A t \in DOMAIN table \ {s} :
              Renamed(table, s, n, n, conf)[t] = table[t]
         /\ \A k \in DOMAIN table[s] \ {n} :
              Renamed(table, s, n, n, conf)[s][k] = table[s][k]
  BY DEF Renamed

LEMMA TableCleared ==
  ASSUME NEW table, NEW s \in DOMAIN table, NEW n \in DOMAIN table[s]
  PROVE  /\ \A t \in DOMAIN table \ {s} : Without(table, s, n)[t] = table[t]
         /\ \A k \in DOMAIN table[s] \ {n} :
              Without(table, s, n)[s][k] = table[s][k]
  BY DEF Without

LEMMA TableDomains ==
  ASSUME peers \in PeerTables, nodes \in NodeTables
  PROVE  /\ DOMAIN peers = Irans /\ \A s \in Irans : DOMAIN peers[s] = Names
         /\ DOMAIN nodes = Foreigns
         /\ \A s \in Foreigns : DOMAIN nodes[s] = Names
  BY DEF PeerTables, NodeTables

\* What the lemmas on the steps of a move share.
LEMMA MoveFields ==
  ASSUME EditInv, NEW o \in Ops, ops[o].pc \in MovePcs
  PROVE  /\ Live(o) /\ ops[o].kind = "move"
         /\ ops[o].row.iran \in Irans /\ ops[o].want.iran \in Irans
         /\ ops[o].row.foreign \in Foreigns /\ ops[o].want.foreign \in Foreigns
         /\ ops[o].cur.peer \in Names
         /\ peers \in PeerTables /\ nodes \in NodeTables
         /\ \A op : Goes(o, op) => ops'[o] = op
<1>1. ops[o].pc \in LivePcs
  BY DEF LivePcs
<1>2. Requests /\ ops \in [Ops -> OpRecords]
  BY DEF EditInv, Requests
<1>3. ops[o].kind = "move"
  BY <1>2 DEF Requests, Formed
<1>4. \A op : Goes(o, op) => ops'[o] = op
  BY <1>2 DEF Goes
<1> QED BY <1>1, <1>3, <1>4, OpFields

LEMMA Advances ==
  ASSUME EditInv, NEW o \in Ops, ops[o].pc \in MovePcs, NEW pc,
         Goes(o, At(o, pc))
  PROVE  /\ ops'[o].pc = pc /\ ops'[o].row = ops[o].row
         /\ ops'[o].cur = ops[o].cur /\ ops'[o].want = ops[o].want
         /\ ops'[o].kind = ops[o].kind /\ ops'[o].sound = ops[o].sound
         /\ ops'[o].conn = ops[o].conn
<1> DEFINE next == At(o, pc)
<1>1. /\ next.pc = pc /\ next.kind = ops[o].kind
      /\ next.conn = ops[o].conn /\ next.row = ops[o].row
      /\ next.cur = ops[o].cur /\ next.want = ops[o].want
      /\ next.sound = ops[o].sound
  BY AtFields
<1>2. ops'[o] = next
  BY MoveFields DEF next
<1> HIDE DEF next
<1> QED BY <1>1, <1>2

\* The checks: nothing is written.
LEMMA QuietMoves ==
  ASSUME EditInv, NEW o \in Ops, Moving(ops[o]),
         CheckTargets(o) \/ CheckNode(o) \/ ProvePath(o)
  PROVE  Moving(ops[o])' /\ (OldPair(ops[o]) => OldPair(ops[o])')
<1>1. ops[o].pc \in MovePcs
  BY DEF CheckTargets, CheckNode, ProvePath, MovePcs
<1>2. /\ UNCHANGED <<peers, nodes>>
      /\ \E pc : /\ Goes(o, At(o, pc))
                 /\ \/ /\ ops[o].pc = "preflight"
                       /\ pc = IF ForeignMoves(ops[o]) THEN "make_node"
                               ELSE "make_peer"
                    \/ /\ ops[o].pc = "check_node"
                       /\ pc = IF IranMoves(ops[o]) THEN "make_peer"
                               ELSE "cutover"
                    \/ ops[o].pc = "prove" /\ pc = "remove"
                    \/ pc = "undo"
  BY DEF CheckTargets, CheckNode, ProvePath
<1>3. PICK pc : /\ Goes(o, At(o, pc))
                /\ \/ /\ ops[o].pc = "preflight"
                      /\ pc = IF ForeignMoves(ops[o]) THEN "make_node"
                              ELSE "make_peer"
                   \/ /\ ops[o].pc = "check_node"
                      /\ pc = IF IranMoves(ops[o]) THEN "make_peer"
                              ELSE "cutover"
                   \/ ops[o].pc = "prove" /\ pc = "remove"
                   \/ pc = "undo"
  BY <1>2
<1>4. /\ ops'[o].pc = pc /\ ops'[o].row = ops[o].row
      /\ ops'[o].cur = ops[o].cur /\ ops'[o].want = ops[o].want
  BY <1>1, <1>3, Advances
<1> QED BY <1>2, <1>3, <1>4 DEF Moving, OldPair, NewPair, OldPeer, OldNode,
        NewPeer, NewNode, ForeignMoves, IranMoves

\* Node edit, or node add when it fails, on the new FOREIGN server.
LEMMA NodeMoves ==
  ASSUME EditInv, NEW o \in Ops, Moving(ops[o]), MakeNode(o) \/ AddNode(o)
  PROVE  Moving(ops[o])' /\ (OldPair(ops[o]) => OldPair(ops[o])')
<1> DEFINE op == ops[o]
           n == op.cur.peer
           s == op.want.foreign
           conf == NodeConf(op.want)
           new == Renamed(nodes, s, n, n, conf)
<1>1. op.pc \in MovePcs /\ op.pc \in {"make_node", "add_node"}
  BY DEF MakeNode, AddNode, MovePcs
<1>2. /\ s \in Foreigns /\ op.row.foreign \in Foreigns /\ n \in Names
      /\ peers \in PeerTables /\ nodes \in NodeTables
  BY <1>1, MoveFields
<1>3. /\ peers' = peers
      /\ \/ nodes' = new \/ nodes' = nodes
      /\ \E pc : /\ Goes(o, At(o, pc))
                 /\ \/ pc = "check_node" /\ nodes' = new
                    \/ pc = "add_node" \/ pc = "undo"
  BY DEF MakeNode, AddNode, Command
<1>4. PICK pc : /\ Goes(o, At(o, pc))
                /\ \/ pc = "check_node" /\ nodes' = new
                   \/ pc = "add_node" \/ pc = "undo"
  BY <1>3
<1>5. /\ ops'[o].pc = pc /\ ops'[o].row = op.row
      /\ ops'[o].cur = op.cur /\ ops'[o].want = op.want
  BY <1>1, <1>4, Advances
<1>6. ForeignMoves(op)
  BY <1>1 DEF Moving
<1>7. new[s][n] = conf /\ \A t \in Foreigns \ {s} : new[t] = nodes[t]
  <2> HIDE DEF op, n, s, conf
  <2> QED BY <1>2, TableWritten, TableDomains
<1> HIDE DEF new
<1>8. nodes'[op.row.foreign] = nodes[op.row.foreign]
  BY <1>2, <1>3, <1>6, <1>7 DEF ForeignMoves
<1>9. pc = "check_node" => nodes'[s][n] = conf
  BY <1>4, <1>7
<1> QED BY <1>1, <1>3, <1>4, <1>5, <1>6, <1>8, <1>9 DEF Moving, OldPair,
        NewPair, OldPeer, OldNode, NewPeer, NewNode, ForeignMoves, IranMoves

\* Peer add on the new IRAN server.
LEMMA PeerMoves ==
  ASSUME EditInv, NEW o \in Ops, Moving(ops[o]), MakePeer(o)
  PROVE  Moving(ops[o])' /\ (OldPair(ops[o]) => OldPair(ops[o])')
<1> DEFINE op == ops[o]
           n == op.cur.peer
           s == op.want.iran
           conf == PeerConf(op.want)
           new == Renamed(peers, s, n, n, conf)
<1>1. op.pc \in MovePcs /\ op.pc = "make_peer"
  BY DEF MakePeer, MovePcs
<1>2. /\ s \in Irans /\ op.row.iran \in Irans /\ n \in Names
      /\ peers \in PeerTables /\ nodes \in NodeTables
  BY <1>1, MoveFields
<1>3. /\ nodes' = nodes
      /\ \/ peers' = new \/ peers' = peers
      /\ \E pc : /\ Goes(o, At(o, pc))
                 /\ (pc = "cutover" /\ peers' = new) \/ pc = "undo"
  BY DEF MakePeer, Command
<1>4. PICK pc : /\ Goes(o, At(o, pc))
                /\ (pc = "cutover" /\ peers' = new) \/ pc = "undo"
  BY <1>3
<1>5. /\ ops'[o].pc = pc /\ ops'[o].row = op.row
      /\ ops'[o].cur = op.cur /\ ops'[o].want = op.want
  BY <1>1, <1>4, Advances
<1>6. IranMoves(op)
  BY <1>1 DEF Moving
<1>7. new[s][n] = conf /\ \A t \in Irans \ {s} : new[t] = peers[t]
  <2> HIDE DEF op, n, s, conf
  <2> QED BY <1>2, TableWritten, TableDomains
<1> HIDE DEF new
<1>8. peers'[op.row.iran] = peers[op.row.iran]
  BY <1>2, <1>3, <1>6, <1>7 DEF IranMoves
<1>9. pc = "cutover" => peers'[s][n] = conf
  BY <1>4, <1>7
<1> QED BY <1>1, <1>3, <1>4, <1>5, <1>6, <1>8, <1>9 DEF Moving, OldPair,
        NewPair, OldPeer, OldNode, NewPeer, NewNode, ForeignMoves, IranMoves

\* What pointing the old pair at v writes, if it writes.
PointedAt(o, v) ==
  LET op == ops[o]  n == op.cur.peer
  IN IF ForeignMoves(op)
     THEN /\ peers'[op.row.iran][n] = PeerConf(v) /\ nodes' = nodes
          /\ \A t \in Irans \ {op.row.iran} : peers'[t] = peers[t]
     ELSE /\ nodes'[op.row.foreign][n] = NodeConf(v) /\ peers' = peers
          /\ \A t \in Foreigns \ {op.row.foreign} : nodes'[t] = nodes[t]

\* What the command that points the old pair at v is refused for.
CanPoint(o, v) ==
  LET op == ops[o]  n == op.cur.peer
  IN IF ForeignMoves(op) THEN CanEditPeer(op.row.iran, n, n, PeerConf(v))
     ELSE CanEditNode(op.row.foreign, n, n, NodeConf(v))

LEMMA Points ==
  ASSUME EditInv, NEW o \in Ops, ops[o].pc \in MovePcs, NEW v, NEW ok,
         NEW failed, Point(o, v, At(o, ok), At(o, failed))
  PROVE  \/ Goes(o, At(o, ok)) /\ PointedAt(o, v) /\ UNCHANGED faults
         \/ Goes(o, At(o, failed)) /\ PointedAt(o, v) /\ Fault
         \/ /\ Goes(o, At(o, failed)) /\ UNCHANGED <<peers, nodes>>
            /\ IF CanPoint(o, v) THEN Fault ELSE UNCHANGED faults
<1> DEFINE op == ops[o]
           n == op.cur.peer
           i == op.row.iran
           f == op.row.foreign
           newPeers == Renamed(peers, i, n, n, PeerConf(v))
           newNodes == Renamed(nodes, f, n, n, NodeConf(v))
<1>1. /\ i \in Irans /\ f \in Foreigns /\ n \in Names
      /\ peers \in PeerTables /\ nodes \in NodeTables
  BY MoveFields
<1>2. /\ newPeers[i][n] = PeerConf(v)
      /\ \A t \in Irans \ {i} : newPeers[t] = peers[t]
  <2> HIDE DEF op, n, i
  <2> QED BY <1>1, TableWritten, TableDomains
<1>3. /\ newNodes[f][n] = NodeConf(v)
      /\ \A t \in Foreigns \ {f} : newNodes[t] = nodes[t]
  <2> HIDE DEF op, n, f
  <2> QED BY <1>1, TableWritten, TableDomains
<1>4. IF ForeignMoves(op)
      THEN Command(o, CanEditPeer(i, n, n, PeerConf(v)), newPeers, nodes,
                   At(o, ok), At(o, failed))
      ELSE Command(o, CanEditNode(f, n, n, NodeConf(v)), peers, newNodes,
                   At(o, ok), At(o, failed))
  BY DEF Point
<1> HIDE DEF newPeers, newNodes
<1> QED BY <1>2, <1>3, <1>4 DEF Command, PointedAt, CanPoint

LEMMA CutoverMoves ==
  ASSUME EditInv, NEW o \in Ops, Moving(ops[o]), Grounded(ops[o]), Cutover(o)
  PROVE  Moving(ops[o])'
<1> DEFINE op == ops[o]
<1>1. op.pc \in MovePcs /\ op.pc = "cutover"
  BY DEF Cutover, MovePcs
<1>2. /\ op.want.iran \in Irans /\ op.row.iran \in Irans
      /\ op.want.foreign \in Foreigns /\ op.row.foreign \in Foreigns
  BY <1>1, MoveFields
<1>3. Point(o, op.want, At(o, "prove"), At(o, "undo"))
  BY DEF Cutover
<1>4. PICK pc : /\ Goes(o, At(o, pc))
                /\ \/ pc = "prove" /\ PointedAt(o, op.want)
                   \/ /\ pc = "undo"
                      /\ PointedAt(o, op.want) \/ UNCHANGED <<peers, nodes>>
  BY <1>1, <1>3, Points
<1>5. /\ ops'[o].pc = pc /\ ops'[o].row = op.row
      /\ ops'[o].cur = op.cur /\ ops'[o].want = op.want
  BY <1>1, <1>4, Advances
<1>6. PeerConf(op.want) # None /\ NodeConf(op.want) # None
  BY ConfsAreSome DEF Grounded
<1>7. CASE UNCHANGED <<peers, nodes>>
  <2>1. pc # "prove" => Moving(ops[o])'
    BY <1>1, <1>4, <1>5, <1>7 DEF Moving, OldPair, OldPeer, OldNode,
       ForeignMoves, IranMoves
  <2>2. PointedAt(o, op.want) => Moving(ops[o])'
    BY <1>1, <1>2, <1>4, <1>5, <1>6, <1>7 DEF Moving, OldPair, NewPair,
       OldPeer, OldNode, NewPeer, NewNode, ForeignMoves, IranMoves, PointedAt
  <2> QED BY <1>4, <2>1, <2>2
<1>8. CASE PointedAt(o, op.want)
  BY <1>1, <1>2, <1>4, <1>5, <1>6, <1>8 DEF Moving, OldPair, NewPair,
     OldPeer, OldNode, NewPeer, NewNode, ForeignMoves, IranMoves, PointedAt
<1> QED BY <1>4, <1>7, <1>8

LEMMA UndoMoves ==
  ASSUME EditInv, NEW o \in Ops, Moving(ops[o]), Grounded(ops[o]), Undo(o)
  PROVE  Moving(ops[o])'
<1> DEFINE op == ops[o]
<1>1. op.pc \in MovePcs /\ op.pc = "undo"
  BY DEF Undo, MovePcs
<1>2. Point(o, op.cur, At(o, "clean"), At(o, "clean_failed"))
  BY DEF Undo
<1>3. PICK pc : /\ Goes(o, At(o, pc))
                /\ \/ pc = "clean" /\ PointedAt(o, op.cur)
                   \/ /\ pc = "clean_failed"
                      /\ PointedAt(o, op.cur) \/ UNCHANGED <<peers, nodes>>
  BY <1>1, <1>2, Points
<1>4. /\ ops'[o].pc = pc /\ ops'[o].row = op.row
      /\ ops'[o].cur = op.cur /\ ops'[o].want = op.want
  BY <1>1, <1>3, Advances
<1>5. PeerConf(op.cur) # None /\ NodeConf(op.cur) # None
  BY ConfsAreSome DEF Grounded
<1>6. CASE PointedAt(o, op.cur)
  BY <1>3, <1>4, <1>5, <1>6 DEF Moving, OldPair, OldPeer, OldNode,
     ForeignMoves, IranMoves, PointedAt
<1>7. CASE UNCHANGED <<peers, nodes>> /\ pc = "clean_failed"
  BY <1>4, <1>7 DEF Moving, OldPair, OldPeer, OldNode, ForeignMoves, IranMoves
<1> QED BY <1>3, <1>6, <1>7

\* The new side is another server than the old one.
LEMMA CleanUpMoves ==
  ASSUME EditInv, NEW o \in Ops, Moving(ops[o]), CleanUp(o), Live(o)'
  PROVE  Moving(ops[o])'
<1> DEFINE op == ops[o]
           n == op.cur.peer
           i == op.want.iran
           f == op.want.foreign
<1>1. op.pc \in MovePcs /\ op.pc \in {"clean", "clean_failed"}
  BY DEF CleanUp, MovePcs
<1>2. /\ i \in Irans /\ op.row.iran \in Irans /\ n \in Names
      /\ f \in Foreigns /\ op.row.foreign \in Foreigns
      /\ peers \in PeerTables /\ nodes \in NodeTables
  BY <1>1, MoveFields
<1>3. Ended(op, "ROLLBACK_FAILED").pc = "done"
  BY DEF Ended, OpRecords, EditInv, Requests
<1>4. op.pc = "clean" /\ Goes(o, At(o, "recheck"))
  BY <1>1, <1>3, MoveFields DEF CleanUp, Live
<1>5. /\ ops'[o].pc = "recheck" /\ ops'[o].row = op.row
      /\ ops'[o].cur = op.cur /\ ops'[o].want = op.want
  BY <1>1, <1>4, Advances
<1>6. \/ UNCHANGED <<peers, nodes>>
      \/ ForeignMoves(op) /\ nodes' = Without(nodes, f, n) /\ UNCHANGED peers
      \/ ~ForeignMoves(op) /\ peers' = Without(peers, i, n) /\ UNCHANGED nodes
  BY DEF CleanUp
<1>7. \A t \in Foreigns \ {f} : Without(nodes, f, n)[t] = nodes[t]
  <2> HIDE DEF op, n, f
  <2> QED BY <1>2, TableCleared, TableDomains
<1>8. \A t \in Irans \ {i} : Without(peers, i, n)[t] = peers[t]
  <2> HIDE DEF op, n, i
  <2> QED BY <1>2, TableCleared, TableDomains
<1>9. /\ nodes'[op.row.foreign] = nodes[op.row.foreign]
      /\ peers'[op.row.iran] = peers[op.row.iran]
  BY <1>2, <1>6, <1>7, <1>8 DEF Moving, ForeignMoves, IranMoves
<1> QED BY <1>4, <1>5, <1>9 DEF Moving, OldPair, OldPeer, OldNode,
        ForeignMoves, IranMoves

LEMMA StepMoves ==
  ASSUME EditInv, NamesUnique, NEW o \in Ops, ops[o].pc \in MovePcs,
         Plain(ops[o]), Moving(ops[o]), Grounded(ops[o]), StepOf(o), Live(o)'
  PROVE  Moving(ops[o])'
<1>1. ops[o] \in OpRecords /\ ops \in [Ops -> OpRecords]
  BY DEF EditInv, Requests
<1>2. /\ ~ReadPeer(o) /\ ~Learn(o) /\ ~EditNode(o) /\ ~EditPeer(o)
      /\ ~FinishEdit(o)
  BY DEF ReadPeer, Learn, EditNode, EditPeer, FinishEdit, MovePcs
<1>3. \A status : ~Goes(o, Ended(ops[o], status))
  BY <1>1 DEF Goes, Ended, OpRecords, Live
<1>4. ~Recheck(o)
  BY <1>3 DEF Recheck
<1>5. ~RemoveOldAndCommit(o)
  <2>1. ops[o].conn \in Conns /\ ops[o].kind = "move"
    <3>1. ops[o].pc \in LivePcs
      BY DEF LivePcs
    <3> QED BY <3>1, OpFields, MoveFields
  <2>2. NameFree(ops[o].conn, ops[o].want.name)
    BY <2>1, PlainNameFree
  <2> QED BY <1>3, <2>2 DEF RemoveOldAndCommit
<1> QED BY <1>2, <1>4, <1>5, QuietMoves, NodeMoves, PeerMoves, CutoverMoves,
        UndoMoves, CleanUpMoves DEF StepOf

LEMMA OthersMoving ==
  ASSUME EditInv, NEW o \in Ops, TouchesItsOwn(o),
         NEW q \in Ops, q # o, Live(q), Moving(ops[q])
  PROVE  Moving(ops[q])'
<1>1. /\ ops'[q] = ops[q]
      /\ \A s \in Irans \cap TargetsOf(ops[q]) : peers'[s] = peers[s]
      /\ \A s \in Foreigns \cap TargetsOf(ops[q]) : nodes'[s] = nodes[s]
  BY Undisturbed
<1>2. /\ ops[q].row.iran \in Irans /\ ops[q].want.iran \in Irans
      /\ ops[q].row.foreign \in Foreigns /\ ops[q].want.foreign \in Foreigns
  <2>1. ops[q].pc \in LivePcs
    BY LiveIsPc DEF EditInv
  <2> QED BY <2>1, OpFields
<1>3. /\ peers'[ops[q].row.iran] = peers[ops[q].row.iran]
      /\ peers'[ops[q].want.iran] = peers[ops[q].want.iran]
      /\ nodes'[ops[q].row.foreign] = nodes[ops[q].row.foreign]
      /\ nodes'[ops[q].want.foreign] = nodes[ops[q].want.foreign]
  BY <1>1, <1>2 DEF TargetsOf
<1> QED BY <1>1, <1>3 DEF Moving, OldPair, NewPair, OldPeer, OldNode, NewPeer,
        NewNode, ForeignMoves, IranMoves

LEMMA BegunMoving ==
  ASSUME EditInv, NEW o \in Ops, NEW op, NEW cur, BegunAs(ops'[o], op, cur),
         ops'[o].sound, ops'[o].kind = "move", UNCHANGED <<peers, nodes>>
  PROVE  Moving(ops[o])'
<1>1. /\ ops'[o].row = op.row /\ ops'[o].cur = cur
      /\ ops'[o].pc = "preflight" /\ cur \in KnownRows /\ InPlace(cur)
      /\ cur.iran = op.row.iran /\ cur.foreign = op.row.foreign
      /\ ops'[o].want.iran # cur.iran \/ ops'[o].want.foreign # cur.foreign
  BY DEF BegunAs, Works
<1>2. PeerConf(cur) # None /\ NodeConf(cur) # None
  BY <1>1, ConfsAreSome
<1> QED BY <1>1, <1>2 DEF Moving, OldPair, OldPeer, OldNode, InPlace,
        ForeignMoves, IranMoves

\* A live move is at a step of a move.
LEMMA PlainMovePc ==
  ASSUME EditInv, NEW o \in Ops, PlainMove(o)
  PROVE  ops[o].pc \in MovePcs
  BY LiveIsPc DEF EditInv, Requests, Formed, PlainMove, LivePcs

\* What a plain move was before it went on.
LEMMA PlainBefore ==
  ASSUME EditInv, NEW o \in Ops, Live(o), StepOf(o), PlainMove(o)'
  PROVE  PlainMove(o)
<1>1. PICK pc : ops'[o] = At(o, pc)
  BY GoesOn DEF PlainMove
<1> DEFINE next == At(o, pc)
<1>2. /\ next.kind = ops[o].kind /\ next.sound = ops[o].sound
      /\ next.cur = ops[o].cur /\ next.want = ops[o].want
  BY AtFields
<1> HIDE DEF next
<1>3. ops'[o] = next
  BY <1>1 DEF next
<1> QED BY <1>2, <1>3 DEF PlainMove, Plain, Renames

LEMMA MoveStarts ==
  ASSUME Init
  PROVE  MoveInv
<1>1. \A o \in Ops : ops[o].pc = "none"
  BY DEF Init, NoOp
<1> QED BY <1>1 DEF MoveInv, PlainMove, Live

LEMMA MoveNext ==
  ASSUME EditInv, GroundInv, NamesUnique, MoveInv, [Next]_vars
  PROVE  MoveInv'
<1>1. CASE UNCHANGED vars
  BY <1>1 DEF vars, MoveInv, PlainMove, Plain, Renames, Live, Moving, OldPair,
     NewPair, OldPeer, OldNode, NewPeer, NewNode, ForeignMoves, IranMoves
<1>2. CASE Restart
  BY <1>2, Emptied DEF MoveInv, PlainMove
<1>3. ASSUME NEW o \in Ops, StepOf(o) \/ \E c \in Conns : RequestOf(o, c)
      PROVE  MoveInv'
  <2>1. TouchesItsOwn(o)
    BY <1>3, StepTouches, RequestsTouch
  <2>2. ASSUME NEW q \in Ops, q # o, PlainMove(q)'
        PROVE  Moving(ops[q])'
    <3>1. ops'[q] = ops[q]
      BY <2>1, <2>2 DEF TouchesItsOwn
    <3>2. PlainMove(q)
      BY <2>2, <3>1 DEF PlainMove, Plain, Renames, Live
    <3>3. Live(q) /\ Moving(ops[q])
      BY <3>2 DEF MoveInv, PlainMove
    <3> QED BY <2>1, <2>2, <3>3, OthersMoving
  <2>3. ASSUME PlainMove(o)'
        PROVE  Moving(ops[o])'
    <3>1. /\ Live(o)' /\ ops'[o].sound /\ ops'[o].kind = "move"
      BY <2>3 DEF PlainMove, Plain
    <3>2. CASE Live(o)
      <4>1. StepOf(o)
        BY <1>3, <3>2, RequestsAreNew
      <4>2. PlainMove(o)
        BY <2>3, <3>2, <4>1, PlainBefore
      <4>3. /\ ops[o].pc \in MovePcs /\ Plain(ops[o])
            /\ Moving(ops[o]) /\ Grounded(ops[o])
        BY <4>2, PlainMovePc DEF PlainMove, Plain, MoveInv, GroundInv
      <4> QED BY <3>1, <4>1, <4>3, StepMoves
    <3>3. CASE ~Live(o)
      <4>1. /\ UNCHANGED <<peers, nodes>>
            /\ \E op : BegunAs(ops'[o], op, rows'[op.conn])
        BY <1>3, <3>1, <3>3, BeginsSound DEF GroundInv
      <4> QED BY <3>1, <4>1, BegunMoving
    <3> QED BY <3>2, <3>3
  <2> QED BY <2>2, <2>3 DEF MoveInv
<1> QED BY <1>1, <1>2, <1>3 DEF Next

-----------------------------------------------------------------------------
(* How operations end.                                                     *)

LEMMA BeginStatus ==
  ASSUME NEW o \in Ops, NEW op \in OpRecords, NEW cur, NEW class,
         ops \in [Ops -> OpRecords], Begin(o, op, cur, class)
  PROVE  ops'[o].status \in {"RUNNING", "REJECTED"}
<1> DEFINE w    == Wanted(cur, op.req)
           move == class = "C"
           to   == [w EXCEPT !.iran = IF move THEN @ ELSE op.row.iran,
                       !.foreign = IF move THEN @ ELSE op.row.foreign,
                       !.iranIp = IF move /\ w.iran # op.row.iran
                                  THEN w.iran ELSE @,
                       !.foreignIp = IF move /\ w.foreign # op.row.foreign
                                     THEN w.foreign ELSE @]
           sound == /\ cur.iran = op.row.iran /\ cur.foreign = op.row.foreign
                    /\ Works(cur)
           kind == IF move THEN "move" ELSE "edit"
           pc   == CASE class = "A" -> "peer" [] class = "B" -> "node"
                     [] class = "C" -> "preflight"
           b    == [op EXCEPT
             !.kind = kind, !.pc = pc,
             !.status = "RUNNING", !.seen = None, !.req = NoFields,
             !.cur = cur, !.want = to, !.sound = sound]
<1>1. Acquire(o, b)
  BY DEF Begin
<1> HIDE DEF w, to, sound, kind, pc
<1>2. b.status = "RUNNING" /\ Ended(b, "REJECTED").status = "REJECTED"
  BY DEF OpRecords, Ended
<1> HIDE DEF b
<1> QED BY <1>1, <1>2 DEF Acquire

\* Only its own last step gives an operation its outcome.
LEMMA EndsBy ==
  ASSUME EditInv, [Next]_vars, NEW o \in Ops,
         NEW status \in {"SUCCEEDED", "ROLLED_BACK"}, Ends(o, status)
  PROVE  /\ Goes(o, Ended(ops[o], status))
         /\ \/ status = "ROLLED_BACK" /\ Recheck(o)
            \/ status = "SUCCEEDED" /\ (FinishEdit(o) \/ RemoveOldAndCommit(o))
<1>1. ops \in [Ops -> OpRecords] /\ ops[o] \in OpRecords
  BY DEF EditInv, Requests
<1>2. ops'[o].status = status /\ ops'[o].status # ops[o].status
  BY DEF Ends
<1>3. ~UNCHANGED vars
  BY <1>2 DEF vars
<1>4. ~Restart
  <2> SUFFICES ASSUME Restart PROVE FALSE
    OBVIOUS
  <2>1. ops'[o].status = ops[o].status
    BY <1>1 DEF Restart, Ended, OpRecords
  <2> QED BY <1>2, <2>1
<1>5. \A op : ops' = [ops EXCEPT ![o] = op] => ops'[o] = op
  BY <1>1
<1>6. \A s : Ended(ops[o], s).status = s
  BY <1>1 DEF Ended, OpRecords
<1>7. ASSUME NEW c \in Conns, RequestOf(o, c)
      PROVE  FALSE
  <2>1. PICK kind \in {"plan", "edit"}, req \in Fields :
          NewRequest(o, c, kind, req)
    BY <1>7, RequestModest
  <2> DEFINE op == [NoOp EXCEPT !.conn = c, !.kind = kind, !.row = rows[c],
                                !.req = req]
             asking == [op EXCEPT !.pc = "learn"]
  <2>2. rows[c] \in Rows
    BY DEF EditInv, Tables
  <2>3. op \in OpRecords /\ op.status = "none"
    BY <2>2 DEF OpRecords, NoOp, Statuses
  <2>4. asking.status = "none" /\ Ended(op, "none").status = "none"
    BY <2>3 DEF OpRecords, Ended
  <2>5. \/ ops' = [ops EXCEPT ![o] = asking]
        \/ ops' = [ops EXCEPT ![o] = Ended(op, "none")]
        \/ \E cur, class : Begin(o, op, cur, class)
    BY <2>1 DEF NewRequest
  <2> HIDE DEF op, asking
  <2> QED BY <1>1, <1>2, <1>5, <2>3, <2>4, <2>5, BeginStatus
<1>8. ASSUME NEW q \in Ops, q # o, StepOf(q) \/ \E c \in Conns : RequestOf(q, c)
      PROVE  FALSE
  <2>1. ops'[o] = ops[o]
    BY <1>8, StepTouches, RequestsTouch DEF TouchesItsOwn
  <2> QED BY <1>2, <2>1
<1>9. StepOf(o)
  BY <1>3, <1>4, <1>7, <1>8 DEF Next
<1>10. ~ReadPeer(o)
  <2> SUFFICES ASSUME ReadPeer(o) PROVE FALSE
    OBVIOUS
  <2>1. ops'[o].status = ops[o].status
    BY <1>1 DEF ReadPeer, OpRecords
  <2> QED BY <1>2, <2>1
<1>11. ~Learn(o)
  <2> SUFFICES ASSUME Learn(o) PROVE FALSE
    OBVIOUS
  <2>1. \/ ops' = [ops EXCEPT ![o] = Ended(ops[o], "none")]
        \/ \E cur, class : Begin(o, ops[o], cur, class)
    BY DEF Learn
  <2> QED BY <1>1, <1>2, <1>5, <1>6, <2>1, BeginStatus
<1>12. \A pc : ~Goes(o, At(o, pc))
  <2> SUFFICES ASSUME NEW pc, Goes(o, At(o, pc)) PROVE FALSE
    OBVIOUS
  <2>1. ops'[o].status = ops[o].status
    BY <1>1 DEF Goes, At, OpRecords
  <2> QED BY <1>2, <2>1
<1>13. \A s : Goes(o, Ended(ops[o], s)) => s = status
  BY <1>2, <1>5, <1>6 DEF Goes
<1>14. ~Goes(o, EditFailed(o))
  BY <1>13 DEF EditFailed
<1>15. /\ ~EditNode(o) /\ ~EditPeer(o) /\ ~CheckTargets(o) /\ ~MakeNode(o)
       /\ ~AddNode(o) /\ ~CheckNode(o) /\ ~MakePeer(o) /\ ~Cutover(o)
       /\ ~ProvePath(o) /\ ~Undo(o)
  BY <1>12, <1>14 DEF EditNode, EditPeer, CheckTargets, MakeNode, AddNode,
     CheckNode, MakePeer, Cutover, ProvePath, Undo, Point, Command
<1>16. ~CleanUp(o)
  BY <1>12, <1>13 DEF CleanUp
<1>17. CASE Recheck(o)
  BY <1>13, <1>17 DEF Recheck
<1>18. CASE FinishEdit(o)
  BY <1>13, <1>14, <1>18 DEF FinishEdit
<1>19. CASE RemoveOldAndCommit(o)
  BY <1>12, <1>13, <1>19 DEF RemoveOldAndCommit
<1> QED BY <1>9, <1>10, <1>11, <1>15, <1>16, <1>17, <1>18, <1>19 DEF StepOf

-----------------------------------------------------------------------------
(* What the outcomes mean.                                                 *)

WorkInv == EditInv /\ GroundInv /\ NamesUnique /\ MoveInv

THEOREM WorkInvariant ==
  ASSUME NamesApart
  PROVE  Spec => []WorkInv
<1>1. Init => WorkInv
  BY InitKeeps, GroundStarts, NamesStart, MoveStarts DEF WorkInv
<1>2. WorkInv /\ [Next]_vars => WorkInv'
  BY NextKeeps, GroundNext, NamesNext, MoveNext DEF WorkInv
<1> QED BY <1>1, <1>2, PTL DEF Spec

LEMMA RolledBackInPlace ==
  ASSUME WorkInv, [Next]_vars, NEW o \in Ops,
         Ends(o, "ROLLED_BACK"), Plain(ops[o])
  PROVE  InPlace(ops[o].cur)'
<1>1. EditInv /\ Recheck(o) /\ Goes(o, Ended(ops[o], "ROLLED_BACK"))
  BY EndsBy DEF WorkInv
<1>2. ops[o].pc = "recheck" /\ ops[o].pc \in MovePcs
  BY <1>1 DEF Recheck, MovePcs
<1>3. Live(o) /\ ops[o].kind = "move"
  BY <1>1, <1>2, MoveFields
<1>4. Grounded(ops[o]) /\ Moving(ops[o])
  BY <1>3 DEF WorkInv, GroundInv, MoveInv, PlainMove, Plain
<1>5. OldPair(ops[o])
  BY <1>2, <1>4 DEF Moving
<1>6. InPlace(ops[o].cur)
  BY <1>4, <1>5 DEF Grounded, OldPair, OldPeer, OldNode, InPlace
<1>7. ops'[o].cur = ops[o].cur
  BY <1>1 DEF Goes, Ended, OpRecords, EditInv, Requests
<1>8. peers' = peers /\ nodes' = nodes
  BY <1>1 DEF Recheck
<1> QED BY <1>6, <1>7, <1>8 DEF InPlace

\* migrate's rollback: a move of a working connection that reports
\* ROLLED_BACK has both sides of the old pair as they were, although only the
\* IRAN side is read back; with any number of lost replies, failed commands,
\* restarts and other requests.
THEOREM RollbacksRestore ==
  ASSUME NamesApart
  PROVE  Spec => CleanRollback
<1>1. WorkInv /\ [Next]_vars =>
        [\A o \in Ops : Ends(o, "ROLLED_BACK") /\ Plain(ops[o]) =>
           InPlace(ops[o].cur)']_vars
  BY RolledBackInPlace
<1> QED BY <1>1, WorkInvariant, PTL DEF Spec, CleanRollback

\* A connection is recorded under the name its peer and node have.
PeerIsName == \A c \in Conns : Start[c].peer = Start[c].name

NamedAlike == \A c \in Conns : rows[c].peer = rows[c].name

LEMMA AlikeStarts ==
  ASSUME Init, PeerIsName
  PROVE  NamedAlike
<1>1. \A c \in Conns : /\ rows[c].name = Start[c].name
                       /\ rows[c].peer = Start[c].peer
  BY StartAssumption DEF Init, Unlearned, KnownRows, RowsWith
<1> QED BY <1>1 DEF PeerIsName, NamedAlike

LEMMA AlikeNext ==
  ASSUME EditInv, NamedAlike, [Next]_vars
  PROVE  NamedAlike'
<1>1. CASE UNCHANGED vars \/ Restart
  BY <1>1 DEF vars, Restart, NamedAlike
<1>2. ASSUME \A c \in Conns : RowKept(c)
      PROVE  NamedAlike'
  BY <1>2 DEF RowKept, NamedAlike
<1>3. ASSUME NEW o \in Ops, NEW c \in Conns, RequestOf(o, c)
      PROVE  NamedAlike'
  BY <1>2, <1>3, RequestsTouch
<1>4. ASSUME NEW o \in Ops, StepOf(o)
      PROVE  NamedAlike'
  <2>1. CASE ReadPeer(o) \/ Learn(o)
    BY <1>2, <2>1, RequestsTouch
  <2>2. CASE rows' = rows
    BY <2>2 DEF NamedAlike
  <2>3. CASE FinishEdit(o) \/ RemoveOldAndCommit(o)
    <3> DEFINE c == ops[o].conn
               w == ops[o].want
    <3>1. ops[o].pc \in LivePcs
      BY <2>3 DEF FinishEdit, RemoveOldAndCommit, LivePcs, EditPcs, MovePcs
    <3>2. c \in Conns /\ w \in Rows /\ rows \in [Conns -> Rows]
      BY <3>1, OpFields DEF EditInv, Tables
    <3>3. \/ rows' = rows
          \/ rows' = [rows EXCEPT ![c] = [w EXCEPT !.peer = w.name,
                        !.iran = rows[c].iran, !.foreign = rows[c].foreign]]
          \/ rows' = [rows EXCEPT ![c] = [w EXCEPT !.peer = w.name]]
      BY <2>3 DEF FinishEdit, RemoveOldAndCommit
    <3>4. CASE rows' # rows
      <4> HIDE DEF c, w
      <4>1. rows'[c].peer = rows'[c].name
        <5>1. CASE rows' = [rows EXCEPT ![c] = [w EXCEPT !.peer = w.name,
                     !.iran = rows[c].iran, !.foreign = rows[c].foreign]]
          <6>1. rows'[c] = [w EXCEPT !.peer = w.name, !.iran = rows[c].iran,
                                     !.foreign = rows[c].foreign]
            BY <3>2, <5>1
          <6> QED BY <3>2, <6>1 DEF Rows, KnownRows, RowsWith
        <5>2. CASE rows' = [rows EXCEPT ![c] = [w EXCEPT !.peer = w.name]]
          <6>1. rows'[c] = [w EXCEPT !.peer = w.name]
            BY <3>2, <5>2
          <6> QED BY <3>2, <6>1 DEF Rows, KnownRows, RowsWith
        <5> QED BY <3>3, <3>4, <5>1, <5>2
      <4>2. \A d \in Conns \ {c} : rows'[d] = rows[d]
        BY <3>2, <3>3
      <4> QED BY <4>1, <4>2 DEF NamedAlike
    <3> QED BY <2>2, <3>4
  <2> QED BY <1>4, <2>1, <2>2, <2>3 DEF StepOf, EditNode, EditPeer,
          CheckTargets, MakeNode, AddNode, CheckNode, MakePeer, Cutover,
          ProvePath, Undo, CleanUp, Recheck, Point, Command
<1> QED BY <1>1, <1>3, <1>4 DEF Next

\* A node that verifies as v has everything that v says of a node.
LEMMA SeenNode ==
  ASSUME EditInv, NEW s \in Foreigns, NEW n \in Names, NEW v \in KnownRows,
         NodeSeen(s, n, v)
  PROVE  nodes[s][n] = NodeConf(v)
<1>1. nodes[s][n] \in NodeConfs \cup {None} /\ nodes[s][n] # None
  BY DEF EditInv, Tables, NodeSeen, Agrees
<1>2. /\ NodeConf(v).iran # None /\ NodeConf(v).params # None
      /\ NodeConf(v) \in NodeConfs
  BY NoneApart DEF NodeConf, KnownRows, RowsWith, NodeConfs
<1>3. /\ nodes[s][n].iran = NodeConf(v).iran
      /\ nodes[s][n].params = NodeConf(v).params
  <2> DEFINE m == nodes[s][n]
  <2>1. \A f \in DOMAIN NodeConf(v) : NodeConf(v)[f] # None =>
          m[f] = NodeConf(v)[f]
    BY DEF NodeSeen, Agrees
  <2>2. "iran" \in DOMAIN NodeConf(v) /\ "params" \in DOMAIN NodeConf(v)
    BY DEF NodeConf
  <2> HIDE DEF m
  <2>3. m.iran = NodeConf(v).iran /\ m.params = NodeConf(v).params
    BY <1>2, <2>1, <2>2
  <2> QED BY <2>3 DEF m
<1> QED BY <1>1, <1>2, <1>3 DEF NodeConfs

LEMMA EditCommitsInPlace ==
  ASSUME WorkInv, NamedAlike, NEW o \in Ops, Plain(ops[o]), FinishEdit(o),
         Goes(o, Ended(ops[o], "SUCCEEDED"))
  PROVE  InPlace(rows[ops[o].conn])'
<1> DEFINE op == ops[o]
           c == op.conn
           w == op.want
<1>1. op.pc = "verify" /\ op.pc \in LivePcs /\ op.kind = "edit"
  BY DEF FinishEdit, LivePcs, EditPcs, WorkInv, EditInv, Requests, Formed
<1>2. /\ Live(o) /\ c \in Conns /\ w.name \in Names
      /\ op.row.iran \in Irans /\ op.row.foreign \in Foreigns
      /\ rows \in [Conns -> Rows] /\ ops \in [Ops -> OpRecords]
  BY <1>1, OpFields DEF WorkInv, EditInv, Tables, Requests
<1>3. Grounded(op)
  BY <1>2 DEF WorkInv, GroundInv, Plain
<1>4. op.cur.peer = op.cur.name
  BY <1>2, <1>3 DEF Grounded, NamedAlike
<1>5. NewName(op) = w.name
  BY <1>4 DEF NewName
<1>6. peers[op.row.iran][w.name] = PeerConf(w)
  BY <1>1, <1>3, <1>5 DEF Grounded
<1>7. /\ ops'[o] = Ended(op, "SUCCEEDED")
      /\ Ended(op, "SUCCEEDED").status = "SUCCEEDED"
      /\ Ended(op, "SUCCEEDED").conn = c
      /\ EditFailed(o).status = "ROLLBACK_FAILED"
  BY <1>2 DEF Goes, Ended, OpRecords, EditFailed
<1>8. ~Goes(o, EditFailed(o))
  BY <1>2, <1>7 DEF Goes
<1>9. /\ NodeSeen(op.row.foreign, w.name, w)
      /\ rows' = [rows EXCEPT ![c] = [w EXCEPT !.peer = w.name,
                    !.iran = rows[c].iran, !.foreign = rows[c].foreign]]
      /\ peers' = peers /\ nodes' = nodes
  BY <1>8 DEF FinishEdit
<1>10. nodes[op.row.foreign][w.name] = NodeConf(w)
  BY <1>2, <1>3, <1>9, SeenNode DEF WorkInv, Grounded
<1>11. w \in KnownRows /\ rows[c].iran = op.row.iran
       /\ rows[c].foreign = op.row.foreign
  BY <1>3 DEF Grounded
<1>12. ops'[o].conn = c
  BY <1>7
<1> HIDE DEF op, c, w
<1>13. /\ rows'[c].iran = op.row.iran /\ rows'[c].foreign = op.row.foreign
       /\ rows'[c].peer = w.name /\ rows'[c].params = w.params
       /\ rows'[c].ports = w.ports /\ rows'[c].iranIp = w.iranIp
       /\ rows'[c].foreignIp = w.foreignIp
  BY <1>2, <1>9, <1>11 DEF KnownRows, RowsWith
<1>14. /\ PeerConf(rows'[c]) = PeerConf(w) /\ NodeConf(rows'[c]) = NodeConf(w)
  BY <1>13 DEF PeerConf, NodeConf
<1>15. rows'[ops'[o].conn] = rows'[c]
  BY <1>12
<1> QED BY <1>6, <1>9, <1>10, <1>13, <1>14, <1>15 DEF InPlace, PeerConf, NodeConf

LEMMA MoveCommitsInPlace ==
  ASSUME WorkInv, NamedAlike, NEW o \in Ops, Plain(ops[o]),
         RemoveOldAndCommit(o), Goes(o, Ended(ops[o], "SUCCEEDED"))
  PROVE  InPlace(rows[ops[o].conn])'
<1> DEFINE op == ops[o]
           c == op.conn
           w == op.want
           n == op.cur.peer
           i == op.row.iran
           f == op.row.foreign
<1>1. op.pc = "remove" /\ op.pc \in LivePcs /\ op.pc \in MovePcs
  BY DEF RemoveOldAndCommit, LivePcs, MovePcs
<1>2. /\ Live(o) /\ c \in Conns /\ n \in Names /\ op.kind = "move"
      /\ i \in Irans /\ f \in Foreigns /\ w.iran \in Irans
      /\ w.foreign \in Foreigns
      /\ rows \in [Conns -> Rows] /\ ops \in [Ops -> OpRecords]
      /\ peers \in PeerTables /\ nodes \in NodeTables
  BY <1>1, OpFields, MoveFields DEF WorkInv, EditInv, Tables, Requests
<1>3. Grounded(op) /\ Moving(op)
  BY <1>2 DEF WorkInv, GroundInv, MoveInv, PlainMove, Plain
<1>4. n = w.name
  BY <1>2, <1>3 DEF Grounded, NamedAlike, Plain, Renames
<1>5. NewPair(op)
  BY <1>1, <1>3 DEF Moving
<1>6. NameFree(c, w.name)
  BY <1>2, <1>3, PlainNameFree DEF WorkInv
<1>7. /\ rows' = [rows EXCEPT ![c] = [w EXCEPT !.peer = w.name]]
      /\ \/ UNCHANGED <<peers, nodes>>
         \/ ForeignMoves(op) /\ nodes' = Without(nodes, f, n) /\ UNCHANGED peers
         \/ ~ForeignMoves(op) /\ peers' = Without(peers, i, n) /\ UNCHANGED nodes
  BY <1>6 DEF RemoveOldAndCommit
<1>8. ops'[o].conn = c
  BY <1>2 DEF Goes, Ended, OpRecords
<1>9. w \in KnownRows
  BY <1>3 DEF Grounded
<1>10. ForeignMoves(op) \/ IranMoves(op)
  BY <1>3 DEF Moving
<1>11. \A t \in Foreigns \ {f} : Without(nodes, f, n)[t] = nodes[t]
  <2> HIDE DEF op, n, f
  <2> QED BY <1>2, TableCleared, TableDomains
<1>12. \A t \in Irans \ {i} : Without(peers, i, n)[t] = peers[t]
  <2> HIDE DEF op, n, i
  <2> QED BY <1>2, TableCleared, TableDomains
<1>13. /\ nodes'[w.foreign] = nodes[w.foreign]
       /\ peers'[w.iran] = peers[w.iran]
  BY <1>2, <1>7, <1>10, <1>11, <1>12 DEF ForeignMoves, IranMoves
<1>14. /\ peers'[w.iran][w.name] = PeerConf(w)
       /\ nodes'[w.foreign][w.name] = NodeConf(w)
  BY <1>4, <1>5, <1>13 DEF NewPair, NewPeer, NewNode
<1> HIDE DEF op, c, w
<1>15. /\ rows'[c].iran = w.iran /\ rows'[c].foreign = w.foreign
       /\ rows'[c].peer = w.name /\ rows'[c].params = w.params
       /\ rows'[c].ports = w.ports /\ rows'[c].iranIp = w.iranIp
       /\ rows'[c].foreignIp = w.foreignIp
  BY <1>2, <1>7, <1>9 DEF KnownRows, RowsWith
<1>16. rows'[ops'[o].conn] = rows'[c]
  BY <1>8
<1> QED BY <1>14, <1>15, <1>16 DEF InPlace, PeerConf, NodeConf

\* apply and migrate: what reports SUCCEEDED leaves a row whose two servers
\* hold exactly what it says, whatever other requests, faults and restarts
\* there have been, when connections are recorded under the name of their
\* peer.  (A move of one that is not commits a name that no server has.)
THEOREM CommitsInPlace ==
  ASSUME NamesApart, PeerIsName
  PROVE  Spec => CommitInPlace
<1>1. WorkInv /\ NamedAlike /\ [Next]_vars =>
        [\A o \in Ops : Ends(o, "SUCCEEDED") /\ Plain(ops[o]) =>
           InPlace(rows[ops[o].conn])']_vars
  BY EndsBy, EditCommitsInPlace, MoveCommitsInPlace DEF WorkInv
<1>2. Init => NamedAlike
  BY AlikeStarts
<1>3. WorkInv /\ NamedAlike /\ [Next]_vars => NamedAlike'
  BY AlikeNext DEF WorkInv
<1> QED BY <1>1, <1>2, <1>3, WorkInvariant, PTL DEF Spec, CommitInPlace

-----------------------------------------------------------------------------
(* No two peers of a server share a tunnel or ports, nor two nodes a tunnel, *)
(* so that pointing an old pair back is never refused.                      *)

PeersApart(s) ==
  \A k, n \in Names :
    k # n /\ peers[s][k] # None /\ peers[s][n] # None =>
      peers[s][k].params # peers[s][n].params
      /\ peers[s][k].ports # peers[s][n].ports
NodesApart(s) ==
  \A k, n \in Names :
    k # n /\ nodes[s][k] # None /\ nodes[s][n] # None =>
      nodes[s][k].params # nodes[s][n].params
Apart == /\ \A s \in Irans : PeersApart(s)
         /\ \A s \in Foreigns : NodesApart(s)

\* The servers are configured so at first.
StartApart ==
  \A c, d \in Conns :
    Start[c].peer # Start[d].peer =>
      /\ Start[c].iran = Start[d].iran =>
           Start[c].params # Start[d].params /\ Start[c].ports # Start[d].ports
      /\ Start[c].foreign = Start[d].foreign =>
           Start[c].params # Start[d].params

\* What a configuration for the name n meets on a server.
FreeOfPeers(s, n, conf) ==
  \/ peers[s][n] = conf
  \/ \A k \in Names \ {n} : peers[s][k] # None =>
       peers[s][k].params # conf.params /\ peers[s][k].ports # conf.ports
FreeOfNodes(s, n, conf) ==
  \A k \in Names \ {n} : nodes[s][k] # None =>
    nodes[s][k].params # conf.params

\* What a step of o does to the tables: a command of a move names the peer.
PeersWritten(o) ==
  \/ peers' = peers
  \/ \E s \in Irans, n \in Names, m \in Names :
       /\ ops[o].pc \in MovePcs => n = ops[o].cur.peer /\ m = n
       /\ \/ peers' = Without(peers, s, n)
          \/ \E conf : /\ FreeOfPeers(s, n, conf)
                       /\ peers' = Renamed(peers, s, n, m, conf)
NodesWritten(o) ==
  \/ nodes' = nodes
  \/ \E s \in Foreigns, n \in Names, m \in Names :
       /\ ops[o].pc \in MovePcs => n = ops[o].cur.peer /\ m = n
       /\ \/ nodes' = Without(nodes, s, n)
          \/ \E conf : /\ FreeOfNodes(s, n, conf)
                       /\ nodes' = Renamed(nodes, s, n, m, conf)

LEMMA CanIsFree ==
  ASSUME NEW s, NEW n \in Names, NEW m, NEW conf
  PROVE  /\ CanEditPeer(s, n, m, conf) => FreeOfPeers(s, n, conf)
         /\ CanAddPeer(s, n, conf) => FreeOfPeers(s, n, conf)
         /\ CanEditNode(s, n, m, conf) => FreeOfNodes(s, n, conf)
         /\ CanAddNode(s, n, conf) => FreeOfNodes(s, n, conf)
  BY DEF CanEditPeer, CanAddPeer, CanEditNode, CanAddNode, FreeOfPeers,
         FreeOfNodes

LEMMA EditsWrite ==
  ASSUME EditInv, NEW o \in Ops, EditNode(o) \/ EditPeer(o)
  PROVE  PeersWritten(o) /\ NodesWritten(o)
<1> DEFINE op == ops[o]
           n  == op.cur.peer
           m  == NewName(op)
           i  == op.row.iran
           f  == op.row.foreign
           pc == Overlaid(peers[i][n], PeerConf(op.want))
           nc == Overlaid(nodes[f][n], NodeConf(op.want))
<1>1. op.pc \in LivePcs /\ op.pc \notin MovePcs
  BY DEF EditNode, EditPeer, LivePcs, EditPcs, MovePcs
<1>2. n \in Names /\ m \in Names /\ i \in Irans /\ f \in Foreigns
  BY <1>1, OpFields, NewNameIsName
<1>3. \/ UNCHANGED <<peers, nodes>>
      \/ /\ peers' = peers /\ CanEditNode(f, n, m, nc)
         /\ nodes' = Renamed(nodes, f, n, m, nc)
      \/ /\ nodes' = nodes /\ CanEditPeer(i, n, m, pc)
         /\ peers' = Renamed(peers, i, n, m, pc)
  BY DEF EditNode, EditPeer, Command
<1> HIDE DEF n, m, i, f, pc, nc
<1> QED BY <1>1, <1>2, <1>3, CanIsFree DEF PeersWritten, NodesWritten

LEMMA MovesWrite ==
  ASSUME EditInv, NEW o \in Ops,
         MakeNode(o) \/ AddNode(o) \/ MakePeer(o) \/ Cutover(o) \/ Undo(o)
  PROVE  PeersWritten(o) /\ NodesWritten(o)
<1> DEFINE op == ops[o]
           n  == op.cur.peer
<1>1. op.pc \in LivePcs /\ op.pc \in MovePcs
  BY DEF MakeNode, AddNode, MakePeer, Cutover, Undo, LivePcs, MovePcs
<1>2. /\ n \in Names /\ op.row.iran \in Irans /\ op.want.iran \in Irans
      /\ op.row.foreign \in Foreigns /\ op.want.foreign \in Foreigns
  BY <1>1, OpFields
<1>3. \/ UNCHANGED <<peers, nodes>>
      \/ /\ peers' = peers
         /\ \E s \in Foreigns : \E conf :
              /\ CanEditNode(s, n, n, conf) \/ CanAddNode(s, n, conf)
              /\ nodes' = Renamed(nodes, s, n, n, conf)
      \/ /\ nodes' = nodes
         /\ \E s \in Irans : \E conf :
              /\ CanEditPeer(s, n, n, conf) \/ CanAddPeer(s, n, conf)
              /\ peers' = Renamed(peers, s, n, n, conf)
  <2>1. CASE MakeNode(o) \/ AddNode(o)
    BY <1>2, <2>1 DEF MakeNode, AddNode, Command
  <2>2. CASE MakePeer(o)
    BY <1>2, <2>2 DEF MakePeer, Command
  <2>3. CASE Cutover(o)
    <3>1. Point(o, op.want, At(o, "prove"), At(o, "undo"))
      BY <2>3 DEF Cutover
    <3> QED BY <1>2, <3>1 DEF Point, Command
  <2>4. CASE Undo(o)
    <3>1. Point(o, op.cur, At(o, "clean"), At(o, "clean_failed"))
      BY <2>4 DEF Undo
    <3> QED BY <1>2, <3>1 DEF Point, Command
  <2> QED BY <2>1, <2>2, <2>3, <2>4
<1> HIDE DEF n
<1>4. \A s : \A conf :
        /\ CanEditNode(s, n, n, conf) \/ CanAddNode(s, n, conf)
             => FreeOfNodes(s, n, conf)
        /\ CanEditPeer(s, n, n, conf) \/ CanAddPeer(s, n, conf)
             => FreeOfPeers(s, n, conf)
  BY <1>2, CanIsFree
<1> QED BY <1>1, <1>2, <1>3, <1>4 DEF PeersWritten, NodesWritten, n

LEMMA StepWrites ==
  ASSUME EditInv, NEW o \in Ops, StepOf(o)
  PROVE  PeersWritten(o) /\ NodesWritten(o)
<1>1. CASE RemoveOldAndCommit(o) \/ CleanUp(o)
  <2> DEFINE op == ops[o]
             n  == op.cur.peer
  <2>1. op.pc \in LivePcs
    BY <1>1 DEF RemoveOldAndCommit, CleanUp, LivePcs, MovePcs
  <2>2. /\ n \in Names /\ op.row.iran \in Irans /\ op.want.iran \in Irans
        /\ op.row.foreign \in Foreigns /\ op.want.foreign \in Foreigns
    BY <2>1, OpFields
  <2>3. /\ \/ peers' = peers
           \/ \E s \in Irans : peers' = Without(peers, s, n)
        /\ \/ nodes' = nodes
           \/ \E s \in Foreigns : nodes' = Without(nodes, s, n)
    BY <1>1, <2>2 DEF RemoveOldAndCommit, CleanUp
  <2> HIDE DEF n
  <2>4. \A m \in Names : n = op.cur.peer /\ n \in Names
    BY <2>2 DEF n
  <2> QED BY <2>2, <2>3, <2>4 DEF PeersWritten, NodesWritten
<1>2. CASE UNCHANGED <<peers, nodes>>
  BY <1>2 DEF PeersWritten, NodesWritten
<1> QED BY <1>1, <1>2, EditsWrite, MovesWrite DEF StepOf, ReadPeer, Learn,
        FinishEdit, CheckTargets, CheckNode, ProvePath, Recheck

LEMMA RenamedRow ==
  ASSUME NEW table, NEW s \in DOMAIN table, NEW n \in DOMAIN table[s],
         NEW m \in DOMAIN table[s], NEW conf
  PROVE  /\ Renamed(table, s, n, m, conf)[s][m] = conf
         /\ m # n => Renamed(table, s, n, m, conf)[s][n] = None
         /\ \A k \in DOMAIN table[s] \ {n, m} :
              Renamed(table, s, n, m, conf)[s][k] = table[s][k]
         /\ \A t \in DOMAIN table \ {s} :
              Renamed(table, s, n, m, conf)[t] = table[t]
  BY DEF Renamed

LEMMA ClearedRow ==
  ASSUME NEW table, NEW s \in DOMAIN table, NEW n \in DOMAIN table[s]
  PROVE  /\ Without(table, s, n)[s][n] = None
         /\ \A k \in DOMAIN table[s] \ {n} :
              Without(table, s, n)[s][k] = table[s][k]
         /\ \A t \in DOMAIN table \ {s} : Without(table, s, n)[t] = table[t]
  BY DEF Without

LEMMA PeersStayApart ==
  ASSUME peers \in PeerTables, Apart, NEW o, PeersWritten(o), NEW t \in Irans
  PROVE  PeersApart(t)'
<1>1. DOMAIN peers = Irans /\ \A s \in Irans : DOMAIN peers[s] = Names
  BY DEF PeerTables
<1>2. PeersApart(t)
  BY DEF Apart
<1>3. CASE peers'[t] = peers[t]
  BY <1>2, <1>3 DEF PeersApart
<1>4. ASSUME NEW n \in Names, peers'[t][n] = None,
             \A k \in Names \ {n} : peers'[t][k] = peers[t][k]
      PROVE  PeersApart(t)'
  BY <1>2, <1>4 DEF PeersApart
<1>5. ASSUME NEW n \in Names, NEW m \in Names, NEW conf,
             FreeOfPeers(t, n, conf), peers'[t][m] = conf,
             m # n => peers'[t][n] = None,
             \A k \in Names \ {n, m} : peers'[t][k] = peers[t][k]
      PROVE  PeersApart(t)'
  <2>1. \A k \in Names \ {n} : conf # None /\ peers[t][k] # None =>
          peers[t][k].params # conf.params /\ peers[t][k].ports # conf.ports
    BY <1>2, <1>5 DEF FreeOfPeers, PeersApart
  <2>2. ASSUME NEW k \in Names, k # m, peers'[t][k] # None
        PROVE  k # n /\ peers'[t][k] = peers[t][k]
    BY <1>5, <2>2
  <2> QED BY <1>2, <1>5, <2>1, <2>2 DEF PeersApart
<1>6. ASSUME NEW s \in Irans, NEW n \in Names, peers' = Without(peers, s, n)
      PROVE  PeersApart(t)'
  <2>1. /\ peers'[s][n] = None
        /\ \A k \in Names \ {n} : peers'[s][k] = peers[s][k]
        /\ t # s => peers'[t] = peers[t]
    BY <1>1, <1>6, ClearedRow
  <2> QED BY <1>3, <1>4, <2>1
<1>7. ASSUME NEW s \in Irans, NEW n \in Names, NEW m \in Names, NEW conf,
             FreeOfPeers(s, n, conf), peers' = Renamed(peers, s, n, m, conf)
      PROVE  PeersApart(t)'
  <2>1. /\ peers'[s][m] = conf /\ (m # n => peers'[s][n] = None)
        /\ \A k \in Names \ {n, m} : peers'[s][k] = peers[s][k]
        /\ t # s => peers'[t] = peers[t]
    BY <1>1, <1>7, RenamedRow
  <2> QED BY <1>3, <1>5, <1>7, <2>1
<1>8. CASE peers' = peers
  BY <1>3, <1>8
<1> QED BY <1>6, <1>7, <1>8 DEF PeersWritten

LEMMA NodesStayApart ==
  ASSUME nodes \in NodeTables, Apart, NEW o, NodesWritten(o),
         NEW t \in Foreigns
  PROVE  NodesApart(t)'
<1>1. DOMAIN nodes = Foreigns /\ \A s \in Foreigns : DOMAIN nodes[s] = Names
  BY DEF NodeTables
<1>2. NodesApart(t)
  BY DEF Apart
<1>3. CASE nodes'[t] = nodes[t]
  BY <1>2, <1>3 DEF NodesApart
<1>4. ASSUME NEW n \in Names, nodes'[t][n] = None,
             \A k \in Names \ {n} : nodes'[t][k] = nodes[t][k]
      PROVE  NodesApart(t)'
  BY <1>2, <1>4 DEF NodesApart
<1>5. ASSUME NEW n \in Names, NEW m \in Names, NEW conf,
             FreeOfNodes(t, n, conf), nodes'[t][m] = conf,
             m # n => nodes'[t][n] = None,
             \A k \in Names \ {n, m} : nodes'[t][k] = nodes[t][k]
      PROVE  NodesApart(t)'
  <2>1. ASSUME NEW k \in Names, k # m, nodes'[t][k] # None
        PROVE  k # n /\ nodes'[t][k] = nodes[t][k]
    BY <1>5, <2>1
  <2> QED BY <1>2, <1>5, <2>1 DEF NodesApart, FreeOfNodes
<1>6. ASSUME NEW s \in Foreigns, NEW n \in Names, nodes' = Without(nodes, s, n)
      PROVE  NodesApart(t)'
  <2>1. /\ nodes'[s][n] = None
        /\ \A k \in Names \ {n} : nodes'[s][k] = nodes[s][k]
        /\ t # s => nodes'[t] = nodes[t]
    BY <1>1, <1>6, ClearedRow
  <2> QED BY <1>3, <1>4, <2>1
<1>7. ASSUME NEW s \in Foreigns, NEW n \in Names, NEW m \in Names, NEW conf,
             FreeOfNodes(s, n, conf), nodes' = Renamed(nodes, s, n, m, conf)
      PROVE  NodesApart(t)'
  <2>1. /\ nodes'[s][m] = conf /\ (m # n => nodes'[s][n] = None)
        /\ \A k \in Names \ {n, m} : nodes'[s][k] = nodes[s][k]
        /\ t # s => nodes'[t] = nodes[t]
    BY <1>1, <1>7, RenamedRow
  <2> QED BY <1>3, <1>5, <1>7, <2>1
<1>8. CASE nodes' = nodes
  BY <1>3, <1>8
<1> QED BY <1>6, <1>7, <1>8 DEF NodesWritten

LEMMA ApartStarts ==
  ASSUME Init, StartApart
  PROVE  Apart
<1>1. ASSUME NEW s \in Irans, NEW n \in Names, peers[s][n] # None
      PROVE  \E c \in Conns : /\ Start[c].iran = s /\ Start[c].peer = n
                              /\ peers[s][n] = PeerConf(Start[c])
  BY <1>1 DEF Init
<1>2. ASSUME NEW s \in Foreigns, NEW n \in Names, nodes[s][n] # None
      PROVE  \E c \in Conns : /\ Start[c].foreign = s /\ Start[c].peer = n
                              /\ nodes[s][n] = NodeConf(Start[c])
  BY <1>2 DEF Init
<1>3. \A v : /\ PeerConf(v).params = v.params /\ PeerConf(v).ports = v.ports
             /\ NodeConf(v).params = v.params
  BY DEF PeerConf, NodeConf
<1>4. ASSUME NEW s \in Irans, NEW k \in Names, NEW n \in Names, k # n,
             peers[s][k] # None, peers[s][n] # None
      PROVE  /\ peers[s][k].params # peers[s][n].params
             /\ peers[s][k].ports # peers[s][n].ports
  <2>1. PICK c \in Conns : /\ Start[c].iran = s /\ Start[c].peer = k
                           /\ peers[s][k] = PeerConf(Start[c])
    BY <1>1, <1>4
  <2>2. PICK d \in Conns : /\ Start[d].iran = s /\ Start[d].peer = n
                           /\ peers[s][n] = PeerConf(Start[d])
    BY <1>1, <1>4
  <2>3. Start[c].params # Start[d].params /\ Start[c].ports # Start[d].ports
    BY <1>4, <2>1, <2>2 DEF StartApart
  <2> QED BY <1>3, <2>1, <2>2, <2>3
<1>5. ASSUME NEW s \in Foreigns, NEW k \in Names, NEW n \in Names, k # n,
             nodes[s][k] # None, nodes[s][n] # None
      PROVE  nodes[s][k].params # nodes[s][n].params
  <2>1. PICK c \in Conns : /\ Start[c].foreign = s /\ Start[c].peer = k
                           /\ nodes[s][k] = NodeConf(Start[c])
    BY <1>2, <1>5
  <2>2. PICK d \in Conns : /\ Start[d].foreign = s /\ Start[d].peer = n
                           /\ nodes[s][n] = NodeConf(Start[d])
    BY <1>2, <1>5
  <2>3. Start[c].params # Start[d].params
    BY <1>5, <2>1, <2>2 DEF StartApart
  <2> QED BY <1>3, <2>1, <2>2, <2>3
<1> QED BY <1>4, <1>5 DEF Apart, PeersApart, NodesApart

LEMMA ApartNext ==
  ASSUME EditInv, Apart, [Next]_vars
  PROVE  Apart'
<1>1. peers \in PeerTables /\ nodes \in NodeTables
  BY DEF EditInv, Tables, PeerTables, NodeTables
<1>2. CASE UNCHANGED <<peers, nodes>>
  BY <1>2 DEF Apart, PeersApart, NodesApart
<1>3. ASSUME NEW o \in Ops, StepOf(o)
      PROVE  Apart'
  BY <1>1, <1>3, StepWrites, PeersStayApart, NodesStayApart DEF Apart
<1>4. ASSUME NEW o \in Ops, NEW c \in Conns, RequestOf(o, c)
      PROVE  UNCHANGED <<peers, nodes>>
  BY <1>4 DEF RequestOf, PlanEdit, PutEdit, PutBack, NewRequest
<1> QED BY <1>2, <1>3, <1>4 DEF Next, vars, Restart

-----------------------------------------------------------------------------
(* Make before break.                                                      *)

\* The old pair can be pointed back: no other peer or node has what it had.
NoClash(op) ==
  /\ \A k \in Names \ {op.cur.peer} : peers[op.row.iran][k] # None =>
       /\ peers[op.row.iran][k].params # op.cur.params
       /\ peers[op.row.iran][k].ports # op.cur.ports
  /\ \A k \in Names \ {op.cur.peer} : nodes[op.row.foreign][k] # None =>
       nodes[op.row.foreign][k].params # op.cur.params

\* With one fault at most, a rollback finds one of the pairs whole: the new
\* one only when the fault came after the cutover.
OnePath(op) ==
  /\ Addressed(op.want) /\ NoClash(op)
  /\ faults <= 1 /\ op.pc = "undo" =>
       OldPair(op) \/ (faults = 1 /\ NewPair(op))
  /\ faults <= 1 /\ op.pc = "clean_failed" => OldPair(op)

PathInv == Apart /\ \A o \in Ops : PlainMove(o) => OnePath(ops[o])

LEMMA PairIsPath ==
  ASSUME NEW op, Grounded(op),
         OldPair(op) \/ (NewPair(op) /\ Addressed(op.want))
  PROVE  PathOf(op)
<1>1. /\ op.cur \in KnownRows /\ op.want \in KnownRows /\ Addressed(op.cur)
      /\ op.cur.iran = op.row.iran /\ op.cur.foreign = op.row.foreign
  BY DEF Grounded
<1>2. \A v : /\ PeerConf(v).foreign = v.foreignIp /\ PeerConf(v).iran = v.iranIp
             /\ PeerConf(v).params = v.params /\ NodeConf(v).iran = v.iranIp
             /\ NodeConf(v).params = v.params
  BY DEF PeerConf, NodeConf
<1>3. \A v \in KnownRows : PeerConf(v) # None /\ NodeConf(v) # None
  BY ConfsAreSome
<1>4. ASSUME NEW i \in {op.row.iran, op.want.iran},
             NEW f \in {op.row.foreign, op.want.foreign}, NEW v \in KnownRows,
             peers[i][op.cur.peer] = PeerConf(v),
             nodes[f][op.cur.peer] = NodeConf(v), v.iranIp = i, v.foreignIp = f
      PROVE  PathOf(op)
  <2> DEFINE p == peers[i][op.cur.peer]
             n == nodes[f][op.cur.peer]
  <2>1. /\ p # None /\ n # None /\ p.foreign = f /\ n.iran = p.iran
        /\ n.params = p.params /\ p.iran = i
    <3>1. p = PeerConf(v) /\ n = NodeConf(v)
      BY <1>4
    <3> HIDE DEF p, n
    <3> QED BY <1>2, <1>3, <1>4, <3>1
  <2> QED BY <2>1 DEF PathOf
<1>5. CASE OldPair(op)
  BY <1>1, <1>4, <1>5 DEF OldPair, OldPeer, OldNode, Addressed
<1>6. CASE NewPair(op) /\ Addressed(op.want)
  BY <1>1, <1>4, <1>6 DEF NewPair, NewPeer, NewNode, Addressed
<1> QED BY <1>5, <1>6

LEMMA OnePathIsPath ==
  ASSUME EditInv, GroundInv, MoveInv, PathInv, faults <= 1,
         NEW o \in Ops, PlainMove(o)
  PROVE  PathOf(ops[o])
<1>1. /\ Moving(ops[o]) /\ Grounded(ops[o]) /\ OnePath(ops[o])
  BY DEF MoveInv, GroundInv, PathInv, PlainMove, Plain
<1> QED BY <1>1, PairIsPath DEF Moving, OnePath

LEMMA OthersOnePath ==
  ASSUME EditInv, NEW o \in Ops, TouchesItsOwn(o), faults' \in Nat,
         NEW q \in Ops, q # o, Live(q), OnePath(ops[q])
  PROVE  OnePath(ops[q])'
<1>1. /\ ops'[q] = ops[q] /\ faults' >= faults
      /\ \A s \in Irans \cap TargetsOf(ops[q]) : peers'[s] = peers[s]
      /\ \A s \in Foreigns \cap TargetsOf(ops[q]) : nodes'[s] = nodes[s]
  BY Undisturbed
<1>2. /\ ops[q].row.iran \in Irans /\ ops[q].want.iran \in Irans
      /\ ops[q].row.foreign \in Foreigns /\ ops[q].want.foreign \in Foreigns
  <2>1. ops[q].pc \in LivePcs
    BY LiveIsPc DEF EditInv
  <2> QED BY <2>1, OpFields
<1>3. /\ peers'[ops[q].row.iran] = peers[ops[q].row.iran]
      /\ peers'[ops[q].want.iran] = peers[ops[q].want.iran]
      /\ nodes'[ops[q].row.foreign] = nodes[ops[q].row.foreign]
      /\ nodes'[ops[q].want.foreign] = nodes[ops[q].want.foreign]
  BY <1>1, <1>2 DEF TargetsOf
<1>4. faults \in Nat /\ (faults' <= 1 => faults <= 1)
      /\ (faults' <= 1 /\ faults = 1 => faults' = 1)
  <2>1. faults \in 0..MaxFaults /\ MaxFaults \in Nat
    BY EditBoundsAssumption DEF EditInv, Tables
  <2> QED BY <1>1, <2>1
<1>5. /\ OldPair(ops[q])' <=> OldPair(ops[q])
      /\ NewPair(ops[q])' <=> NewPair(ops[q])
      /\ NoClash(ops[q])' <=> NoClash(ops[q])
  BY <1>1, <1>3 DEF OldPair, NewPair, OldPeer, OldNode, NewPeer, NewNode,
     NoClash
<1>6. Addressed(ops[q].want)' <=> Addressed(ops[q].want)
  BY <1>1 DEF Addressed
<1> QED BY <1>1, <1>4, <1>5, <1>6 DEF OnePath

LEMMA BegunOnePath ==
  ASSUME EditInv, Apart, NEW o \in Ops, NEW op, NEW cur,
         BegunAs(ops'[o], op, cur), Modest(op.req),
         ops'[o].sound, ops'[o].kind = "move", UNCHANGED <<peers, nodes>>
  PROVE  OnePath(ops[o])'
<1>1. /\ ops'[o].row = op.row /\ ops'[o].cur = cur
      /\ ops'[o].pc = "preflight" /\ cur \in KnownRows /\ InPlace(cur)
      /\ cur.iran = op.row.iran /\ cur.foreign = op.row.foreign
      /\ Addressed(ops'[o].want)
  BY DEF BegunAs, Works
<1>2. PeerConf(cur) # None /\ NodeConf(cur) # None
  BY <1>1, ConfsAreSome
<1>3. cur.iran \in Irans /\ cur.foreign \in Foreigns /\ cur.peer \in Names
  BY <1>1 DEF KnownRows, RowsWith
<1>4. /\ PeerConf(cur).params = cur.params /\ PeerConf(cur).ports = cur.ports
      /\ NodeConf(cur).params = cur.params
  BY DEF PeerConf, NodeConf
<1>5. PeersApart(cur.iran) /\ NodesApart(cur.foreign)
  BY <1>3 DEF Apart
<1>6. NoClash(ops[o])'
  BY <1>1, <1>2, <1>3, <1>4, <1>5 DEF NoClash, InPlace, PeersApart, NodesApart
<1>7. Addressed(ops[o].want)'
  BY <1>1 DEF Addressed
<1> QED BY <1>1, <1>6, <1>7 DEF OnePath

\* A move writes under the name of its peer only.
LEMMA OwnNoClash ==
  ASSUME EditInv, NEW o \in Ops, ops[o].pc \in MovePcs, StepOf(o),
         NoClash(ops[o]), ops'[o].row = ops[o].row, ops'[o].cur = ops[o].cur
  PROVE  NoClash(ops[o])'
<1> DEFINE n == ops[o].cur.peer
           i == ops[o].row.iran
           f == ops[o].row.foreign
<1>1. /\ i \in Irans /\ f \in Foreigns /\ n \in Names
      /\ peers \in PeerTables /\ nodes \in NodeTables
  BY MoveFields
<1>2. /\ DOMAIN peers = Irans /\ \A s \in Irans : DOMAIN peers[s] = Names
      /\ DOMAIN nodes = Foreigns
      /\ \A s \in Foreigns : DOMAIN nodes[s] = Names
  BY <1>1, TableDomains
<1>3. PeersWritten(o) /\ NodesWritten(o)
  BY StepWrites
<1>4. \A k \in Names \ {n} : peers'[i][k] = peers[i][k]
  <2>1. CASE peers' = peers
    BY <2>1
  <2>2. ASSUME NEW s \in Irans, peers' = Without(peers, s, n)
        PROVE  \A k \in Names \ {n} : peers'[i][k] = peers[i][k]
    <3> HIDE DEF n, i
    <3>1. /\ \A k \in Names \ {n} : peers'[s][k] = peers[s][k]
          /\ \A t \in Irans \ {s} : peers'[t] = peers[t]
      BY <1>1, <1>2, <2>2, ClearedRow
    <3> QED BY <1>1, <3>1
  <2>3. ASSUME NEW s \in Irans, NEW conf, peers' = Renamed(peers, s, n, n, conf)
        PROVE  \A k \in Names \ {n} : peers'[i][k] = peers[i][k]
    <3> HIDE DEF n, i
    <3>1. /\ \A k \in Names \ {n} : peers'[s][k] = peers[s][k]
          /\ \A t \in Irans \ {s} : peers'[t] = peers[t]
      BY <1>1, <1>2, <2>3, RenamedRow
    <3> QED BY <1>1, <3>1
  <2> QED BY <1>3, <2>1, <2>2, <2>3 DEF PeersWritten
<1>5. \A k \in Names \ {n} : nodes'[f][k] = nodes[f][k]
  <2>1. CASE nodes' = nodes
    BY <2>1
  <2>2. ASSUME NEW s \in Foreigns, nodes' = Without(nodes, s, n)
        PROVE  \A k \in Names \ {n} : nodes'[f][k] = nodes[f][k]
    <3> HIDE DEF n, f
    <3>1. /\ \A k \in Names \ {n} : nodes'[s][k] = nodes[s][k]
          /\ \A t \in Foreigns \ {s} : nodes'[t] = nodes[t]
      BY <1>1, <1>2, <2>2, ClearedRow
    <3> QED BY <1>1, <3>1
  <2>3. ASSUME NEW s \in Foreigns, NEW conf,
               nodes' = Renamed(nodes, s, n, n, conf)
        PROVE  \A k \in Names \ {n} : nodes'[f][k] = nodes[f][k]
    <3> HIDE DEF n, f
    <3>1. /\ \A k \in Names \ {n} : nodes'[s][k] = nodes[s][k]
          /\ \A t \in Foreigns \ {s} : nodes'[t] = nodes[t]
      BY <1>1, <1>2, <2>3, RenamedRow
    <3> QED BY <1>1, <3>1
  <2> QED BY <1>3, <2>1, <2>2, <2>3 DEF NodesWritten
<1> QED BY <1>4, <1>5 DEF NoClash

\* What a rollback has to start from, and what it leaves.
HasPair(op) ==
  /\ faults <= 1 /\ op.pc = "undo" =>
       OldPair(op) \/ (faults = 1 /\ NewPair(op))
  /\ faults <= 1 /\ op.pc = "clean_failed" => OldPair(op)

LEMMA PairKept ==
  ASSUME NEW o \in Ops, UNCHANGED <<peers, nodes>>,
         ops'[o].row = ops[o].row, ops'[o].cur = ops[o].cur,
         ops'[o].want = ops[o].want
  PROVE  /\ OldPair(ops[o])' <=> OldPair(ops[o])
         /\ NewPair(ops[o])' <=> NewPair(ops[o])
  BY DEF OldPair, NewPair, OldPeer, OldNode, NewPeer, NewNode

LEMMA PointedNew ==
  ASSUME EditInv, NEW o \in Ops, Moving(ops[o]), ops[o].pc = "cutover",
         PointedAt(o, ops[o].want),
         ops'[o].row = ops[o].row, ops'[o].cur = ops[o].cur,
         ops'[o].want = ops[o].want
  PROVE  NewPair(ops[o])'
<1>1. ops[o].pc \in MovePcs
  BY DEF MovePcs
<1>2. /\ ops[o].want.iran \in Irans /\ ops[o].row.iran \in Irans
      /\ ops[o].want.foreign \in Foreigns /\ ops[o].row.foreign \in Foreigns
  BY <1>1, MoveFields
<1> QED BY <1>2 DEF Moving, NewPair, NewPeer, NewNode, ForeignMoves,
        IranMoves, PointedAt

LEMMA PointedOld ==
  ASSUME NEW o \in Ops, Moving(ops[o]), PointedAt(o, ops[o].cur),
         ops'[o].row = ops[o].row, ops'[o].cur = ops[o].cur
  PROVE  OldPair(ops[o])'
  BY DEF Moving, OldPair, OldPeer, OldNode, ForeignMoves, PointedAt

\* The path is proved to work unless a check fails.
LEMMA ProvedPath ==
  ASSUME NEW op, NewPair(op), Addressed(op.want), op.want \in KnownRows
  PROVE  /\ PeerSeen(op.want.iran, op.cur.peer, op.want)
         /\ NodeSeen(op.want.foreign, op.cur.peer, op.want)
<1>1. PeerConf(op.want) # None /\ NodeConf(op.want) # None
  BY ConfsAreSome
<1> QED BY <1>1 DEF NewPair, NewPeer, NewNode, PeerSeen, NodeSeen, Agrees,
        PeerConf, NodeConf

\* Nothing refuses the command that points the old pair back.
LEMMA CanPointBack ==
  ASSUME EditInv, NEW o \in Ops, Moving(ops[o]), NoClash(ops[o])
  PROVE  CanPoint(o, ops[o].cur)
<1>1. \A v : /\ PeerConf(v).params = v.params /\ PeerConf(v).ports = v.ports
             /\ NodeConf(v).params = v.params
  BY DEF PeerConf, NodeConf
<1> QED BY <1>1 DEF Moving, NoClash, CanPoint, CanEditPeer, CanEditNode

LEMMA UndoHasPair ==
  ASSUME EditInv, NEW o \in Ops, ops[o].pc = "undo", Undo(o),
         Moving(ops[o]), OnePath(ops[o]), faults \in Nat
  PROVE  HasPair(ops[o])'
<1> DEFINE op == ops[o]
<1>1. op.pc \in MovePcs
  BY DEF MovePcs
<1>2. Point(o, op.cur, At(o, "clean"), At(o, "clean_failed"))
  BY DEF Undo
<1>3. CanPoint(o, op.cur)
  BY CanPointBack DEF OnePath
<1>4. PICK pc : /\ Goes(o, At(o, pc))
                /\ \/ pc = "clean"
                   \/ pc = "clean_failed" /\ PointedAt(o, op.cur)
                   \/ /\ pc = "clean_failed" /\ Fault
                      /\ UNCHANGED <<peers, nodes>>
  BY <1>1, <1>2, <1>3, Points
<1>5. /\ ops'[o].pc = pc /\ ops'[o].row = op.row
      /\ ops'[o].cur = op.cur /\ ops'[o].want = op.want
  BY <1>1, <1>4, Advances
<1>6. CASE pc = "clean"
  BY <1>5, <1>6 DEF HasPair
<1>7. CASE pc = "clean_failed" /\ PointedAt(o, op.cur)
  BY <1>5, <1>7, PointedOld DEF HasPair
<1>8. CASE pc = "clean_failed" /\ Fault /\ UNCHANGED <<peers, nodes>>
  <2>1. faults' <= 1 => OldPair(op)
    BY <1>8 DEF OnePath, Fault
  <2> QED BY <1>5, <1>8, <2>1, PairKept DEF HasPair
<1> QED BY <1>4, <1>6, <1>7, <1>8

LEMMA CutoverHasPair ==
  ASSUME EditInv, NEW o \in Ops, ops[o].pc = "cutover", Cutover(o),
         Moving(ops[o]), faults \in Nat
  PROVE  HasPair(ops[o])'
<1> DEFINE op == ops[o]
<1>1. op.pc \in MovePcs
  BY DEF MovePcs
<1>2. Point(o, op.want, At(o, "prove"), At(o, "undo"))
  BY DEF Cutover
<1>3. PICK pc : /\ Goes(o, At(o, pc))
                /\ \/ pc = "prove"
                   \/ pc = "undo" /\ PointedAt(o, op.want) /\ Fault
                   \/ pc = "undo" /\ UNCHANGED <<peers, nodes>>
  BY <1>1, <1>2, Points
<1>4. /\ ops'[o].pc = pc /\ ops'[o].row = op.row
      /\ ops'[o].cur = op.cur /\ ops'[o].want = op.want
  BY <1>1, <1>3, Advances
<1>5. CASE pc = "prove"
  BY <1>4, <1>5 DEF HasPair
<1>6. CASE pc = "undo" /\ PointedAt(o, op.want) /\ Fault
  <2>1. NewPair(ops[o])'
    BY <1>4, <1>6, PointedNew
  <2>2. faults' <= 1 => faults' = 1
    BY <1>6 DEF Fault
  <2> QED BY <1>4, <1>6, <2>1, <2>2 DEF HasPair
<1>7. CASE pc = "undo" /\ UNCHANGED <<peers, nodes>>
  <2>1. OldPair(op)
    BY DEF Moving
  <2> QED BY <1>4, <1>7, <2>1, PairKept DEF HasPair
<1> QED BY <1>3, <1>5, <1>6, <1>7

LEMMA ProveHasPair ==
  ASSUME EditInv, NEW o \in Ops, ops[o].pc = "prove", ProvePath(o),
         Moving(ops[o]), Grounded(ops[o]), OnePath(ops[o]), faults \in Nat
  PROVE  HasPair(ops[o])'
<1> DEFINE op == ops[o]
<1>1. op.pc \in MovePcs
  BY DEF MovePcs
<1>2. NewPair(op) /\ Addressed(op.want) /\ op.want \in KnownRows
  BY DEF Moving, OnePath, Grounded
<1>3. /\ PeerSeen(op.want.iran, op.cur.peer, op.want)
      /\ NodeSeen(op.want.foreign, op.cur.peer, op.want)
  BY <1>2, ProvedPath
<1>4. PICK pc : /\ Goes(o, At(o, pc))
                /\ \/ pc = "remove"
                   \/ pc = "undo" /\ Fault
  BY <1>2, <1>3 DEF ProvePath
<1>5. /\ ops'[o].pc = pc /\ ops'[o].row = op.row
      /\ ops'[o].cur = op.cur /\ ops'[o].want = op.want
  BY <1>1, <1>4, Advances
<1>6. UNCHANGED <<peers, nodes>>
  BY DEF ProvePath
<1>7. pc = "undo" /\ faults' <= 1 => faults' = 1
  BY <1>4 DEF Fault
<1>8. NewPair(ops[o])'
  BY <1>2, <1>5, <1>6, PairKept
<1>9. pc # "clean_failed"
  BY <1>4
<1> QED BY <1>5, <1>7, <1>8, <1>9 DEF HasPair

\* The steps before the cutover do not touch the old pair.
LEMMA BuildHasPair ==
  ASSUME EditInv, NEW o \in Ops, Moving(ops[o]),
         \/ CheckTargets(o) \/ CheckNode(o) \/ MakeNode(o) \/ AddNode(o)
         \/ MakePeer(o)
  PROVE  HasPair(ops[o])'
<1>1. /\ ops[o].pc \in {"preflight", "make_node", "add_node", "check_node",
                        "make_peer"}
      /\ ops[o].pc \in MovePcs
  BY DEF CheckTargets, CheckNode, MakeNode, AddNode, MakePeer, MovePcs
<1>2. OldPair(ops[o])
  BY <1>1 DEF Moving
<1>3. OldPair(ops[o])'
  BY <1>2, QuietMoves, NodeMoves, PeerMoves
<1> QED BY <1>3 DEF HasPair

LEMMA CleanUpHasPair ==
  ASSUME EditInv, NEW o \in Ops, CleanUp(o), Live(o)'
  PROVE  HasPair(ops[o])'
<1>1. ops[o].pc \in MovePcs /\ ops[o].pc \in {"clean", "clean_failed"}
  BY DEF CleanUp, MovePcs
<1>2. Ended(ops[o], "ROLLBACK_FAILED").pc = "done"
  BY DEF Ended, OpRecords, EditInv, Requests
<1>3. Goes(o, At(o, "recheck"))
  BY <1>1, <1>2, MoveFields DEF CleanUp, Live
<1>4. ops'[o].pc = "recheck"
  BY <1>1, <1>3, Advances
<1> QED BY <1>4 DEF HasPair

LEMMA StepOnePath ==
  ASSUME EditInv, NamesUnique, NEW o \in Ops, ops[o].pc \in MovePcs,
         Plain(ops[o]), Moving(ops[o]), Grounded(ops[o]), OnePath(ops[o]),
         StepOf(o), Live(o)'
  PROVE  OnePath(ops[o])'
<1>1. ops[o] \in OpRecords /\ ops \in [Ops -> OpRecords] /\ faults \in Nat
  BY EditBoundsAssumption DEF EditInv, Requests, Tables
<1>2. Live(o)
  BY MoveFields
<1>3. PICK pc : ops'[o] = At(o, pc)
  BY <1>2, GoesOn
<1>4. /\ ops'[o].row = ops[o].row /\ ops'[o].cur = ops[o].cur
      /\ ops'[o].want = ops[o].want
  <2> DEFINE next == At(o, pc)
  <2>1. /\ next.row = ops[o].row /\ next.cur = ops[o].cur
        /\ next.want = ops[o].want
    BY AtFields
  <2>2. ops'[o] = next
    BY <1>3
  <2> HIDE DEF next
  <2> QED BY <2>1, <2>2
<1>5. NoClash(ops[o])'
  BY <1>4, OwnNoClash DEF OnePath
<1>6. Addressed(ops[o].want)'
  BY <1>4 DEF OnePath, Addressed
<1>7. HasPair(ops[o])'
  <2>1. /\ ~ReadPeer(o) /\ ~Learn(o) /\ ~EditNode(o) /\ ~EditPeer(o)
        /\ ~FinishEdit(o)
    BY DEF ReadPeer, Learn, EditNode, EditPeer, FinishEdit, MovePcs
  <2>2. \A status : ~Goes(o, Ended(ops[o], status))
    BY <1>1 DEF Goes, Ended, OpRecords, Live
  <2>3. ~Recheck(o)
    BY <2>2 DEF Recheck
  <2>4. ~RemoveOldAndCommit(o)
    <3>1. ops[o].conn \in Conns /\ ops[o].kind = "move"
      <4>1. ops[o].pc \in LivePcs
        BY DEF LivePcs
      <4> QED BY <4>1, OpFields, MoveFields
    <3>2. NameFree(ops[o].conn, ops[o].want.name)
      BY <3>1, PlainNameFree
    <3> QED BY <2>2, <3>2 DEF RemoveOldAndCommit
  <2>5. /\ Undo(o) => ops[o].pc = "undo"
        /\ Cutover(o) => ops[o].pc = "cutover"
        /\ ProvePath(o) => ops[o].pc = "prove"
    BY DEF Undo, Cutover, ProvePath
  <2>6. CASE Undo(o) \/ Cutover(o) \/ ProvePath(o)
    BY <1>1, <2>5, <2>6, UndoHasPair, CutoverHasPair, ProveHasPair
  <2>7. CASE \/ CheckTargets(o) \/ CheckNode(o) \/ MakeNode(o) \/ AddNode(o)
             \/ MakePeer(o) \/ CleanUp(o)
    BY <2>7, BuildHasPair, CleanUpHasPair
  <2> QED BY <2>1, <2>3, <2>4, <2>6, <2>7 DEF StepOf
<1> QED BY <1>5, <1>6, <1>7 DEF HasPair, OnePath

LEMMA PathStarts ==
  ASSUME Init, StartApart
  PROVE  PathInv
<1>1. \A o \in Ops : ops[o].pc = "none"
  BY DEF Init, NoOp
<1> QED BY <1>1, ApartStarts DEF PathInv, PlainMove, Live

LEMMA PathNext ==
  ASSUME PlainMoves, EditInv, GroundInv, NamesUnique, MoveInv, PathInv,
         [Next]_vars
  PROVE  PathInv'
<1>1. Apart'
  BY ApartNext DEF PathInv
<1>2. faults' \in Nat
  <2>1. EditInv'
    BY NextKeeps
  <2> QED BY <2>1, EditBoundsAssumption DEF EditInv, Tables
<1>3. ASSUME UNCHANGED vars, NEW q \in Ops, PlainMove(q)'
      PROVE  OnePath(ops[q])'
  <2>1. PlainMove(q)
    BY <1>3 DEF vars, PlainMove, Plain, Renames, Live
  <2>2. OnePath(ops[q])
    BY <2>1 DEF PathInv
  <2> QED BY <1>3, <2>2 DEF vars, OnePath, NoClash, Addressed, OldPair,
          NewPair, OldPeer, OldNode, NewPeer, NewNode
<1>4. ASSUME Restart, NEW q \in Ops
      PROVE  ~PlainMove(q)'
  BY <1>4, Emptied DEF PlainMove
<1>5. ASSUME NEW o \in Ops, StepOf(o) \/ \E c \in Conns : RequestOf(o, c),
             NEW q \in Ops, PlainMove(q)'
      PROVE  OnePath(ops[q])'
  <2>1. TouchesItsOwn(o)
    BY <1>5, StepTouches, RequestsTouch
  <2>2. /\ Live(q)' /\ ops'[q].sound /\ ops'[q].kind = "move"
    BY <1>5 DEF PlainMove, Plain
  <2>3. CASE q # o
    <3>1. ops'[q] = ops[q]
      BY <2>1, <2>3 DEF TouchesItsOwn
    <3>2. PlainMove(q)
      BY <1>5, <3>1 DEF PlainMove, Plain, Renames, Live
    <3>3. Live(q) /\ OnePath(ops[q])
      BY <3>2 DEF PathInv, PlainMove
    <3> QED BY <1>2, <2>1, <2>3, <3>3, OthersOnePath
  <2>4. CASE q = o /\ Live(o)
    <3>1. StepOf(o)
      BY <1>5, <2>4, RequestsAreNew
    <3>2. PlainMove(o)
      BY <1>5, <2>4, <3>1, PlainBefore
    <3>3. /\ ops[o].pc \in MovePcs /\ Plain(ops[o])
          /\ Moving(ops[o]) /\ Grounded(ops[o]) /\ OnePath(ops[o])
      BY <3>2, PlainMovePc DEF PlainMove, Plain, MoveInv, GroundInv, PathInv
    <3>4. OnePath(ops[o])'
      BY <2>2, <2>4, <3>1, <3>3, StepOnePath
    <3> QED BY <2>4, <3>4
  <2>5. CASE q = o /\ ~Live(o)
    <3>1. Live(o)' /\ ops'[o].sound /\ ops'[o].kind = "move"
      BY <2>2, <2>5
    <3>2. /\ UNCHANGED <<peers, nodes>>
          /\ \E op : /\ BegunAs(ops'[o], op, rows'[op.conn])
                     /\ Modest(op.req)
      BY <1>5, <2>5, <3>1, BeginsSound DEF GroundInv
    <3>3. OnePath(ops[o])'
      BY <3>1, <3>2, BegunOnePath DEF PathInv
    <3> QED BY <2>5, <3>3
  <2> QED BY <2>3, <2>4, <2>5
<1> QED BY <1>1, <1>3, <1>4, <1>5 DEF PathInv, Next

\* migrate, make before break: a move of a working connection keeps a working
\* pair at every step, whatever other requests do, as long as one command,
\* reply or check has failed at most; when the names of connections differ, no
\* server holds the same tunnel or ports twice at first, and a request that
\* names a server leaves the addresses to the hub.
THEOREM MovesKeepAPath ==
  ASSUME NamesApart, StartApart, PlainMoves
  PROVE  Spec => [](faults <= 1 => MoveKeepsAPath)
<1>1. Init => PathInv
  BY PathStarts
<1>2. WorkInv /\ PathInv /\ [Next]_vars => PathInv'
  BY PathNext DEF WorkInv
<1>3. WorkInv /\ PathInv => (faults <= 1 => MoveKeepsAPath)
  BY OnePathIsPath DEF WorkInv, MoveKeepsAPath, PlainMove
<1> QED BY <1>1, <1>2, <1>3, WorkInvariant, PTL DEF Spec
=============================================================================

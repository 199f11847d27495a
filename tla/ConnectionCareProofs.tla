------------------------ MODULE ConnectionCareProofs ------------------------
(***************************************************************************)
(* What ConnectionCare promises for every size, path, overhead and fault,  *)
(* and every number of requests: that one of them is at work at a time,    *)
(* that a change that succeeded fits what was measured, that healthy means *)
(* both ends are, and that the MTU shown is the one there.  The inductive  *)
(* invariants are CareInv, whose parts say of each request what its stage  *)
(* rests on, and SummaryInv for the last.                                  *)
(***************************************************************************)
EXTENDS ConnectionCare, FiniteSetTheorems, TLAPS

OfMtu(op) == op.kind \in {"MTU_CHANGE", "MTU_RESTORE"}

\* The stages of a change from its weighing to its end.
Weighing == {"send", "verify", "verify again", "set", "reach",
             "undo", "undone", "reset", "undone again"}

Sized == [Side -> Nat]

\* The fields the argument reads.
Shaped(op) ==
  /\ "kind" \in DOMAIN op /\ "status" \in DOMAIN op /\ "old" \in DOMAIN op
  /\ "want" \in DOMAIN op /\ "measured" \in DOMAIN op /\ "result" \in DOMAIN op
  /\ "pc" \in DOMAIN op /\ "code" \in DOMAIN op

\* What FitsWhatWasMeasured asks of one row.
Fits(op) ==
  /\ op.measured # {}
  /\ \A s \in Side : op.want[s] >= MinLegal /\ op.want[s] + Overhead <= Nic[s]
  /\ \A s \in op.measured : op.want[s] + Overhead <= Path[s]

\* The values of a row and of a change under way.
Valued(op) ==
  /\ op.old = NoValues \/ op.old \in Sized
  /\ OfMtu(op) => op.want \in Sized
  /\ op.kind = "MTU_CHANGE" => op.want["iran"] = op.want["foreign"]
  /\ op.pc \in Weighing => op.old \in Sized

\* Which request is at which stage.
Staged(op) ==
  /\ op.pc \in Weighing \cup {"read"} => OfMtu(op)
  /\ op.pc = "check" => op.kind = "HEALTH_CHECK" /\ op.result = "none"
  /\ op.pc \in {"planned", "repair", "recheck"} => op.kind = "HEALTH_REPAIR"
  /\ op.pc \notin Waiting => op.status = "RUNNING"
  /\ op.pc \in {"none", "planned"} => op.status = "none"

Weighed(op) ==
  op.kind = "MTU_CHANGE" /\ (op.pc \in Weighing \/ op.status = "SUCCEEDED") => Fits(op)

Good(op) == Shaped(op) /\ Valued(op) /\ Staged(op) /\ Weighed(op)

HostTypes == live \in Sized /\ backup \in [Side -> Nat \cup {None}]

OpsGood == DOMAIN ops = Ops /\ \A i \in Ops : Good(ops[i])

\* The lock is that of the one request at work.
Locked ==
  /\ started \in Nat /\ lock \in 0..started
  /\ \A i \in Ops : ops[i].pc # "none" => i <= started
  /\ \A i \in Ops : ops[i].pc \notin Waiting <=> lock = i
  /\ lock # 0 => lock \in Ops

CareInv == HostTypes /\ OpsGood /\ Locked

-----------------------------------------------------------------------------
(* A request writes its own row and nobody else's.                         *)
LEMMA PutKeeps ==
  ASSUME OpsGood, NEW i \in Ops, NEW op, Good(op), ops' = [ops EXCEPT ![i] = op]
  PROVE  OpsGood' /\ ops'[i] = op /\ \A k \in Ops \ {i} : ops'[k] = ops[k]
<1>1. DOMAIN ops' = Ops /\ ops'[i] = op /\ \A k \in Ops \ {i} : ops'[k] = ops[k]
  BY DEF OpsGood
<1>2. ASSUME NEW k \in Ops PROVE Good(ops'[k])
  BY <1>1, <1>2 DEF OpsGood
<1> QED BY <1>1, <1>2 DEF OpsGood

(* A request at work takes its next step, or ends and leaves the lock.     *)
LEMMA WorksOn ==
  ASSUME CareInv, NEW i \in Ops, NEW op, Good(op), ops' = [ops EXCEPT ![i] = op],
         ops[i].pc \notin Waiting, HostTypes', UNCHANGED started,
         \/ op.pc \notin Waiting /\ lock' = lock
         \/ op.pc = "done" /\ lock' = IF lock = i THEN 0 ELSE lock
  PROVE  CareInv'
<1>1. OpsGood' /\ ops'[i] = op /\ \A k \in Ops \ {i} : ops'[k] = ops[k]
  BY PutKeeps DEF CareInv
<1>2. lock = i /\ Locked
  BY DEF CareInv, Locked
<1>3. CASE op.pc \notin Waiting /\ lock' = lock
  BY <1>1, <1>2, <1>3 DEF CareInv, Locked, Waiting
<1>4. CASE op.pc = "done" /\ lock' = IF lock = i THEN 0 ELSE lock
  BY <1>1, <1>2, <1>4 DEF CareInv, Locked, Waiting, Ops
<1> QED BY <1>3, <1>4

(* A row that keeps what Good reads, at a stage of the same request.       *)
LEMMA KeepsGood ==
  ASSUME NEW was, Good(was), NEW op, Shaped(op), was.pc \notin Waiting,
         op.status = was.status, op.kind = was.kind, op.old = was.old, op.want = was.want,
         op.measured = was.measured,
         op.pc \notin Waiting \cup {"read", "check"},
         op.pc \in Weighing => was.pc \in Weighing,
         op.pc \in {"repair", "recheck"} => was.kind = "HEALTH_REPAIR"
  PROVE  Good(op)
<1>1. Valued(op)
  BY DEF Good, Valued, OfMtu
<1>2. Staged(op)
  BY DEF Good, Staged, OfMtu, Waiting
<1>3. Weighed(op)
  BY DEF Good, Weighed, Fits
<1> QED BY <1>1, <1>2, <1>3 DEF Good

LEMMA GoesOn ==
  ASSUME CareInv, NEW i \in Ops, NEW pc, NEW left, Goto(i, pc, left),
         ops[i].pc \notin Waiting, HostTypes', UNCHANGED <<started, lock>>,
         pc \notin Waiting \cup {"read", "check"},
         pc \in Weighing => ops[i].pc \in Weighing,
         pc \in {"repair", "recheck"} => ops[i].kind = "HEALTH_REPAIR"
  PROVE  CareInv'
<1> DEFINE op == [ops[i] EXCEPT !.pc = pc, !.left = left]
<1>1. OpsGood /\ Good(ops[i]) /\ Shaped(ops[i])
  BY DEF CareInv, OpsGood, Good
<1>2. ops' = [ops EXCEPT ![i] = op]
  BY <1>1 DEF Goto, OpsGood
<1>3. /\ Shaped(op) /\ op.pc = pc /\ op.status = ops[i].status /\ op.kind = ops[i].kind
      /\ op.old = ops[i].old /\ op.want = ops[i].want /\ op.measured = ops[i].measured
  BY <1>1 DEF Shaped
<1> HIDE DEF op
<1>4. Good(op)
  BY <1>1, <1>3, KeepsGood
<1> QED BY <1>2, <1>3, <1>4, WorksOn

LEMMA UndoingGoesOn ==
  ASSUME CareInv, NEW i \in Ops, NEW only, Undoing(i, only),
         ops[i].pc \in Weighing, HostTypes', UNCHANGED <<started, lock>>
  PROVE  CareInv'
<1> DEFINE op == [ops[i] EXCEPT !.pc = "undo", !.only = only, !.left = only]
<1>1. OpsGood /\ Good(ops[i]) /\ Shaped(ops[i])
  BY DEF CareInv, OpsGood, Good
<1>2. ops' = [ops EXCEPT ![i] = op]
  BY <1>1 DEF Undoing, OpsGood
<1>3. /\ Shaped(op) /\ op.pc = "undo" /\ op.status = ops[i].status /\ op.kind = ops[i].kind
      /\ op.old = ops[i].old /\ op.want = ops[i].want /\ op.measured = ops[i].measured
  BY <1>1 DEF Shaped
<1>4. ops[i].pc \notin Waiting /\ "undo" \notin Waiting
  BY DEF Weighing, Waiting
<1> HIDE DEF op
<1>5. Good(op)
  BY <1>1, <1>3, <1>4, KeepsGood
<1> QED BY <1>2, <1>3, <1>4, <1>5, WorksOn

(* A row that has ended keeps its values.                                  *)
LEMMA EndedIs ==
  ASSUME NEW was, Shaped(was), Valued(was), NEW status, NEW result,
         was.kind = "MTU_CHANGE" /\ status = "SUCCEEDED" => Fits(was)
  PROVE  /\ Good(Ended(was, status, result))
         /\ Ended(was, status, result).pc = "done"
         /\ Ended(was, status, result).status = status
         /\ Ended(was, status, result).result = result
<1> DEFINE op == Ended(was, status, result)
<1>1. /\ Shaped(op) /\ op.pc = "done" /\ op.status = status /\ op.kind = was.kind
      /\ op.old = was.old /\ op.want = was.want /\ op.measured = was.measured
      /\ op.result = result
  BY DEF Ended, NoOp, Shaped
<1> HIDE DEF op
<1>2. Valued(op)
  BY <1>1 DEF Valued, OfMtu, Weighing
<1>3. Staged(op)
  BY <1>1 DEF Staged, Weighing, Waiting
<1>4. Weighed(op)
  BY <1>1 DEF Weighed, Fits, Weighing
<1>5. Good(op)
  BY <1>1, <1>2, <1>3, <1>4 DEF Good
<1> QED BY <1>1, <1>5 DEF op

LEMMA FinishEnds ==
  ASSUME CareInv, NEW i \in Ops, NEW status, NEW result, Finish(i, status, result),
         ops[i].pc \notin Waiting, HostTypes', UNCHANGED started,
         ops[i].kind = "MTU_CHANGE" /\ status = "SUCCEEDED" => Fits(ops[i])
  PROVE  CareInv'
<1> DEFINE op == Ended(ops[i], status, result)
<1>1. Good(ops[i])
  BY DEF CareInv, OpsGood
<1>2. Good(op) /\ op.pc = "done"
  BY <1>1, EndedIs DEF Good
<1>3. ops' = [ops EXCEPT ![i] = op] /\ lock' = IF lock = i THEN 0 ELSE lock
  BY DEF Finish
<1> HIDE DEF op
<1> QED BY <1>2, <1>3, WorksOn

-----------------------------------------------------------------------------
(* The servers keep numbers.                                               *)
LEMMA LeavesTypes ==
  ASSUME HostTypes, NEW s \in Side, NEW out, Leaves(s, out),
         out.host.live \in Nat, out.host.backup \in Nat \cup {None}
  PROVE  HostTypes'
BY DEF HostTypes, Leaves, Sized

LEMMA MtuSetTypes ==
  ASSUME HostTypes, NEW s \in Side, NEW mtu \in Nat, NEW out \in MtuSet(s, mtu)
  PROVE  out.host.live \in Nat /\ out.host.backup \in Nat \cup {None}
<1>1. live[s] \in Nat /\ backup[s] \in Nat \cup {None}
  BY DEF HostTypes, Sized
<1> DEFINE h == Host(s)
           done == [h EXCEPT !.live = mtu, !.backup = h.live]
           kept == [h EXCEPT !.backup = h.live]
<1>2. h.live = live[s] /\ h.backup = backup[s]
  BY DEF Host
<1>3. done.live = mtu /\ done.backup = live[s] /\ kept.live = live[s] /\ kept.backup = live[s]
  BY DEF Host
<1>4. \E ok \in BOOLEAN, fault \in BOOLEAN :
         out \in {Outcome(ok, h, fault), Outcome(ok, done, fault), Outcome(ok, kept, fault)}
  BY DEF MtuSet
<1>5. out.host \in {h, done, kept}
  <2>1. \A ok, host, fault : Outcome(ok, host, fault).host = host
    BY DEF Outcome
  <2> HIDE DEF h, done, kept
  <2> QED BY <1>4, <2>1
<1> HIDE DEF h, done, kept
<1> QED BY <1>1, <1>2, <1>3, <1>5

LEMMA MtuRestoreTypes ==
  ASSUME HostTypes, NEW s \in Side, NEW out \in MtuRestore(s)
  PROVE  out.host.live \in Nat /\ out.host.backup \in Nat \cup {None}
<1>1. live[s] \in Nat /\ backup[s] \in Nat \cup {None}
  BY DEF HostTypes, Sized
<1> DEFINE h == Host(s)
           done == [h EXCEPT !.live = h.backup, !.backup = None]
<1>2. h.live = live[s] /\ h.backup = backup[s]
  BY DEF Host
<1>3. done.live = backup[s] /\ done.backup = None
  BY DEF Host
<1>4. \A ok, host, fault : Outcome(ok, host, fault).host = host
  BY DEF Outcome
<1>5. out.host = h \/ (out.host = done /\ backup[s] # None)
  <2>1. out \in IF h.backup = None THEN {Outcome(FALSE, h, FALSE)}
                ELSE {Outcome(TRUE, done, FALSE), Outcome(FALSE, done, TRUE),
                      Outcome(FALSE, h, TRUE)}
    BY DEF MtuRestore
  <2> HIDE DEF h, done
  <2>2. CASE h.backup = None
    <3>1. out = Outcome(FALSE, h, FALSE)
      BY <2>1, <2>2
    <3> QED BY <1>4, <3>1
  <2>3. CASE h.backup # None
    <3>1. \E ok, fault : out \in {Outcome(ok, done, fault), Outcome(ok, h, fault)}
      BY <2>1, <2>3
    <3> QED BY <1>2, <1>4, <2>3, <3>1
  <2> QED BY <2>2, <2>3
<1> HIDE DEF h, done
<1> QED BY <1>1, <1>2, <1>3, <1>5

LEMMA RepairTypes ==
  ASSUME HostTypes, NEW s \in Side, NEW code, NEW out \in RepairApply(s, code)
  PROVE  out.host.live \in Nat /\ out.host.backup \in Nat \cup {None}
<1>1. live[s] \in Nat /\ backup[s] \in Nat \cup {None} /\ Path[s] - Overhead \in Nat
  BY CareAssumption DEF HostTypes, Sized
<1> DEFINE h == Host(s)
           mtu == [h EXCEPT !.live = Path[s] - Overhead,
                            !.backup = IF h.live = Path[s] - Overhead THEN @ ELSE h.live]
           mended == [h EXCEPT !.broken = @ \ {code}]
           fixed == IF code = MtuCode THEN mtu ELSE mended
<1>2. h.live = live[s] /\ h.backup = backup[s]
  BY DEF Host
<1>3. /\ mtu.live = Path[s] - Overhead /\ mtu.backup \in {backup[s], live[s]}
      /\ mended.live = live[s] /\ mended.backup = backup[s]
  BY DEF Host
<1>4. \A ok, host, fault : Outcome(ok, host, fault).host = host
  BY DEF Outcome
<1>5. out.host \in {h, fixed}
  <2>1. out \in {Outcome(FALSE, h, TRUE)} \cup
      (IF code \notin Handled \cup {MtuCode} THEN {Outcome(FALSE, h, FALSE)}
       ELSE {Outcome(code # MtuCode \/ Path[s] = Nic[s], fixed, FALSE),
             Outcome(FALSE, fixed, TRUE)})
    BY DEF RepairApply
  <2> HIDE DEF h, fixed
  <2>2. \E ok, fault : out \in {Outcome(ok, h, fault), Outcome(ok, fixed, fault)}
    <3>1. CASE code \notin Handled \cup {MtuCode}
      BY <2>1, <3>1
    <3>2. CASE code \in Handled \cup {MtuCode}
      BY <2>1, <3>2
    <3> QED BY <3>1, <3>2
  <2> QED BY <1>4, <2>2
<1>6. fixed \in {mtu, mended}
  OBVIOUS
<1> HIDE DEF h, mtu, mended, fixed
<1> QED BY <1>1, <1>2, <1>3, <1>5, <1>6

-----------------------------------------------------------------------------
(* What one end's answer says: what it calls measured is not more than the *)
(* path carries, and nothing is more than the egress interface does.       *)
LEMMA ViewIs ==
  ASSUME HostTypes, NEW s \in Side, NEW passed \in SUBSET {"outer", "inner"},
         NEW view, view = NormalizeSide(Diagnose(s, passed))
  PROVE  /\ view.ok /\ view.gre = live[s] /\ view.overhead = Overhead
         /\ view.capacity \in Nat /\ view.capacity <= Nic[s] /\ view.measured \in BOOLEAN
         /\ view.measured => view.capacity <= Path[s]
<1> DEFINE a == Diagnose(s, passed)
<1>1. /\ live[s] \in Nat /\ Path[s] \in Nat /\ Nic[s] \in Nat /\ Overhead \in Nat
      /\ Overhead <= Path[s] /\ Path[s] <= Nic[s] /\ None \notin Nat
  BY CareAssumption, AdviceAssumption DEF HostTypes, Sized
<1>2. /\ a.ok = TRUE /\ a.nic = Nic[s] /\ a.gre = live[s] /\ a.overhead = Overhead
      /\ a.outer = IF "outer" \in passed THEN Path[s] ELSE None
      /\ a.inner = IF "inner" \in passed THEN Smaller(live[s], Path[s] - Overhead) ELSE None
  BY DEF Diagnose
<1>3. view = NormalizeSide(a)
  OBVIOUS
<1> HIDE DEF a
<1>4. OverheadOf(a) = Overhead
  BY <1>1, <1>2 DEF OverheadOf
<1>5. view.ok /\ view.gre = live[s] /\ view.overhead = Overhead /\ view.measured \in BOOLEAN
  BY <1>2, <1>3, <1>4 DEF NormalizeSide
<1>6. view.capacity = CapacityOf(a) /\ view.measured = (SourceOf(a) \in {"outer_probe", "inner_probe"})
  <2>1. view.capacity = CapacityOf(a)
    BY <1>3 DEF NormalizeSide
  <2>2. view.measured = (SourceOf(a) \in {"outer_probe", "inner_probe"})
    BY <1>3 DEF NormalizeSide
  <2> QED BY <2>1, <2>2
<1>7. CASE "outer" \in passed
  <2>1. SourceOf(a) = "outer_probe"
    BY <1>1, <1>2, <1>7 DEF SourceOf
  <2>2. CapacityOf(a) = Path[s]
    BY <1>2, <1>7, <2>1 DEF CapacityOf
  <2> QED BY <1>1, <1>5, <1>6, <2>2
<1>8. CASE "outer" \notin passed /\ "inner" \in passed
  <2>1. a.inner \in Nat /\ a.inner <= Path[s] - Overhead
    BY <1>1, <1>2, <1>8 DEF Smaller
  <2>2. SourceOf(a) = "inner_probe"
    BY <1>1, <1>2, <1>4, <1>8, <2>1 DEF SourceOf
  <2>3. CapacityOf(a) = a.inner + Overhead
    BY <1>4, <2>2 DEF CapacityOf
  <2> QED BY <1>1, <1>5, <1>6, <2>1, <2>3
<1>9. CASE "outer" \notin passed /\ "inner" \notin passed
  <2>1. SourceOf(a) = "configured_nic"
    BY <1>1, <1>2, <1>9 DEF SourceOf
  <2>2. CapacityOf(a) = Nic[s]
    BY <1>2, <2>1 DEF CapacityOf
  <2>3. view.capacity = Nic[s] /\ ~view.measured
    BY <1>6, <2>1, <2>2
  <2> QED BY <1>1, <1>5, <2>3
<1> QED BY <1>7, <1>8, <1>9

\* What the two answers have to say for a plan to be made of them.
Answered(v) ==
  /\ v = [s \in Side |-> v[s]]
  /\ \A s \in Side : /\ v[s].ok /\ v[s].gre \in Nat /\ v[s].overhead = Overhead
                     /\ v[s].capacity \in Nat /\ v[s].capacity <= Nic[s]
                     /\ v[s].measured \in BOOLEAN
                     /\ v[s].measured => v[s].capacity <= Path[s]

LEMMA ViewsAnswered ==
  ASSUME HostTypes, NEW v \in Views
  PROVE  Answered(v)
<1>1. PICK passed \in [Side -> Probes] : v = [s \in Side |-> NormalizeSide(Diagnose(s, passed[s]))]
  BY DEF Views
<1>2. ASSUME NEW s \in Side
      PROVE  /\ v[s].ok /\ v[s].gre \in Nat /\ v[s].overhead = Overhead
             /\ v[s].capacity \in Nat /\ v[s].capacity <= Nic[s] /\ v[s].measured \in BOOLEAN
             /\ v[s].measured => v[s].capacity <= Path[s]
  <2>1. passed[s] \in SUBSET {"outer", "inner"}
    BY DEF Probes
  <2>2. v[s] = NormalizeSide(Diagnose(s, passed[s]))
    BY <1>1
  <2>3. live[s] \in Nat
    BY DEF HostTypes, Sized
  <2> QED BY <2>1, <2>2, <2>3, ViewIs
<1> QED BY <1>1, <1>2 DEF Answered

(* The tunnel is sized by the smaller of the two paths.                    *)
LEMMA LowerIsLowest ==
  ASSUME NEW v, Answered(v)
  PROVE  /\ Capped(v) = Side /\ Lower(v) \in Side
         /\ \A s \in Side : v[Lower(v)].capacity <= v[s].capacity
<1>1. None \notin Nat
  BY AdviceAssumption
<1>2. Capped(v) = Side
  BY <1>1 DEF Capped, Answered
<1>3. v["iran"].capacity \in Nat /\ v["foreign"].capacity \in Nat
  BY DEF Answered, Side
<1>4. Lower(v) = IF v["foreign"].capacity < v["iran"].capacity THEN "foreign" ELSE "iran"
  BY <1>2 DEF Lower
<1> QED BY <1>2, <1>3, <1>4 DEF Side

(* A change that may be applied rests on a measurement and fits both paths. *)
LEMMA PlanFits ==
  ASSUME NEW v, Answered(v), NEW target \in Nat, PlanMtuChange(v, target).canApply
  PROVE  /\ {s \in Side : v[s].measured} # {}
         /\ \A s \in Side : /\ target >= MinLegal /\ target + Overhead <= Nic[s]
                            /\ v[s].measured => target + Overhead <= Path[s]
<1> DEFINE rec == Recommend(v)
           low == v[Lower(v)].capacity
<1>1. rec.safe /\ TargetFits(rec, target)
  BY DEF PlanMtuChange
<1>2. Capped(v) = Side /\ Lower(v) \in Side /\ \A s \in Side : low <= v[s].capacity
  BY LowerIsLowest
<1>3. low \in Nat /\ Overhead \in Nat /\ None \notin Nat /\ MinLegal \in Nat /\ Side # {}
  BY <1>2, CareAssumption, AdviceAssumption DEF Answered, Side
<1>4. rec.underlay = low
  BY <1>2, <1>3 DEF Recommend
<1>5. rec.overhead = Overhead
  BY <1>2, <1>3 DEF Recommend, SizingOverhead, Answered
<1>6. Confidence(v) \in {"high", "medium"}
  BY <1>1 DEF Recommend
<1>7. {s \in Side : v[s].measured} # {}
  BY <1>3, <1>6 DEF Confidence, Answered
<1>8. target >= MinLegal /\ target + Overhead <= low
  BY <1>1, <1>3, <1>4, <1>5 DEF TargetFits
<1>9. ASSUME NEW s \in Side
      PROVE  target + Overhead <= Nic[s] /\ (v[s].measured => target + Overhead <= Path[s])
  <2>1. v[s].capacity \in Nat /\ low <= v[s].capacity /\ Nic[s] \in Nat /\ Path[s] \in Nat
    BY <1>2, CareAssumption DEF Answered
  <2>2. v[s].capacity <= Nic[s] /\ (v[s].measured => v[s].capacity <= Path[s])
    BY DEF Answered
  <2> HIDE DEF low
  <2> QED BY <1>3, <1>8, <2>1, <2>2
<1> QED BY <1>7, <1>8, <1>9

-----------------------------------------------------------------------------
(* The steps of a change.                                                  *)
LEMMA AtWork ==
  ASSUME CareInv, NEW i \in Ops
  PROVE  /\ Good(ops[i]) /\ OpsGood /\ HostTypes
         /\ ops[i].pc \in Weighing \cup {"read", "check", "repair", "recheck"}
              => ops[i].pc \notin Waiting
         /\ ops[i].pc \in Weighing => ops[i].old \in Sized /\ ops[i].want \in Sized
         /\ ops[i].pc \in Weighing /\ ops[i].kind = "MTU_CHANGE" => Fits(ops[i])
<1>1. Good(ops[i]) /\ OpsGood /\ HostTypes
  BY DEF CareInv, OpsGood
<1>2. ops[i].pc \in Weighing => OfMtu(ops[i])
  BY <1>1 DEF Good, Staged
<1> QED BY <1>1, <1>2 DEF Good, Valued, Weighed, Weighing, Waiting

LEMMA SameHosts == ASSUME HostTypes, UNCHANGED hosts PROVE HostTypes'
BY DEF HostTypes, hosts

LEMMA FirstIsSide == \A left : First(left) \in Side
BY DEF First, Side

LEMMA UnreadableKeeps ==
  ASSUME CareInv, NEW i \in Ops, Unreadable(i)
  PROVE  CareInv'
<1>1. ops[i].pc = "read" /\ Finish(i, "REJECTED", "unread") /\ UNCHANGED <<hosts, started>>
  BY DEF Unreadable
<1> QED BY <1>1, AtWork, SameHosts, FinishEnds

LEMMA ReadKeeps ==
  ASSUME CareInv, NEW i \in Ops, ReadBothEndpoints(i)
  PROVE  CareInv'
<1>1. PICK v \in Views :
        LET plan == PlanMtuChange(v, ops[i].want["iran"])
            seen == [ops[i] EXCEPT !.old = plan.current,
                                   !.measured = {s \in Side : v[s].measured},
                                   !.reach = [s \in Side |-> v[s].reach]]
        IN  IF Restoring(i) \/ plan.canApply
            THEN /\ ops' = [ops EXCEPT ![i] = [seen EXCEPT !.pc = "send", !.left = Side]]
                 /\ lock' = lock
            ELSE /\ ops' = [ops EXCEPT ![i] = Ended(seen, "REJECTED",
                              IF plan.safe THEN "unfit" ELSE "unsafe")]
                 /\ lock' = IF lock = i THEN 0 ELSE lock
  BY DEF ReadBothEndpoints
<1> DEFINE plan == PlanMtuChange(v, ops[i].want["iran"])
           seen == [ops[i] EXCEPT !.old = plan.current,
                                  !.measured = {s \in Side : v[s].measured},
                                  !.reach = [s \in Side |-> v[s].reach]]
           sent == [seen EXCEPT !.pc = "send", !.left = Side]
<1>2. ops[i].pc = "read" /\ UNCHANGED <<hosts, started>> /\ HostTypes'
  BY AtWork, SameHosts DEF ReadBothEndpoints
<1>3. /\ Shaped(ops[i]) /\ OfMtu(ops[i]) /\ ops[i].want \in Sized
      /\ ops[i].status = "RUNNING" /\ ops[i].pc \notin Waiting
  BY <1>2, AtWork DEF Good, Staged, Valued, Waiting
<1>4. /\ Answered(v)
      /\ ops[i].kind = "MTU_CHANGE" => ops[i].want["iran"] = ops[i].want["foreign"]
  BY AtWork, ViewsAnswered DEF Good, Valued
<1>5. plan.current \in Sized
  BY <1>4 DEF PlanMtuChange, Sized, Answered
<1>6. /\ Shaped(seen) /\ seen.kind = ops[i].kind /\ seen.status = ops[i].status
      /\ seen.want = ops[i].want /\ seen.old = plan.current /\ seen.pc = ops[i].pc
      /\ seen.measured = {s \in Side : v[s].measured}
  <2> HIDE DEF plan
  <2> QED BY <1>3 DEF Shaped
<1> HIDE DEF seen
<1>7. CASE Restoring(i) \/ plan.canApply
  <2>1. ops' = [ops EXCEPT ![i] = sent] /\ lock' = lock
    BY <1>1, <1>7 DEF seen
  <2>2. /\ Shaped(sent) /\ sent.kind = ops[i].kind /\ sent.status = "RUNNING"
        /\ sent.want = ops[i].want /\ sent.old = plan.current /\ sent.pc = "send"
        /\ sent.measured = {s \in Side : v[s].measured}
    BY <1>3, <1>6 DEF Shaped
  <2> HIDE DEF sent
  <2>3. Valued(sent)
    BY <1>3, <1>4, <1>5, <2>2 DEF Valued, OfMtu
  <2>4. Staged(sent)
    BY <1>3, <2>2 DEF Staged, OfMtu, Waiting
  <2>5. Weighed(sent)
    <3>1. SUFFICES ASSUME ops[i].kind = "MTU_CHANGE" PROVE Fits(sent)
      BY <2>2 DEF Weighed
    <3>2. plan.canApply
      BY <1>7, <3>1 DEF Restoring
    <3> DEFINE target == ops[i].want["iran"]
    <3>3. target \in Nat
      BY <1>3 DEF Sized, Side
    <3>4. /\ {s \in Side : v[s].measured} # {}
          /\ \A s \in Side : /\ target >= MinLegal /\ target + Overhead <= Nic[s]
                             /\ v[s].measured => target + Overhead <= Path[s]
      BY <1>4, <3>2, <3>3, PlanFits
    <3>5. \A s \in Side : ops[i].want[s] = target
      BY <3>1, AtWork DEF Good, Valued, Side
    <3> QED BY <2>2, <3>4, <3>5 DEF Fits
  <2>6. Good(sent)
    BY <2>2, <2>3, <2>4, <2>5 DEF Good
  <2>7. sent.pc \notin Waiting
    BY <2>2 DEF Waiting
  <2> QED BY <1>2, <1>3, <2>1, <2>6, <2>7, WorksOn
<1>8. CASE ~(Restoring(i) \/ plan.canApply)
  <2> DEFINE why == IF plan.safe THEN "unfit" ELSE "unsafe"
  <2>1. ops' = [ops EXCEPT ![i] = Ended(seen, "REJECTED", why)]
        /\ lock' = IF lock = i THEN 0 ELSE lock
    BY <1>1, <1>8 DEF seen
  <2>2. Valued(seen)
    BY <1>3, <1>4, <1>5, <1>6 DEF Valued, OfMtu
  <2> HIDE DEF why
  <2>3. Good(Ended(seen, "REJECTED", why)) /\ Ended(seen, "REJECTED", why).pc = "done"
    BY <1>6, <2>2, EndedIs
  <2> QED BY <1>2, <1>3, <2>1, <2>3, WorksOn
<1> QED BY <1>7, <1>8

LEMMA SendKeeps ==
  ASSUME CareInv, NEW i \in Ops, SendChange(i)
  PROVE  CareInv'
<1> DEFINE s == First(ops[i].left)
           rest == ops[i].left \ {s}
           next == IF rest = {} THEN "verify" ELSE "send"
<1>1. PICK out \in IF Restoring(i) THEN MtuRestore(s) ELSE MtuSet(s, ops[i].want[s]) :
        /\ Leaves(s, out)
        /\ IF out.ok THEN Goto(i, next, rest) /\ lock' = lock
           ELSE IF s = "iran" THEN Finish(i, "REJECTED", "iran")
           ELSE Undoing(i, {"iran"}) /\ lock' = lock
  BY DEF SendChange
<1>2. s \in Side /\ ops[i].pc = "send" /\ UNCHANGED started
  BY FirstIsSide DEF SendChange
<1>3. /\ HostTypes /\ ops[i].pc \in Weighing /\ ops[i].pc \notin Waiting
      /\ ops[i].want \in Sized
  BY <1>2, AtWork DEF Weighing
<1>4. ops[i].want[s] \in Nat
  BY <1>2, <1>3 DEF Sized
<1> HIDE DEF s, rest
<1>5. out.host.live \in Nat /\ out.host.backup \in Nat \cup {None}
  <2>1. CASE Restoring(i)
    BY <1>1, <1>2, <1>3, <2>1, MtuRestoreTypes
  <2>2. CASE ~Restoring(i)
    BY <1>1, <1>2, <1>3, <1>4, <2>2, MtuSetTypes
  <2> QED BY <2>1, <2>2
<1>6. HostTypes'
  BY <1>1, <1>2, <1>3, <1>5, LeavesTypes
<1>7. next \in {"verify", "send"}
  OBVIOUS
<1> HIDE DEF next
<1>8. CASE Goto(i, next, rest) /\ lock' = lock
  BY <1>2, <1>3, <1>6, <1>7, <1>8, GoesOn DEF Weighing, Waiting
<1>9. CASE Finish(i, "REJECTED", "iran")
  BY <1>2, <1>3, <1>6, <1>9, FinishEnds
<1>10. CASE Undoing(i, {"iran"}) /\ lock' = lock
  BY <1>2, <1>3, <1>6, <1>10, UndoingGoesOn
<1> QED BY <1>1, <1>8, <1>9, <1>10

LEMMA VerifyKeeps ==
  ASSUME CareInv, NEW i \in Ops, VerifyInterfaces(i) \/ VerifyConnectivity(i)
  PROVE  CareInv'
<1>1. /\ ops[i].pc \in Weighing /\ UNCHANGED <<hosts, started>> /\ HostTypes'
      /\ ops[i].pc \notin Waiting
  BY AtWork, SameHosts DEF VerifyInterfaces, VerifyConnectivity, Weighing
<1>2. \/ (Goto(i, "reach", {}) \/ Goto(i, "set", Side) \/ Undoing(i, Side)) /\ lock' = lock
      \/ Finish(i, "SUCCEEDED", "verified")
  BY DEF VerifyInterfaces, VerifyConnectivity
<1>3. CASE Goto(i, "reach", {}) /\ lock' = lock
  BY <1>1, <1>3, GoesOn DEF Weighing, Waiting
<1>4. CASE Goto(i, "set", Side) /\ lock' = lock
  BY <1>1, <1>4, GoesOn DEF Weighing, Waiting
<1>5. CASE Undoing(i, Side) /\ lock' = lock
  BY <1>1, <1>5, UndoingGoesOn
<1>6. CASE Finish(i, "SUCCEEDED", "verified")
  BY <1>1, <1>6, AtWork, FinishEnds
<1> QED BY <1>2, <1>3, <1>4, <1>5, <1>6

(* The steps that ask one side after the other, whatever comes back.       *)
LEMMA AsksKeeps ==
  ASSUME CareInv, NEW i \in Ops, SetExplicitly(i) \/ UndoChange(i) \/ UndoExplicitly(i)
  PROVE  CareInv'
<1> DEFINE s == First(ops[i].left)
           rest == ops[i].left \ {s}
<1>1. /\ s \in Side /\ UNCHANGED <<started, lock>> /\ HostTypes
      /\ ops[i].pc \in Weighing /\ ops[i].pc \notin Waiting
      /\ ops[i].want \in Sized /\ ops[i].old \in Sized
  BY FirstIsSide, AtWork DEF SetExplicitly, UndoChange, UndoExplicitly, Weighing
<1>2. ops[i].want[s] \in Nat /\ ops[i].old[s] \in Nat
  BY <1>1 DEF Sized
<1>3. PICK out \in MtuSet(s, ops[i].want[s]) \cup MtuSet(s, ops[i].old[s]) \cup MtuRestore(s) :
        Leaves(s, out)
  BY DEF SetExplicitly, UndoChange, UndoExplicitly
<1>4. \E pc \in {"verify again", "set", "undone", "undo", "undone again", "reset"} :
        Goto(i, pc, rest)
  BY DEF SetExplicitly, UndoChange, UndoExplicitly
<1> HIDE DEF s, rest
<1>5. out.host.live \in Nat /\ out.host.backup \in Nat \cup {None}
  BY <1>1, <1>2, <1>3, MtuSetTypes, MtuRestoreTypes
<1>6. HostTypes'
  BY <1>1, <1>3, <1>5, LeavesTypes
<1>7. PICK pc \in {"verify again", "set", "undone", "undo", "undone again", "reset"} :
        Goto(i, pc, rest)
  BY <1>4
<1>8. pc \in Weighing /\ pc \notin Waiting \cup {"read", "check", "repair", "recheck"}
  BY <1>7 DEF Weighing, Waiting
<1> QED BY <1>1, <1>6, <1>7, <1>8, GoesOn

LEMMA UndoneKeeps ==
  ASSUME CareInv, NEW i \in Ops, VerifyUndone(i)
  PROVE  CareInv'
<1>1. /\ ops[i].pc \in Weighing /\ UNCHANGED <<hosts, started>> /\ HostTypes'
      /\ ops[i].pc \notin Waiting
  BY AtWork, SameHosts DEF VerifyUndone, Weighing
<1>2. \/ Goto(i, "reset", ops[i].only) /\ lock' = lock
      \/ \E result : Finish(i, "ROLLED_BACK", result)
      \/ Finish(i, "ROLLBACK_FAILED", "unknown")
  BY DEF VerifyUndone
<1>3. CASE Goto(i, "reset", ops[i].only) /\ lock' = lock
  BY <1>1, <1>3, GoesOn DEF Weighing, Waiting
<1>4. ASSUME NEW result, Finish(i, "ROLLED_BACK", result) PROVE CareInv'
  BY <1>1, <1>4, FinishEnds
<1>5. CASE Finish(i, "ROLLBACK_FAILED", "unknown")
  BY <1>1, <1>5, FinishEnds
<1> QED BY <1>2, <1>3, <1>4, <1>5

-----------------------------------------------------------------------------
(* Checks and repairs.                                                     *)
LEMMA RunCheckKeeps ==
  ASSUME CareInv, NEW i \in Ops, RunCheck(i)
  PROVE  CareInv'
<1>1. /\ UNCHANGED <<hosts, started>> /\ HostTypes'
      /\ ops[i].pc \notin Waiting /\ ops[i].kind = "HEALTH_CHECK"
  BY AtWork, SameHosts DEF RunCheck, Good, Staged
<1>2. \E status, result : Finish(i, status, result)
  BY DEF RunCheck
<1> QED BY <1>1, <1>2, FinishEnds

LEMMA ApplyRepairKeeps ==
  ASSUME CareInv, NEW i \in Ops, ApplyRepair(i)
  PROVE  CareInv'
<1> DEFINE s == First(ops[i].left)
           rest == ops[i].left \ {s}
<1>1. PICK out \in RepairApply(s, ops[i].code) :
        /\ Leaves(s, out)
        /\ ops' = [ops EXCEPT ![i].left = rest,
             ![i].pc = IF rest = {} THEN "recheck" ELSE "repair",
             ![i].applied = IF out.ok THEN @ \cup {s} ELSE @]
  BY DEF ApplyRepair
<1>2. /\ s \in Side /\ UNCHANGED <<started, lock>> /\ HostTypes /\ Good(ops[i]) /\ OpsGood
      /\ ops[i].pc \notin Waiting /\ ops[i].pc = "repair"
  BY FirstIsSide, AtWork DEF ApplyRepair
<1> HIDE DEF s, rest
<1>3. HostTypes'
  BY <1>1, <1>2, RepairTypes, LeavesTypes
<1> DEFINE next == IF rest = {} THEN "recheck" ELSE "repair"
           op == [ops[i] EXCEPT !.left = rest, !.pc = next,
                                !.applied = IF out.ok THEN @ \cup {s} ELSE @]
<1>4. ops' = [ops EXCEPT ![i] = op]
  BY <1>1, <1>2 DEF OpsGood
<1>5. /\ Shaped(op) /\ op.pc = next /\ op.status = ops[i].status /\ op.kind = ops[i].kind
      /\ op.old = ops[i].old /\ op.want = ops[i].want /\ op.measured = ops[i].measured
  BY <1>2 DEF Good, Shaped
<1>6. next \in {"recheck", "repair"} /\ ops[i].kind = "HEALTH_REPAIR"
  BY <1>2 DEF Good, Staged
<1> HIDE DEF op, next
<1>7. op.pc \notin Waiting \cup {"read", "check"} \cup Weighing
  BY <1>5, <1>6 DEF Waiting, Weighing
<1>8. Good(op)
  BY <1>2, <1>5, <1>6, <1>7, KeepsGood
<1> QED BY <1>2, <1>3, <1>4, <1>7, <1>8, WorksOn

LEMMA VerifyRepairKeeps ==
  ASSUME CareInv, NEW i \in Ops, VerifyRepair(i)
  PROVE  CareInv'
<1>1. /\ UNCHANGED <<hosts, started>> /\ HostTypes'
      /\ ops[i].pc \notin Waiting /\ ops[i].kind = "HEALTH_REPAIR"
  BY AtWork, SameHosts DEF VerifyRepair, Good, Staged
<1>2. \E status, result : Finish(i, status, result)
  BY DEF VerifyRepair
<1> QED BY <1>1, <1>2, FinishEnds

-----------------------------------------------------------------------------
(* A request comes in, or takes the lock: it gets it when nobody has it,   *)
(* and otherwise ends with a row of its own.                               *)
LEMMA EnterKeeps ==
  ASSUME CareInv, NEW i \in Ops, ops[i].pc \in Waiting, NEW op, Shaped(op), Valued(op),
         NEW pc \in {"read", "check", "repair"}, NEW left, Enter(i, op, pc, left),
         pc = "read" => OfMtu(op),
         pc = "check" => op.kind = "HEALTH_CHECK" /\ op.result = "none",
         pc = "repair" => op.kind = "HEALTH_REPAIR",
         HostTypes', started' \in Nat, started <= started', i <= started'
  PROVE  CareInv'
<1>1. OpsGood /\ Locked /\ lock # i
  BY DEF CareInv, Locked
<1> DEFINE row == [op EXCEPT !.status = "RUNNING", !.pc = pc, !.left = left]
           end == Ended(op, "REJECTED", "locked")
<1>2. CASE lock = 0
  <2>1. ops' = [ops EXCEPT ![i] = row] /\ lock' = i
    BY <1>2 DEF Enter
  <2>2. /\ Shaped(row) /\ row.pc = pc /\ row.status = "RUNNING" /\ row.kind = op.kind
        /\ row.old = op.old /\ row.want = op.want /\ row.result = op.result
    BY DEF Shaped
  <2> HIDE DEF row
  <2>3. Good(row)
    <3>1. Valued(row)
      BY <2>2 DEF Valued, OfMtu, Weighing
    <3>2. Staged(row)
      BY <2>2 DEF Staged, OfMtu, Weighing, Waiting
    <3>3. Weighed(row)
      BY <2>2 DEF Weighed, Weighing
    <3> QED BY <2>2, <3>1, <3>2, <3>3 DEF Good
  <2>4. OpsGood' /\ ops'[i] = row /\ \A k \in Ops \ {i} : ops'[k] = ops[k]
    BY <1>1, <2>1, <2>3, PutKeeps
  <2>5. row.pc \notin Waiting
    BY <2>2 DEF Waiting
  <2>6. \A k \in Ops : ops'[k].pc \notin Waiting <=> lock' = k
    BY <1>1, <1>2, <2>1, <2>4, <2>5 DEF Locked, Ops
  <2> QED BY <1>1, <2>1, <2>4, <2>6 DEF CareInv, Locked, Ops
<1>3. CASE lock # 0
  <2>1. ops' = [ops EXCEPT ![i] = end] /\ lock' = lock
    BY <1>3 DEF Enter
  <2>2. Good(end) /\ end.pc = "done"
    BY EndedIs
  <2> HIDE DEF end
  <2>3. OpsGood' /\ ops'[i] = end /\ \A k \in Ops \ {i} : ops'[k] = ops[k]
    BY <1>1, <2>1, <2>2, PutKeeps
  <2>4. \A k \in Ops : ops'[k].pc \notin Waiting <=> lock' = k
    BY <1>1, <2>1, <2>2, <2>3 DEF Locked, Waiting
  <2> QED BY <1>1, <2>1, <2>3, <2>4 DEF CareInv, Locked, Ops
<1> QED BY <1>2, <1>3

LEMMA RequestIs ==
  ASSUME CareInv, NEW i \in Ops, Request(i)
  PROVE  /\ ops[i].pc = "none" /\ ops[i].pc \in Waiting
         /\ started' \in Nat /\ started <= started' /\ i <= started'
BY DEF Request, CareInv, Locked, Waiting

LEMMA ApplyMtuKeeps ==
  ASSUME CareInv, NEW i \in Ops, NEW target \in Mtus, ApplyMtu(i, target)
  PROVE  CareInv'
<1> DEFINE want == [s \in Side |-> target]
           op == [NoOp EXCEPT !.kind = "MTU_CHANGE", !.want = want]
<1>1. Enter(i, op, "read", {}) /\ Request(i) /\ HostTypes'
  BY SameHosts DEF ApplyMtu, CareInv
<1>2. want \in Sized /\ want["iran"] = want["foreign"]
  BY CareAssumption DEF Sized, Side
<1> HIDE DEF want
<1>3. /\ Shaped(op) /\ op.kind = "MTU_CHANGE" /\ op.want = want /\ op.old = NoValues
      /\ op.pc = "none"
  BY DEF Shaped, NoOp
<1> HIDE DEF op
<1>4. Valued(op) /\ OfMtu(op)
  BY <1>2, <1>3 DEF Valued, OfMtu, Weighing
<1> QED BY <1>1, <1>3, <1>4, RequestIs, EnterKeeps

LEMMA RestoreMtuKeeps ==
  ASSUME CareInv, NEW i \in Ops, NEW k \in Ops, RestoreMtu(i, k)
  PROVE  CareInv'
<1> DEFINE old == ops[k].old
           op == [NoOp EXCEPT !.kind = "MTU_RESTORE", !.old = old, !.want = old]
<1>1. Enter(i, op, "read", {}) /\ Request(i) /\ HostTypes'
  BY SameHosts DEF RestoreMtu, CareInv
<1>2. old \in Sized
  BY AtWork DEF RestoreMtu, Restorable, Good, Valued
<1> HIDE DEF old
<1>3. /\ Shaped(op) /\ op.kind = "MTU_RESTORE" /\ op.want = old /\ op.old = old
      /\ op.pc = "none"
  BY DEF Shaped, NoOp
<1> HIDE DEF op
<1>4. Valued(op) /\ OfMtu(op)
  BY <1>2, <1>3 DEF Valued, OfMtu, Weighing
<1> QED BY <1>1, <1>3, <1>4, RequestIs, EnterKeeps

LEMMA StartCheckKeeps ==
  ASSUME CareInv, NEW i \in Ops, NEW mode, StartCheck(i, mode)
  PROVE  CareInv'
<1> DEFINE op == [NoOp EXCEPT !.kind = "HEALTH_CHECK", !.code = mode]
<1>1. Enter(i, op, "check", {}) /\ Request(i) /\ HostTypes'
  BY SameHosts DEF StartCheck, CareInv
<1>2. /\ Shaped(op) /\ op.kind = "HEALTH_CHECK" /\ op.old = NoValues
      /\ op.pc = "none" /\ op.result = "none"
  BY DEF Shaped, NoOp
<1> HIDE DEF op
<1>3. Valued(op)
  BY <1>2 DEF Valued, OfMtu, Weighing
<1> QED BY <1>1, <1>2, <1>3, RequestIs, EnterKeeps

LEMMA PlanRepairKeeps ==
  ASSUME CareInv, NEW i \in Ops, NEW code, PlanRepair(i, code)
  PROVE  CareInv'
<1> DEFINE offering == {s \in Side : Offers(s, code)}
           op == [NoOp EXCEPT !.kind = "HEALTH_REPAIR", !.code = code,
                              !.offers = offering, !.pc = "planned"]
<1>1. /\ Request(i) /\ ops' = [ops EXCEPT ![i] = op] /\ UNCHANGED lock /\ HostTypes'
  BY SameHosts DEF PlanRepair, CareInv
<1> HIDE DEF offering
<1>2. /\ Shaped(op) /\ op.kind = "HEALTH_REPAIR" /\ op.old = NoValues
      /\ op.pc = "planned" /\ op.status = "none"
  BY DEF Shaped, NoOp
<1> HIDE DEF op
<1>3. Valued(op) /\ Weighed(op) /\ Staged(op)
  BY <1>2 DEF Valued, Weighed, Staged, OfMtu, Weighing, Waiting
<1>4. Good(op)
  BY <1>2, <1>3 DEF Good
<1>5. OpsGood' /\ ops'[i] = op /\ \A k \in Ops \ {i} : ops'[k] = ops[k]
  BY <1>1, <1>4, PutKeeps DEF CareInv
<1>6. ops[i].pc \in Waiting /\ started' \in Nat /\ started <= started' /\ i <= started'
  BY <1>1, RequestIs
<1>7. \A k \in Ops : ops'[k].pc \notin Waiting <=> lock' = k
  BY <1>1, <1>2, <1>5, <1>6 DEF CareInv, Locked, Waiting
<1> QED BY <1>1, <1>5, <1>6, <1>7 DEF CareInv, Locked, Ops

LEMMA StartRepairKeeps ==
  ASSUME CareInv, NEW i \in Ops, StartRepair(i)
  PROVE  CareInv'
<1>1. /\ Enter(i, ops[i], "repair", ops[i].offers) /\ ops[i].pc = "planned"
      /\ HostTypes' /\ UNCHANGED started
  BY SameHosts DEF StartRepair, CareInv
<1>2. Shaped(ops[i]) /\ Valued(ops[i]) /\ ops[i].kind = "HEALTH_REPAIR" /\ ops[i].pc \in Waiting
  BY <1>1, AtWork DEF Good, Staged, Waiting
<1>3. started \in Nat /\ i <= started
  BY <1>1 DEF CareInv, Locked
<1> QED BY <1>1, <1>2, <1>3, EnterKeeps

LEMMA RestartKeeps ==
  ASSUME CareInv, Restart
  PROVE  CareInv'
<1> DEFINE over(i) == IF ops[i].pc \in {"none", "done"} THEN ops[i]
                      ELSE IF ops[i].pc = "planned" THEN [NoOp EXCEPT !.pc = "done"]
                      ELSE Ended(ops[i], ops[i].status, "restart")
<1>1. ops' = [i \in Ops |-> over(i)] /\ lock' = 0 /\ UNCHANGED started /\ HostTypes'
  BY SameHosts DEF Restart, CareInv
<1>2. ASSUME NEW i \in Ops
      PROVE  Good(over(i)) /\ over(i).pc \in Waiting
             /\ (over(i).pc # "none" => ops[i].pc # "none")
  <2>1. Good(ops[i])
    BY AtWork
  <2>2. CASE ops[i].pc \in {"none", "done"}
    BY <2>1, <2>2 DEF Waiting
  <2>3. CASE ops[i].pc = "planned"
    <3> DEFINE gone == [NoOp EXCEPT !.pc = "done"]
    <3>1. /\ Shaped(gone) /\ gone.pc = "done" /\ gone.old = NoValues /\ gone.kind = "none"
          /\ gone.status = "none"
      BY DEF Shaped, NoOp
    <3> HIDE DEF gone
    <3>2. Good(gone)
      BY <3>1 DEF Good, Valued, Staged, Weighed, OfMtu, Weighing, Waiting
    <3>3. over(i) = gone
      BY <2>3 DEF gone
    <3> QED BY <2>3, <3>1, <3>2, <3>3 DEF Waiting
  <2>4. CASE ops[i].pc \notin {"none", "done", "planned"}
    <3> DEFINE end == Ended(ops[i], ops[i].status, "restart")
    <3>1. Good(end) /\ end.pc = "done"
      BY <2>1, EndedIs DEF Good, Weighed
    <3>2. over(i) = end
      BY <2>4
    <3> HIDE DEF end
    <3> QED BY <2>4, <3>1, <3>2 DEF Waiting
  <2> QED BY <2>2, <2>3, <2>4
<1> HIDE DEF over
<1>3. OpsGood'
  BY <1>1, <1>2 DEF OpsGood
<1>4. \A i \in Ops : ops'[i].pc \in Waiting /\ (ops'[i].pc # "none" => ops[i].pc # "none")
  BY <1>1, <1>2
<1> QED BY <1>1, <1>3, <1>4 DEF CareInv, Locked, Ops

LEMMA InitKeeps == Init => CareInv
<1> SUFFICES ASSUME Init PROVE CareInv
  OBVIOUS
<1>1. HostTypes
  BY CareAssumption DEF Init, HostTypes, Sized, NoValues
<1>2. Good(NoOp)
  BY DEF NoOp, Good, Shaped, Valued, Staged, Weighed, OfMtu, Weighing, Waiting
<1>3. NoOp.pc = "none"
  BY DEF NoOp
<1>4. OpsGood
  BY <1>2 DEF Init, OpsGood
<1>5. Locked
  BY <1>3 DEF Init, Locked, Waiting, Ops
<1> QED BY <1>1, <1>4, <1>5 DEF CareInv

LEMMA StepKeeps == CareInv /\ [Next]_vars => CareInv'
<1> SUFFICES ASSUME CareInv, [Next]_vars PROVE CareInv'
  OBVIOUS
<1>1. ASSUME NEW i \in Ops, Asks(i) PROVE CareInv'
  BY <1>1, ApplyMtuKeeps, RestoreMtuKeeps, StartCheckKeeps, PlanRepairKeeps DEF Asks
<1>2. ASSUME NEW i \in Ops, Step(i) PROVE CareInv'
  BY <1>2, UnreadableKeeps, ReadKeeps, SendKeeps, VerifyKeeps, AsksKeeps, UndoneKeeps,
     RunCheckKeeps, StartRepairKeeps, ApplyRepairKeeps, VerifyRepairKeeps DEF Step
<1>3. ASSUME NEW s \in Side, NEW c \in Codes, Break(s, c) PROVE CareInv'
  BY <1>3 DEF Break, CareInv, HostTypes, OpsGood, Locked
<1>4. CASE UNCHANGED vars
  BY <1>4 DEF vars, CareInv, HostTypes, OpsGood, Locked
<1> QED BY <1>1, <1>2, <1>3, <1>4, RestartKeeps DEF Next

-----------------------------------------------------------------------------
(* One request is at work on a connection at a time, with the lock and a   *)
(* RUNNING row, and the lock is free otherwise, whatever is refused, fails *)
(* or is cut short (acquireLock, releaseLock, journalStart).               *)
THEOREM OneAtWork == Spec => []OneRunner
<1>1. CareInv => OneRunner
  BY DEF CareInv, Locked, OneRunner, OpsGood, Good, Staged
<1> QED BY <1>1, InitKeeps, StepKeeps, PTL DEF Spec

(* An MTU change that succeeded rests on a measurement and fits it and the *)
(* egress interfaces, for all sizes, margins and tolerances, whichever of  *)
(* the probes passed (recommend, planMtuChange, applyMtu).                 *)
THEOREM AlwaysFitsWhatWasMeasured == Spec => []FitsWhatWasMeasured
<1>1. CareInv => FitsWhatWasMeasured
  BY DEF CareInv, OpsGood, Good, Weighed, Fits, FitsWhatWasMeasured
<1> QED BY <1>1, InitKeeps, StepKeeps, PTL DEF Spec

-----------------------------------------------------------------------------
(* Two reports without a finding, and nothing less, make a healthy one.    *)
LEMMA HealthyReports ==
  ASSUME NEW readable \in SUBSET Side, NEW mode,
         MergeFindings(Reports(readable, mode)).status = "HEALTHY"
  PROVE  \A s \in Side : Found(s, mode) = {}
<1> DEFINE reports == Reports(readable, mode)
           read == {s \in DOMAIN reports : reports[s].ok}
           codes == {f.code : f \in UNION {reports[s].findings : s \in DOMAIN reports}}
                      \cup (IF read = DOMAIN reports THEN {} ELSE {NoEvidence})
           findings == {MergedCode(reports, c) : c \in codes}
<1>1. /\ DOMAIN reports = Side
      /\ \A s \in Side : reports[s] = IF s \in readable THEN CheckReport(s, mode) ELSE Unanswered
  BY DEF Reports
<1>2. findings = {}
  BY DEF MergeFindings
<1> HIDE DEF reports
<1>3. codes = {}
  BY <1>2
<1>4. read = Side
  BY <1>1, <1>3
<1>5. ASSUME NEW s \in Side PROVE Found(s, mode) = {}
  <2>1. reports[s].findings = {}
    <3>1. SUFFICES ASSUME NEW f \in reports[s].findings PROVE FALSE
      OBVIOUS
    <3>2. f \in UNION {reports[t].findings : t \in DOMAIN reports}
      BY <1>1
    <3>3. f.code \in codes
      BY <3>2
    <3> QED BY <1>3, <3>3
  <2>2. s \in readable
    BY <1>1, <1>4 DEF Unanswered
  <2>3. CheckReport(s, mode).findings = {}
    BY <1>1, <2>1, <2>2
  <2> QED BY <2>3 DEF CheckReport
<1> QED BY <1>5

(* No request writes the row of another one.                               *)
LEMMA OwnRow ==
  ASSUME CareInv, NEW k \in Ops, NEW i \in Ops \ {k}, Asks(k) \/ Step(k)
  PROVE  ops'[i] = ops[i]
<1>1. DOMAIN ops = Ops
  BY DEF CareInv, OpsGood
<1>2. CASE Asks(k)
  BY <1>1, <1>2 DEF Asks, ApplyMtu, RestoreMtu, StartCheck, PlanRepair, Enter
<1>3. CASE Step(k)
  <2>1. CASE Unreadable(k) \/ SendChange(k) \/ VerifyInterfaces(k) \/ SetExplicitly(k)
             \/ VerifyConnectivity(k) \/ UndoChange(k) \/ UndoExplicitly(k) \/ VerifyUndone(k)
    BY <1>1, <2>1 DEF Unreadable, SendChange, VerifyInterfaces, SetExplicitly,
         VerifyConnectivity, UndoChange, UndoExplicitly, VerifyUndone, Goto, Finish, Undoing
  <2>2. CASE ReadBothEndpoints(k)
    BY <1>1, <2>2 DEF ReadBothEndpoints
  <2>3. CASE RunCheck(k) \/ StartRepair(k) \/ ApplyRepair(k) \/ VerifyRepair(k)
    BY <1>1, <2>3 DEF RunCheck, StartRepair, ApplyRepair, VerifyRepair, Enter, Finish
  <2> QED BY <1>3, <2>1, <2>2, <2>3 DEF Step
<1> QED BY <1>2, <1>3

(* A check calls a connection healthy only when both ends answered and     *)
(* neither found anything (mergeFindings, runHealthCheck).                 *)
THEOREM AlwaysHealthyMeansBothClean == Spec => HealthyMeansBothClean
<1> DEFINE Clean(i) == ops[i].pc = "check" /\ ops'[i].result = "HEALTHY"
                         => \A s \in Side : Found(s, ops[i].code) = {}
<1>1. CareInv /\ [Next]_vars => [\A i \in Ops : Clean(i)]_vars
  <2> SUFFICES ASSUME CareInv, Next, NEW i \in Ops, ops[i].pc = "check",
                      ops'[i].result = "HEALTHY"
               PROVE  \A s \in Side : Found(s, ops[i].code) = {}
    OBVIOUS
  <2>1. Good(ops[i]) /\ ops[i].result = "none"
    BY AtWork DEF Good, Staged
  <2>2. ops'[i] # ops[i]
    BY <2>1
  <2>3. CASE Restart
    <3>1. ops'[i] = Ended(ops[i], ops[i].status, "restart")
      BY <2>3 DEF Restart
    <3> QED BY <2>1, <3>1, EndedIs DEF Good, Weighed
  <2>4. ASSUME NEW s \in Side, NEW c \in Codes, Break(s, c) PROVE FALSE
    BY <2>2, <2>4 DEF Break
  <2>5. ASSUME NEW k \in Ops, Asks(k) \/ Step(k), k # i PROVE FALSE
    BY <2>2, <2>5, OwnRow
  <2>6. ~Asks(i)
    BY RequestIs DEF Asks, ApplyMtu, RestoreMtu, StartCheck, PlanRepair
  <2>7. CASE Step(i)
    <3>1. RunCheck(i)
      BY <2>7 DEF Step, Unreadable, ReadBothEndpoints, SendChange, VerifyInterfaces,
           SetExplicitly, VerifyConnectivity, UndoChange, UndoExplicitly, VerifyUndone,
           StartRepair, ApplyRepair, VerifyRepair
    <3>2. PICK readable \in SUBSET Side, status \in {"SUCCEEDED", "FAILED"} :
            Finish(i, status, MergeFindings(Reports(readable, ops[i].code)).status)
      BY <3>1 DEF RunCheck
    <3> DEFINE verdict == MergeFindings(Reports(readable, ops[i].code)).status
    <3> HIDE DEF verdict
    <3>3. ops'[i] = Ended(ops[i], status, verdict)
      BY <3>2 DEF Finish, CareInv, OpsGood, verdict
    <3>4. ops[i].kind = "HEALTH_CHECK" /\ Shaped(ops[i]) /\ Valued(ops[i])
      BY <2>1 DEF Good, Staged
    <3>5. verdict = "HEALTHY"
      BY <3>3, <3>4, EndedIs
    <3> QED BY <3>5, HealthyReports DEF verdict
  <2> QED BY <2>3, <2>4, <2>5, <2>6, <2>7 DEF Next
<1>2. [][\A i \in Ops : Clean(i)]_vars => HealthyMeansBothClean
  BY PTL DEF HealthyMeansBothClean
<1> QED BY <1>1, <1>2, InitKeeps, StepKeeps, PTL DEF Spec

-----------------------------------------------------------------------------
(* The summary of the journal.  What SummaryIsLive says is not inductive:  *)
(* a change that is rolled back must put back what the summary says, so a  *)
(* row under way has to remember it.  The journal is o and the MTUs of the *)
(* tunnels are m: a step of one request is a change of one row of o.       *)
Succeeds(op) == OfMtu(op) /\ op.status = "SUCCEEDED"
Done(o) == {i \in Ops : Succeeds(o[i])}
Summary(o) == o[Latest(Done(o))].want

Doubtful(op) == op.status \in {"RUNNING", "ROLLBACK_FAILED"} \/ op.result = "iran"
SetsMtu(op)  == op.code = MtuCode /\ op.status # "none"
Changes(op)  == OfMtu(op) /\ op.pc \notin Waiting

\* The summary stands but for what row i, if it is one, has done.
Stands(o, i) ==
  /\ Done(o) # {}
  /\ \A j \in Ops \ {i} : j > Latest(Done(o)) /\ OfMtu(o[j]) => ~Doubtful(o[j])
  /\ \A j \in Ops : ~SetsMtu(o[j])

\* What a change under way goes back to.
Base(op, m) == IF op.pc = "read" THEN m ELSE op.old

Told(o, m) ==
  /\ Stands(o, 0) => m = Summary(o)
  /\ Done(o) # {} => /\ Latest(Done(o)) \in Done(o)
                     /\ \A d \in Done(o) : d <= Latest(Done(o))
  /\ \A i \in Ops : o[i].pc = "none" => ~OfMtu(o[i])
  /\ \A i \in Ops : Changes(o[i]) =>
       /\ \A k \in Done(o) : k < i
       /\ Stands(o, i) => Base(o[i], m) = Summary(o)
       /\ o[i].pc = "reach" => m = o[i].want

SummaryInv == Told(ops, live)

LEMMA OpsAreNumbers == Ops \subseteq Nat /\ 0 \notin Ops
BY DEF Ops

LEMMA LatestIsNew ==
  ASSUME NEW rows, NEW i \in Nat, \A k \in rows : k \in Nat /\ k < i
  PROVE  Latest(rows \cup {i}) = i
<1> DEFINE all == rows \cup {i}
<1>1. i \in all /\ \A k \in all : k <= i
  OBVIOUS
<1>2. ASSUME NEW d \in all, i <= d PROVE d = i
  BY <1>2
<1>3. \A d \in all : (\A k \in all : k <= d) => d = i
  BY <1>1, <1>2
<1> HIDE DEF all
<1>4. Latest(all) = i
  BY <1>1, <1>3 DEF Latest
<1> QED BY <1>4 DEF all

(* A row that has not succeeded leaves the summary what it is.             *)
LEMMA SameSummary ==
  ASSUME NEW o, DOMAIN o = Ops, NEW i \in Ops, NEW op, NEW p, p = [o EXCEPT ![i] = op],
         i \notin Done(o), ~Succeeds(op)
  PROVE  /\ Done(p) = Done(o)
         /\ Latest(Done(o)) \in Done(o) => Summary(p) = Summary(o)
<1>1. p[i] = op /\ \A k \in Ops \ {i} : p[k] = o[k]
  OBVIOUS
<1>2. Done(p) = Done(o)
  BY <1>1 DEF Done
<1>3. ASSUME Latest(Done(o)) \in Done(o) PROVE Summary(p) = Summary(o)
  <2>1. Latest(Done(o)) \in Ops \ {i}
    BY <1>3 DEF Done
  <2> QED BY <1>1, <1>2, <2>1 DEF Summary
<1> QED BY <1>2, <1>3

(* What stands after a row was written stood before, but for that row.     *)
LEMMA StoodBefore ==
  ASSUME NEW o, DOMAIN o = Ops, NEW i \in Ops, NEW op, NEW p, p = [o EXCEPT ![i] = op],
         Done(p) = Done(o), SetsMtu(o[i]) => SetsMtu(op), NEW j, j \notin Ops \ {i}, Stands(p, j)
  PROVE  Stands(o, i)
<1>1. p[i] = op /\ \A k \in Ops \ {i} : p[k] = o[k]
  OBVIOUS
<1>2. \A k \in Ops : ~SetsMtu(o[k])
  BY <1>1 DEF Stands
<1> QED BY <1>1, <1>2 DEF Stands

(* A change that goes on.                                                  *)
LEMMA ToldGoesOn ==
  ASSUME NEW o, DOMAIN o = Ops, NEW m, Told(o, m), NEW i \in Ops, Changes(o[i]),
         \A k \in Ops \ {i} : ~Changes(o[k]), i \notin Done(o),
         NEW op, NEW p, p = [o EXCEPT ![i] = op], NEW n,
         op.kind = o[i].kind, op.status = "RUNNING", op.code = o[i].code,
         o[i].status = "RUNNING", op.pc \notin Waiting \cup {"read"},
         op.old = Base(o[i], m), op.pc = "reach" => n = op.want
  PROVE  Told(p, n)
<1>1. p[i] = op /\ \A k \in Ops \ {i} : p[k] = o[k]
  OBVIOUS
<1>2. Done(p) = Done(o) /\ (Latest(Done(o)) \in Done(o) => Summary(p) = Summary(o))
  <2>1. ~Succeeds(op)
    BY DEF Succeeds
  <2> QED BY <2>1, SameSummary
<1>3. Changes(op) /\ OfMtu(op) /\ Doubtful(op) /\ (SetsMtu(o[i]) => SetsMtu(op))
  BY DEF Changes, OfMtu, Doubtful, SetsMtu
<1>4. Done(o) # {} => Latest(Done(o)) \in Done(o) /\ Latest(Done(o)) < i
  BY DEF Told
<1>5. ~Stands(p, 0)
  BY <1>1, <1>2, <1>3, <1>4, OpsAreNumbers DEF Stands
<1>6. ASSUME NEW k \in Ops, Changes(p[k])
      PROVE  /\ \A d \in Done(p) : d < k
             /\ Stands(p, k) => Base(p[k], n) = Summary(p)
             /\ p[k].pc = "reach" => n = p[k].want
  <2>1. k = i
    BY <1>1, <1>6
  <2>2. Stands(p, i) => Stands(o, i)
    BY <1>2, <1>3, StoodBefore
  <2>3. Stands(p, i) => Base(op, n) = Summary(p)
    BY <1>2, <1>4, <2>2 DEF Told, Base, Stands
  <2> QED BY <1>1, <1>2, <2>1, <2>3 DEF Told
<1>7. \A k \in Ops : p[k].pc = "none" => ~OfMtu(p[k])
  BY <1>1 DEF Told, Waiting
<1> QED BY <1>2, <1>4, <1>5, <1>6, <1>7 DEF Told

(* A change that ends without success, and with what there was before, or  *)
(* in doubt.                                                               *)
LEMMA ToldEnds ==
  ASSUME NEW o, DOMAIN o = Ops, NEW m, Told(o, m), NEW i \in Ops, Changes(o[i]),
         \A k \in Ops \ {i} : ~Changes(o[k]), i \notin Done(o),
         NEW op, NEW p, p = [o EXCEPT ![i] = op], NEW n,
         op.kind = o[i].kind, op.code = o[i].code, op.pc = "done",
         op.status # "none", op.status # "SUCCEEDED", Doubtful(op) \/ n = Base(o[i], m)
  PROVE  Told(p, n)
<1>1. p[i] = op /\ \A k \in Ops \ {i} : p[k] = o[k]
  OBVIOUS
<1>2. Done(p) = Done(o) /\ (Latest(Done(o)) \in Done(o) => Summary(p) = Summary(o))
  <2>1. ~Succeeds(op)
    BY DEF Succeeds
  <2> QED BY <2>1, SameSummary
<1>3. OfMtu(op) /\ ~Changes(op) /\ (SetsMtu(o[i]) => SetsMtu(op))
  BY DEF Changes, OfMtu, SetsMtu, Waiting
<1>4. Done(o) # {} => Latest(Done(o)) \in Done(o) /\ Latest(Done(o)) < i
  BY DEF Told
<1>5. ASSUME Stands(p, 0) PROVE n = Summary(p)
  <2>1. Stands(o, i)
    BY <1>2, <1>3, <1>5, OpsAreNumbers, StoodBefore
  <2>2. ~Doubtful(op)
    BY <1>1, <1>2, <1>3, <1>4, <1>5, OpsAreNumbers DEF Stands
  <2> QED BY <1>2, <1>4, <2>1, <2>2 DEF Told, Stands
<1>6. \A k \in Ops : ~Changes(p[k]) /\ (p[k].pc = "none" => ~OfMtu(p[k]))
  BY <1>1, <1>3 DEF Told
<1> QED BY <1>2, <1>4, <1>5, <1>6 DEF Told

(* A change that succeeds is the latest one, and what it wanted is there.  *)
LEMMA ToldSucceeds ==
  ASSUME NEW o, DOMAIN o = Ops, NEW m, Told(o, m), NEW i \in Ops, Changes(o[i]),
         \A k \in Ops \ {i} : ~Changes(o[k]),
         NEW op, NEW p, p = [o EXCEPT ![i] = op],
         op.kind = o[i].kind, op.pc = "done", op.status = "SUCCEEDED", m = op.want
  PROVE  Told(p, m)
<1>1. p[i] = op /\ \A k \in Ops \ {i} : p[k] = o[k]
  OBVIOUS
<1>2. OfMtu(op) /\ ~Changes(op)
  BY DEF Changes, OfMtu, Waiting
<1>3. Done(p) = Done(o) \cup {i}
  BY <1>1, <1>2 DEF Done, Succeeds
<1>4. i \in Nat /\ \A k \in Done(o) : k \in Nat /\ k < i
  BY OpsAreNumbers DEF Told, Done
<1>5. Latest(Done(p)) = i
  BY <1>3, <1>4, LatestIsNew
<1>6. \A k \in Ops : ~Changes(p[k]) /\ (p[k].pc = "none" => ~OfMtu(p[k]))
  BY <1>1, <1>2 DEF Told
<1>7. \A d \in Done(p) : d <= Latest(Done(p))
  <2>1. ASSUME NEW d \in Done(p) PROVE d <= i
    <3>1. d = i \/ d \in Done(o)
      BY <1>3
    <3>2. i <= i /\ (d \in Nat /\ d < i => d <= i)
      BY <1>4
    <3> QED BY <1>4, <3>1, <3>2
  <2> QED BY <1>5, <2>1
<1> QED BY <1>1, <1>3, <1>5, <1>6, <1>7 DEF Told, Summary

(* A row beside the changes: a check, a repair, a request that is refused. *)
LEMMA ToldBeside ==
  ASSUME NEW o, DOMAIN o = Ops, NEW m, Told(o, m), NEW i \in Ops, ~OfMtu(o[i]),
         NEW op, NEW p, p = [o EXCEPT ![i] = op], NEW n,
         ~Changes(op), ~Succeeds(op),
         op.pc = "none" => ~OfMtu(op), SetsMtu(o[i]) => SetsMtu(op),
         \/ n = m
         \/ SetsMtu(op) /\ \A k \in Ops \ {i} : ~Changes(o[k])
  PROVE  Told(p, n)
<1>1. p[i] = op /\ \A k \in Ops \ {i} : p[k] = o[k]
  OBVIOUS
<1>2. i \notin Done(o)
  BY DEF Done, Succeeds
<1>3. Done(p) = Done(o) /\ (Latest(Done(o)) \in Done(o) => Summary(p) = Summary(o))
  BY <1>2, SameSummary
<1>4. \A j : Stands(p, j) => Stands(o, j) /\ ~SetsMtu(op)
  BY <1>1, <1>3 DEF Stands
<1>5. Stands(p, 0) => n = Summary(p)
  BY <1>3, <1>4 DEF Told, Stands
<1>6. ASSUME NEW k \in Ops, Changes(p[k])
      PROVE  /\ \A d \in Done(p) : d < k
             /\ Stands(p, k) => Base(p[k], n) = Summary(p)
             /\ p[k].pc = "reach" => n = p[k].want
  <2>1. k \in Ops \ {i} /\ p[k] = o[k] /\ Changes(o[k]) /\ n = m
    BY <1>1, <1>6
  <2>2. Stands(p, k) => Base(p[k], n) = Summary(p)
    BY <1>3, <1>4, <2>1 DEF Told, Stands
  <2> QED BY <1>3, <2>1, <2>2 DEF Told
<1>7. \A k \in Ops : p[k].pc = "none" => ~OfMtu(p[k])
  BY <1>1 DEF Told
<1> QED BY <1>3, <1>5, <1>6, <1>7 DEF Told

(* A change that begins finds the MTUs it may have to go back to.          *)
LEMMA ToldEnters ==
  ASSUME NEW o, DOMAIN o = Ops, NEW m, Told(o, m), NEW i \in Ops, ~OfMtu(o[i]),
         \A k \in Ops : ~Changes(o[k]), \A k \in Done(o) : k < i,
         NEW op, NEW p, p = [o EXCEPT ![i] = op],
         OfMtu(op), op.pc = "read", op.status = "RUNNING", ~SetsMtu(o[i])
  PROVE  Told(p, m)
<1>1. p[i] = op /\ \A k \in Ops \ {i} : p[k] = o[k]
  OBVIOUS
<1>2. i \notin Done(o)
  BY DEF Done, Succeeds
<1>3. Done(p) = Done(o) /\ (Latest(Done(o)) \in Done(o) => Summary(p) = Summary(o))
  <2>1. ~Succeeds(op)
    BY DEF Succeeds
  <2> QED BY <1>2, <2>1, SameSummary
<1>4. Done(o) # {} => Latest(Done(o)) \in Done(o) /\ Latest(Done(o)) < i
  BY DEF Told
<1>5. ~Stands(p, 0)
  BY <1>1, <1>3, <1>4, OpsAreNumbers DEF Stands, Doubtful
<1>6. Stands(p, i) => Base(op, m) = Summary(p)
  <2>1. Stands(p, i) => Stands(o, i)
    BY <1>3, StoodBefore
  <2>2. Stands(o, i) => Stands(o, 0)
    BY DEF Stands
  <2> QED BY <1>3, <1>4, <2>1, <2>2 DEF Told, Base, Stands
<1>7. \A k \in Ops : p[k].pc = "none" => ~OfMtu(p[k])
  BY <1>1 DEF Told
<1> QED BY <1>1, <1>3, <1>4, <1>5, <1>6, <1>7 DEF Told

-----------------------------------------------------------------------------
(* The steps of the requests, as changes of one row.                       *)
LEMMA RowIs ==
  ASSUME CareInv, NEW i \in Ops
  PROVE  /\ DOMAIN ops = Ops /\ Good(ops[i])
         /\ ops[i].pc \notin Waiting =>
              /\ ops[i].status = "RUNNING" /\ i \notin Done(ops)
              /\ \A k \in Ops \ {i} : ~Changes(ops[k])
         /\ ops[i].pc \in {"none", "planned"} => ~SetsMtu(ops[i])
         /\ lock = 0 => \A k \in Ops : ~Changes(ops[k])
         /\ \A k \in Done(ops) : k <= started
<1>1. DOMAIN ops = Ops /\ \A k \in Ops : Good(ops[k])
  BY DEF CareInv, OpsGood
<1>2. \A k \in Ops : ops[k].pc \notin Waiting => lock = k /\ ops[k].status = "RUNNING"
  BY <1>1 DEF CareInv, Locked, Good, Staged
<1>3. \A k \in Ops : ops[k].pc = "none" => ~Succeeds(ops[k])
  BY <1>1 DEF Good, Staged, Succeeds
<1>4. 0 \notin Ops
  BY OpsAreNumbers
<1>5. ops[i].pc \notin Waiting => i \notin Done(ops)
  BY <1>2 DEF Done, Succeeds
<1>6. \A k \in Done(ops) : k <= started
  BY <1>3 DEF Done, CareInv, Locked
<1>7. ops[i].pc \in {"none", "planned"} => ~SetsMtu(ops[i])
  BY <1>1 DEF Good, Staged, SetsMtu
<1>8. ops[i].pc \notin Waiting => \A k \in Ops \ {i} : ~Changes(ops[k])
  BY <1>2 DEF Changes
<1>9. lock = 0 => \A k \in Ops : ~Changes(ops[k])
  BY <1>2, <1>4 DEF Changes
<1> QED BY <1>1, <1>2, <1>5, <1>6, <1>7, <1>8, <1>9

LEMMA StillTold ==
  ASSUME CareInv, SummaryInv, NEW i \in Ops, ops[i].pc \in Weighing,
         NEW pc \in Weighing, NEW left, Goto(i, pc, left),
         pc = "reach" => live' = ops[i].want
  PROVE  SummaryInv'
<1> DEFINE op == [ops[i] EXCEPT !.pc = pc, !.left = left]
<1>1. DOMAIN ops = Ops /\ Shaped(ops[i]) /\ OfMtu(ops[i])
  BY RowIs DEF Good, Staged
<1>2. ops' = [ops EXCEPT ![i] = op]
  BY <1>1 DEF Goto
<1>3. /\ op.kind = ops[i].kind /\ op.status = ops[i].status /\ op.code = ops[i].code
      /\ op.old = ops[i].old /\ op.want = ops[i].want /\ op.pc = pc
  BY <1>1 DEF Shaped
<1>4. /\ ops[i].pc \notin Waiting \cup {"read"} /\ pc \notin Waiting \cup {"read"}
  BY DEF Weighing, Waiting
<1>5. op.old = Base(ops[i], live) /\ Changes(ops[i])
  BY <1>1, <1>3, <1>4 DEF Base, Changes
<1> HIDE DEF op
<1>6. op.pc \notin Waiting \cup {"read"} /\ op.status = "RUNNING" /\ ops[i].status = "RUNNING"
      /\ (op.pc = "reach" => live' = op.want)
  BY <1>3, <1>4, RowIs
<1>7. Told(ops', live')
  <2>1. DOMAIN ops = Ops /\ i \notin Done(ops) /\ \A k \in Ops \ {i} : ~Changes(ops[k])
    BY <1>4, RowIs
  <2>2. Told(ops, live)
    BY DEF SummaryInv
  <2> QED BY <1>2, <1>3, <1>5, <1>6, <2>1, <2>2, ToldGoesOn
<1> QED BY <1>7 DEF SummaryInv

LEMMA UndoingTold ==
  ASSUME CareInv, SummaryInv, NEW i \in Ops, ops[i].pc \in Weighing, NEW only,
         Undoing(i, only)
  PROVE  SummaryInv'
<1> DEFINE op == [ops[i] EXCEPT !.pc = "undo", !.only = only, !.left = only]
<1>1. DOMAIN ops = Ops /\ Shaped(ops[i]) /\ OfMtu(ops[i])
  BY RowIs DEF Good, Staged
<1>2. ops' = [ops EXCEPT ![i] = op]
  BY <1>1 DEF Undoing
<1>3. /\ op.kind = ops[i].kind /\ op.status = ops[i].status /\ op.code = ops[i].code
      /\ op.old = ops[i].old /\ op.want = ops[i].want /\ op.pc = "undo"
  BY <1>1 DEF Shaped
<1>4. ops[i].pc \notin Waiting \cup {"read"} /\ "undo" \notin Waiting \cup {"read"}
  BY DEF Weighing, Waiting
<1>5. op.old = Base(ops[i], live) /\ Changes(ops[i])
  BY <1>1, <1>3, <1>4 DEF Base, Changes
<1> HIDE DEF op
<1>6. op.pc \notin Waiting \cup {"read"} /\ op.status = "RUNNING" /\ ops[i].status = "RUNNING"
      /\ op.pc # "reach"
  BY <1>3, <1>4, RowIs
<1>7. Told(ops', live')
  <2>1. DOMAIN ops = Ops /\ i \notin Done(ops) /\ \A k \in Ops \ {i} : ~Changes(ops[k])
    BY <1>4, RowIs
  <2>2. Told(ops, live)
    BY DEF SummaryInv
  <2> QED BY <1>2, <1>3, <1>5, <1>6, <2>1, <2>2, ToldGoesOn
<1> QED BY <1>7 DEF SummaryInv

LEMMA EndsTold ==
  ASSUME CareInv, SummaryInv, NEW i \in Ops, ops[i].pc \in Weighing \cup {"read"},
         NEW status \in {"REJECTED", "ROLLED_BACK", "ROLLBACK_FAILED"}, NEW result,
         Finish(i, status, result),
         status = "ROLLBACK_FAILED" \/ result = "iran" \/ live' = Base(ops[i], live)
  PROVE  SummaryInv'
<1> DEFINE op == Ended(ops[i], status, result)
<1>1. DOMAIN ops = Ops /\ Shaped(ops[i]) /\ OfMtu(ops[i]) /\ ops[i].pc \notin Waiting
  BY RowIs DEF Good, Staged, Weighing, Waiting
<1>2. ops' = [ops EXCEPT ![i] = op]
  BY DEF Finish
<1>3. /\ op.kind = ops[i].kind /\ op.status = status /\ op.code = ops[i].code
      /\ op.result = result /\ op.pc = "done"
  BY DEF Ended, NoOp
<1>4. Doubtful(op) \/ live' = Base(ops[i], live)
  BY <1>3 DEF Doubtful
<1> HIDE DEF op
<1>5. Changes(ops[i]) /\ op.status # "none" /\ op.status # "SUCCEEDED"
  BY <1>1, <1>3 DEF Changes
<1>6. Told(ops', live')
  <2>1. DOMAIN ops = Ops /\ i \notin Done(ops) /\ \A k \in Ops \ {i} : ~Changes(ops[k])
    BY <1>1, RowIs
  <2>2. Told(ops, live)
    BY DEF SummaryInv
  <2> QED BY <1>2, <1>3, <1>4, <1>5, <2>1, <2>2, ToldEnds
<1> QED BY <1>6 DEF SummaryInv

LEMMA UnreadableTold ==
  ASSUME CareInv, SummaryInv, NEW i \in Ops, Unreadable(i)
  PROVE  SummaryInv'
<1>1. /\ ops[i].pc \in Weighing \cup {"read"} /\ Finish(i, "REJECTED", "unread")
      /\ live' = Base(ops[i], live)
  BY DEF Unreadable, Base, hosts
<1> QED BY <1>1, EndsTold

(* The plan records what the tunnels have.                                 *)
LEMMA ReadTold ==
  ASSUME CareInv, SummaryInv, NEW i \in Ops, ReadBothEndpoints(i)
  PROVE  SummaryInv'
<1>1. PICK v \in Views :
        LET plan == PlanMtuChange(v, ops[i].want["iran"])
            seen == [ops[i] EXCEPT !.old = plan.current,
                                   !.measured = {s \in Side : v[s].measured},
                                   !.reach = [s \in Side |-> v[s].reach]]
        IN  IF Restoring(i) \/ plan.canApply
            THEN ops' = [ops EXCEPT ![i] = [seen EXCEPT !.pc = "send", !.left = Side]]
            ELSE ops' = [ops EXCEPT ![i] = Ended(seen, "REJECTED",
                           IF plan.safe THEN "unfit" ELSE "unsafe")]
  BY DEF ReadBothEndpoints
<1> DEFINE plan == PlanMtuChange(v, ops[i].want["iran"])
           seen == [ops[i] EXCEPT !.old = plan.current,
                                  !.measured = {s \in Side : v[s].measured},
                                  !.reach = [s \in Side |-> v[s].reach]]
           sent == [seen EXCEPT !.pc = "send", !.left = Side]
           why  == IF plan.safe THEN "unfit" ELSE "unsafe"
           end  == Ended(seen, "REJECTED", why)
<1>2. ops[i].pc = "read" /\ live' = live /\ ops[i].pc \notin Waiting
  BY DEF ReadBothEndpoints, hosts, Waiting
<1>3. /\ DOMAIN ops = Ops /\ Shaped(ops[i]) /\ Changes(ops[i]) /\ ops[i].status = "RUNNING"
  BY <1>2, RowIs DEF Good, Staged, Changes
<1>4. plan.current = live
  <2>1. HostTypes /\ plan.current = [s \in Side |-> v[s].gre]
    BY DEF CareInv, PlanMtuChange
  <2>2. PICK passed \in [Side -> Probes] :
          v = [s \in Side |-> NormalizeSide(Diagnose(s, passed[s]))]
    BY DEF Views
  <2>3. ASSUME NEW s \in Side PROVE v[s].gre = live[s]
    <3>1. passed[s] \in SUBSET {"outer", "inner"} /\ v[s] = NormalizeSide(Diagnose(s, passed[s]))
      BY <2>2 DEF Probes
    <3> QED BY <2>1, <3>1, ViewIs
  <2> QED BY <2>1, <2>3 DEF HostTypes, Sized
<1>5. Base(ops[i], live) = live
  BY <1>2 DEF Base
<1>6. /\ seen.kind = ops[i].kind /\ seen.status = "RUNNING" /\ seen.code = ops[i].code
      /\ seen.old = plan.current /\ Shaped(seen)
  <2> HIDE DEF plan
  <2> QED BY <1>3 DEF Shaped
<1>a. i \notin Done(ops) /\ \A k \in Ops \ {i} : ~Changes(ops[k])
  BY <1>2, RowIs
<1>b. Told(ops, live)
  BY DEF SummaryInv
<1> HIDE DEF plan, seen
<1>7. CASE Restoring(i) \/ plan.canApply
  <2>1. ops' = [ops EXCEPT ![i] = sent]
    BY <1>1, <1>7 DEF seen, plan
  <2>2. /\ sent.kind = ops[i].kind /\ sent.status = "RUNNING" /\ sent.code = ops[i].code
        /\ sent.old = plan.current /\ sent.pc = "send"
    BY <1>6 DEF Shaped
  <2> HIDE DEF sent
  <2>3. sent.pc \notin Waiting \cup {"read"} /\ sent.pc # "reach" /\ sent.old = Base(ops[i], live)
    BY <1>4, <1>5, <2>2 DEF Waiting
  <2>4. Told(ops', live')
    BY <1>2, <1>3, <1>a, <1>b, <2>1, <2>2, <2>3, ToldGoesOn
  <2> QED BY <2>4 DEF SummaryInv
<1>8. CASE ~(Restoring(i) \/ plan.canApply)
  <2>1. ops' = [ops EXCEPT ![i] = end]
    BY <1>1, <1>8 DEF seen, plan
  <2>2. /\ end.kind = ops[i].kind /\ end.status = "REJECTED" /\ end.code = ops[i].code
        /\ end.pc = "done"
    BY <1>6 DEF Ended, NoOp
  <2> HIDE DEF end
  <2>3. end.status # "none" /\ end.status # "SUCCEEDED" /\ live' = Base(ops[i], live)
    BY <1>2, <1>5, <2>2
  <2>4. Told(ops', live')
    BY <1>2, <1>3, <1>a, <1>b, <2>1, <2>2, <2>3, ToldEnds
  <2> QED BY <2>4 DEF SummaryInv
<1> QED BY <1>7, <1>8
LEMMA SendTold ==
  ASSUME CareInv, SummaryInv, NEW i \in Ops, SendChange(i)
  PROVE  SummaryInv'
<1> DEFINE s == First(ops[i].left)
           rest == ops[i].left \ {s}
           next == IF rest = {} THEN "verify" ELSE "send"
<1>1. \/ Goto(i, next, rest)
      \/ Finish(i, "REJECTED", "iran")
      \/ Undoing(i, {"iran"})
  <2>1. PICK out \in IF Restoring(i) THEN MtuRestore(s) ELSE MtuSet(s, ops[i].want[s]) :
          IF out.ok THEN Goto(i, next, rest)
          ELSE IF s = "iran" THEN Finish(i, "REJECTED", "iran") ELSE Undoing(i, {"iran"})
    BY DEF SendChange
  <2> HIDE DEF s, rest, next
  <2> QED BY <2>1
<1>2. ops[i].pc \in Weighing
  BY DEF SendChange, Weighing
<1>3. next \in Weighing /\ next # "reach"
  BY DEF Weighing
<1> HIDE DEF s, rest, next
<1>4. CASE Goto(i, next, rest)
  BY <1>2, <1>3, <1>4, StillTold
<1>5. CASE Finish(i, "REJECTED", "iran")
  BY <1>2, <1>5, EndsTold
<1>6. CASE Undoing(i, {"iran"})
  BY <1>2, <1>6, UndoingTold
<1> QED BY <1>1, <1>4, <1>5, <1>6

(* Interfaces that read back as asked have what was asked for.             *)
LEMMA ReadBack ==
  ASSUME HostTypes, NEW want \in Sized, NEW readable,
         VerifyValues(Interfaces(readable), want, Side)
  PROVE  live = want
<1>1. ASSUME NEW s \in Side PROVE live[s] = want[s]
  <2>1. Interfaces(readable)[s].ok /\ Interfaces(readable)[s].gre = want[s]
    BY DEF VerifyValues
  <2>2. Interfaces(readable)[s] = IF s \in readable THEN Diagnose(s, {}) ELSE Unread
    BY DEF Interfaces
  <2>3. Unread.ok = FALSE
    BY DEF Unread
  <2>4. Diagnose(s, {}).gre = live[s]
    BY DEF Diagnose
  <2> QED BY <2>1, <2>2, <2>3, <2>4
<1> QED BY <1>1 DEF HostTypes, Sized

LEMMA VerifyTold ==
  ASSUME CareInv, SummaryInv, NEW i \in Ops, VerifyInterfaces(i)
  PROVE  SummaryInv'
<1>1. /\ ops[i].pc \in Weighing /\ ops[i].want \in Sized /\ HostTypes /\ live' = live
      /\ {"reach", "set"} \subseteq Weighing
  BY AtWork DEF VerifyInterfaces, Weighing, hosts
<1>2. PICK readable \in SUBSET Side :
        IF VerifyValues(Interfaces(readable), ops[i].want, Side)
        THEN Goto(i, "reach", {})
        ELSE IF Restoring(i) /\ ops[i].pc = "verify" THEN Goto(i, "set", Side)
        ELSE Undoing(i, Side)
  BY DEF VerifyInterfaces
<1>3. CASE VerifyValues(Interfaces(readable), ops[i].want, Side) /\ Goto(i, "reach", {})
  <2>1. live' = ops[i].want
    BY <1>1, <1>3, ReadBack
  <2> QED BY <1>1, <1>3, <2>1, StillTold
<1>4. CASE Goto(i, "set", Side)
  BY <1>1, <1>4, StillTold
<1>5. CASE Undoing(i, Side)
  BY <1>1, <1>5, UndoingTold
<1> QED BY <1>2, <1>3, <1>4, <1>5

LEMMA ReachTold ==
  ASSUME CareInv, SummaryInv, NEW i \in Ops, VerifyConnectivity(i)
  PROVE  SummaryInv'
<1>1. ops[i].pc = "reach" /\ ops[i].pc \in Weighing /\ live' = live
  BY DEF VerifyConnectivity, Weighing, hosts
<1>2. Undoing(i, Side) \/ Finish(i, "SUCCEEDED", "verified")
  BY DEF VerifyConnectivity
<1>3. CASE Undoing(i, Side)
  BY <1>1, <1>3, UndoingTold
<1>4. CASE Finish(i, "SUCCEEDED", "verified")
  <2> DEFINE op == Ended(ops[i], "SUCCEEDED", "verified")
  <2>1. /\ op.kind = ops[i].kind /\ op.pc = "done" /\ op.status = "SUCCEEDED"
        /\ op.want = ops[i].want
    BY DEF Ended, NoOp
  <2>2. ops' = [ops EXCEPT ![i] = op]
    BY <1>4 DEF Finish
  <2>3. ops[i].pc \notin Waiting /\ OfMtu(ops[i])
    BY <1>1, RowIs DEF Good, Staged, Waiting
  <2>4. DOMAIN ops = Ops /\ \A k \in Ops \ {i} : ~Changes(ops[k])
    BY <2>3, RowIs
  <2>5. Told(ops, live) /\ Changes(ops[i])
    BY <2>3 DEF SummaryInv, Changes
  <2>6. live = ops[i].want
    BY <1>1, <2>5 DEF Told
  <2> HIDE DEF op
  <2>7. Told(ops', live)
    BY <2>1, <2>2, <2>4, <2>5, <2>6, ToldSucceeds
  <2> QED BY <1>1, <2>7 DEF SummaryInv
<1> QED BY <1>2, <1>3, <1>4

LEMMA AsksTold ==
  ASSUME CareInv, SummaryInv, NEW i \in Ops,
         SetExplicitly(i) \/ UndoChange(i) \/ UndoExplicitly(i)
  PROVE  SummaryInv'
<1>1. ops[i].pc \in Weighing
  BY DEF SetExplicitly, UndoChange, UndoExplicitly, Weighing
<1>2. PICK pc \in {"verify again", "set", "undone", "undo", "undone again", "reset"} :
        \E left : Goto(i, pc, left)
  BY DEF SetExplicitly, UndoChange, UndoExplicitly
<1>3. pc \in Weighing /\ pc # "reach"
  BY DEF Weighing
<1> QED BY <1>1, <1>2, <1>3, StillTold

LEMMA UndoneTold ==
  ASSUME CareInv, SummaryInv, NEW i \in Ops, VerifyUndone(i)
  PROVE  SummaryInv'
<1> DEFINE result == IF ops[i].only = Side THEN "both" ELSE "iran"
<1>1. /\ ops[i].pc \in Weighing /\ ops[i].pc # "read" /\ ops[i].old \in Sized
      /\ HostTypes /\ live' = live /\ "reset" \in Weighing
  BY AtWork DEF VerifyUndone, Weighing, hosts
<1>2. PICK readable \in SUBSET Side :
        IF VerifyValues(Interfaces(readable), ops[i].old, ops[i].only)
        THEN Finish(i, "ROLLED_BACK", result)
        ELSE IF ops[i].pc = "undone" THEN Goto(i, "reset", ops[i].only)
        ELSE Finish(i, "ROLLBACK_FAILED", "unknown")
  BY DEF VerifyUndone
<1>3. CASE /\ VerifyValues(Interfaces(readable), ops[i].old, ops[i].only)
           /\ Finish(i, "ROLLED_BACK", result)
  <2>1. result = "iran" \/ live' = Base(ops[i], live)
    <3>1. CASE ops[i].only = Side
      BY <1>1, <1>3, <3>1, ReadBack DEF Base
    <3> QED BY <3>1
  <2> HIDE DEF result
  <2> QED BY <1>1, <1>3, <2>1, EndsTold
<1>4. CASE Goto(i, "reset", ops[i].only)
  BY <1>1, <1>4, StillTold
<1>5. CASE Finish(i, "ROLLBACK_FAILED", "unknown")
  BY <1>1, <1>5, EndsTold
<1> QED BY <1>2, <1>3, <1>4, <1>5

(* Checks and repairs.                                                     *)
LEMMA CheckTold ==
  ASSUME CareInv, SummaryInv, NEW i \in Ops, RunCheck(i) \/ VerifyRepair(i)
  PROVE  SummaryInv'
<1>1. ~OfMtu(ops[i]) /\ ops[i].status = "RUNNING" /\ live' = live
  BY AtWork DEF RunCheck, VerifyRepair, Good, Staged, OfMtu, Waiting, hosts
<1>2. PICK status \in {"SUCCEEDED", "PARTIAL", "FAILED"} : \E result : Finish(i, status, result)
  BY DEF RunCheck, VerifyRepair
<1>3. PICK result : Finish(i, status, result)
  BY <1>2
<1> DEFINE op == Ended(ops[i], status, result)
<1>4. ops' = [ops EXCEPT ![i] = op]
  BY <1>3 DEF Finish
<1>5. op.kind = ops[i].kind /\ op.code = ops[i].code /\ op.status = status
  BY DEF Ended, NoOp
<1> HIDE DEF op
<1>6. ~Changes(op) /\ ~Succeeds(op) /\ ~OfMtu(op) /\ (SetsMtu(ops[i]) => SetsMtu(op))
  BY <1>1, <1>5 DEF Changes, Succeeds, OfMtu, SetsMtu
<1>7. DOMAIN ops = Ops /\ Told(ops, live)
  BY DEF SummaryInv, CareInv, OpsGood
<1>8. Told(ops', live)
  BY <1>1, <1>4, <1>6, <1>7, ToldBeside
<1> QED BY <1>1, <1>8 DEF SummaryInv

(* Only a repair of the MTU writes one.                                    *)
LEMMA RepairLeavesMtu ==
  ASSUME HostTypes, NEW s \in Side, NEW code, code # MtuCode, NEW out \in RepairApply(s, code),
         Leaves(s, out)
  PROVE  live' = live
<1> DEFINE h == Host(s)
           fixed == [h EXCEPT !.broken = @ \ {code}]
<1>1. h.live = live[s] /\ fixed.live = live[s]
  BY DEF Host
<1>2. \A ok, host, fault : Outcome(ok, host, fault).host = host
  BY DEF Outcome
<1>3. out \in {Outcome(FALSE, h, TRUE)} \cup
      (IF code \notin Handled \cup {MtuCode} THEN {Outcome(FALSE, h, FALSE)}
       ELSE {Outcome(TRUE, fixed, FALSE), Outcome(FALSE, fixed, TRUE)})
  BY DEF RepairApply
<1> HIDE DEF h, fixed
<1>4. out.host \in {h, fixed}
  <2>1. \E ok, fault : out \in {Outcome(ok, h, fault), Outcome(ok, fixed, fault)}
    <3>1. CASE code \notin Handled \cup {MtuCode}
      BY <1>3, <3>1
    <3>2. CASE code \in Handled \cup {MtuCode}
      BY <1>3, <3>2
    <3> QED BY <3>1, <3>2
  <2> QED BY <1>2, <2>1
<1>5. live' = [live EXCEPT ![s] = live[s]]
  BY <1>1, <1>4 DEF Leaves
<1> QED BY <1>5 DEF HostTypes, Sized

LEMMA RepairTold ==
  ASSUME CareInv, SummaryInv, NEW i \in Ops, ApplyRepair(i)
  PROVE  SummaryInv'
<1> DEFINE s == First(ops[i].left)
           rest == ops[i].left \ {s}
<1>1. PICK out \in RepairApply(s, ops[i].code) :
        /\ Leaves(s, out)
        /\ ops' = [ops EXCEPT ![i].left = rest,
             ![i].pc = IF rest = {} THEN "recheck" ELSE "repair",
             ![i].applied = IF out.ok THEN @ \cup {s} ELSE @]
  BY DEF ApplyRepair
<1>2. /\ s \in Side /\ HostTypes /\ ops[i].pc \notin Waiting /\ Shaped(ops[i])
      /\ ~OfMtu(ops[i]) /\ ops[i].status = "RUNNING" /\ DOMAIN ops = Ops
  BY FirstIsSide, AtWork DEF ApplyRepair, Good, Staged, OfMtu, Waiting, OpsGood
<1> HIDE DEF s, rest
<1> DEFINE next == IF rest = {} THEN "recheck" ELSE "repair"
           op == [ops[i] EXCEPT !.left = rest, !.pc = next,
                                !.applied = IF out.ok THEN @ \cup {s} ELSE @]
<1>3. ops' = [ops EXCEPT ![i] = op]
  BY <1>1, <1>2
<1>4. op.status = ops[i].status /\ op.kind = ops[i].kind /\ op.code = ops[i].code
  BY <1>2 DEF Shaped
<1> HIDE DEF op, next
<1>5. ~Changes(op) /\ ~Succeeds(op) /\ ~OfMtu(op) /\ (SetsMtu(ops[i]) => SetsMtu(op))
  BY <1>2, <1>4 DEF Changes, Succeeds, OfMtu, SetsMtu
<1>6. \A k \in Ops \ {i} : ~Changes(ops[k])
  BY <1>2, RowIs
<1>7. live' = live \/ SetsMtu(op)
  <2>1. CASE ops[i].code = MtuCode
    BY <1>2, <1>4, <2>1 DEF SetsMtu
  <2>2. CASE ops[i].code # MtuCode
    BY <1>1, <1>2, <2>2, RepairLeavesMtu
  <2> QED BY <2>1, <2>2
<1>8. Told(ops, live)
  BY DEF SummaryInv
<1>9. Told(ops', live')
  BY <1>2, <1>3, <1>5, <1>6, <1>7, <1>8, ToldBeside
<1> QED BY <1>9 DEF SummaryInv
-----------------------------------------------------------------------------
(* Requests.                                                               *)

\* A request that comes in while another one holds the lock, or that is no
\* change, leaves the summary as it was.
LEMMA EnterTold ==
  ASSUME CareInv, SummaryInv, NEW i \in Ops, ~OfMtu(ops[i]), ~SetsMtu(ops[i]),
         NEW op, Shaped(op), NEW pc \in {"read", "check", "repair"}, NEW left,
         Enter(i, op, pc, left), lock # 0 \/ ~OfMtu(op), live' = live
  PROVE  SummaryInv'
<1> DEFINE row == [op EXCEPT !.status = "RUNNING", !.pc = pc, !.left = left]
           end == Ended(op, "REJECTED", "locked")
<1>1. DOMAIN ops = Ops /\ Told(ops, live)
  BY DEF SummaryInv, CareInv, OpsGood
<1>2. row.kind = op.kind /\ row.status = "RUNNING"
  BY DEF Shaped
<1>3. end.kind = op.kind /\ end.status = "REJECTED" /\ end.pc = "done"
  BY DEF Ended, NoOp
<1>4. PICK new : ops' = [ops EXCEPT ![i] = new] /\ new = IF lock = 0 THEN row ELSE end
  BY DEF Enter
<1> HIDE DEF row, end
<1>5. ~Changes(new) /\ ~Succeeds(new) /\ (new.pc = "none" => ~OfMtu(new))
  BY <1>2, <1>3, <1>4 DEF Changes, Succeeds, OfMtu, Waiting
<1>6. Told(ops', live)
  BY <1>1, <1>4, <1>5, ToldBeside
<1> QED BY <1>6 DEF SummaryInv

LEMMA NewRow ==
  ASSUME CareInv, SummaryInv, NEW i \in Ops, Request(i)
  PROVE  /\ ~OfMtu(ops[i]) /\ ~SetsMtu(ops[i]) /\ DOMAIN ops = Ops
         /\ \A k \in Done(ops) : k < i
<1>1. ops[i].pc = "none" /\ started \in Nat /\ i = started + 1
  BY RequestIs DEF Request, CareInv, Locked
<1>2. \A k \in Done(ops) : k \in Nat /\ k <= started
  BY RowIs, OpsAreNumbers DEF Done
<1> QED BY <1>1, <1>2, RowIs DEF SummaryInv, Told

LEMMA ChangeTold ==
  ASSUME CareInv, SummaryInv, NEW i \in Ops, Request(i), NEW op, Shaped(op), OfMtu(op),
         Enter(i, op, "read", {}), live' = live
  PROVE  SummaryInv'
<1>1. /\ ~OfMtu(ops[i]) /\ ~SetsMtu(ops[i]) /\ DOMAIN ops = Ops
      /\ \A k \in Done(ops) : k < i
  BY NewRow
<1>2. CASE lock # 0
  BY <1>1, <1>2, EnterTold
<1>3. CASE lock = 0
  <2> DEFINE row == [op EXCEPT !.status = "RUNNING", !.pc = "read", !.left = {}]
  <2>1. ops' = [ops EXCEPT ![i] = row]
    BY <1>3 DEF Enter
  <2>2. row.kind = op.kind /\ row.status = "RUNNING" /\ row.pc = "read"
    BY DEF Shaped
  <2>3. \A k \in Ops : ~Changes(ops[k])
    BY <1>3, RowIs
  <2>4. Told(ops, live)
    BY DEF SummaryInv
  <2>5. OfMtu(row)
    BY <2>2 DEF OfMtu
  <2> HIDE DEF row
  <2>6. Told(ops', live)
    BY <1>1, <2>1, <2>2, <2>3, <2>4, <2>5, ToldEnters
  <2> QED BY <2>6 DEF SummaryInv
<1> QED BY <1>2, <1>3

LEMMA ApplyMtuTold ==
  ASSUME CareInv, SummaryInv, NEW i \in Ops, NEW target, ApplyMtu(i, target)
  PROVE  SummaryInv'
<1> DEFINE op == [NoOp EXCEPT !.kind = "MTU_CHANGE", !.want = [s \in Side |-> target]]
<1>1. Enter(i, op, "read", {}) /\ Request(i) /\ live' = live
  BY DEF ApplyMtu, hosts
<1>2. Shaped(op) /\ OfMtu(op)
  BY DEF Shaped, OfMtu, NoOp
<1> HIDE DEF op
<1> QED BY <1>1, <1>2, ChangeTold

LEMMA RestoreMtuTold ==
  ASSUME CareInv, SummaryInv, NEW i \in Ops, NEW k \in Ops, RestoreMtu(i, k)
  PROVE  SummaryInv'
<1> DEFINE op == [NoOp EXCEPT !.kind = "MTU_RESTORE", !.old = ops[k].old, !.want = ops[k].old]
<1>1. Enter(i, op, "read", {}) /\ Request(i) /\ live' = live
  BY DEF RestoreMtu, hosts
<1>2. Shaped(op) /\ OfMtu(op)
  BY DEF Shaped, OfMtu, NoOp
<1> HIDE DEF op
<1> QED BY <1>1, <1>2, ChangeTold

LEMMA StartCheckTold ==
  ASSUME CareInv, SummaryInv, NEW i \in Ops, NEW mode, StartCheck(i, mode)
  PROVE  SummaryInv'
<1> DEFINE op == [NoOp EXCEPT !.kind = "HEALTH_CHECK", !.code = mode]
<1>1. Enter(i, op, "check", {}) /\ Request(i) /\ live' = live
  BY DEF StartCheck, hosts
<1>2. Shaped(op) /\ ~OfMtu(op)
  BY DEF Shaped, OfMtu, NoOp
<1> HIDE DEF op
<1> QED BY <1>1, <1>2, NewRow, EnterTold

LEMMA PlanRepairTold ==
  ASSUME CareInv, SummaryInv, NEW i \in Ops, NEW code, PlanRepair(i, code)
  PROVE  SummaryInv'
<1> DEFINE op == [NoOp EXCEPT !.kind = "HEALTH_REPAIR", !.code = code,
                              !.offers = {s \in Side : Offers(s, code)}, !.pc = "planned"]
<1>1. Request(i) /\ ops' = [ops EXCEPT ![i] = op] /\ live' = live
  BY DEF PlanRepair, hosts
<1>2. op.kind = "HEALTH_REPAIR"
  BY DEF NoOp
<1> HIDE DEF op
<1>3. ~Changes(op) /\ ~Succeeds(op) /\ ~OfMtu(op)
  BY <1>2 DEF Changes, Succeeds, OfMtu
<1>4. ~OfMtu(ops[i]) /\ ~SetsMtu(ops[i]) /\ DOMAIN ops = Ops
  BY <1>1, NewRow
<1>5. Told(ops, live)
  BY DEF SummaryInv
<1>6. Told(ops', live)
  BY <1>1, <1>3, <1>4, <1>5, ToldBeside
<1> QED BY <1>1, <1>6 DEF SummaryInv

LEMMA StartRepairTold ==
  ASSUME CareInv, SummaryInv, NEW i \in Ops, StartRepair(i)
  PROVE  SummaryInv'
<1>1. /\ Enter(i, ops[i], "repair", ops[i].offers) /\ ops[i].pc = "planned"
      /\ live' = live
  BY DEF StartRepair, hosts
<1>2. Shaped(ops[i]) /\ ~OfMtu(ops[i])
  BY <1>1, AtWork DEF Good, Staged, OfMtu
<1>3. ~SetsMtu(ops[i])
  BY <1>1, RowIs
<1> QED BY <1>1, <1>2, <1>3, EnterTold

(* What a restart cuts short is in doubt.                                  *)
LEMMA RestartTold ==
  ASSUME CareInv, SummaryInv, Restart
  PROVE  SummaryInv'
<1> DEFINE over(i) == IF ops[i].pc \in {"none", "done"} THEN ops[i]
                      ELSE IF ops[i].pc = "planned" THEN [NoOp EXCEPT !.pc = "done"]
                      ELSE Ended(ops[i], ops[i].status, "restart")
<1>1. ops' = [i \in Ops |-> over(i)] /\ live' = live
  BY DEF Restart, hosts
<1>2. ASSUME NEW i \in Ops
      PROVE  /\ over(i).pc \in {"none", "done"}
             /\ over(i).pc = "none" => over(i) = ops[i]
             /\ OfMtu(over(i)) <=> OfMtu(ops[i])
             /\ Succeeds(over(i)) <=> Succeeds(ops[i])
             /\ Succeeds(ops[i]) => over(i).want = ops[i].want
             /\ SetsMtu(ops[i]) => SetsMtu(over(i))
             /\ OfMtu(ops[i]) /\ Doubtful(ops[i]) => Doubtful(over(i))
  <2>1. Good(ops[i])
    BY AtWork
  <2>2. CASE ops[i].pc \in {"none", "done"}
    BY <2>2
  <2>3. CASE ops[i].pc = "planned"
    <3> DEFINE gone == [NoOp EXCEPT !.pc = "done"]
    <3>1. gone.pc = "done" /\ gone.kind = "none" /\ gone.status = "none"
      BY DEF NoOp
    <3>2. over(i) = gone
      BY <2>3
    <3>3. ~OfMtu(ops[i]) /\ ~SetsMtu(ops[i])
      BY <2>1, <2>3 DEF Good, Staged, OfMtu, SetsMtu
    <3> HIDE DEF gone, over
    <3> QED BY <3>1, <3>2, <3>3 DEF OfMtu, Succeeds
  <2>4. CASE ops[i].pc \notin {"none", "done", "planned"}
    <3> DEFINE end == Ended(ops[i], ops[i].status, "restart")
    <3>1. /\ end.pc = "done" /\ end.kind = ops[i].kind /\ end.status = ops[i].status
          /\ end.code = ops[i].code /\ end.want = ops[i].want
      BY DEF Ended, NoOp
    <3>2. over(i) = end
      BY <2>4
    <3>3. ops[i].status = "RUNNING"
      BY <2>1, <2>4 DEF Good, Staged, Waiting
    <3> HIDE DEF end, over
    <3> QED BY <3>1, <3>2, <3>3 DEF OfMtu, Succeeds, SetsMtu, Doubtful
  <2> QED BY <2>2, <2>3, <2>4
<1> HIDE DEF over
<1>3. Done(ops') = Done(ops)
  BY <1>1, <1>2 DEF Done
<1>4. Latest(Done(ops)) \in Done(ops) => Summary(ops') = Summary(ops)
  BY <1>1, <1>2, <1>3 DEF Done, Summary
<1>5. Stands(ops', 0) => Stands(ops, 0)
  BY <1>1, <1>2, <1>3 DEF Stands
<1>6. \A i \in Ops : ~Changes(ops'[i]) /\ (ops'[i].pc = "none" => ~OfMtu(ops'[i]))
  BY <1>1, <1>2 DEF Changes, Waiting, SummaryInv, Told
<1> QED BY <1>1, <1>3, <1>4, <1>5, <1>6 DEF SummaryInv, Told, Stands

LEMMA InitTold == Init => SummaryInv
<1> SUFFICES ASSUME Init PROVE SummaryInv
  OBVIOUS
<1>1. NoOp.pc = "none" /\ NoOp.kind = "none"
  BY DEF NoOp
<1>2. \A i \in Ops : ops[i] = NoOp
  BY DEF Init
<1>3. \A i \in Ops : ~OfMtu(ops[i])
  BY <1>1, <1>2 DEF OfMtu
<1>4. Done(ops) = {} /\ \A i \in Ops : ~Changes(ops[i])
  BY <1>3 DEF Done, Succeeds, Changes
<1> QED BY <1>3, <1>4 DEF SummaryInv, Told, Stands

LEMMA StepTold == CareInv /\ SummaryInv /\ [Next]_vars => SummaryInv'
<1> SUFFICES ASSUME CareInv, SummaryInv, [Next]_vars PROVE SummaryInv'
  OBVIOUS
<1>1. ASSUME NEW i \in Ops, Asks(i) PROVE SummaryInv'
  BY <1>1, ApplyMtuTold, RestoreMtuTold, StartCheckTold, PlanRepairTold DEF Asks
<1>2. ASSUME NEW i \in Ops, Step(i) PROVE SummaryInv'
  BY <1>2, UnreadableTold, ReadTold, SendTold, VerifyTold, ReachTold, AsksTold, UndoneTold,
     CheckTold, StartRepairTold, RepairTold DEF Step
<1>3. ASSUME UNCHANGED <<ops, live>> PROVE SummaryInv'
  BY <1>3 DEF SummaryInv
<1>4. ASSUME NEW s \in Side, NEW c \in Codes, Break(s, c) PROVE SummaryInv'
  BY <1>3, <1>4 DEF Break
<1>5. CASE UNCHANGED vars
  BY <1>3, <1>5 DEF vars
<1> QED BY <1>1, <1>2, <1>4, <1>5, RestartTold DEF Next

(* What the summary looks at goes back from the latest row without a gap:  *)
(* it has the latest success in it, or no success at all.                  *)
LEMMA RecentReachesBack ==
  ASSUME NEW i \in Recent, NEW j \in Ops, IsMtu(j), i <= j
  PROVE  j \in Recent
<1> DEFINE Later(k) == {l \in Ops : l > k /\ IsMtu(l)}
<1>1. /\ i \in Nat /\ j \in Nat /\ Ops \subseteq Nat /\ Window \in Nat
      /\ Cardinality(Later(i)) < Window
  BY CareAssumption, OpsAreNumbers DEF Recent
<1>2. Later(j) \subseteq Later(i)
  <2>1. ASSUME NEW l \in Ops, l > j PROVE l > i
    BY <1>1, <2>1
  <2> QED BY <2>1
<1>3. IsFiniteSet(Later(i))
  <2>1. IsFiniteSet(Ops)
    BY CareAssumption, FS_Interval DEF Ops
  <2>2. Later(i) \subseteq Ops
    OBVIOUS
  <2> QED BY <2>1, <2>2, FS_Subset
<1>4. /\ Cardinality(Later(i)) \in Nat /\ Cardinality(Later(j)) \in Nat
      /\ Cardinality(Later(j)) <= Cardinality(Later(i))
  <2> HIDE DEF Later
  <2>1. IsFiniteSet(Later(j)) /\ Cardinality(Later(j)) <= Cardinality(Later(i))
    BY <1>2, <1>3, FS_Subset
  <2> QED BY <1>3, <2>1, FS_CardinalityType
<1>5. Cardinality(Later(j)) < Window
  <2> HIDE DEF Later
  <2> QED BY <1>1, <1>4
<1> QED BY <1>5 DEF Recent

LEMMA SummaryIsOf ==
  ASSUME NEW last, last = Latest(Succeeded), last \in Succeeded,
         \A i \in Succeeded : i <= last
  PROVE  MtuSummary = IF last \in Recent THEN ops[last].want ELSE NoValues
<1> DEFINE found == Recent \cap Succeeded
<1>1. last \in Nat /\ \A i \in Succeeded : i \in Nat
  BY OpsAreNumbers DEF Succeeded
<1>2. MtuSummary = IF found = {} THEN NoValues ELSE ops[Latest(found)].want
  BY DEF MtuSummary
<1>3. CASE last \in Recent
  <2>1. last \in found /\ \A i \in found : i <= last /\ i \in Nat
    BY <1>1, <1>3
  <2>2. \A i \in found : (\A j \in found : j <= i) => i = last
    BY <1>1, <2>1
  <2> HIDE DEF found
  <2>3. Latest(found) = last
    BY <2>1, <2>2 DEF Latest
  <2> QED BY <1>2, <1>3, <2>1, <2>3
<1>4. CASE last \notin Recent
  <2>1. ASSUME NEW i \in found PROVE FALSE
    <3>1. i \in Recent /\ i <= last /\ last \in Ops /\ IsMtu(last)
      BY DEF Succeeded
    <3> QED BY <1>4, <3>1, RecentReachesBack
  <2> QED BY <1>2, <1>4, <2>1
<1> QED BY <1>3, <1>4

(* While no row since the latest success is in doubt and no repair has set *)
(* an MTU, GET /gre-connections reports from the journal what the tunnels  *)
(* have, as long as fewer than Window changes were refused or rolled back  *)
(* since; after that it reports no value, and not an older one.            *)
THEOREM SummaryAlwaysLive == Spec => []SummaryIsLive
<1>1. SummaryInv => SummaryIsLive
  <2> SUFFICES ASSUME SummaryInv, Succeeded # {},
                      \A i \in Ops : i > Latest(Succeeded) /\ IsMtu(i) => ~Unsettled(i),
                      \A i \in Ops : ops[i].code = MtuCode => ops[i].status = "none"
               PROVE  MtuSummary = IF Latest(Succeeded) \in Recent THEN live ELSE NoValues
    BY DEF SummaryIsLive
  <2>1. \A i : (IsMtu(i) <=> OfMtu(ops[i])) /\ (Unsettled(i) <=> Doubtful(ops[i]))
    BY DEF IsMtu, OfMtu, Unsettled, Doubtful
  <2>2. Succeeded = Done(ops)
    BY <2>1 DEF Succeeded, Done, Succeeds
  <2>3. Stands(ops, 0)
    BY <2>1, <2>2 DEF Stands, SetsMtu
  <2>4. live = ops[Latest(Succeeded)].want
    BY <2>2, <2>3 DEF SummaryInv, Told, Summary
  <2>5. Latest(Succeeded) \in Succeeded /\ \A i \in Succeeded : i <= Latest(Succeeded)
    BY <2>2 DEF SummaryInv, Told
  <2>6. MtuSummary = IF Latest(Succeeded) \in Recent
                     THEN ops[Latest(Succeeded)].want ELSE NoValues
    BY <2>5, SummaryIsOf
  <2> QED BY <2>4, <2>6
<1> QED BY <1>1, InitKeeps, StepKeeps, InitTold, StepTold, PTL DEF Spec
=============================================================================

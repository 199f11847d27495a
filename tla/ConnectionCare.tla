--------------------------- MODULE ConnectionCare ---------------------------
(***************************************************************************)
(* hub/server/connection-mtu.js and hub/server/connection-health.js with   *)
(* the requests of hub/server/routes.js that reach them: changing the MTU  *)
(* of a connection on both servers, undoing such a change, checking the    *)
(* health of both ends, and applying one repair.  All of them take the     *)
(* lock of the connection and of its servers (connections.js) and write a  *)
(* row of edit_operations.                                                 *)
(*                                                                         *)
(* A server is what the gre CLI keeps of this connection there: the MTU of *)
(* the tunnel, the value recorded for `gre mtu restore`, and what is       *)
(* wrong with it besides the MTU.                                          *)
(***************************************************************************)
EXTENDS MtuAdvice, HealthReport

CONSTANTS
  Mtus,       \* MTUs a tunnel may have
  Overhead,   \* bytes of encapsulation
  Path, Nic,  \* side -> what the path carries, MTU of the egress interface
  CliProbes,  \* may `gre mtu diagnose --json` answer with a passed probe
  Codes,      \* what can be wrong besides the MTU: codes of findings
  MtuCode,    \* the code of an MTU that is not the one recommended
  Deep,       \* codes only the full health check looks for
  Handled,    \* codes `gre repair apply` has a repair for
  Window,     \* rows of the journal that mtuSummary looks at: 20 in the code
  MaxOps,     \* bound: requests in a behaviour
  MaxFaults   \* bound: failed commands, lost replies, new faults, restarts

ASSUME CareAssumption ==
  /\ Mtus \subseteq Nat /\ Overhead \in Nat /\ MaxOps \in Nat /\ MaxFaults \in Nat
  /\ Window \in Nat \ {0}
  /\ Path \in [Side -> Nat] /\ Nic \in [Side -> Nat] /\ CliProbes \in BOOLEAN
  /\ \A s \in Side : Overhead <= Path[s] /\ Path[s] <= Nic[s]
  /\ Deep \subseteq Codes /\ Handled \subseteq Codes /\ MtuCode \notin Codes

Ops == 1..MaxOps
Values == Mtus \cup {None}

VARIABLES
  live,    \* side -> MTU of the tunnel interface
  backup,  \* side -> MTU recorded by the last `gre mtu set`, or None
  broken,  \* side -> codes of what is wrong there
  ops,     \* request -> its edit_operations row and its local variables
  started, \* requests so far
  lock,    \* the request that holds the lock, or 0
  faults   \* what has been spent of MaxFaults

hosts == <<live, backup, broken>>
vars == <<live, backup, broken, ops, started, lock, faults>>

NoValues == [s \in Side |-> None]

\* kind to result are the row (status "none": not written); pc and what
\* follows are variables of the handler.
NoOp == [kind |-> "none", status |-> "none", old |-> NoValues, want |-> NoValues,
         code |-> None, measured |-> {}, result |-> "none", pc |-> "none",
         reach |-> [s \in Side |-> "UNKNOWN"], only |-> {}, left |-> {},
         offers |-> {}, applied |-> {}]

Init ==
  /\ live \in [Side -> Mtus]
  /\ backup = NoValues
  /\ broken = [s \in Side |-> {}]
  /\ ops = [i \in Ops |-> NoOp]
  /\ started = 0 /\ lock = 0 /\ faults = 0

Fault == faults < MaxFaults /\ faults' = faults + 1
NoFault == faults' = faults

-----------------------------------------------------------------------------
(* The gre CLI of a side.  Every command answers ok or not and leaves the  *)
(* side in a state; `fault` marks the answers that cost one.               *)

Host(s) == [live |-> live[s], backup |-> backup[s], broken |-> broken[s]]
Outcome(ok, host, fault) == [ok |-> ok, host |-> host, fault |-> fault]

\* gre mtu set: nothing to do, refused, done (the old value recorded), done
\* or not with the answer lost, or failed and put back.
MtuSet(s, mtu) ==
  LET h == Host(s)
      done == [h EXCEPT !.live = mtu, !.backup = h.live]
  IN  {Outcome(FALSE, h, TRUE)} \cup
      (IF mtu + Overhead > Nic[s] THEN {Outcome(FALSE, h, FALSE)}
       ELSE IF h.live = mtu THEN {Outcome(TRUE, h, FALSE)}
       ELSE {Outcome(TRUE, done, FALSE), Outcome(FALSE, done, TRUE),
             Outcome(FALSE, [h EXCEPT !.backup = h.live], TRUE)})

\* gre mtu restore: needs a recorded value, and forgets it when it is back.
MtuRestore(s) ==
  LET h == Host(s)
      done == [h EXCEPT !.live = h.backup, !.backup = None]
  IN  IF h.backup = None THEN {Outcome(FALSE, h, FALSE)}
      ELSE {Outcome(TRUE, done, FALSE), Outcome(FALSE, done, TRUE),
            Outcome(FALSE, h, TRUE)}

\* gre mtu diagnose, with the probes that passed there.
Smaller(m, n) == IF m <= n THEN m ELSE n
Diagnose(s, passed) ==
  [ok |-> TRUE, nic |-> Nic[s], gre |-> live[s], overhead |-> Overhead,
   outer |-> IF "outer" \in passed THEN Path[s] ELSE None,
   inner |-> IF "inner" \in passed THEN Smaller(live[s], Path[s] - Overhead) ELSE None]
Probes == IF CliProbes THEN SUBSET {"outer", "inner"} ELSE {{}}

\* What a health check finds: only the full one probes the path, the quick
\* one takes the egress interface for it.
Found(s, mode) ==
  (IF mode = "full" THEN broken[s] ELSE broken[s] \ Deep) \cup
  (IF live[s] + Overhead = (IF mode = "full" THEN Path[s] ELSE Nic[s])
   THEN {} ELSE {MtuCode})

CheckReport(s, mode) ==
  [ok |-> TRUE, complete |-> TRUE,
   status |-> IF Found(s, mode) \ {MtuCode} # {} THEN "BROKEN"
              ELSE IF Found(s, mode) # {} THEN "DEGRADED" ELSE "HEALTHY",
   findings |-> {[code |-> c, safe |-> TRUE, severity |->
                  IF c = MtuCode THEN "warning" ELSE "critical"] : c \in Found(s, mode)}]

\* gre repair apply: it fails when it has no repair for the code and when its
\* own quick check still reports it.
RepairApply(s, code) ==
  LET h == Host(s)
      fixed == IF code = MtuCode
               THEN [h EXCEPT !.live = Path[s] - Overhead,
                              !.backup = IF h.live = Path[s] - Overhead
                                        THEN @ ELSE h.live]
               ELSE [h EXCEPT !.broken = @ \ {code}]
      agrees == code # MtuCode \/ Path[s] = Nic[s]
  IN  {Outcome(FALSE, h, TRUE)} \cup
      (IF code \notin Handled \cup {MtuCode} THEN {Outcome(FALSE, h, FALSE)}
       ELSE {Outcome(agrees, fixed, FALSE), Outcome(FALSE, fixed, TRUE)})

\* Side s goes to the state outcome out leaves it in.
Leaves(s, out) ==
  /\ live' = [live EXCEPT ![s] = out.host.live]
  /\ backup' = [backup EXCEPT ![s] = out.host.backup]
  /\ broken' = [broken EXCEPT ![s] = out.host.broken]
  /\ IF out.fault THEN Fault ELSE NoFault

\* Both sides are asked at once; those of readable answer.
Reading(readable) == IF readable = Side THEN NoFault ELSE Fault
Interfaces(readable) ==
  [s \in Side |-> IF s \in readable THEN Diagnose(s, {}) ELSE Unread]
Reports(readable, mode) ==
  [s \in Side |-> IF s \in readable THEN CheckReport(s, mode) ELSE Unanswered]

-----------------------------------------------------------------------------
(* The journal and the lock.                                               *)

Goto(i, pc, left) == ops' = [ops EXCEPT ![i].pc = pc, ![i].left = left]

Ended(op, status, result) ==
  [NoOp EXCEPT !.kind = op.kind, !.status = status, !.old = op.old,
               !.want = op.want, !.code = op.code, !.measured = op.measured,
               !.result = result, !.pc = "done"]

\* journalFinish, then the lock is released.
Finish(i, status, result) ==
  /\ ops' = [ops EXCEPT ![i] = Ended(ops[i], status, result)]
  /\ lock' = IF lock = i THEN 0 ELSE lock

\* journalStart of row op, then acquireLock: the row of a request that does
\* not get the lock stays as REJECTED.
Enter(i, op, pc, left) ==
  IF lock = 0
  THEN /\ ops' = [ops EXCEPT ![i] = [op EXCEPT !.status = "RUNNING", !.pc = pc,
                                               !.left = left]]
       /\ lock' = i
  ELSE /\ ops' = [ops EXCEPT ![i] = Ended(op, "REJECTED", "locked")]
       /\ lock' = lock

\* Request i is the next one.
Request(i) == i = started + 1 /\ started' = i

-----------------------------------------------------------------------------
(* PUT /gre-connections/:id/mtu and POST .../mtu/restore.                  *)

ApplyMtu(i, target) ==
  /\ Request(i)
  /\ Enter(i, [NoOp EXCEPT !.kind = "MTU_CHANGE", !.want = [s \in Side |-> target]],
           "read", {})
  /\ UNCHANGED <<hosts, faults>>

\* restoreMtu: the row of change k must not be RUNNING and must record a value.
Restorable(k) ==
  /\ ops[k].kind \in {"MTU_CHANGE", "MTU_RESTORE"}
  /\ ops[k].status # "RUNNING" /\ ops[k].old # NoValues

RestoreMtu(i, k) ==
  /\ Request(i)
  /\ Restorable(k)
  /\ Enter(i, [NoOp EXCEPT !.kind = "MTU_RESTORE", !.old = ops[k].old,
                           !.want = ops[k].old], "read", {})
  /\ UNCHANGED <<hosts, faults>>

Restoring(i) == ops[i].kind = "MTU_RESTORE"

\* Both ends must be read; the values they have are recorded, and the change
\* is weighed against them.
Views == {[s \in Side |-> NormalizeSide(Diagnose(s, passed[s]))] :
            passed \in [Side -> Probes]}

Unreadable(i) ==
  /\ ops[i].pc = "read"
  /\ \E readable \in SUBSET Side : readable # Side /\ Reading(readable)
  /\ Finish(i, "REJECTED", "unread")
  /\ UNCHANGED <<hosts, started>>

ReadBothEndpoints(i) ==
  /\ ops[i].pc = "read"
  /\ \E v \in Views : \E plan \in {PlanMtuChange(v, ops[i].want["iran"])} :
       LET seen == [ops[i] EXCEPT !.old = plan.current,
                                  !.measured = {s \in Side : v[s].measured},
                                  !.reach = [s \in Side |-> v[s].reach]]
       IN  IF Restoring(i) \/ plan.canApply
           THEN /\ ops' = [ops EXCEPT ![i] = [seen EXCEPT !.pc = "send", !.left = Side]]
                /\ lock' = lock
           ELSE /\ ops' = [ops EXCEPT ![i] = Ended(seen, "REJECTED",
                             IF plan.safe THEN "unfit" ELSE "unsafe")]
                /\ lock' = IF lock = i THEN 0 ELSE lock
  /\ UNCHANGED <<hosts, started, faults>>

\* Which sides restoreValues puts back.
Undoing(i, only) ==
  ops' = [ops EXCEPT ![i].pc = "undo", ![i].only = only, ![i].left = only]

\* IRAN first.  When IRAN fails nothing counts as applied; when FOREIGN does,
\* IRAN alone is put back.
SendChange(i) ==
  /\ ops[i].pc = "send"
  /\ LET s == First(ops[i].left)
         rest == ops[i].left \ {s}
     IN  \E out \in IF Restoring(i) THEN MtuRestore(s)
                    ELSE MtuSet(s, ops[i].want[s]) :
           /\ Leaves(s, out)
           /\ IF out.ok
              THEN /\ Goto(i, IF rest = {} THEN "verify" ELSE "send", rest)
                   /\ lock' = lock
              ELSE IF s = "iran" THEN Finish(i, "REJECTED", "iran")
              ELSE Undoing(i, {"iran"}) /\ lock' = lock
  /\ UNCHANGED started

\* The interfaces are read back.  A restore that did not bring the recorded
\* values sets them explicitly, once.
VerifyInterfaces(i) ==
  /\ ops[i].pc \in {"verify", "verify again"}
  /\ \E readable \in SUBSET Side :
       /\ Reading(readable)
       /\ IF VerifyValues(Interfaces(readable), ops[i].want, Side)
          THEN Goto(i, "reach", {})
          ELSE IF Restoring(i) /\ ops[i].pc = "verify"
          THEN Goto(i, "set", Side)
          ELSE Undoing(i, Side)
  /\ UNCHANGED <<hosts, started, lock>>

SetExplicitly(i) ==
  /\ ops[i].pc = "set"
  /\ LET s == First(ops[i].left)
         rest == ops[i].left \ {s}
     IN  /\ \E out \in MtuSet(s, ops[i].want[s]) : Leaves(s, out)
         /\ Goto(i, IF rest = {} THEN "verify again" ELSE "set", rest)
  /\ UNCHANGED <<started, lock>>

VerifyConnectivity(i) ==
  /\ ops[i].pc = "reach"
  /\ \E after \in [Side -> {"PASS", "UNKNOWN", "FAIL"}] :
       IF Regressed(ops[i].reach, after)
       THEN Fault /\ Undoing(i, Side) /\ lock' = lock
       ELSE NoFault /\ Finish(i, "SUCCEEDED", "verified")
  /\ UNCHANGED <<hosts, started>>

\* restoreValues: `gre mtu restore` on each side, read back; if that is not
\* the recorded value, `gre mtu set` of it, read back.
UndoChange(i) ==
  /\ ops[i].pc = "undo"
  /\ LET s == First(ops[i].left)
         rest == ops[i].left \ {s}
     IN  /\ \E out \in MtuRestore(s) : Leaves(s, out)
         /\ Goto(i, IF rest = {} THEN "undone" ELSE "undo", rest)
  /\ UNCHANGED <<started, lock>>

UndoExplicitly(i) ==
  /\ ops[i].pc = "reset"
  /\ LET s == First(ops[i].left)
         rest == ops[i].left \ {s}
     IN  /\ \E out \in MtuSet(s, ops[i].old[s]) : Leaves(s, out)
         /\ Goto(i, IF rest = {} THEN "undone again" ELSE "reset", rest)
  /\ UNCHANGED <<started, lock>>

\* Mutant: a restore the CLI accepted counts as a rollback.
VerifyUndoneUnread(i) ==
  /\ ops[i].pc = "undone"
  /\ Finish(i, "ROLLED_BACK", IF ops[i].only = Side THEN "both" ELSE "iran")
  /\ UNCHANGED <<hosts, started, faults>>

VerifyUndone(i) ==
  /\ ops[i].pc \in {"undone", "undone again"}
  /\ \E readable \in SUBSET Side :
       /\ Reading(readable)
       /\ IF VerifyValues(Interfaces(readable), ops[i].old, ops[i].only)
          THEN Finish(i, "ROLLED_BACK", IF ops[i].only = Side THEN "both" ELSE "iran")
          ELSE IF ops[i].pc = "undone"
          THEN Goto(i, "reset", ops[i].only) /\ lock' = lock
          ELSE Finish(i, "ROLLBACK_FAILED", "unknown")
  /\ UNCHANGED <<hosts, started>>

-----------------------------------------------------------------------------
(* POST .../health-check: the lock comes first, a refused run leaves no    *)
(* row.                                                                    *)

StartCheck(i, mode) ==
  /\ lock = 0
  /\ Request(i)
  /\ Enter(i, [NoOp EXCEPT !.kind = "HEALTH_CHECK", !.code = mode], "check", {})
  /\ UNCHANGED <<hosts, faults>>

RunCheck(i) ==
  /\ ops[i].pc = "check"
  /\ \E readable \in SUBSET Side :
       LET combined == MergeFindings(Reports(readable, ops[i].code))
       IN  /\ Reading(readable)
           /\ Finish(i, IF combined.readable # {} THEN "SUCCEEDED" ELSE "FAILED",
                     combined.status)
  /\ UNCHANGED <<hosts, started>>

-----------------------------------------------------------------------------
(* POST .../repairs/apply.  The plan (`gre repair preview`, a full check,  *)
(* on both ends) is made before the row is written and the lock taken.     *)

Offers(s, code) == code \in Found(s, "full")

PlanRepair(i, code) ==
  LET offering == {s \in Side : Offers(s, code)}
  IN  /\ Request(i)
      /\ offering # {}
      /\ ops' = [ops EXCEPT ![i] = [NoOp EXCEPT !.kind = "HEALTH_REPAIR",
                   !.code = code, !.offers = offering, !.pc = "planned"]]
      /\ UNCHANGED <<hosts, lock, faults>>

StartRepair(i) ==
  /\ ops[i].pc = "planned"
  /\ Enter(i, ops[i], "repair", ops[i].offers)
  /\ UNCHANGED <<hosts, started, faults>>

\* Every side that offered the repair applies it, whatever the other did.
ApplyRepair(i) ==
  /\ ops[i].pc = "repair"
  /\ LET s == First(ops[i].left)
         rest == ops[i].left \ {s}
     IN  \E out \in RepairApply(s, ops[i].code) :
           /\ Leaves(s, out)
           /\ ops' = [ops EXCEPT ![i].left = rest,
                ![i].pc = IF rest = {} THEN "recheck" ELSE "repair",
                ![i].applied = IF out.ok THEN @ \cup {s} ELSE @]
  /\ UNCHANGED <<started, lock>>

\* A fresh quick check of both sides decides.
VerifyRepair(i) ==
  /\ ops[i].pc = "recheck"
  /\ \E readable \in SUBSET Side :
       LET after == Reports(readable, "quick")
           gone == {s \in readable : ~Reported(after[s], ops[i].code)}
           repaired == ops[i].applied \cap gone
           unresolved == {s \in Side \ repaired : s \in ops[i].offers \/ s \notin gone}
       IN  /\ Reading(readable)
           /\ Finish(i, IF gone = Side THEN "SUCCEEDED"
                        ELSE IF repaired # {} /\ unresolved # {}
                        THEN "PARTIAL" ELSE "FAILED",
                     MergeFindings(after).status)
  /\ UNCHANGED <<hosts, started>>

-----------------------------------------------------------------------------
\* Something goes wrong on a server.
Break(s, code) ==
  /\ Fault
  /\ code \notin broken[s]
  /\ broken' = [broken EXCEPT ![s] = @ \cup {code}]
  /\ UNCHANGED <<live, backup, ops, started, lock>>

\* The Hub restarts: requests and locks are gone, their rows stay RUNNING.
Restart ==
  /\ Fault
  /\ ops' = [i \in Ops |-> IF ops[i].pc \in {"none", "done"} THEN ops[i]
                          ELSE IF ops[i].pc = "planned" THEN [NoOp EXCEPT !.pc = "done"]
                          ELSE Ended(ops[i], ops[i].status, "restart")]
  /\ lock' = 0
  /\ UNCHANGED <<hosts, started>>

Step(i) ==
  \/ Unreadable(i) \/ ReadBothEndpoints(i) \/ SendChange(i) \/ VerifyInterfaces(i)
  \/ SetExplicitly(i) \/ VerifyConnectivity(i)
  \/ UndoChange(i) \/ UndoExplicitly(i) \/ VerifyUndone(i)
  \/ RunCheck(i) \/ StartRepair(i) \/ ApplyRepair(i) \/ VerifyRepair(i)

Asks(i) ==
  \/ \E target \in Mtus : ApplyMtu(i, target)
  \/ \E k \in Ops : RestoreMtu(i, k)
  \/ \E mode \in {"quick", "full"} : StartCheck(i, mode)
  \/ \E code \in Codes \cup {MtuCode} : PlanRepair(i, code)

Next ==
  \/ \E i \in Ops : Asks(i) \/ Step(i)
  \/ \E s \in Side, c \in Codes : Break(s, c)
  \/ Restart

Spec == Init /\ [][Next]_vars

-----------------------------------------------------------------------------
(* GET /gre-connections shows the MTU of the journal: the latest row that  *)
(* succeeded among the latest Window rows of MTU changes and restores, the *)
(* refused ones included; without one there, no value.                     *)

IsMtu(i) == ops[i].kind \in {"MTU_CHANGE", "MTU_RESTORE"}
Recent == {i \in Ops : IsMtu(i) /\ Cardinality({j \in Ops : j > i /\ IsMtu(j)}) < Window}
Succeeded == {i \in Ops : IsMtu(i) /\ ops[i].status = "SUCCEEDED"}
Latest(rows) == CHOOSE i \in rows : \A j \in rows : j <= i
MtuSummary == LET found == Recent \cap Succeeded
              IN  IF found = {} THEN NoValues ELSE ops[Latest(found)].want

-----------------------------------------------------------------------------
CareTypeOK ==
  /\ live \in [Side -> Nat]
  /\ backup \in [Side -> Nat \cup {None}]
  /\ broken \in [Side -> SUBSET Codes]
  /\ started \in 0..MaxOps /\ lock \in 0..started /\ faults \in 0..MaxFaults
  /\ \A i \in Ops :
       /\ ops[i].status \in {"none", "RUNNING", "SUCCEEDED", "REJECTED", "ROLLED_BACK",
                            "ROLLBACK_FAILED", "PARTIAL", "FAILED"}
       /\ {ops[i].old[s] : s \in Side} \subseteq Nat \cup {None}
       /\ {ops[i].want[s] : s \in Side} \subseteq Nat \cup {None}
       /\ UNION {ops[i].left, ops[i].only, ops[i].offers, ops[i].applied,
                 ops[i].measured} \subseteq Side

Waiting == {"none", "planned", "done"}

\* A request is at work on the servers exactly while it holds the lock, with a
\* RUNNING row: whatever is refused, fails, rolls back or is cut short by a
\* restart, changes, repairs and checks never overlap and no lock leaks.
OneRunner ==
  /\ lock # 0 => /\ ops[lock].pc \notin Waiting
                 /\ ops[lock].status = "RUNNING"
  /\ \A i \in Ops : ops[i].pc \notin Waiting => lock = i

\* Rows after which the tunnels may have another MTU than before: under way
\* or cut short, not undone, refused by IRAN with its answer lost, or refused
\* by FOREIGN, which is not looked at again.
Unsettled(i) ==
  \/ ops[i].status \in {"RUNNING", "ROLLBACK_FAILED"}
  \/ ops[i].result = "iran"

\* When no row since the latest success leaves the MTU in doubt and no repair has
\* set one, the summary of mtuSummary is what the tunnels have, for as long as
\* fewer than Window changes were refused or rolled back since.  After that it
\* is no value, and not that of an earlier change.
SummaryIsLive ==
  (/\ Succeeded # {}
   /\ \A i \in Ops : i > Latest(Succeeded) /\ IsMtu(i) => ~Unsettled(i)
   /\ \A i \in Ops : ops[i].code = MtuCode => ops[i].status = "none")
  => MtuSummary = IF Latest(Succeeded) \in Recent THEN live ELSE NoValues

\* A change that succeeded rests on a measurement and fits what was measured,
\* and what the egress interfaces carry.
FitsWhatWasMeasured ==
  \A i \in Ops : ops[i].kind = "MTU_CHANGE" /\ ops[i].status = "SUCCEEDED" =>
    /\ ops[i].measured # {}
    /\ \A s \in Side : /\ ops[i].want[s] >= MinLegal
                        /\ ops[i].want[s] + Overhead <= Nic[s]
    /\ \A s \in ops[i].measured : ops[i].want[s] + Overhead <= Path[s]

\* A check calls the connection healthy only when both ends answered and
\* neither found anything.
HealthyMeansBothClean ==
  [][\A i \in Ops :
       ops[i].pc = "check" /\ ops'[i].result = "HEALTHY"
       => \A s \in Side : Found(s, ops[i].code) = {}]_vars

\* connection-health.js:784: success is claimed only when the code is gone
\* from every side.
RepairSucceededMeansFixed ==
  [][\A i \in Ops :
       /\ ops[i].pc = "recheck" /\ ops'[i].status = "SUCCEEDED"
       /\ ops[i].code \in Codes
       => \A s \in Side : ops[i].code \notin Found(s, "full")]_vars

\* connection-mtu.js:999 and :1024: the paths of both sides have been probed
\* when the change is weighed, so two sides that answer are not refused for
\* want of a measurement.
AnsweringIsMeasured == \A i \in Ops : ops[i].result # "unsafe"
=============================================================================

--------------------------- MODULE DiscoveryQueue ---------------------------
(***************************************************************************)
(* hub/server/discovery-queue.js: the bounded, coalescing queue through    *)
(* which every automated SSH probe of the hub goes.                        *)
(*                                                                         *)
(* A job is one push onto `pending`, that is, one promise: a caller that   *)
(* joins a job holds the same promise.  A job is "queued" until #pump      *)
(* shifts it, "running" until its task's promise settles, "settled" until  *)
(* the .finally callback has run, and then "done".  Between "settled" and  *)
(* "done" the callers' continuations are already scheduled, so run() can   *)
(* be called while inFlight still holds the finished job.                  *)
(***************************************************************************)
EXTENDS Naturals, Sequences, FiniteSets

CONSTANTS
  Keys,         \* what run() is keyed on (server ids)
  Tasks,        \* what a caller may pass as `task`
  Callers,      \* the handlers that await run()
  Concurrency,  \* DiscoveryQueue.concurrency
  MaxJobs       \* bound: how many jobs a behaviour pushes

\* readConcurrency() returns an integer from 1 to 32.
ASSUME ConcurrencyAssumption == Concurrency \in 1..32
ASSUME MaxJobsAssumption == MaxJobs \in Nat

Jobs  == 1..MaxJobs
NoJob == 0

VARIABLES
  created,   \* jobs pushed so far: job ids are handed out in order
  jobKey,    \* job -> its key
  jobTask,   \* job -> its task
  phase,     \* job -> where it is
  inFlight,  \* key -> the job whose promise the map holds, or NoJob
  pending,   \* the queue of jobs not yet started
  active,    \* the counter #pump compares with the bound
  peak,      \* the highest value of active
  stats,     \* the counters snapshot() reports (not the number of joins)
  waiting    \* caller -> the job whose promise it awaits, or NoJob

queueVars == <<created, jobKey, jobTask, phase, inFlight, pending, active,
               peak, stats>>
qvars == <<queueVars, waiting>>

Phases == {"none", "queued", "running", "settled", "done"}

Executing == {j \in Jobs : phase[j] \in {"running", "settled"}}
Live      == {j \in Jobs : phase[j] \in {"queued", "running", "settled"}}

QueueInit ==
  /\ created = 0
  /\ jobKey  \in [Jobs -> Keys]      \* read only once the job exists
  /\ jobTask \in [Jobs -> Tasks]
  /\ \A i, j \in Jobs : jobKey[i] = jobKey[j] /\ jobTask[i] = jobTask[j]
  /\ phase    = [j \in Jobs |-> "none"]
  /\ inFlight = [k \in Keys |-> NoJob]
  /\ pending  = << >>
  /\ active   = 0
  /\ peak     = 0
  /\ stats    = [started |-> 0, completed |-> 0, failed |-> 0]
  /\ waiting  = [c \in Callers |-> NoJob]

-----------------------------------------------------------------------------
(* #pump: the while loop starts jobs from the front as long as there is a  *)
(* slot.  q, a, ph and st are the queue, the counter, the phases and the   *)
(* counters the loop finds.                                                *)
StartCount(n, a) ==
  IF a + n <= Concurrency THEN n
  ELSE IF a < Concurrency THEN Concurrency - a ELSE 0

(* Mutant of Pump: pop() in place of shift().                              *)
PumpFromEnd(q, a, ph, st) ==
  LET m       == StartCount(Len(q), a)
      started == {q[i] : i \in (Len(q) - m + 1)..Len(q)}
  IN  /\ pending' = SubSeq(q, 1, Len(q) - m)
      /\ active'  = a + m
      /\ peak'    = IF a + m > peak THEN a + m ELSE peak
      /\ phase'   = [j \in Jobs |-> IF j \in started THEN "running" ELSE ph[j]]
      /\ stats'   = [st EXCEPT !.started = @ + m]

Pump(q, a, ph, st) ==
  LET m       == StartCount(Len(q), a)
      started == {q[i] : i \in 1..m}
  IN  /\ pending' = SubSeq(q, m + 1, Len(q))
      /\ active'  = a + m
      /\ peak'    = IF a + m > peak THEN a + m ELSE peak
      /\ phase'   = [j \in Jobs |-> IF j \in started THEN "running" ELSE ph[j]]
      /\ stats'   = [st EXCEPT !.started = @ + m]

(* run() for a key the map already holds: the same promise is returned and *)
(* the caller's own task is dropped, whatever it was.                      *)
Join(c, k) ==
  /\ waiting[c] = NoJob
  /\ inFlight[k] # NoJob
  /\ waiting' = [waiting EXCEPT ![c] = inFlight[k]]
  /\ UNCHANGED queueVars

(* Mutant of Enqueue: run() does not look the key up first.                *)
EnqueueAlways(c, k, t) ==
  /\ waiting[c] = NoJob
  /\ created < MaxJobs
  /\ LET n == created + 1
     IN  /\ created'  = n
         /\ jobKey'   = [jobKey EXCEPT ![n] = k]
         /\ jobTask'  = [jobTask EXCEPT ![n] = t]
         /\ inFlight' = [inFlight EXCEPT ![k] = n]
         /\ waiting'  = [waiting EXCEPT ![c] = n]
         /\ Pump(Append(pending, n), active, [phase EXCEPT ![n] = "queued"],
                 stats)

(* run() for a key that is not in the map: a new job, and a pump.          *)
Enqueue(c, k, t) ==
  /\ waiting[c] = NoJob
  /\ inFlight[k] = NoJob
  /\ created < MaxJobs
  /\ LET n == created + 1
     IN  /\ created'  = n
         /\ jobKey'   = [jobKey EXCEPT ![n] = k]
         /\ jobTask'  = [jobTask EXCEPT ![n] = t]
         /\ inFlight' = [inFlight EXCEPT ![k] = n]
         /\ waiting'  = [waiting EXCEPT ![c] = n]
         /\ Pump(Append(pending, n), active, [phase EXCEPT ![n] = "queued"],
                 stats)

Run(c, k, t) == Join(c, k) \/ Enqueue(c, k, t)

(* The task's promise settles: the job's own promise is resolved or        *)
(* rejected with it, for every caller that holds it.                       *)
Settle(j, ok) ==
  /\ phase[j] = "running"
  /\ phase' = [phase EXCEPT ![j] = "settled"]
  /\ stats' = IF ok THEN [stats EXCEPT !.completed = @ + 1]
                    ELSE [stats EXCEPT !.failed = @ + 1]
  /\ UNCHANGED <<created, jobKey, jobTask, inFlight, pending, active, peak,
                 waiting>>

(* Mutants of Finalize: nothing pumps when a slot is freed; the key stays  *)
(* in the map.                                                             *)
FinalizeOnly(j) ==
  /\ phase[j] = "settled"
  /\ inFlight' = [inFlight EXCEPT ![jobKey[j]] = NoJob]
  /\ active' = active - 1
  /\ phase'  = [phase EXCEPT ![j] = "done"]
  /\ UNCHANGED <<created, jobKey, jobTask, pending, peak, stats, waiting>>

FinalizeKeepsKey(j) ==
  /\ phase[j] = "settled"
  /\ Pump(pending, active - 1, [phase EXCEPT ![j] = "done"], stats)
  /\ UNCHANGED <<created, jobKey, jobTask, inFlight, waiting>>

(* The .finally callback: free the slot and the key, then pump.            *)
Finalize(j) ==
  /\ phase[j] = "settled"
  /\ inFlight' = [inFlight EXCEPT ![jobKey[j]] = NoJob]
  /\ Pump(pending, active - 1, [phase EXCEPT ![j] = "done"], stats)
  /\ UNCHANGED <<created, jobKey, jobTask, waiting>>

(* A caller's await returns.                                               *)
Return(c) ==
  /\ waiting[c] # NoJob
  /\ phase[waiting[c]] \in {"settled", "done"}
  /\ waiting' = [waiting EXCEPT ![c] = NoJob]
  /\ UNCHANGED queueVars

QueueNext ==
  \/ \E c \in Callers, k \in Keys, t \in Tasks : Run(c, k, t)
  \/ \E j \in Jobs, ok \in BOOLEAN : Settle(j, ok)
  \/ \E j \in Jobs : Finalize(j)
  \/ \E c \in Callers : Return(c)

(* Every probe has an SSH timeout, so a running task settles; microtasks   *)
(* (the .finally callback and the continuations) are always drained.       *)
QueueFairness ==
  /\ \A j \in Jobs : WF_qvars(\E ok \in BOOLEAN : Settle(j, ok))
  /\ \A j \in Jobs : WF_qvars(Finalize(j))
  /\ \A c \in Callers : WF_qvars(Return(c))

QueueSpec     == QueueInit /\ [][QueueNext]_qvars
FairQueueSpec == QueueSpec /\ QueueFairness

-----------------------------------------------------------------------------
QueueTypeOK ==
  /\ created \in 0..MaxJobs
  /\ jobKey \in [Jobs -> Keys]
  /\ jobTask \in [Jobs -> Tasks]
  /\ phase \in [Jobs -> Phases]
  /\ inFlight \in [Keys -> Jobs \cup {NoJob}]
  /\ pending \in Seq(Jobs)
  /\ active \in Nat
  /\ peak \in Nat
  /\ stats \in [started : Nat, completed : Nat, failed : Nat]
  /\ waiting \in [Callers -> Jobs \cup {NoJob}]

(* "never more than `concurrency` tasks in flight": the jobs whose task    *)
(* has been started and whose slot is not free again are at most the       *)
(* bound, and the counter the queue steers by is exactly their number.     *)
BoundedInFlight ==
  /\ Cardinality(Executing) = active
  /\ active <= Concurrency

(* "at most ONE in-flight task per key": two live jobs never share a key,  *)
(* and has(key), which the health probe trusts, is exact.                  *)
OneJobPerKey ==
  /\ \A i, j \in Live : jobKey[i] = jobKey[j] => i = j
  /\ \A k \in Keys, j \in Jobs :
        inFlight[k] = j <=> (j \in Live /\ jobKey[j] = k)

(* No wake-up is lost: a job waits in the queue only while every slot is   *)
(* taken, although nothing but run() and .finally ever pumps.              *)
NoIdleSlot == pending # << >> => active = Concurrency

(* Jobs start in the order run() pushed them: no server is overtaken.      *)
StartsInOrder ==
  \A i, j \in Jobs : /\ i < j
                     /\ phase[j] \in {"running", "settled", "done"}
                     => phase[i] \in {"running", "settled", "done"}

(* The queue implements ProbeSlots: seen from outside, keys enter, hold    *)
(* one of Concurrency sessions, and leave.                                 *)
Slots == INSTANCE ProbeSlots WITH
           inside <- {k \in Keys : inFlight[k] # NoJob},
           open   <- {jobKey[j] : j \in Executing}
ImplementsSlots == Slots!SlotsSpec

(* Every caller of run() gets an answer, also one that joined a job.       *)
EveryCallReturns == \A c \in Callers : waiting[c] # NoJob ~> waiting[c] = NoJob
=============================================================================

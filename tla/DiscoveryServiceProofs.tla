----------------------- MODULE DiscoveryServiceProofs -----------------------
(***************************************************************************)
(* What DiscoveryQueue, DiscoveryService and ServersPage promise for every *)
(* set of servers, callers and versions, and every bound: the queue starts *)
(* its jobs in order and is never idle beside one, the stored topology     *)
(* never goes back, a recorded failure is cleared by a discovery only, and *)
(* the page shows nothing but what was read, the same in card and drawer.  *)
(*                                                                         *)
(* QInv is the queue's invariant.  ServiceInv adds to it what a running    *)
(* probe knows: no later version is stored than the one it has read.       *)
(* PageInv says that every row on its way to the page or shown by it is    *)
(* one the database could have held, and that the drawer shows the row of  *)
(* the list.                                                               *)
(***************************************************************************)
EXTENDS ServersPage, FiniteSetTheorems, SequenceTheorems, TLAPS

(* The queue holds exactly the queued jobs, oldest first; ids are handed   *)
(* out in order and never reused.                                          *)
QueueShape ==
  /\ \A i \in 1..Len(pending) : phase[pending[i]] = "queued"
  /\ \A j \in Jobs : phase[j] = "queued" =>
        \E i \in 1..Len(pending) : pending[i] = j
  /\ \A i, h \in 1..Len(pending) : i < h => pending[i] < pending[h]
  /\ \A j \in Jobs : phase[j] = "none" <=> j > created

KeyIndex ==
  \A k \in Keys, j \in Jobs : inFlight[k] = j <=> (j \in Live /\ jobKey[j] = k)

QInv == /\ QueueTypeOK
        /\ QueueShape
        /\ KeyIndex
        /\ NoIdleSlot
        /\ BoundedInFlight
        /\ StartsInOrder

-----------------------------------------------------------------------------
(* What #pump does where the queue calls it: it starts nothing, or it      *)
(* starts the oldest job.                                                  *)

LEMMA StartCountOne ==
  ASSUME NEW n \in Nat, NEW a \in Nat, Concurrency \in Nat, n > 0,
         a + 1 = Concurrency \/ (a < Concurrency /\ n = 1)
  PROVE  StartCount(n, a) = 1
BY DEF StartCount

LEMMA PumpNone ==
  ASSUME NEW q \in Seq(Jobs), NEW a \in Nat, NEW ph \in [Jobs -> Phases],
         NEW st \in [started : Nat, completed : Nat, failed : Nat],
         peak \in Nat,
         Pump(q, a, ph, st),
         q = << >> \/ a = Concurrency
  PROVE  /\ pending' \in Seq(Jobs)
         /\ Len(pending') = Len(q)
         /\ \A i \in 1..Len(q) : pending'[i] = q[i]
         /\ active' = a
         /\ phase' = ph
         /\ peak' \in Nat
         /\ stats' \in [started : Nat, completed : Nat, failed : Nat]
<1>1. Concurrency \in Nat
  BY ConcurrencyAssumption
<1>2. StartCount(Len(q), a) = 0
  BY <1>1 DEF StartCount
<1>3. Len(q) \in Nat
  OBVIOUS
<1>4. pending' = SubSeq(q, 1, Len(q))
  BY <1>2 DEF Pump
<1>5. active' = a /\ peak' \in Nat
  BY <1>2 DEF Pump
<1>6. phase' = [j \in Jobs |-> IF j \in {q[i] : i \in 1..0} THEN "running" ELSE ph[j]]
  BY <1>2 DEF Pump
<1>7. phase' = ph
  BY <1>6
<1>8. stats' = [st EXCEPT !.started = @ + 0]
  BY <1>2 DEF Pump
<1> QED
  BY <1>3, <1>4, <1>5, <1>7, <1>8

LEMMA PumpOne ==
  ASSUME NEW q \in Seq(Jobs), NEW a \in Nat, NEW ph \in [Jobs -> Phases],
         NEW st \in [started : Nat, completed : Nat, failed : Nat],
         peak \in Nat,
         Pump(q, a, ph, st),
         q # << >>,
         a + 1 = Concurrency \/ (a < Concurrency /\ Len(q) = 1)
  PROVE  /\ pending' \in Seq(Jobs)
         /\ Len(pending') = Len(q) - 1
         /\ \A i \in 1..(Len(q) - 1) : pending'[i] = q[i + 1]
         /\ active' = a + 1
         /\ phase' = [ph EXCEPT ![q[1]] = "running"]
         /\ peak' \in Nat
         /\ stats' \in [started : Nat, completed : Nat, failed : Nat]
<1>1. Concurrency \in Nat
  BY ConcurrencyAssumption
<1>2. Len(q) \in Nat /\ Len(q) > 0
  OBVIOUS
<1>3. StartCount(Len(q), a) = 1
  BY <1>1, <1>2, StartCountOne
<1>4. pending' = SubSeq(q, 2, Len(q))
  BY <1>3 DEF Pump
<1>5. active' = a + 1 /\ peak' \in Nat
  BY <1>3 DEF Pump
<1>6. phase' = [j \in Jobs |-> IF j \in {q[i] : i \in 1..1} THEN "running" ELSE ph[j]]
  BY <1>3 DEF Pump
<1>7. {q[i] : i \in 1..1} = {q[1]}
  OBVIOUS
<1>8. phase' = [ph EXCEPT ![q[1]] = "running"]
  BY <1>6, <1>7
<1>9. stats' = [st EXCEPT !.started = @ + 1]
  BY <1>3 DEF Pump
<1>10. /\ pending' \in Seq(Jobs)
       /\ Len(pending') = Len(q) - 1
       /\ \A i \in 1..(Len(q) - 1) : pending'[i] = q[i + 1]
  <2>1. \A i \in 2..Len(q) : q[i] \in Jobs
    BY <1>2
  <2>2. /\ SubSeq(q, 2, Len(q)) \in Seq(Jobs)
        /\ Len(SubSeq(q, 2, Len(q))) = IF 2 <= Len(q) THEN Len(q) - 2 + 1 ELSE 0
        /\ \A i \in 1..(Len(q) - 2 + 1) : SubSeq(q, 2, Len(q))[i] = q[2 + i - 1]
    BY <1>2, <2>1, SubSeqProperties
  <2>3. Len(SubSeq(q, 2, Len(q))) = Len(q) - 1
    <3>1. ASSUME NEW n \in Nat, n > 0
          PROVE  (IF 2 <= n THEN n - 2 + 1 ELSE 0) = n - 1
      BY <3>1
    <3> QED
      BY <1>2, <2>2, <3>1
  <2>4. ASSUME NEW i \in 1..(Len(q) - 1)
        PROVE  SubSeq(q, 2, Len(q))[i] = q[i + 1]
    <3>1. i \in 1..(Len(q) - 2 + 1) /\ 2 + i - 1 = i + 1
      BY <1>2
    <3> QED
      BY <2>2, <3>1
  <2> QED
    BY <1>4, <2>2, <2>3, <2>4
<1> QED
  BY <1>5, <1>8, <1>9, <1>10

-----------------------------------------------------------------------------
LEMMA InitEstablishes == QueueInit => QInv
<1> SUFFICES ASSUME QueueInit PROVE QInv
  OBVIOUS
<1> USE DEF QueueInit
<1>1. QueueTypeOK
  <2>1. pending \in Seq(Jobs)
    BY EmptySeq
  <2>2. created \in 0..MaxJobs
    BY MaxJobsAssumption
  <2>3. stats \in [started : Nat, completed : Nat, failed : Nat]
    OBVIOUS
  <2>4. /\ phase \in [Jobs -> Phases]
        /\ inFlight \in [Keys -> Jobs \cup {NoJob}]
        /\ waiting \in [Callers -> Jobs \cup {NoJob}]
    BY DEF Phases
  <2> QED
    BY <2>1, <2>2, <2>3, <2>4 DEF QueueTypeOK
<1>2. Executing = {} /\ Live = {}
  BY DEF Executing, Live
<1>3. BoundedInFlight
  BY <1>2, FS_EmptySet, ConcurrencyAssumption DEF BoundedInFlight
<1>4. QueueShape
  BY MaxJobsAssumption DEF QueueShape, Jobs
<1>5. KeyIndex
  BY <1>2 DEF KeyIndex, NoJob, Jobs
<1>6. NoIdleSlot /\ StartsInOrder
  BY DEF NoIdleSlot, StartsInOrder
<1> QED
  BY <1>1, <1>3, <1>4, <1>5, <1>6 DEF QInv

LEMMA ExecutingFinite == IsFiniteSet(Executing) /\ Cardinality(Executing) \in Nat
<1>1. IsFiniteSet(Jobs)
  BY MaxJobsAssumption, FS_Interval DEF Jobs
<1>2. Executing \in SUBSET Jobs
  BY DEF Executing
<1> QED
  BY <1>1, <1>2, FS_Subset, FS_CardinalityType

LEMMA JoinKeeps ==
  ASSUME QInv, NEW c \in Callers, NEW k \in Keys, Join(c, k)
  PROVE  QInv'
<1> USE DEF QInv, Join, queueVars
<1>1. QueueTypeOK'
  BY DEF QueueTypeOK
<1>2. Executing' = Executing /\ Live' = Live
  BY DEF Executing, Live
<1>3. BoundedInFlight' /\ KeyIndex'
  BY <1>2 DEF BoundedInFlight, KeyIndex
<1>4. QueueShape' /\ NoIdleSlot' /\ StartsInOrder'
  BY DEF QueueShape, NoIdleSlot, StartsInOrder
<1> QED
  BY <1>1, <1>3, <1>4

LEMMA ReturnKeeps ==
  ASSUME QInv, NEW c \in Callers, Return(c)
  PROVE  QInv'
<1> USE DEF QInv, Return, queueVars
<1>1. QueueTypeOK'
  BY DEF QueueTypeOK
<1>2. Executing' = Executing /\ Live' = Live
  BY DEF Executing, Live
<1>3. BoundedInFlight' /\ KeyIndex'
  BY <1>2 DEF BoundedInFlight, KeyIndex
<1>4. QueueShape' /\ NoIdleSlot' /\ StartsInOrder'
  BY DEF QueueShape, NoIdleSlot, StartsInOrder
<1> QED
  BY <1>1, <1>3, <1>4

LEMMA SettleKeeps ==
  ASSUME QInv, NEW j \in Jobs, NEW ok \in BOOLEAN, Settle(j, ok)
  PROVE  QInv'
<1> USE DEF QInv, Settle
<1>1. QueueTypeOK'
  BY DEF QueueTypeOK, Phases
<1>2. /\ phase \in [Jobs -> Phases] /\ phase[j] = "running"
      /\ phase' = [phase EXCEPT ![j] = "settled"]
  BY DEF QueueTypeOK
<1>3. Executing' = Executing /\ Live' = Live
  BY <1>2 DEF Executing, Live
<1>4. BoundedInFlight' /\ KeyIndex'
  BY <1>3 DEF BoundedInFlight, KeyIndex
<1>5. QueueShape'
  <2>1. \A i \in 1..Len(pending) : phase[pending[i]] = "queued" /\ pending[i] \in Jobs
    BY DEF QueueShape, QueueTypeOK
  <2>2. \A i \in 1..Len(pending) : phase'[pending[i]] = "queued"
    BY <1>2, <2>1
  <2> QED
    BY <1>2, <2>2 DEF QueueShape
<1>6. NoIdleSlot' /\ StartsInOrder'
  BY <1>2 DEF NoIdleSlot, StartsInOrder
<1> QED
  BY <1>1, <1>4, <1>5, <1>6

LEMMA EnqueueKeeps ==
  ASSUME QInv, NEW c \in Callers, NEW k \in Keys, NEW t \in Tasks,
         Enqueue(c, k, t)
  PROVE  QInv'
<1> DEFINE n  == created + 1
           q  == Append(pending, n)
           ph == [phase EXCEPT ![n] = "queued"]
<1>1. /\ QueueTypeOK /\ QueueShape /\ KeyIndex /\ NoIdleSlot
      /\ BoundedInFlight /\ StartsInOrder
  BY DEF QInv
<1>2. /\ n \in Jobs /\ created \in Nat
      /\ phase[n] = "none" /\ n \notin Live /\ n \notin Executing
  <2>1. n \in Jobs /\ created \in Nat
    BY <1>1, MaxJobsAssumption DEF QueueTypeOK, Jobs, Enqueue
  <2>2. phase[n] = "none"
    BY <1>1, <2>1 DEF QueueShape
  <2> QED
    BY <2>1, <2>2 DEF Live, Executing
<1>3. /\ pending \in Seq(Jobs) /\ Len(pending) \in Nat
      /\ q \in Seq(Jobs) /\ q # << >> /\ Len(q) = Len(pending) + 1
      /\ \A i \in 1..Len(pending) : q[i] = pending[i]
      /\ q[Len(pending) + 1] = n
  BY <1>1, <1>2, AppendProperties DEF QueueTypeOK
<1>4. /\ phase \in [Jobs -> Phases] /\ ph \in [Jobs -> Phases]
      /\ active \in Nat /\ peak \in Nat
      /\ stats \in [started : Nat, completed : Nat, failed : Nat]
  BY <1>1 DEF QueueTypeOK, Phases
<1>5. Pump(q, active, ph, stats)
  BY DEF Enqueue
<1>6. /\ created' = n
      /\ jobKey'  = [jobKey EXCEPT ![n] = k]
      /\ jobTask' = [jobTask EXCEPT ![n] = t]
      /\ inFlight' = [inFlight EXCEPT ![k] = n]
      /\ waiting' = [waiting EXCEPT ![c] = n]
      /\ inFlight[k] = NoJob
  BY DEF Enqueue
<1>7. Concurrency \in Nat /\ Concurrency > 0 /\ active <= Concurrency
  BY <1>1, ConcurrencyAssumption DEF BoundedInFlight
<1>8. ASSUME Live' = Live \cup {n}
      PROVE  KeyIndex'
  <2>1. /\ jobKey \in [Jobs -> Keys] /\ inFlight \in [Keys -> Jobs \cup {NoJob}]
    BY <1>1 DEF QueueTypeOK
  <2>2. NoJob \notin Jobs
    BY DEF NoJob, Jobs
  <2>3. SUFFICES ASSUME NEW x \in Keys, NEW j \in Jobs
                 PROVE  inFlight'[x] = j <=> (j \in Live' /\ jobKey'[j] = x)
    BY DEF KeyIndex
  <2>4. CASE j = n
    BY <1>1, <1>2, <1>6, <1>8, <2>1, <2>4 DEF KeyIndex
  <2>5. CASE j # n /\ x = k
    BY <1>1, <1>2, <1>6, <1>8, <2>1, <2>2, <2>5 DEF KeyIndex
  <2>6. CASE j # n /\ x # k
    BY <1>1, <1>2, <1>6, <1>8, <2>1, <2>6 DEF KeyIndex
  <2> QED
    BY <2>4, <2>5, <2>6
<1>9. ASSUME pending' \in Seq(Jobs), phase' \in [Jobs -> Phases],
             active' \in Nat, peak' \in Nat,
             stats' \in [started : Nat, completed : Nat, failed : Nat]
      PROVE  QueueTypeOK'
  BY <1>1, <1>2, <1>6, <1>9 DEF QueueTypeOK, Jobs
<1>10. CASE active < Concurrency
  <2>1. pending = << >> /\ Len(pending) = 0
    BY <1>1, <1>4, <1>7, <1>10, EmptySeq DEF NoIdleSlot
  <2>2. Len(q) = 1 /\ q[1] = n
    BY <1>3, <2>1
  <2>3. /\ pending' \in Seq(Jobs) /\ Len(pending') = 0
        /\ active' = active + 1
        /\ phase' = [ph EXCEPT ![n] = "running"]
        /\ peak' \in Nat
        /\ stats' \in [started : Nat, completed : Nat, failed : Nat]
    <3> HIDE DEF n, q, ph
    <3>1. /\ pending' \in Seq(Jobs) /\ Len(pending') = Len(q) - 1
          /\ active' = active + 1
          /\ phase' = [ph EXCEPT ![q[1]] = "running"]
          /\ peak' \in Nat
          /\ stats' \in [started : Nat, completed : Nat, failed : Nat]
      BY <1>3, <1>4, <1>5, <1>10, <2>2, PumpOne
    <3> QED
      BY <2>2, <3>1
  <2>4. phase' = [phase EXCEPT ![n] = "running"]
    BY <1>2, <1>4, <2>3
  <2>5. Executing' = Executing \cup {n} /\ Live' = Live \cup {n}
    BY <1>2, <1>4, <2>4 DEF Executing, Live
  <2>6. BoundedInFlight'
    BY <1>1, <1>2, <1>4, <1>7, <1>10, <2>3, <2>5, ExecutingFinite, FS_AddElement
       DEF BoundedInFlight
  <2>7. QueueTypeOK'
    <3>1. phase' \in [Jobs -> Phases]
      BY <1>4, <2>4 DEF Phases
    <3> QED
      BY <1>4, <1>9, <2>3, <3>1
  <2>8. \A j \in Jobs : phase[j] # "queued"
    BY <1>1, <2>1 DEF QueueShape
  <2>9. QueueShape'
    <3>1. \A j \in Jobs : phase'[j] # "queued"
      BY <1>4, <2>4, <2>8
    <3>2. \A j \in Jobs : phase'[j] = "none" <=> j > created'
      BY <1>1, <1>2, <1>4, <1>6, <2>4 DEF QueueShape, Jobs
    <3>3. 1..Len(pending') = {}
      BY <2>3
    <3> QED
      BY <3>1, <3>2, <3>3 DEF QueueShape
  <2>10. NoIdleSlot'
    BY <2>3, EmptySeq DEF NoIdleSlot
  <2>11. StartsInOrder'
    <3>1. SUFFICES ASSUME NEW i \in Jobs, NEW j \in Jobs, i < j,
                          phase'[j] \in {"running", "settled", "done"}
                   PROVE  phase'[i] \in {"running", "settled", "done"}
      BY DEF StartsInOrder
    <3>2. phase'[j] # "none"
      BY <3>1
    <3>3. j <= n
      BY <1>1, <1>2, <1>4, <2>4, <3>2 DEF QueueShape, Jobs
    <3>4. i < n /\ ~(i > created)
      BY <1>2, <3>1, <3>3 DEF Jobs
    <3>5. phase[i] # "none" /\ phase[i] # "queued" /\ phase'[i] = phase[i]
      BY <1>1, <1>2, <1>4, <2>4, <2>8, <3>4 DEF QueueShape
    <3> QED
      BY <1>4, <3>5 DEF Phases
  <2> QED
    BY <1>8, <2>5, <2>6, <2>7, <2>9, <2>10, <2>11 DEF QInv
<1>11. CASE active = Concurrency
  <2>1. /\ pending' \in Seq(Jobs) /\ Len(pending') = Len(q)
        /\ \A i \in 1..Len(q) : pending'[i] = q[i]
        /\ active' = active
        /\ phase' = ph
        /\ peak' \in Nat
        /\ stats' \in [started : Nat, completed : Nat, failed : Nat]
    BY <1>3, <1>4, <1>5, <1>11, PumpNone
  <2>2. Executing' = Executing /\ Live' = Live \cup {n}
    BY <1>2, <1>4, <2>1 DEF Executing, Live
  <2>3. BoundedInFlight' /\ NoIdleSlot'
    BY <1>1, <1>11, <2>1, <2>2 DEF BoundedInFlight, NoIdleSlot
  <2>4. QueueTypeOK'
    BY <1>4, <1>9, <2>1
  <2>5. StartsInOrder'
    BY <1>1, <1>2, <1>4, <2>1 DEF StartsInOrder
  <2>6. QueueShape'
    <3>1. \A i \in 1..Len(pending) :
             pending[i] \in Jobs /\ pending[i] < n /\ phase[pending[i]] = "queued"
      <4>1. \A i \in 1..Len(pending) :
               pending[i] \in Jobs /\ phase[pending[i]] = "queued"
        BY <1>1, <1>3 DEF QueueShape
      <4> QED
        BY <1>1, <1>2, <4>1 DEF QueueShape, Jobs
    <3>2. ASSUME NEW i \in 1..Len(pending')
          PROVE  \/ i \in 1..Len(pending) /\ pending'[i] = pending[i]
                 \/ i = Len(pending) + 1 /\ pending'[i] = n
      BY <1>3, <2>1
    <3>3. \A i \in 1..Len(pending') : phase'[pending'[i]] = "queued"
      BY <1>2, <1>4, <2>1, <3>1, <3>2
    <3>4. ASSUME NEW j \in Jobs, phase'[j] = "queued"
          PROVE  \E i \in 1..Len(pending') : pending'[i] = j
      <4>1. CASE j = n
        BY <1>3, <2>1, <4>1
      <4>2. CASE j # n
        <5>1. phase[j] = "queued"
          BY <1>4, <2>1, <3>4, <4>2
        <5>2. PICK i \in 1..Len(pending) : pending[i] = j
          BY <1>1, <5>1 DEF QueueShape
        <5>3. i \in 1..Len(pending') /\ pending'[i] = j
          BY <1>3, <2>1, <5>2
        <5> QED
          BY <5>3
      <4> QED
        BY <4>1, <4>2
    <3>5. ASSUME NEW i \in 1..Len(pending'), NEW h \in 1..Len(pending'), i < h
          PROVE  pending'[i] < pending'[h]
      <4>1. i \in 1..Len(pending) /\ pending'[i] = pending[i]
        BY <1>3, <2>1, <3>2, <3>5
      <4>2. CASE h \in 1..Len(pending) /\ pending'[h] = pending[h]
        BY <1>1, <3>5, <4>1, <4>2 DEF QueueShape
      <4>3. CASE h = Len(pending) + 1 /\ pending'[h] = n
        BY <3>1, <4>1, <4>3
      <4> QED
        BY <3>2, <4>2, <4>3
    <3>6. \A j \in Jobs : phase'[j] = "none" <=> j > created'
      BY <1>1, <1>2, <1>4, <1>6, <2>1 DEF QueueShape, Jobs
    <3> QED
      BY <3>3, <3>4, <3>5, <3>6 DEF QueueShape
  <2> QED
    BY <1>8, <2>2, <2>3, <2>4, <2>5, <2>6 DEF QInv
<1> QED
  BY <1>4, <1>7, <1>10, <1>11

LEMMA FinalizeKeeps ==
  ASSUME QInv, NEW j \in Jobs, Finalize(j)
  PROVE  QInv'
<1> DEFINE ph == [phase EXCEPT ![j] = "done"]
<1>1. /\ QueueTypeOK /\ QueueShape /\ KeyIndex /\ NoIdleSlot
      /\ BoundedInFlight /\ StartsInOrder
  BY DEF QInv
<1>2. /\ phase \in [Jobs -> Phases] /\ ph \in [Jobs -> Phases]
      /\ phase[j] = "settled" /\ j \in Executing /\ j \in Live
      /\ active \in Nat /\ peak \in Nat /\ created \in Nat
      /\ stats \in [started : Nat, completed : Nat, failed : Nat]
      /\ pending \in Seq(Jobs) /\ Len(pending) \in Nat
  BY <1>1, MaxJobsAssumption
     DEF QueueTypeOK, Phases, Finalize, Executing, Live
<1>3. /\ inFlight' = [inFlight EXCEPT ![jobKey[j]] = NoJob]
      /\ Pump(pending, active - 1, ph, stats)
      /\ created' = created /\ jobKey' = jobKey /\ jobTask' = jobTask
      /\ waiting' = waiting
  BY DEF Finalize
<1>4. Concurrency \in Nat /\ Concurrency > 0 /\ active <= Concurrency
  BY <1>1, ConcurrencyAssumption DEF BoundedInFlight
<1>5. active > 0 /\ active - 1 \in Nat
  BY <1>1, <1>2, ExecutingFinite, FS_EmptySet DEF BoundedInFlight
<1>6. ASSUME Live' = Live \ {j}
      PROVE  KeyIndex'
  <2>1. /\ jobKey \in [Jobs -> Keys] /\ inFlight \in [Keys -> Jobs \cup {NoJob}]
        /\ NoJob \notin Jobs
    BY <1>1 DEF QueueTypeOK, NoJob, Jobs
  <2>2. inFlight[jobKey[j]] = j
    BY <1>1, <1>2, <2>1 DEF KeyIndex
  <2> QED
    BY <1>1, <1>2, <1>3, <1>6, <2>1, <2>2 DEF KeyIndex
<1>7. ASSUME pending' \in Seq(Jobs), phase' \in [Jobs -> Phases],
             active' \in Nat, peak' \in Nat,
             stats' \in [started : Nat, completed : Nat, failed : Nat]
      PROVE  QueueTypeOK'
  BY <1>1, <1>3, <1>7 DEF QueueTypeOK
<1>8. CASE pending = << >>
  <2>1. /\ pending' \in Seq(Jobs) /\ Len(pending') = 0 /\ Len(pending) = 0
        /\ active' = active - 1 /\ phase' = ph /\ peak' \in Nat
        /\ stats' \in [started : Nat, completed : Nat, failed : Nat]
    <3> HIDE DEF ph
    <3> QED
      BY <1>2, <1>3, <1>5, <1>8, PumpNone, EmptySeq
  <2>2. Executing' = Executing \ {j} /\ Live' = Live \ {j}
    BY <1>2, <2>1 DEF Executing, Live
  <2>3. BoundedInFlight'
    <3>1. Cardinality(Executing') = Cardinality(Executing) - 1
      BY <1>2, <2>2, ExecutingFinite, FS_RemoveElement
    <3> QED
      BY <1>1, <1>2, <1>4, <2>1, <3>1 DEF BoundedInFlight
  <2>4. QueueTypeOK'
    BY <1>2, <1>5, <1>7, <2>1
  <2>5. QueueShape'
    <3>1. 1..Len(pending') = {} /\ 1..Len(pending) = {}
      BY <2>1
    <3>2. \A i \in Jobs : phase'[i] # "queued"
      BY <1>1, <1>2, <2>1, <3>1 DEF QueueShape
    <3>3. \A i \in Jobs : phase'[i] = "none" <=> i > created'
      BY <1>1, <1>2, <1>3, <2>1 DEF QueueShape
    <3> QED
      BY <3>1, <3>2, <3>3 DEF QueueShape
  <2>6. StartsInOrder'
    BY <1>1, <1>2, <2>1 DEF StartsInOrder
  <2>7. NoIdleSlot'
    BY <2>1, EmptySeq DEF NoIdleSlot
  <2> QED
    BY <1>6, <2>2, <2>3, <2>4, <2>5, <2>6, <2>7 DEF QInv
<1>9. CASE pending # << >>
  <2> DEFINE h == pending[1]
  <2>1. active = Concurrency /\ Len(pending) > 0
    BY <1>1, <1>2, <1>9, EmptySeq DEF NoIdleSlot
  <2>2. h \in Jobs /\ phase[h] = "queued" /\ h # j
    BY <1>1, <1>2, <2>1 DEF QueueShape
  <2>3. /\ pending' \in Seq(Jobs) /\ Len(pending') = Len(pending) - 1
        /\ \A i \in 1..(Len(pending) - 1) : pending'[i] = pending[i + 1]
        /\ active' = (active - 1) + 1
        /\ phase' = [ph EXCEPT ![h] = "running"]
        /\ peak' \in Nat
        /\ stats' \in [started : Nat, completed : Nat, failed : Nat]
    <3>1. (active - 1) + 1 = Concurrency
      BY <1>2, <1>4, <2>1
    <3> HIDE DEF ph
    <3> QED
      BY <1>2, <1>3, <1>5, <1>9, <3>1, PumpOne
  <2>4. active' = active
    BY <1>2, <2>3
  <2>5. /\ phase'[j] = "done" /\ phase'[h] = "running"
        /\ \A i \in Jobs \ {j, h} : phase'[i] = phase[i]
        /\ phase' \in [Jobs -> Phases]
    BY <1>2, <2>2, <2>3 DEF Phases
  <2>6. Executing' = (Executing \ {j}) \cup {h} /\ Live' = Live \ {j}
    BY <1>2, <2>2, <2>5 DEF Executing, Live
  <2>7. Cardinality(Executing') = Cardinality(Executing)
    <3>1. h \notin Executing \ {j}
      BY <2>2 DEF Executing
    <3>2. /\ IsFiniteSet(Executing \ {j})
          /\ Cardinality(Executing \ {j}) = Cardinality(Executing) - 1
      BY <1>2, ExecutingFinite, FS_RemoveElement
    <3>3. Cardinality((Executing \ {j}) \cup {h}) = Cardinality(Executing \ {j}) + 1
      BY <3>1, <3>2, FS_AddElement
    <3> QED
      BY <2>6, <3>2, <3>3, ExecutingFinite
  <2>8. BoundedInFlight' /\ NoIdleSlot'
    BY <1>1, <2>1, <2>4, <2>7 DEF BoundedInFlight, NoIdleSlot
  <2>9. QueueTypeOK'
    BY <1>2, <1>7, <2>3, <2>4, <2>5
  <2>10. \A i \in 1..Len(pending') :
            /\ i + 1 \in 1..Len(pending) /\ pending'[i] = pending[i + 1]
            /\ pending[i + 1] \in Jobs /\ phase[pending[i + 1]] = "queued"
            /\ h < pending[i + 1]
    <3>1. ASSUME NEW i \in 1..Len(pending')
          PROVE  /\ i + 1 \in 1..Len(pending) /\ pending'[i] = pending[i + 1]
                 /\ 1 \in 1..Len(pending) /\ 1 < i + 1
      <4>1. i \in Nat /\ i >= 1 /\ i <= Len(pending')
        BY <3>1, <2>3
      <4>2. i + 1 \in 1..Len(pending) /\ 1 \in 1..Len(pending) /\ 1 < i + 1
        BY <1>2, <2>3, <4>1
      <4> QED
        BY <2>3, <3>1, <4>2
    <3>2. ASSUME NEW x \in 1..Len(pending)
          PROVE  pending[x] \in Jobs /\ phase[pending[x]] = "queued"
      BY <1>1, <1>2 DEF QueueShape
    <3> QED
      BY <1>1, <3>1, <3>2 DEF QueueShape
  <2>11. QueueShape'
    <3>1. \A i \in 1..Len(pending') : phase'[pending'[i]] = "queued"
      <4>1. ASSUME NEW i \in 1..Len(pending')
            PROVE  pending'[i] \in Jobs \ {j, h} /\ phase[pending'[i]] = "queued"
        BY <1>2, <2>2, <2>10 DEF Jobs
      <4> QED
        BY <2>5, <4>1
    <3>2. ASSUME NEW x \in Jobs, phase'[x] = "queued"
          PROVE  \E i \in 1..Len(pending') : pending'[i] = x
      <4>1. x # j /\ x # h /\ phase[x] = "queued"
        BY <2>5, <3>2
      <4>2. PICK i \in 1..Len(pending) : pending[i] = x
        BY <1>1, <4>1 DEF QueueShape
      <4>3. i - 1 \in 1..Len(pending') /\ (i - 1) + 1 = i
        BY <1>2, <2>3, <4>1, <4>2
      <4>4. pending'[i - 1] = x
        BY <2>10, <4>2, <4>3
      <4> QED
        BY <4>3, <4>4
    <3>3. ASSUME NEW i \in 1..Len(pending'), NEW l \in 1..Len(pending'), i < l
          PROVE  pending'[i] < pending'[l]
      <4>1. i + 1 < l + 1
        BY <3>3
      <4> QED
        BY <1>1, <2>10, <4>1 DEF QueueShape
    <3>4. \A x \in Jobs : phase'[x] = "none" <=> x > created'
      <4>1. \A x \in Jobs : phase'[x] = "none" <=> phase[x] = "none"
        BY <1>2, <2>2, <2>5
      <4> QED
        BY <1>1, <1>3, <4>1 DEF QueueShape
    <3> QED
      BY <3>1, <3>2, <3>3, <3>4 DEF QueueShape
  <2>12. StartsInOrder'
    <3>1. SUFFICES ASSUME NEW i \in Jobs, NEW l \in Jobs, i < l,
                          phase'[l] \in {"running", "settled", "done"}
                   PROVE  phase'[i] \in {"running", "settled", "done"}
      BY DEF StartsInOrder
    <3>2. CASE l # h
      BY <1>1, <1>2, <2>2, <2>5, <3>1, <3>2 DEF StartsInOrder
    <3>3. CASE l = h /\ (i = j \/ i = h)
      BY <2>5, <3>3
    <3>4. CASE l = h /\ i # j /\ i # h
      <4>1. phase[i] # "none"
        BY <1>1, <1>2, <2>2, <3>1, <3>4 DEF QueueShape, Jobs
      <4>2. phase[i] # "queued"
        <5>1. SUFFICES ASSUME phase[i] = "queued" PROVE FALSE
          OBVIOUS
        <5>2. PICK x \in 1..Len(pending) : pending[x] = i
          BY <1>1, <5>1 DEF QueueShape
        <5>3. x # 1 /\ 1 \in 1..Len(pending)
          BY <1>2, <2>1, <3>4, <5>2
        <5>4. h < i
          BY <1>1, <5>2, <5>3 DEF QueueShape
        <5> QED
          BY <3>1, <3>4, <5>4 DEF Jobs
      <4> QED
        BY <1>2, <2>5, <3>4, <4>1, <4>2 DEF Phases
    <3> QED
      BY <3>2, <3>3, <3>4
  <2> QED
    BY <1>6, <2>6, <2>8, <2>9, <2>11, <2>12 DEF QInv
<1> QED
  BY <1>8, <1>9

-----------------------------------------------------------------------------
LEMMA QInvStep == QInv /\ [QueueNext]_qvars => QInv'
<1> SUFFICES ASSUME QInv, [QueueNext]_qvars PROVE QInv'
  OBVIOUS
<1>1. CASE \E c \in Callers, k \in Keys, t \in Tasks : Run(c, k, t)
  BY <1>1, JoinKeeps, EnqueueKeeps DEF Run
<1>2. CASE \E j \in Jobs, ok \in BOOLEAN : Settle(j, ok)
  BY <1>2, SettleKeeps
<1>3. CASE \E j \in Jobs : Finalize(j)
  BY <1>3, FinalizeKeeps
<1>4. CASE \E c \in Callers : Return(c)
  BY <1>4, ReturnKeeps
<1>5. CASE UNCHANGED qvars
  <2>1. Executing' = Executing /\ Live' = Live
    BY <1>5 DEF Executing, Live, qvars, queueVars
  <2> QED
    BY <1>5, <2>1 DEF QInv, QueueTypeOK, QueueShape, KeyIndex, NoIdleSlot,
       BoundedInFlight, StartsInOrder, qvars, queueVars
<1> QED
  BY <1>1, <1>2, <1>3, <1>4, <1>5 DEF QueueNext

(* The queue's type invariant and its four safety properties hold in every *)
(* reachable state: the bound on concurrent sessions with an exact         *)
(* counter, one live job per key with an exact has(), no slot left idle    *)
(* while a job waits, and first-come first-served starts.                  *)
THEOREM QueueSafe ==
  QueueSpec => [](/\ QueueTypeOK /\ BoundedInFlight /\ OneJobPerKey
                  /\ NoIdleSlot /\ StartsInOrder)
<1>1. QueueInit => QInv
  BY InitEstablishes
<1>2. QInv /\ [QueueNext]_qvars => QInv'
  BY QInvStep
<1>3. QInv => /\ QueueTypeOK /\ BoundedInFlight /\ OneJobPerKey
              /\ NoIdleSlot /\ StartsInOrder
  <2> SUFFICES ASSUME QInv PROVE OneJobPerKey
    BY DEF QInv
  <2>1. \A j \in Live : j \in Jobs /\ jobKey[j] \in Keys
    BY DEF Live, QInv, QueueTypeOK
  <2> QED
    BY <2>1 DEF QInv, KeyIndex, OneJobPerKey
<1> QED
  BY <1>1, <1>2, <1>3, PTL DEF QueueSpec

-----------------------------------------------------------------------------
(* Refinement of ProbeSlots. *)

OpenKeys == {jobKey[j] : j \in Executing}
InsideKeys == {k \in Keys : inFlight[k] # NoJob}

(* Executing jobs have different keys: as many sessions as executing jobs. *)
LEMMA OpenKeysCount ==
  ASSUME QInv
  PROVE  /\ IsFiniteSet(OpenKeys) /\ Cardinality(OpenKeys) = active
         /\ OpenKeys \in SUBSET InsideKeys
         /\ \A i \in Executing, j \in Live : jobKey[i] = jobKey[j] => i = j
<1> USE DEF QInv
<1>1. \A j \in Live : j \in Jobs /\ jobKey[j] \in Keys /\ inFlight[jobKey[j]] = j
  BY DEF Live, QueueTypeOK, KeyIndex
<1>2. Executing \in SUBSET Live
  BY DEF Executing, Live
<1>3. \A i \in Executing, j \in Live : jobKey[i] = jobKey[j] => i = j
  BY <1>1, <1>2
<1> DEFINE f == [j \in Executing |-> jobKey[j]]
<1>4. f \in Bijection(Executing, OpenKeys)
  <2>1. f \in [Executing -> OpenKeys]
    BY DEF OpenKeys
  <2>2. \A i, j \in Executing : f[i] = f[j] => i = j
    BY <1>2, <1>3
  <2>3. \A k \in OpenKeys : \E j \in Executing : f[j] = k
    BY DEF OpenKeys
  <2> QED
    BY <2>1, <2>2, <2>3 DEF Bijection, Injection, Surjection, IsInjective
<1>5. ExistsBijection(Executing, OpenKeys)
  BY <1>4 DEF ExistsBijection
<1>6. IsFiniteSet(OpenKeys) /\ Cardinality(OpenKeys) = Cardinality(Executing)
  BY <1>5, ExecutingFinite, FS_Bijection
<1>7. OpenKeys \in SUBSET InsideKeys
  BY <1>1, <1>2 DEF OpenKeys, InsideKeys, NoJob, Jobs
<1> QED
  BY <1>3, <1>6, <1>7 DEF BoundedInFlight

LEMMA EnqueueEnters ==
  ASSUME QInv, NEW c \in Callers, NEW k \in Keys, NEW t \in Tasks,
         Enqueue(c, k, t)
  PROVE  Slots!Enter(k)
<1> DEFINE n  == created + 1
           q  == Append(pending, n)
           ph == [phase EXCEPT ![n] = "queued"]
<1>1. /\ QueueTypeOK /\ QueueShape /\ KeyIndex /\ NoIdleSlot /\ BoundedInFlight
  BY DEF QInv
<1>2. n \in Jobs /\ created \in Nat /\ phase[n] = "none"
  <2>1. n \in Jobs /\ created \in Nat
    BY <1>1, MaxJobsAssumption DEF QueueTypeOK, Jobs, Enqueue
  <2> QED
    BY <1>1, <2>1 DEF QueueShape
<1>3. /\ pending \in Seq(Jobs) /\ Len(pending) \in Nat
      /\ q \in Seq(Jobs) /\ q # << >> /\ Len(q) = Len(pending) + 1
      /\ q[Len(pending) + 1] = n
  BY <1>1, <1>2, AppendProperties DEF QueueTypeOK
<1>4. /\ phase \in [Jobs -> Phases] /\ ph \in [Jobs -> Phases]
      /\ active \in Nat /\ peak \in Nat /\ jobKey \in [Jobs -> Keys]
      /\ stats \in [started : Nat, completed : Nat, failed : Nat]
      /\ inFlight \in [Keys -> Jobs \cup {NoJob}] /\ n # NoJob
  BY <1>1, <1>2 DEF QueueTypeOK, Phases, NoJob
<1>5. /\ Pump(q, active, ph, stats)
      /\ jobKey'  = [jobKey EXCEPT ![n] = k]
      /\ inFlight' = [inFlight EXCEPT ![k] = n]
      /\ inFlight[k] = NoJob
  BY DEF Enqueue
<1>6. Concurrency \in Nat /\ Concurrency > 0 /\ active <= Concurrency
  BY <1>1, ConcurrencyAssumption DEF BoundedInFlight
<1>7. InsideKeys' = InsideKeys \cup {k} /\ k \notin InsideKeys
  BY <1>4, <1>5 DEF InsideKeys
<1>8. Executing \in SUBSET Jobs /\ n \notin Executing
  BY <1>2 DEF Executing
<1>9. Cardinality(OpenKeys) = active
  BY OpenKeysCount
<1>12. Slots!Enter(k) <=>
         /\ k \notin InsideKeys
         /\ InsideKeys' = InsideKeys \cup {k}
         /\ OpenKeys' = IF Cardinality(OpenKeys) < Concurrency
                        THEN OpenKeys \cup {k} ELSE OpenKeys
  BY Zenon DEF Slots!Enter, OpenKeys, InsideKeys, Slots!Cardinality, Cardinality,
     Slots!IsFiniteSet, IsFiniteSet
<1>10. CASE active < Concurrency
  <2>1. pending = << >> /\ Len(pending) = 0
    BY <1>1, <1>4, <1>6, <1>10, EmptySeq DEF NoIdleSlot
  <2>2. Len(q) = 1 /\ q[1] = n
    BY <1>3, <2>1
  <2>3. phase' = [ph EXCEPT ![q[1]] = "running"]
    <3> HIDE DEF n, q, ph
    <3> QED
      BY <1>3, <1>4, <1>5, <1>10, <2>2, PumpOne
  <2>4. Executing' = Executing \cup {n}
    BY <1>2, <1>4, <2>2, <2>3 DEF Executing
  <2>5. OpenKeys' = OpenKeys \cup {k}
    BY <1>2, <1>4, <1>5, <1>8, <2>4 DEF OpenKeys
  <2> QED
    BY <1>7, <1>9, <1>10, <1>12, <2>5
<1>11. CASE active = Concurrency
  <2>1. phase' = ph
    <3> HIDE DEF n, q, ph
    <3> QED
      BY <1>3, <1>4, <1>5, <1>11, PumpNone
  <2>2. Executing' = Executing
    BY <1>2, <1>4, <2>1 DEF Executing
  <2>3. OpenKeys' = OpenKeys
    BY <1>2, <1>4, <1>5, <1>8, <2>2 DEF OpenKeys
  <2>4. ~(Cardinality(OpenKeys) < Concurrency)
    BY <1>6, <1>9, <1>11
  <2> QED
    BY <1>7, <1>12, <2>3, <2>4
<1> QED
  BY <1>4, <1>6, <1>10, <1>11

LEMMA FinalizeLeaves ==
  ASSUME QInv, NEW j \in Jobs, Finalize(j), NEW k \in Keys, k = jobKey[j]
  PROVE  Slots!Leave(k)
<1> DEFINE ph == [phase EXCEPT ![j] = "done"]
<1>1. /\ QueueTypeOK /\ QueueShape /\ KeyIndex /\ NoIdleSlot /\ BoundedInFlight
  BY DEF QInv
<1>2. /\ phase \in [Jobs -> Phases] /\ ph \in [Jobs -> Phases]
      /\ phase[j] = "settled" /\ j \in Executing /\ j \in Live
      /\ active \in Nat /\ peak \in Nat
      /\ stats \in [started : Nat, completed : Nat, failed : Nat]
      /\ pending \in Seq(Jobs) /\ Len(pending) \in Nat
      /\ inFlight \in [Keys -> Jobs \cup {NoJob}]
  BY <1>1 DEF QueueTypeOK, Phases, Finalize, Executing, Live
<1>3. /\ inFlight' = [inFlight EXCEPT ![k] = NoJob]
      /\ Pump(pending, active - 1, ph, stats)
      /\ jobKey' = jobKey
  BY DEF Finalize
<1>4. Concurrency \in Nat /\ active <= Concurrency /\ active - 1 \in Nat
  BY <1>1, <1>2, ConcurrencyAssumption, ExecutingFinite, FS_EmptySet
     DEF BoundedInFlight
<1>5. k \in OpenKeys /\ InsideKeys' = InsideKeys \ {k}
  BY <1>2, <1>3 DEF OpenKeys, InsideKeys
<1>6. Slots!Leave(k) <=>
        /\ k \in OpenKeys
        /\ InsideKeys' = InsideKeys \ {k}
        /\ IF InsideKeys = OpenKeys THEN OpenKeys' = OpenKeys \ {k}
           ELSE \E w \in InsideKeys \ OpenKeys :
                   OpenKeys' = (OpenKeys \ {k}) \cup {w}
  BY Zenon DEF Slots!Leave, OpenKeys, InsideKeys
<1>7. \A i \in Executing, x \in Live : jobKey[i] = jobKey[x] => i = x
  BY OpenKeysCount
<1>8. OpenKeys \in SUBSET InsideKeys
  BY OpenKeysCount
<1>9. CASE pending = << >>
  <2>1. phase' = ph
    <3> HIDE DEF ph
    <3> QED
      BY <1>2, <1>3, <1>4, <1>9, PumpNone
  <2>2. Executing' = Executing \ {j}
    BY <1>2, <2>1 DEF Executing
  <2>3. OpenKeys' = OpenKeys \ {k}
    <3>1. \A i \in Executing : i \in Live
      BY DEF Executing, Live
    <3> QED
      BY <1>2, <1>3, <1>7, <2>2, <3>1 DEF OpenKeys
  <2>4. Live = Executing
    <3>1. 1..Len(pending) = {}
      BY <1>9, EmptySeq
    <3> QED
      BY <1>1, <3>1 DEF Live, Executing, QueueShape
  <2>5. InsideKeys \in SUBSET OpenKeys
    <3>1. ASSUME NEW x \in Keys, inFlight[x] # NoJob
          PROVE  x \in OpenKeys
      <4>1. inFlight[x] \in Jobs
        BY <1>2, <3>1
      <4>2. inFlight[x] \in Live /\ jobKey[inFlight[x]] = x
        BY <1>1, <4>1 DEF KeyIndex
      <4> QED
        BY <2>4, <4>2 DEF OpenKeys
    <3> QED
      BY <3>1 DEF InsideKeys
  <2> QED
    BY <1>5, <1>6, <1>8, <2>3, <2>5
<1>10. CASE pending # << >>
  <2> DEFINE h == pending[1]
  <2>1. active = Concurrency /\ Len(pending) > 0
    BY <1>1, <1>2, <1>10, EmptySeq DEF NoIdleSlot
  <2>2. h \in Jobs /\ phase[h] = "queued" /\ h # j
    BY <1>1, <1>2, <2>1 DEF QueueShape
  <2>3. phase' = [ph EXCEPT ![h] = "running"]
    <3>1. (active - 1) + 1 = Concurrency
      BY <1>2, <1>4, <2>1
    <3> HIDE DEF ph
    <3> QED
      BY <1>2, <1>3, <1>4, <1>10, <3>1, PumpOne
  <2>4. Executing' = (Executing \ {j}) \cup {h} /\ h \in Live /\ h \notin Executing
    BY <1>2, <2>2, <2>3 DEF Executing, Live
  <2>5. jobKey[h] \in InsideKeys \ OpenKeys
    <3>1. jobKey[h] \in Keys /\ inFlight[jobKey[h]] = h
      BY <1>1, <2>2, <2>4 DEF KeyIndex, QueueTypeOK
    <3>2. jobKey[h] \notin OpenKeys
      BY <1>7, <2>4 DEF OpenKeys
    <3> QED
      BY <2>2, <3>1, <3>2 DEF InsideKeys, NoJob, Jobs
  <2>6. OpenKeys' = (OpenKeys \ {k}) \cup {jobKey[h]}
    <3>1. \A i \in Executing : i \in Live
      BY DEF Executing, Live
    <3> QED
      BY <1>2, <1>3, <1>7, <2>4, <3>1 DEF OpenKeys
  <2> QED
    BY <1>5, <1>6, <2>5, <2>6
<1> QED
  BY <1>9, <1>10

(* The queue implements ProbeSlots: whatever the callers do, the keys it   *)
(* serves enter, hold one of at most Concurrency sessions, and leave.      *)
THEOREM QueueImplementsSlots == QueueSpec => ImplementsSlots
<1>1. QueueInit => QInv /\ Slots!SlotsInit
  <2> SUFFICES ASSUME QueueInit PROVE Slots!SlotsInit
    BY InitEstablishes
  <2>1. Executing = {}
    BY DEF QueueInit, Executing
  <2> QED
    BY <2>1 DEF QueueInit, Slots!SlotsInit
<1>2. QInv /\ [QueueNext]_qvars => [Slots!SlotsNext]_Slots!slotVars
  <2> SUFFICES ASSUME QInv, [QueueNext]_qvars
               PROVE  [Slots!SlotsNext]_Slots!slotVars
    OBVIOUS
  <2>1. ASSUME UNCHANGED <<OpenKeys, InsideKeys>>
        PROVE  UNCHANGED Slots!slotVars
    BY <2>1 DEF Slots!slotVars, OpenKeys, InsideKeys
  <2>2. CASE \E c \in Callers, k \in Keys, t \in Tasks : Run(c, k, t)
    <3>1. PICK c \in Callers, k \in Keys, t \in Tasks : Run(c, k, t)
      BY <2>2
    <3>2. CASE Join(c, k)
      <4>1. Executing' = Executing
        BY <3>2 DEF Join, queueVars, Executing
      <4> QED
        BY <2>1, <3>2, <4>1 DEF Join, queueVars, OpenKeys, InsideKeys
    <3>3. CASE Enqueue(c, k, t)
      BY <3>3, EnqueueEnters DEF Slots!SlotsNext
    <3> QED
      BY <3>1, <3>2, <3>3 DEF Run
  <2>3. CASE \E j \in Jobs, ok \in BOOLEAN : Settle(j, ok)
    <3>1. PICK j \in Jobs, ok \in BOOLEAN : Settle(j, ok)
      BY <2>3
    <3>2. Executing' = Executing
      BY <3>1 DEF Settle, Executing, QInv, QueueTypeOK
    <3> QED
      BY <2>1, <3>1, <3>2 DEF Settle, OpenKeys, InsideKeys
  <2>4. CASE \E j \in Jobs : Finalize(j)
    <3>1. PICK j \in Jobs : Finalize(j)
      BY <2>4
    <3>2. PICK k \in Keys : k = jobKey[j]
      BY DEF QInv, QueueTypeOK
    <3> QED
      BY <3>1, <3>2, FinalizeLeaves DEF Slots!SlotsNext
  <2>5. CASE (\E c \in Callers : Return(c)) \/ UNCHANGED qvars
    <3>1. UNCHANGED queueVars
      BY <2>5 DEF Return, qvars, queueVars
    <3>2. Executing' = Executing
      BY <3>1 DEF queueVars, Executing
    <3> QED
      BY <2>1, <3>1, <3>2 DEF queueVars, OpenKeys, InsideKeys
  <2> QED
    BY <2>2, <2>3, <2>4, <2>5 DEF QueueNext
<1>3. QueueSpec => []QInv
  <2>1. QInv /\ [QueueNext]_qvars => QInv'
    BY QInvStep
  <2> QED
    BY <1>1, <2>1, PTL DEF QueueSpec
<1> QED
  BY <1>1, <1>2, <1>3, PTL DEF QueueSpec, ImplementsSlots, Slots!SlotsSpec

-----------------------------------------------------------------------------
(* The service and the page on it.                                         *)
Stored == {NoSnapshot} \cup {[version |-> v, roles |-> RolesAt[v]] : v \in Versions}
Verdicts == {"null", "ok", "failed"}
ProbeRows == [health : Verdicts, discovery : Verdicts, legacy : Verdicts]

ServiceTypes ==
  /\ servers \subseteq Keys
  /\ truth \in [Keys -> Versions]
  /\ got \in [Jobs -> Versions \cup {NoVersion}]
  /\ DOMAIN outcome = Jobs
  /\ snapshots \in [Keys -> Stored]
  /\ probes \in [Keys -> ProbeRows]
  /\ acting \in [Callers -> Keys \cup {NoKey}]
  /\ restarts \in Nat

\* What is stored was true once, and is not newer than what a probe that is
\* still running has read of the same server.
Progress ==
  /\ \A k \in Keys : snapshots[k].version <= truth[k]
  /\ \A j \in Jobs : phase[j] \in {"none", "queued"} => got[j] = NoVersion
  /\ \A j \in Jobs : phase[j] # "none" => got[j] <= truth[jobKey[j]]
  /\ \A j \in Jobs : phase[j] = "running" /\ got[j] # NoVersion
                       => snapshots[jobKey[j]].version <= got[j]

\* A job's promise is not settled before its task is.
Unsettled == \A j \in Jobs : phase[j] \in {"none", "queued", "running"} => outcome[j] = "none"

ServiceInv == QInv /\ ServiceTypes /\ Progress /\ Unsettled

-----------------------------------------------------------------------------
(* What a probe that ended well brings back is what the server said.       *)
LEMMA LostIsFailed ==
  ASSUME NEW reply \in Lost
  PROVE  DiscoverOutcome(reply) = "failed"
BY DEF Lost, NoReply, DiscoverOutcome, ClassifyProbeResult, TransportError

LEMMA OkIsComplete ==
  ASSUME NEW v \in Versions, NEW reply \in RepliesOf(v \in Managed, StatusAt[v]),
         DiscoverOutcome(reply) = "ok"
  PROVE  ParsedRoles(reply) = RolesAt[v] /\ ~reply.hostkey
<1>1. /\ RolesAt[v] = ExtractRoles(StatusAt[v])
      /\ v \notin Managed => RolesAt[v] = {}
  BY HostAssumption
<1>2. ClassifyProbeResult(reply) = "none"
  BY DEF DiscoverOutcome
<1>3. CASE reply \in CutShort
  <2>1. /\ reply.gre = FALSE /\ reply.hostkey = FALSE /\ reply.rc0 \in BOOLEAN
        /\ reply.begun \in BOOLEAN /\ reply.installed = FALSE
    <3>1. CASE reply = NoReply
      BY <3>1 DEF NoReply
    <3>2. CASE reply = [NoReply EXCEPT !.begun = TRUE]
      BY <3>2 DEF NoReply
    <3>3. CASE reply = [Complete EXCEPT !.gre = FALSE]
      BY <3>3 DEF Complete, NoReply
    <3> QED BY <1>3, <3>1, <3>2, <3>3 DEF CutShort
  <2> QED BY <1>2, <2>1 DEF ClassifyProbeResult, TransportError
<1>4. CASE v \notin Managed /\ reply \in {Complete, [Complete EXCEPT !.rc0 = FALSE]}
  <2>1. reply.installed = FALSE /\ reply.hostkey = FALSE
    BY <1>4 DEF Complete, NoReply
  <2> QED BY <1>1, <1>4, <2>1 DEF ParsedRoles
<1>5. ASSUME NEW s \in Statuses, NEW z \in BOOLEAN, reply = Whole(s, z, StatusAt[v])
      PROVE  ParsedRoles(reply) = RolesAt[v] /\ ~reply.hostkey
  <2>1. /\ reply.installed = TRUE /\ reply.hostkey = FALSE /\ reply.status = s
        /\ reply.gre = TRUE /\ reply.begun = TRUE
        /\ reply.evidence = IF s = "object" THEN StatusAt[v] ELSE {}
    BY <1>5 DEF Whole, Complete, NoReply
  <2>2. s = "object"
    BY <1>2, <2>1 DEF ClassifyProbeResult, StatusError, TransportError
  <2> QED BY <1>1, <2>1, <2>2 DEF ParsedRoles
<1>6. \/ reply \in CutShort
      \/ v \notin Managed /\ reply \in {Complete, [Complete EXCEPT !.rc0 = FALSE]}
      \/ \E s \in Statuses, z \in BOOLEAN : reply = Whole(s, z, StatusAt[v])
  BY DEF RepliesOf
<1> QED BY <1>3, <1>4, <1>5, <1>6

(* A job that starts is one that waited; none comes back.                  *)
LEMMA StartsOnlyQueued ==
  ASSUME QInv, NEW c \in Callers, NEW k \in Keys, NEW t \in Tasks, Enqueue(c, k, t)
  PROVE  /\ created + 1 \in Jobs /\ created' = created + 1 /\ phase[created + 1] = "none"
         /\ jobKey' = [jobKey EXCEPT ![created + 1] = k]
         /\ jobTask' = [jobTask EXCEPT ![created + 1] = t]
         /\ phase'[created + 1] \in {"queued", "running"}
         /\ \A j \in Jobs \ {created + 1} :
              phase'[j] = phase[j] \/ (phase[j] = "queued" /\ phase'[j] = "running")
<1>1. QueueTypeOK /\ QueueShape
  BY DEF QInv
<1> DEFINE n == created + 1
           ph == [phase EXCEPT ![n] = "queued"]
           q == Append(pending, n)
           started == {q[i] : i \in 1..StartCount(Len(q), active)}
<1>2. n \in Jobs /\ phase[n] = "none" /\ created' = n
  BY <1>1, MaxJobsAssumption DEF Enqueue, QueueTypeOK, QueueShape, Jobs
<1>3. phase' = [j \in Jobs |-> IF j \in started THEN "running" ELSE ph[j]]
  BY DEF Enqueue, Pump
<1>4. /\ jobKey' = [jobKey EXCEPT ![n] = k] /\ jobTask' = [jobTask EXCEPT ![n] = t]
  BY DEF Enqueue
<1>5. \A j \in Jobs \ {n} : j \in started => phase[j] = "queued"
  <2>1. pending \in Seq(Jobs) /\ Len(pending) \in Nat
    BY <1>1 DEF QueueTypeOK
  <2>2. StartCount(Len(q), active) <= Len(q)
    BY <2>1, <1>1, ConcurrencyAssumption DEF StartCount, QueueTypeOK
  <2>3. \A i \in 1..Len(pending) : q[i] = pending[i]
    BY <2>1, <1>2
  <2>4. Len(q) = Len(pending) + 1 /\ q[Len(pending) + 1] = n
    BY <2>1, <1>2
  <2>5. StartCount(Len(q), active) \in Nat
    BY <2>1, <2>4, <1>1, ConcurrencyAssumption DEF StartCount, QueueTypeOK
  <2> HIDE DEF q
  <2>6. ASSUME NEW i \in 1..StartCount(Len(q), active), q[i] # n PROVE phase[q[i]] = "queued"
    <3>1. i \in 1..Len(pending)
      BY <2>1, <2>2, <2>4, <2>5, <2>6
    <3> QED BY <1>1, <2>3, <3>1 DEF QueueShape
  <2> QED BY <2>6
<1> HIDE DEF started
<1>6. \A j \in Jobs \ {n} : phase'[j] = phase[j] \/ (phase[j] = "queued" /\ phase'[j] = "running")
  BY <1>1, <1>3, <1>5 DEF QueueTypeOK
<1>7. phase'[n] \in {"queued", "running"}
  BY <1>1, <1>2, <1>3 DEF QueueTypeOK
<1> QED BY <1>2, <1>4, <1>6, <1>7

LEMMA FinalizeStartsQueued ==
  ASSUME QInv, NEW j \in Jobs, Finalize(j)
  PROVE  /\ phase'[j] = "done"
         /\ \A h \in Jobs \ {j} :
              phase'[h] = phase[h] \/ (phase[h] = "queued" /\ phase'[h] = "running")
<1>1. QueueTypeOK /\ QueueShape
  BY DEF QInv
<1> DEFINE ph == [phase EXCEPT ![j] = "done"]
           m == StartCount(Len(pending), active - 1)
           started == {pending[i] : i \in 1..m}
<1>2. phase' = [h \in Jobs |-> IF h \in started THEN "running" ELSE ph[h]] /\ phase[j] = "settled"
  BY DEF Finalize, Pump
<1>3. pending \in Seq(Jobs) /\ Len(pending) \in Nat /\ active \in Nat
  BY <1>1 DEF QueueTypeOK
<1>4. \A i \in 1..m : i \in 1..Len(pending)
  BY <1>3, ConcurrencyAssumption DEF StartCount
<1>5. \A h \in started : phase[h] = "queued"
  BY <1>1, <1>4 DEF QueueShape
<1> HIDE DEF started, m
<1> QED BY <1>1, <1>2, <1>5 DEF QueueTypeOK

-----------------------------------------------------------------------------
(* What the steps of the queue keep of the rest.                           *)
LEMMA JobsKeep ==
  ASSUME ServiceInv, QInv', UNCHANGED <<snapshots, truth, got, outcome>>,
         \A j \in Jobs : phase[j] # "none" => jobKey'[j] = jobKey[j] /\ phase'[j] # "none",
         \A j \in Jobs : phase'[j] = "none" => phase[j] = "none",
         \A j \in Jobs : phase'[j] = "queued" => phase[j] \in {"none", "queued"},
         \A j \in Jobs : phase'[j] = "running" => phase[j] \in {"none", "queued", "running"}
  PROVE  Progress' /\ Unsettled'
<1>1. QueueTypeOK /\ QueueTypeOK' /\ ServiceTypes /\ Progress /\ Unsettled
  BY DEF ServiceInv, QInv
<1>2. Unsettled'
  BY <1>1 DEF Unsettled
<1>3. \A j \in Jobs : phase'[j] \in {"none", "queued"} => got'[j] = NoVersion
  BY <1>1 DEF Progress
<1>4. ASSUME NEW j \in Jobs, phase'[j] # "none" PROVE got'[j] <= truth'[jobKey'[j]]
  <2>1. jobKey'[j] \in Keys
    BY <1>1 DEF QueueTypeOK
  <2>2. truth[jobKey'[j]] \in Nat
    BY <1>1, <2>1, BoundsAssumption DEF ServiceTypes, Versions
  <2>3. CASE phase[j] = "none"
    BY <1>1, <2>2, <2>3 DEF Progress, NoVersion
  <2>4. CASE phase[j] # "none"
    BY <1>1, <2>4 DEF Progress
  <2> QED BY <2>3, <2>4
<1>5. ASSUME NEW j \in Jobs, phase'[j] = "running", got'[j] # NoVersion
      PROVE  snapshots'[jobKey'[j]].version <= got'[j]
  <2>1. phase[j] = "running"
    BY <1>1, <1>5 DEF Progress
  <2> QED BY <1>1, <1>5, <2>1 DEF Progress
<1> QED BY <1>1, <1>2, <1>3, <1>4, <1>5 DEF Progress

LEMMA RunKeeps ==
  ASSUME ServiceInv, NEW c \in Callers, NEW k \in Keys, NEW t \in Tasks, Run(c, k, t),
         UNCHANGED <<servers, snapshots, probes, truth, got, outcome, restarts>>,
         acting' \in [Callers -> Keys \cup {NoKey}]
  PROVE  ServiceInv'
<1>1. QInv /\ QInv'
  BY JoinKeeps, EnqueueKeeps DEF ServiceInv, Run
<1>2. ServiceTypes'
  BY DEF ServiceInv, ServiceTypes
<1>3. CASE Join(c, k)
  <2>1. UNCHANGED <<phase, jobKey>>
    BY <1>3 DEF Join, queueVars
  <2> QED BY <1>1, <1>2, <2>1, JobsKeep DEF ServiceInv
<1>4. CASE Enqueue(c, k, t)
  <2>1. /\ phase[created + 1] = "none" /\ phase'[created + 1] \in {"queued", "running"}
        /\ jobKey' = [jobKey EXCEPT ![created + 1] = k]
        /\ \A j \in Jobs \ {created + 1} :
              phase'[j] = phase[j] \/ (phase[j] = "queued" /\ phase'[j] = "running")
    BY <1>1, <1>4, StartsOnlyQueued
  <2>2. \A j \in Jobs : phase[j] # "none" => jobKey'[j] = jobKey[j] /\ phase'[j] # "none"
    BY <1>1, <2>1 DEF QInv, QueueTypeOK
  <2>3. /\ \A j \in Jobs : phase'[j] = "none" => phase[j] = "none"
        /\ \A j \in Jobs : phase'[j] = "queued" => phase[j] \in {"none", "queued"}
        /\ \A j \in Jobs : phase'[j] = "running" => phase[j] \in {"none", "queued", "running"}
    BY <2>1
  <2> QED BY <1>1, <1>2, <2>2, <2>3, JobsKeep DEF ServiceInv
<1> QED BY <1>3, <1>4 DEF Run

LEMMA FinallyKeeps ==
  ASSUME ServiceInv, NEW j \in Jobs, ProbeFinally(j)
  PROVE  ServiceInv'
<1>1. QInv /\ QInv' /\ Finalize(j)
  BY FinalizeKeeps DEF ServiceInv, ProbeFinally
<1>2. ServiceTypes' /\ UNCHANGED <<snapshots, truth, got, outcome>>
  BY DEF ServiceInv, ServiceTypes, ProbeFinally, dbVars
<1>3. /\ phase'[j] = "done" /\ UNCHANGED jobKey
      /\ \A h \in Jobs \ {j} :
           phase'[h] = phase[h] \/ (phase[h] = "queued" /\ phase'[h] = "running")
  BY <1>1, FinalizeStartsQueued DEF Finalize
<1>4. /\ \A h \in Jobs : phase[h] # "none" => jobKey'[h] = jobKey[h] /\ phase'[h] # "none"
      /\ \A h \in Jobs : phase'[h] = "none" => phase[h] = "none"
      /\ \A h \in Jobs : phase'[h] = "queued" => phase[h] \in {"none", "queued"}
      /\ \A h \in Jobs : phase'[h] = "running" => phase[h] \in {"none", "queued", "running"}
  BY <1>3
<1> QED BY <1>1, <1>2, <1>4, JobsKeep DEF ServiceInv

LEMMA AnswerKeeps ==
  ASSUME ServiceInv, NEW c \in Callers, Answer(c)
  PROVE  ServiceInv'
<1>1. QInv /\ QInv' /\ UNCHANGED <<phase, jobKey>>
  BY ReturnKeeps DEF ServiceInv, Answer, Return, queueVars
<1>2. ServiceTypes' /\ UNCHANGED <<snapshots, truth, got, outcome>>
  BY DEF ServiceInv, ServiceTypes, Answer, dbVars
<1> QED BY <1>1, <1>2, JobsKeep DEF ServiceInv

-----------------------------------------------------------------------------
(* The session runs its command: what it reads is at least as new as what  *)
(* is stored.                                                              *)
LEMMA ReadServerKeeps ==
  ASSUME ServiceInv, NEW j \in Jobs, ReadServer(j)
  PROVE  ServiceInv'
<1>1. /\ QInv /\ QueueTypeOK /\ ServiceTypes /\ Progress /\ Unsettled
      /\ phase[j] = "running" /\ got' = [got EXCEPT ![j] = truth[jobKey[j]]]
      /\ UNCHANGED <<qvars, servers, snapshots, probes, acting, truth, outcome, restarts>>
  BY DEF ServiceInv, QInv, ReadServer, dbVars
<1>2. QInv' /\ Unsettled' /\ UNCHANGED <<phase, jobKey>>
  BY <1>1 DEF qvars, queueVars, QInv, QueueTypeOK, QueueShape, KeyIndex, NoIdleSlot,
       BoundedInFlight, StartsInOrder, Executing, Live, Unsettled
<1>3. jobKey[j] \in Keys /\ truth[jobKey[j]] \in Versions /\ truth[jobKey[j]] \in Nat
  BY <1>1 DEF QueueTypeOK, ServiceTypes, Versions
<1>4. ServiceTypes'
  BY <1>1, <1>3 DEF ServiceTypes
<1>5. Progress'
  BY <1>1, <1>2, <1>3 DEF Progress, ServiceTypes
<1> QED BY <1>2, <1>4, <1>5 DEF ServiceInv

(* What the end of a probe writes, when the row of its server is there.    *)
LEMMA ColumnIsWritten ==
  ASSUME ServiceTypes, NEW k \in Keys, NEW kind \in {"full", "health"},
         NEW verdict \in {"ok", "failed"}, WriteProbeColumn(k, kind, verdict)
  PROVE  /\ probes' \in [Keys -> ProbeRows]
         /\ \A h \in Keys \ {k} : probes'[h] = probes[h]
         /\ kind = "full" => probes'[k].discovery = verdict
         /\ kind = "health" => probes'[k].discovery = probes[k].discovery
<1> DEFINE inserted == IF probes[k] = NoRow THEN [NoRow EXCEPT !.legacy = verdict] ELSE probes[k]
           row == IF kind = "health" THEN [inserted EXCEPT !.health = verdict]
                  ELSE [inserted EXCEPT !.discovery = verdict, !.legacy = verdict]
<1>1. probes \in [Keys -> ProbeRows] /\ probes[k] \in ProbeRows
  BY DEF ServiceTypes
<1>2. inserted \in ProbeRows /\ inserted.discovery = probes[k].discovery
  BY <1>1 DEF NoRow, ProbeRows, Verdicts
<1>3. probes' = [probes EXCEPT ![k] = row]
  BY DEF WriteProbeColumn
<1> HIDE DEF inserted
<1>4. /\ row \in ProbeRows
      /\ kind = "full" => row.discovery = verdict
      /\ kind = "health" => row.discovery = probes[k].discovery
  BY <1>2 DEF ProbeRows, Verdicts
<1> HIDE DEF row
<1> QED BY <1>1, <1>3, <1>4

LEMMA ProbeVerdict ==
  ASSUME NEW reply
  PROVE  DiscoverOutcome(reply) \in {"ok", "failed"} /\ ProbeHealth(reply) \in {"ok", "failed"}
BY DEF DiscoverOutcome, ProbeHealth

(* A snapshot is saved of a version that the job has read, with its roles. *)
LEMMA SavedIsRead ==
  ASSUME ServiceInv, NEW j \in Jobs, NEW reply \in Replies(j), jobTask[j] = "full",
         DiscoverOutcome(reply) = "ok"
  PROVE  got[j] \in Versions /\ ParsedRoles(reply) = RolesAt[got[j]] /\ ~reply.hostkey
<1>1. got[j] \in Versions \cup {NoVersion}
  BY DEF ServiceInv, ServiceTypes
<1>2. got[j] # NoVersion
  BY LostIsFailed DEF Replies
<1>3. reply \in RepliesOf(got[j] \in Managed, StatusAt[got[j]])
  BY <1>2 DEF Replies
<1> QED BY <1>1, <1>2, <1>3, OkIsComplete

LEMMA OneRuns ==
  ASSUME QInv, NEW i \in Jobs, NEW j \in Jobs, phase[i] = "running", phase[j] = "running",
         jobKey[i] = jobKey[j]
  PROVE  i = j
BY DEF QInv, QueueTypeOK, KeyIndex, Live

LEMMA ProbeEndsKeeps ==
  ASSUME ServiceInv, NEW j \in Jobs, NEW reply \in Replies(j), ProbeEnds(j, reply)
  PROVE  ServiceInv'
<1> DEFINE k == jobKey[j]
           verdict == IF jobTask[j] = "full" THEN DiscoverOutcome(reply) ELSE ProbeHealth(reply)
<1>1. /\ QInv /\ QueueTypeOK /\ ServiceTypes /\ Progress /\ Unsettled
      /\ k \in Keys /\ jobTask[j] \in {"full", "health"}
      /\ verdict \in {"ok", "failed"}
  BY ProbeVerdict, TasksAssumption DEF ServiceInv, QInv, QueueTypeOK
<1>2. /\ Settle(j, k \in servers) /\ (k \in servers) \in BOOLEAN
      /\ UNCHANGED <<servers, acting, truth, got, restarts>>
  BY DEF ProbeEnds
<1>3. QInv'
  BY <1>1, <1>2, SettleKeeps
<1>4. /\ phase[j] = "running" /\ phase' = [phase EXCEPT ![j] = "settled"]
      /\ UNCHANGED <<jobKey, jobTask>>
  BY <1>2 DEF Settle
<1>5. /\ DOMAIN outcome' = Jobs
      /\ \A h \in Jobs \ {j} : outcome'[h] = outcome[h]
  BY <1>1 DEF ProbeEnds, ServiceTypes
<1>6. Unsettled'
  BY <1>1, <1>4, <1>5 DEF Unsettled, QueueTypeOK
<1>7. CASE k \in servers /\ jobTask[j] = "full" /\ verdict = "ok"
  <2>1. SaveSnapshot(k, got[j], ParsedRoles(reply)) /\ WriteProbeColumn(k, jobTask[j], verdict)
    BY <1>7 DEF ProbeEnds
  <2>2. got[j] \in Versions /\ ParsedRoles(reply) = RolesAt[got[j]]
    BY <1>7, SavedIsRead
  <2> DEFINE snap == [version |-> got[j], roles |-> RolesAt[got[j]]]
  <2>3. snap \in Stored /\ snap.version = got[j]
    BY <2>2 DEF Stored
  <2>4. snapshots' = [snapshots EXCEPT ![k] = snap]
    BY <2>1, <2>2 DEF SaveSnapshot
  <2> HIDE DEF snap, verdict
  <2>5. probes' \in [Keys -> ProbeRows]
    BY <1>1, <2>1, ColumnIsWritten
  <2>6. ServiceTypes'
    BY <1>1, <1>2, <1>5, <2>3, <2>4, <2>5 DEF ServiceTypes
  <2>7. got[j] <= truth[k]
    BY <1>1, <1>4 DEF Progress
  <2>8. ASSUME NEW h \in Jobs, phase'[h] = "running", got'[h] # NoVersion
        PROVE  snapshots'[jobKey'[h]].version <= got'[h]
    <3>1. h # j /\ phase[h] = "running"
      BY <1>1, <1>4, <2>8 DEF QueueTypeOK
    <3>2. jobKey[h] # k
      BY <1>1, <1>4, <3>1, OneRuns
    <3> QED BY <1>1, <1>2, <1>4, <2>4, <2>8, <3>1, <3>2 DEF Progress, QueueTypeOK
  <2>9. Progress'
    BY <1>1, <1>2, <1>4, <2>3, <2>4, <2>7, <2>8 DEF Progress, QueueTypeOK, ServiceTypes
  <2> QED BY <1>3, <1>6, <2>6, <2>9 DEF ServiceInv
<1>8. CASE ~(k \in servers /\ jobTask[j] = "full" /\ verdict = "ok")
  <2>1. UNCHANGED snapshots /\ (UNCHANGED probes \/ WriteProbeColumn(k, jobTask[j], verdict))
    BY <1>8 DEF ProbeEnds
  <2> HIDE DEF verdict
  <2>2. probes' \in [Keys -> ProbeRows]
    BY <1>1, <2>1, ColumnIsWritten DEF ServiceTypes
  <2>3. ServiceTypes'
    BY <1>1, <1>2, <1>5, <2>1, <2>2 DEF ServiceTypes
  <2>4. Progress'
    BY <1>1, <1>2, <1>4, <2>1 DEF Progress, QueueTypeOK
  <2> QED BY <1>3, <1>6, <2>3, <2>4 DEF ServiceInv
<1> QED BY <1>7, <1>8

-----------------------------------------------------------------------------
LEMMA QueueStays ==
  ASSUME QInv, UNCHANGED qvars
  PROVE  QInv'
BY DEF qvars, queueVars, QInv, QueueTypeOK, QueueShape, KeyIndex, NoIdleSlot,
       BoundedInFlight, StartsInOrder, Executing, Live

LEMMA ActKeeps ==
  ASSUME ServiceInv, NEW c \in Callers, NEW k \in Keys, ActOnServer(c, k)
  PROVE  ServiceInv'
<1>1. /\ QInv /\ QInv' /\ QueueTypeOK /\ ServiceTypes /\ Progress /\ Unsettled
      /\ UNCHANGED <<phase, jobKey, servers, snapshots, probes, got, outcome, restarts>>
  BY QueueStays DEF ServiceInv, QInv, ActOnServer, qvars, queueVars, dbVars
<1>2. /\ truth' = [truth EXCEPT ![k] = @ + 1] /\ acting' = [acting EXCEPT ![c] = k]
      /\ truth[k] < MaxVersion
  BY DEF ActOnServer
<1>3. ServiceTypes'
  BY <1>1, <1>2, BoundsAssumption DEF ServiceTypes, Versions
<1>4. \A h \in Keys : truth[h] \in Nat /\ truth'[h] \in Nat /\ truth[h] <= truth'[h]
  BY <1>1, <1>2 DEF ServiceTypes, Versions
<1>5. \A h \in Keys : snapshots[h].version \in Nat
  BY <1>1 DEF ServiceTypes, Stored, NoSnapshot, NoVersion, Versions
<1>6. \A j \in Jobs : jobKey[j] \in Keys /\ got[j] \in Nat
  BY <1>1 DEF QueueTypeOK, ServiceTypes, Versions, NoVersion
<1>7. Progress'
  <2>1. \A h \in Keys : snapshots[h].version <= truth'[h]
    BY <1>1, <1>4, <1>5 DEF Progress
  <2>2. \A j \in Jobs : phase[j] # "none" => got[j] <= truth'[jobKey[j]]
    BY <1>1, <1>4, <1>6 DEF Progress
  <2> QED BY <1>1, <2>1, <2>2 DEF Progress
<1>8. Unsettled'
  BY <1>1 DEF Unsettled
<1> QED BY <1>1, <1>3, <1>7, <1>8 DEF ServiceInv

LEMMA DeleteKeeps ==
  ASSUME ServiceInv, NEW k \in Keys, DeleteServer(k)
  PROVE  ServiceInv'
<1>1. /\ QInv /\ QInv' /\ QueueTypeOK /\ ServiceTypes /\ Progress /\ Unsettled
      /\ UNCHANGED <<phase, jobKey, acting, truth, got, outcome, restarts>>
      /\ servers' = servers \ {k}
      /\ snapshots' = [snapshots EXCEPT ![k] = NoSnapshot]
      /\ probes' = [probes EXCEPT ![k] = NoRow]
  BY QueueStays DEF ServiceInv, QInv, DeleteServer, qvars, queueVars
<1>2. NoSnapshot \in Stored /\ NoSnapshot.version = 0 /\ NoRow \in ProbeRows
  BY DEF Stored, NoSnapshot, NoVersion, NoRow, ProbeRows, Verdicts
<1>3. ServiceTypes'
  BY <1>1, <1>2 DEF ServiceTypes
<1>4. \A h \in Keys : truth[h] \in Nat
  BY <1>1 DEF ServiceTypes, Versions
<1>5. \A j \in Jobs : jobKey[j] \in Keys /\ got[j] \in Nat
  BY <1>1 DEF QueueTypeOK, ServiceTypes, Versions, NoVersion
<1>6. Progress'
  BY <1>1, <1>2, <1>4, <1>5 DEF Progress, ServiceTypes
<1>7. Unsettled'
  BY <1>1 DEF Unsettled
<1> QED BY <1>1, <1>3, <1>6, <1>7 DEF ServiceInv

LEMMA RestartKeeps ==
  ASSUME ServiceInv, Restart
  PROVE  ServiceInv'
<1>1. QInv /\ QueueTypeOK /\ QueueShape /\ ServiceTypes /\ Progress /\ Unsettled
  BY DEF ServiceInv, QInv
<1>2. /\ phase' = [j \in Jobs |-> IF j <= created THEN "done" ELSE "none"]
      /\ inFlight' = [k \in Keys |-> NoJob] /\ pending' = << >>
      /\ active' = 0 /\ peak' = 0
      /\ stats' = [started |-> 0, completed |-> 0, failed |-> 0]
      /\ waiting' = [c \in Callers |-> NoJob]
      /\ acting' = [c \in Callers |-> NoKey]
      /\ probes' = [k \in Keys |-> CarryOver(probes[k])]
      /\ restarts' = restarts + 1
      /\ UNCHANGED <<created, jobKey, jobTask, servers, snapshots, truth, got, outcome>>
  BY DEF Restart
<1>3. Executing' = {} /\ Live' = {}
  BY <1>2 DEF Executing, Live
<1>4. QueueTypeOK'
  <2>1. pending' \in Seq(Jobs)
    BY <1>2, EmptySeq
  <2>2. phase' \in [Jobs -> Phases] /\ waiting' \in [Callers -> Jobs \cup {NoJob}]
    BY <1>2 DEF Phases
  <2> QED BY <1>1, <1>2, <2>1, <2>2 DEF QueueTypeOK
<1>5. BoundedInFlight'
  BY <1>2, <1>3, FS_EmptySet, ConcurrencyAssumption DEF BoundedInFlight
<1>6. QueueShape'
  BY <1>1, <1>2 DEF QueueShape, QueueTypeOK, Jobs
<1>7. KeyIndex'
  BY <1>2, <1>3 DEF KeyIndex, NoJob, Jobs
<1>8. NoIdleSlot' /\ StartsInOrder'
  BY <1>1, <1>2 DEF NoIdleSlot, StartsInOrder, QueueTypeOK, Jobs
<1>9. QInv'
  BY <1>4, <1>5, <1>6, <1>7, <1>8 DEF QInv
<1>10. ServiceTypes'
  <2>1. ASSUME NEW k \in Keys PROVE CarryOver(probes[k]) \in ProbeRows
    BY <1>1 DEF ServiceTypes, CarryOver, ProbeRows, Verdicts
  <2>2. probes' \in [Keys -> ProbeRows]
    BY <1>2, <2>1
  <2> QED BY <1>1, <1>2, <2>2 DEF ServiceTypes
<1>11. \A j \in Jobs : phase[j] = "none" <=> phase'[j] = "none"
  BY <1>1, <1>2 DEF QueueShape, QueueTypeOK, Jobs
<1>12. \A j \in Jobs : phase'[j] \in {"none", "done"}
  BY <1>2
<1> QED BY <1>1, <1>2, <1>9, <1>10, <1>11, <1>12, JobsKeep DEF ServiceInv

LEMMA ServiceInitKeeps == ServiceInit => ServiceInv
<1> SUFFICES ASSUME ServiceInit PROVE ServiceInv
  OBVIOUS
<1>1. QInv /\ QueueTypeOK
  BY InitEstablishes DEF ServiceInit, QInv
<1>2. NoSnapshot \in Stored /\ NoSnapshot.version = 0 /\ NoRow \in ProbeRows /\ 1 \in Versions
  BY BoundsAssumption DEF Stored, NoSnapshot, NoVersion, NoRow, ProbeRows, Verdicts, Versions
<1>3. ServiceTypes
  BY <1>2 DEF ServiceInit, ServiceTypes
<1>4. Progress
  BY <1>1, <1>2 DEF ServiceInit, Progress, QueueTypeOK, NoVersion
<1>5. Unsettled
  BY DEF ServiceInit, Unsettled
<1> QED BY <1>1, <1>3, <1>4, <1>5 DEF ServiceInv

LEMMA ServiceStepKeeps == ServiceInv /\ [ServiceNext]_serviceVars => ServiceInv'
<1> SUFFICES ASSUME ServiceInv, [ServiceNext]_serviceVars PROVE ServiceInv'
  OBVIOUS
<1>1. ServiceTypes /\ "full" \in Tasks /\ "health" \in Tasks
  BY TasksAssumption DEF ServiceInv
<1>2. ASSUME NEW c \in Callers, NEW k \in Keys, Discover(c, k) \/ HealthProbe(c, k)
      PROVE  ServiceInv'
  BY <1>1, <1>2, RunKeeps DEF Discover, HealthProbe, dbVars, ServiceTypes
<1>3. ASSUME NEW c \in Callers, RefreshAfterAction(c) PROVE ServiceInv'
  <2>1. /\ acting[c] \in Keys /\ Run(c, acting[c], "full")
        /\ acting' \in [Callers -> Keys \cup {NoKey}]
    BY <1>1, <1>3 DEF RefreshAfterAction, ServiceTypes
  <2> QED BY <1>1, <1>3, <2>1, RunKeeps DEF RefreshAfterAction, dbVars
<1>4. CASE UNCHANGED serviceVars
  <2>1. UNCHANGED <<qvars, servers, snapshots, probes, acting, truth, got, outcome, restarts>>
    BY <1>4 DEF serviceVars, dbVars
  <2>2. QInv' /\ UNCHANGED <<phase, jobKey>>
    BY <2>1, QueueStays DEF ServiceInv, qvars, queueVars
  <2> QED BY <2>1, <2>2 DEF ServiceInv, ServiceTypes, Progress, Unsettled
<1>5. CASE ServiceNext
  BY <1>2, <1>3, <1>5, ReadServerKeeps, ProbeEndsKeeps, FinallyKeeps, ActKeeps, AnswerKeeps,
     DeleteKeeps, RestartKeeps DEF ServiceNext
<1> QED BY <1>4, <1>5

(* A row of the two tables changes only with the end of a probe of its     *)
(* server, with its deletion, and, on a start, by the carry-over.          *)
LEMMA WhoWrites ==
  ASSUME ServiceInv, ServiceNext, NEW k \in servers \cap servers',
         ~Restart, \A j \in Jobs : jobKey[j] = k => \A reply \in Replies(j) : ~ProbeEnds(j, reply)
  PROVE  snapshots'[k] = snapshots[k] /\ probes'[k] = probes[k]
<1>1. ServiceTypes /\ QInv /\ QueueTypeOK
  BY DEF ServiceInv, QInv
<1>2. ASSUME NEW j \in Jobs, NEW reply \in Replies(j), ProbeEnds(j, reply)
      PROVE  snapshots'[k] = snapshots[k] /\ probes'[k] = probes[k]
  <2>1. jobKey[j] # k
    BY <1>2
  <2> DEFINE verdict == IF jobTask[j] = "full" THEN DiscoverOutcome(reply) ELSE ProbeHealth(reply)
  <2>2. /\ snapshots' = snapshots \/ SaveSnapshot(jobKey[j], got[j], ParsedRoles(reply))
        /\ probes' = probes \/ WriteProbeColumn(jobKey[j], jobTask[j], verdict)
    BY <1>2 DEF ProbeEnds
  <2> HIDE DEF verdict
  <2> QED BY <1>1, <2>1, <2>2 DEF SaveSnapshot, WriteProbeColumn, ServiceTypes
<1>3. ASSUME NEW h \in Keys, DeleteServer(h)
      PROVE  snapshots'[k] = snapshots[k] /\ probes'[k] = probes[k]
  BY <1>1, <1>3 DEF DeleteServer, ServiceTypes
<1> QED
  BY <1>2, <1>3 DEF ServiceNext, ReadServer, ProbeFinally, Discover, HealthProbe, ActOnServer,
       RefreshAfterAction, Answer, dbVars

LEMMA SnapshotsAdvance ==
  ASSUME ServiceInv, ServiceNext, NEW k \in servers \cap servers'
  PROVE  snapshots'[k].version >= snapshots[k].version
<1>1. ServiceTypes /\ Progress /\ k \in Keys /\ snapshots[k].version \in Nat
  BY DEF ServiceInv, ServiceTypes, Stored, NoSnapshot, NoVersion, Versions
<1>2. ASSUME NEW j \in Jobs, jobKey[j] = k, NEW reply \in Replies(j), ProbeEnds(j, reply)
      PROVE  snapshots'[k].version >= snapshots[k].version
  <2>1. CASE jobTask[j] = "full" /\ DiscoverOutcome(reply) = "ok"
    <3>1. got[j] \in Versions /\ phase[j] = "running"
      BY <1>2, <2>1, SavedIsRead DEF ProbeEnds, Settle
    <3>2. snapshots[k].version <= got[j]
      BY <1>1, <1>2, <3>1 DEF Progress, NoVersion, Versions
    <3>3. snapshots'[k].version = got[j]
      BY <1>1, <1>2, <2>1 DEF ProbeEnds, SaveSnapshot, ServiceTypes
    <3> QED BY <1>1, <3>1, <3>2, <3>3 DEF Versions
  <2>2. CASE ~(jobTask[j] = "full" /\ DiscoverOutcome(reply) = "ok")
    <3>1. UNCHANGED snapshots
      BY <1>2, <2>2 DEF ProbeEnds
    <3> QED BY <1>1, <3>1
  <2> QED BY <2>1, <2>2
<1>3. CASE Restart
  BY <1>1, <1>3 DEF Restart
<1> QED BY <1>1, <1>2, <1>3, WhoWrites

(* The stored topology never goes back in time, although the probe that    *)
(* read it first may settle last (DiscoveryQueue.run, saveSnapshot).       *)
THEOREM SnapshotAlwaysNewer == ServiceSpec => SnapshotNeverOlder
<1>1. ServiceInv /\ [ServiceNext]_serviceVars
        => [\A k \in servers \cap servers' :
              snapshots'[k].version >= snapshots[k].version]_serviceVars
  BY SnapshotsAdvance
<1> QED BY <1>1, ServiceInitKeeps, ServiceStepKeeps, PTL DEF ServiceSpec, SnapshotNeverOlder

(* A failure recorded of a discovery is cleared by a discovery that ended  *)
(* well and stored what it read, not by a health ping and not by the       *)
(* carry-over of a restart (writeProbeColumn, openDb).                     *)
THEOREM FailuresClearedByDiscovery == ServiceSpec => FailureClearedByDiscovery
<1> DEFINE Cleared(k) ==
      probes[k].discovery = "failed" /\ probes'[k].discovery # "failed" =>
         \E j \in Jobs : /\ jobKey[j] = k /\ jobTask[j] = "full"
                         /\ outcome[j] = "none" /\ outcome'[j] = "ok"
                         /\ snapshots'[k].version = got[j]
<1>1. ServiceInv /\ [ServiceNext]_serviceVars
        => [\A k \in servers \cap servers' : Cleared(k)]_serviceVars
  <2> SUFFICES ASSUME ServiceInv, ServiceNext, NEW k \in servers \cap servers',
                      probes[k].discovery = "failed", probes'[k].discovery # "failed"
               PROVE  \E j \in Jobs : /\ jobKey[j] = k /\ jobTask[j] = "full"
                                      /\ outcome[j] = "none" /\ outcome'[j] = "ok"
                                      /\ snapshots'[k].version = got[j]
    OBVIOUS
  <2>1. ServiceTypes /\ QInv /\ QueueTypeOK /\ Unsettled /\ k \in Keys /\ probes[k] \in ProbeRows
    BY DEF ServiceInv, QInv, ServiceTypes
  <2>2. ~Restart
    <3>1. CarryOver(probes[k]).discovery = "failed"
      BY <2>1 DEF CarryOver, ProbeRows
    <3> QED BY <2>1, <3>1 DEF Restart
  <2>3. PICK j \in Jobs : jobKey[j] = k /\ \E reply \in Replies(j) : ProbeEnds(j, reply)
    BY <2>2, WhoWrites
  <2>4. PICK reply \in Replies(j) : ProbeEnds(j, reply)
    BY <2>3
  <2> DEFINE verdict == IF jobTask[j] = "full" THEN DiscoverOutcome(reply) ELSE ProbeHealth(reply)
  <2>5. WriteProbeColumn(k, jobTask[j], verdict)
    BY <2>3, <2>4 DEF ProbeEnds
  <2>6. jobTask[j] \in {"full", "health"} /\ verdict \in {"ok", "failed"}
    BY <2>1, ProbeVerdict, TasksAssumption DEF QueueTypeOK
  <2>7. jobTask[j] = "full" /\ verdict = "ok"
    <3> HIDE DEF verdict
    <3>1. /\ jobTask[j] = "full" => probes'[k].discovery = verdict
          /\ jobTask[j] = "health" => probes'[k].discovery = probes[k].discovery
      BY <2>1, <2>5, <2>6, ColumnIsWritten
    <3> QED BY <2>6, <3>1
  <2>8. ~reply.hostkey
    BY <2>7, SavedIsRead
  <2>9. outcome[j] = "none" /\ outcome'[j] = "ok"
    BY <2>1, <2>3, <2>4, <2>7, <2>8 DEF ProbeEnds, Settle, Unsettled, ServiceTypes
  <2>10. snapshots'[k].version = got[j]
    BY <2>1, <2>3, <2>4, <2>7 DEF ProbeEnds, SaveSnapshot, ServiceTypes
  <2> QED BY <2>3, <2>7, <2>9, <2>10
<1>2. [][\A k \in servers \cap servers' : Cleared(k)]_serviceVars => FailureClearedByDiscovery
  BY PTL DEF FailureClearedByDiscovery
<1> QED BY <1>1, <1>2, ServiceInitKeeps, ServiceStepKeeps, PTL DEF ServiceSpec

-----------------------------------------------------------------------------
(* The page: what it shows and what is on its way to it.                   *)
Said  == Verdicts \cup {"absent"}
Cards == [snap : Stored, health : Said, discovery : Said]
Replied == [ok : BOOLEAN, thrown : BOOLEAN, snap : Stored, health : Verdicts, discovery : Verdicts]
Requests ==
  [pc : {"none", "discovering", "loading", "answer", "list"},
   by : {"none", "card", "drawer", "click", "refresh", "enter"},
   key : Keys \cup {NoKey}, answer : Replied, list : [Keys -> Cards],
   status : {"none", "rows", "401", "error"}]
Drawers == [key : Keys \cup {NoKey}, row : Cards]

PageTypes ==
  /\ listed \in [Keys -> Cards]
  /\ drawer \in Drawers
  /\ asked \in [Callers -> Requests]

DrawerIsListed == drawer.key \in ListedKeys => drawer.row = listed[drawer.key]

PageInv == PageTypes /\ DrawerIsListed

LEMMA StoredIs ==
  /\ NoSnapshot \in Stored /\ NoSnapshot.version = 0 /\ NoSnapshot.roles = {}
  /\ \A snap \in Stored : snap # NoSnapshot =>
       snap.version \in Versions /\ snap.version # 0 /\ snap.roles = RolesAt[snap.version]
BY BoundsAssumption DEF Stored, NoSnapshot, NoVersion, Versions

LEMMA NothingIs ==
  /\ NoCard \in Cards /\ NoRows \in [Keys -> Cards] /\ NoAnswer \in Replied
  /\ Idle \in Requests /\ Closed \in Drawers /\ Closed.key = NoKey
<1>1. NoCard \in Cards
  BY StoredIs DEF NoCard, Cards, Said
<1>2. NoRows \in [Keys -> Cards]
  BY <1>1 DEF NoRows
<1>3. NoAnswer \in Replied
  BY StoredIs DEF NoAnswer, Replied, Verdicts
<1>4. Idle \in Requests
  BY <1>2, <1>3 DEF Idle, Requests
<1>5. Closed \in Drawers /\ Closed.key = NoKey
  BY <1>1 DEF Closed, Drawers
<1> QED BY <1>1, <1>2, <1>3, <1>4, <1>5

(* The page changes nothing of the hub but through the hub's own steps.    *)
LEMMA PageIsService == PageNext => [ServiceNext]_serviceVars
BY DEF PageNext, HubStep, HubRestarts, HubAnswers, HubLists, Lose, DiscoverReturns, LoadReturns,
     RefreshAllServers, EnterMain, ClickDiscover, OpenDrawer, CloseDrawer, SignOut, Rediscover,
     ServiceNext, serviceVars

LEMMA DatabaseIs ==
  ASSUME ServiceInv
  PROVE  Database \in [Keys -> Cards]
<1>1. ASSUME NEW k \in Keys PROVE PublicServer(k) \in Cards
  BY DEF ServiceInv, ServiceTypes, PublicServer, Cards, ProbeRows, Said
<1> QED BY <1>1, NothingIs DEF Database

LEMMA DiscoverAnswerIs ==
  ASSUME ServiceInv, NEW j \in Jobs
  PROVE  DiscoverAnswer(j) \in Replied
<1> DEFINE thrown == [NoAnswer EXCEPT !.thrown = TRUE]
<1>1. thrown \in Replied
  BY NothingIs DEF Replied
<1> HIDE DEF thrown
<1>2. jobKey[j] \in Keys
  BY DEF ServiceInv, QInv, QueueTypeOK
<1>3. /\ snapshots[jobKey[j]] \in Stored /\ NoSnapshot \in Stored
      /\ probes[jobKey[j]].health \in Verdicts /\ probes[jobKey[j]].discovery \in Verdicts
  BY <1>2, StoredIs DEF ServiceInv, ServiceTypes, ProbeRows
<1> DEFINE said == [ok |-> outcome[j] = "ok", thrown |-> FALSE,
        snap |-> IF outcome[j] = "ok" /\ jobTask[j] = "full"
                 THEN snapshots[jobKey[j]] ELSE NoSnapshot,
        health |-> probes[jobKey[j]].health, discovery |-> probes[jobKey[j]].discovery]
<1>4. said \in Replied
  BY <1>3 DEF Replied
<1>5. DiscoverAnswer(j) \in {thrown, said}
  BY DEF DiscoverAnswer, thrown
<1> HIDE DEF said
<1> QED BY <1>1, <1>4, <1>5

LEMMA AsksIs ==
  ASSUME PageTypes, NEW c \in Callers, NEW key \in Keys \cup {NoKey},
         NEW by \in {"none", "card", "drawer", "click", "refresh", "enter"},
         NEW pc \in {"none", "discovering", "loading", "answer", "list"}, Asks(c, by, key, pc)
  PROVE  asked' \in [Callers -> Requests]
<1> DEFINE request == [Idle EXCEPT !.pc = pc, !.by = by, !.key = key]
<1>1. request \in Requests
  BY NothingIs DEF Requests
<1>2. asked' = [asked EXCEPT ![c] = request]
  BY DEF Asks
<1> HIDE DEF request
<1> QED BY <1>1, <1>2 DEF PageTypes

LEMMA AppliedIs ==
  ASSUME NEW row \in Cards, NEW answer \in Replied
  PROVE  Applied(row, answer) \in Cards
BY DEF Applied, Cards, Replied, Said

(* The list and the drawer are written together.                           *)
LEMMA DrawerFollows ==
  ASSUME PageInv, asked' \in [Callers -> Requests],
         \/ \E k \in Keys \cup {NoKey}, answer \in Replied : ApplyDiscoverResult(k, answer)
         \/ \E rows \in [Keys -> Cards] : ShowServers(rows)
         \/ UNCHANGED listed /\ drawer' = Closed
         \/ UNCHANGED listed /\ \E k \in ListedKeys : drawer' = [key |-> k, row |-> listed[k]]
         \/ UNCHANGED <<listed, drawer>>
  PROVE  PageInv'
<1>1. /\ listed \in [Keys -> Cards] /\ drawer \in Drawers /\ DrawerIsListed
      /\ NoKey \notin Keys /\ drawer.key \in Keys \cup {NoKey} /\ drawer.row \in Cards
  BY KeyAssumption DEF PageInv, PageTypes, Drawers
<1>2. ASSUME NEW k \in Keys \cup {NoKey}, NEW answer \in Replied, ApplyDiscoverResult(k, answer)
      PROVE  PageInv'
  <2>1. listed' = IF k \in ListedKeys THEN [listed EXCEPT ![k] = Applied(listed[k], answer)] ELSE listed
    BY <1>2 DEF ApplyDiscoverResult
  <2>2. k \in ListedKeys => k \in Keys /\ Applied(listed[k], answer) \in Cards
    BY <1>1, AppliedIs DEF ListedKeys
  <2>3. listed' \in [Keys -> Cards]
    BY <1>1, <2>1, <2>2
  <2>4. CASE drawer.key = k /\ drawer' = [drawer EXCEPT !.row = Applied(drawer.row, answer)]
    <3>1. /\ drawer' \in Drawers /\ drawer'.key = k /\ drawer'.row = Applied(drawer.row, answer)
      BY <1>1, <2>4, AppliedIs DEF Drawers
    <3>2. CASE k \in ListedKeys
      BY <1>1, <2>1, <2>2, <2>3, <2>4, <3>1, <3>2 DEF PageInv, PageTypes, DrawerIsListed
    <3>3. CASE k \notin ListedKeys
      BY <2>1, <2>3, <3>1, <3>3 DEF PageInv, PageTypes, DrawerIsListed, ListedKeys
    <3> QED BY <3>2, <3>3
  <2>5. CASE (drawer.key # k \/ k \notin ListedKeys) /\ UNCHANGED drawer
    BY <1>1, <2>1, <2>2, <2>3, <2>5 DEF PageInv, PageTypes, DrawerIsListed, ListedKeys
  <2> QED BY <1>2, <2>4, <2>5 DEF ApplyDiscoverResult
<1>3. ASSUME NEW rows \in [Keys -> Cards], ShowServers(rows)
      PROVE  PageInv'
  <2>1. listed' = rows
    BY <1>3 DEF ShowServers
  <2>2. CASE drawer.key \in Keys /\ rows[drawer.key] # NoCard
    <3>1. drawer' = [drawer EXCEPT !.row = rows[drawer.key]]
      BY <1>3, <2>2 DEF ShowServers
    <3>2. drawer' \in Drawers /\ drawer'.key = drawer.key /\ drawer'.row = rows[drawer.key]
      BY <1>1, <2>2, <3>1 DEF Drawers
    <3> QED BY <2>1, <3>2 DEF PageInv, PageTypes, DrawerIsListed
  <2>3. CASE ~(drawer.key \in Keys /\ rows[drawer.key] # NoCard)
    <3>1. UNCHANGED drawer
      BY <1>3, <2>3 DEF ShowServers
    <3> QED BY <1>1, <2>1, <2>3, <3>1 DEF PageInv, PageTypes, DrawerIsListed, ListedKeys
  <2> QED BY <2>2, <2>3
<1>4. CASE UNCHANGED listed /\ drawer' = Closed
  BY <1>1, <1>4, NothingIs DEF PageInv, PageTypes, DrawerIsListed, ListedKeys
<1>5. ASSUME UNCHANGED listed, NEW k \in ListedKeys, drawer' = [key |-> k, row |-> listed[k]]
      PROVE  PageInv'
  <2>1. drawer' \in Drawers /\ drawer'.key = k /\ drawer'.row = listed[k]
    BY <1>1, <1>5 DEF Drawers, ListedKeys
  <2> QED BY <1>1, <1>5, <2>1 DEF PageInv, PageTypes, DrawerIsListed
<1>6. CASE UNCHANGED <<listed, drawer>>
  BY <1>1, <1>6 DEF PageInv, PageTypes, DrawerIsListed, ListedKeys
<1> QED BY <1>2, <1>3, <1>4, <1>5, <1>6

LEMMA HubAnswersKeeps ==
  ASSUME ServiceInv, PageInv, NEW c \in Callers, HubAnswers(c)
  PROVE  PageInv'
<1>1. asked \in [Callers -> Requests] /\ waiting[c] \in Jobs
  BY DEF PageInv, PageTypes, HubAnswers, Answer, Return, ServiceInv, QInv, QueueTypeOK
<1> DEFINE answer == DiscoverAnswer(waiting[c])
<1>2. answer \in Replied
  BY <1>1, DiscoverAnswerIs
<1>3. asked' = asked \/ asked' = [asked EXCEPT ![c].pc = "answer", ![c].answer = answer]
  BY DEF HubAnswers
<1> HIDE DEF answer
<1>4. asked' \in [Callers -> Requests]
  BY <1>1, <1>2, <1>3 DEF Requests
<1> QED BY <1>4, DrawerFollows DEF HubAnswers

LEMMA HubListsKeeps ==
  ASSUME ServiceInv, PageInv, NEW c \in Callers, HubLists(c)
  PROVE  PageInv'
<1> DEFINE rows == IF signedIn THEN Database ELSE NoRows
           status == IF signedIn THEN "rows" ELSE "401"
<1>1. asked \in [Callers -> Requests] /\ rows \in [Keys -> Cards] /\ status \in {"rows", "401"}
  BY DatabaseIs, NothingIs DEF PageInv, PageTypes
<1>2. asked' = [asked EXCEPT ![c].pc = "list", ![c].status = status, ![c].list = rows]
  BY DEF HubLists
<1> HIDE DEF rows, status
<1> DEFINE request == [asked[c] EXCEPT !.pc = "list", !.status = status, !.list = rows]
<1>3. request \in Requests
  BY <1>1 DEF Requests
<1>4. asked' = [asked EXCEPT ![c] = request]
  BY <1>1, <1>2
<1> HIDE DEF request
<1>5. asked' \in [Callers -> Requests]
  BY <1>1, <1>3, <1>4
<1> QED BY <1>5, DrawerFollows DEF HubLists

LEMMA LoseKeeps ==
  ASSUME PageInv, NEW c \in Callers, Lose(c)
  PROVE  PageInv'
<1> DEFINE thrown == [NoAnswer EXCEPT !.thrown = TRUE]
<1>1. asked \in [Callers -> Requests] /\ NoRows \in [Keys -> Cards]
  BY NothingIs DEF PageInv, PageTypes
<1>2. thrown \in Replied
  BY NothingIs DEF Replied
<1>3. \/ asked' = [asked EXCEPT ![c].answer = thrown]
      \/ asked' = [asked EXCEPT ![c].status = "error", ![c].list = NoRows]
  BY DEF Lose
<1> HIDE DEF thrown
<1> DEFINE cut == [asked[c] EXCEPT !.answer = thrown]
           broken == [asked[c] EXCEPT !.status = "error", !.list = NoRows]
<1>4. cut \in Requests /\ broken \in Requests
  BY <1>1, <1>2 DEF Requests
<1>5. asked' \in {[asked EXCEPT ![c] = cut], [asked EXCEPT ![c] = broken]}
  BY <1>1, <1>3
<1> HIDE DEF cut, broken
<1>6. asked' \in [Callers -> Requests]
  BY <1>1, <1>4, <1>5
<1> QED BY <1>6, DrawerFollows DEF Lose

LEMMA DiscoverReturnsKeeps ==
  ASSUME PageInv, NEW c \in Callers, DiscoverReturns(c)
  PROVE  PageInv'
<1>1. /\ PageTypes /\ asked \in [Callers -> Requests]
      /\ asked[c].answer \in Replied /\ asked[c].key \in Keys \cup {NoKey}
  BY DEF PageInv, PageTypes, Requests
<1>2. asked' = [asked EXCEPT ![c] = Idle] \/ Asks(c, "click", NoKey, "loading")
  BY DEF DiscoverReturns
<1>3. asked' \in [Callers -> Requests]
  BY <1>1, <1>2, NothingIs, AsksIs
<1>4. UNCHANGED <<listed, drawer>> \/ ApplyDiscoverResult(asked[c].key, asked[c].answer)
  BY DEF DiscoverReturns
<1> QED BY <1>1, <1>3, <1>4, DrawerFollows

LEMMA LoadReturnsKeeps ==
  ASSUME PageInv, NEW c \in Callers, LoadReturns(c)
  PROVE  PageInv'
<1>1. /\ asked \in [Callers -> Requests] /\ asked[c].list \in [Keys -> Cards]
      /\ asked' = [asked EXCEPT ![c] = Idle]
  BY DEF PageInv, PageTypes, Requests, LoadReturns
<1>2. asked' \in [Callers -> Requests]
  BY <1>1, NothingIs
<1>3. CASE asked[c].status = "rows"
  BY <1>1, <1>2, <1>3, DrawerFollows DEF LoadReturns
<1>4. CASE asked[c].status = "error"
  BY <1>2, <1>4, DrawerFollows DEF LoadReturns
<1>5. CASE asked[c].status \notin {"rows", "error"}
  BY <1>2, <1>5, DrawerFollows DEF LoadReturns, ShowAuth
<1> QED BY <1>3, <1>4, <1>5

LEMMA HubRestartsKeeps ==
  ASSUME PageInv, HubRestarts
  PROVE  PageInv'
<1> DEFINE over(c) == CASE asked[c].pc = "discovering" ->
                             [asked[c] EXCEPT !.pc = "answer", !.answer.thrown = TRUE]
                        [] asked[c].pc = "loading" ->
                             [asked[c] EXCEPT !.pc = "list", !.status = "error"]
                        [] OTHER -> asked[c]
<1>1. ASSUME NEW c \in Callers PROVE over(c) \in Requests
  <2>1. asked[c] \in Requests
    BY DEF PageInv, PageTypes
  <2> DEFINE thrown == [asked[c].answer EXCEPT !.thrown = TRUE]
  <2>2. thrown \in Replied
    BY <2>1 DEF Requests, Replied
  <2>3. CASE asked[c].pc = "discovering"
    <3>1. over(c) = [asked[c] EXCEPT !.pc = "answer", !.answer = thrown]
      BY <2>3
    <3> HIDE DEF thrown, over
    <3> QED BY <2>1, <2>2, <3>1 DEF Requests
  <2>4. CASE asked[c].pc = "loading"
    BY <2>1, <2>4 DEF Requests
  <2>5. CASE asked[c].pc \notin {"discovering", "loading"}
    BY <2>1, <2>5
  <2> QED BY <2>3, <2>4, <2>5
<1>2. asked' = [c \in Callers |-> over(c)]
  BY DEF HubRestarts
<1> HIDE DEF over
<1>3. asked' \in [Callers -> Requests]
  BY <1>1, <1>2
<1> QED BY <1>3, DrawerFollows DEF HubRestarts

LEMMA PageStepKeeps == ServiceInv /\ PageInv /\ [PageNext]_allVars => PageInv'
<1> SUFFICES ASSUME ServiceInv, PageInv, [PageNext]_allVars PROVE PageInv'
  OBVIOUS
<1>1. PageTypes /\ asked \in [Callers -> Requests]
  BY DEF PageInv, PageTypes
<1>2. CASE UNCHANGED pageVars
  BY <1>1, <1>2, DrawerFollows DEF pageVars
<1>3. ASSUME NEW c \in Callers, RefreshAllServers(c) \/ EnterMain(c) PROVE PageInv'
  <2>1. \E by \in {"refresh", "enter"} : Asks(c, by, NoKey, "loading")
    BY <1>3 DEF RefreshAllServers, EnterMain
  <2>2. asked' \in [Callers -> Requests]
    BY <1>1, <2>1, AsksIs
  <2> QED BY <1>3, <2>2, DrawerFollows DEF RefreshAllServers, EnterMain
<1>4. ASSUME NEW c \in Callers, NEW k \in Keys, NEW by \in {"card", "drawer"}, ClickDiscover(c, k, by)
      PROVE  PageInv'
  <2>1. asked' \in [Callers -> Requests]
    BY <1>1, <1>4, AsksIs DEF ClickDiscover
  <2> QED BY <1>4, <2>1, DrawerFollows DEF ClickDiscover
<1>5. ASSUME NEW k \in Keys, OpenDrawer(k) PROVE PageInv'
  BY <1>1, <1>5, DrawerFollows DEF OpenDrawer
<1>6. CASE CloseDrawer \/ SignOut
  BY <1>1, <1>6, DrawerFollows DEF CloseDrawer, SignOut, ShowAuth
<1>7. CASE UNCHANGED allVars
  BY <1>2, <1>7 DEF allVars, pageVars
<1>8. CASE PageNext
  BY <1>2, <1>3, <1>4, <1>5, <1>6, <1>8, HubAnswersKeeps, HubListsKeeps, LoseKeeps,
     DiscoverReturnsKeeps, LoadReturnsKeeps, HubRestartsKeeps DEF PageNext
<1> QED BY <1>7, <1>8

LEMMA PageSafe == PageSpec => [](ServiceInv /\ PageInv)
<1>1. PageInit => ServiceInv /\ PageInv
  BY ServiceInitKeeps, NothingIs, KeyAssumption
     DEF PageInit, PageInv, PageTypes, DrawerIsListed, ListedKeys, NoRows
<1>2. ServiceInv /\ PageInv /\ [PageNext]_allVars => ServiceInv' /\ PageInv'
  BY PageIsService, PageStepKeeps, ServiceStepKeeps DEF allVars
<1> QED BY <1>1, <1>2, PTL DEF PageSpec

(* The servers page, its timers and its losses included, leaves the hub's  *)
(* service what it is: what is proved of the service holds beneath it.     *)
THEOREM PageKeepsService == PageSpec => ServiceSpec
<1>1. PageInit => ServiceInit
  BY DEF PageInit
<1>2. [PageNext]_allVars => [ServiceNext]_serviceVars
  BY PageIsService DEF allVars
<1> QED BY <1>1, <1>2, PTL DEF PageSpec, ServiceSpec

(* No card stands in a group whose roles its server did not have when its  *)
(* snapshot was read, whatever arrived late, failed or was cut short       *)
(* (classifyProbeResult, saveSnapshot, roleGroup).                         *)
THEOREM GroupsAlwaysWereRead == PageSpec => []GroupsWereRead
<1>1. ServiceInv /\ PageInv => GroupsWereRead
  <2> SUFFICES ASSUME ServiceInv, PageInv PROVE GroupsWereRead
    OBVIOUS
  <2>1. RolesAreThoseRead
    BY StoredIs DEF ServiceInv, ServiceTypes, RolesAreThoseRead, TellsRoles, NoVersion
  <2>2. ASSUME NEW k \in ListedKeys
        PROVE  RoleGroup(listed[k].snap) =
                 IF listed[k].snap.version = NoVersion THEN "unconfigured"
                 ELSE GroupOf(RolesAt[listed[k].snap.version])
    <3>1. listed[k].snap \in Stored
      BY DEF PageInv, PageTypes, ListedKeys, Cards
    <3> QED BY <3>1, StoredIs DEF RoleGroup, NoVersion
  <2> QED BY <2>1, <2>2 DEF GroupsWereRead
<1> QED BY <1>1, PageSafe, PTL

(* The card of a server and the drawer opened on it never contradict each  *)
(* other (loadServers, applyDiscoverResult, renderCard, renderOverview).   *)
THEOREM CardAndDrawerAlwaysAgree == PageSpec => []CardAndDrawerAgree
<1>1. PageInv => CardAndDrawerAgree
  <2> SUFFICES ASSUME PageInv, drawer.key \in ListedKeys PROVE CardAndDrawerAgree
    BY DEF CardAndDrawerAgree
  <2> DEFINE row == drawer.row
             card == Card(row)
             view == Overview(row)
  <2>1. row = listed[drawer.key] /\ row \in Cards
    BY DEF PageInv, PageTypes, DrawerIsListed, ListedKeys, Drawers
  <2>2. row.snap \in Stored /\ row.health \in Said /\ row.discovery \in Said
    BY <2>1 DEF Cards
  <2> HIDE DEF row
  <2>3. /\ card.group = RoleGroup(row.snap) /\ card.health = HealthState(row)
        /\ card.discovery = DiscoveryState(row) /\ card.read = row.snap.version
        /\ card.needs = (row.snap = NoSnapshot /\ HealthState(row) = "healthy")
    BY DEF Card
  <2> DEFINE banner == {axis \in {"health", "discovery"} : row[axis] = "failed"}
  <2>4. /\ view.banner = banner /\ view.group = GroupOf(row.snap.roles)
        /\ view.read = row.snap.version
        /\ view.body = IF row.snap # NoSnapshot THEN "topology"
                       ELSE IF banner = {} THEN "no result"
                       ELSE IF row.health = "ok" THEN "ssh healthy" ELSE "never read"
    BY DEF Overview
  <2>5. /\ card.health = "failed" <=> row.health = "failed"
        /\ card.discovery = "failed" <=> row.discovery = "failed"
        /\ card.health = "healthy" <=> row.health = "ok"
    BY <2>2, <2>3 DEF HealthState, DiscoveryState, Said, Verdicts
  <2> HIDE DEF card, view, banner
  <2>6. view.banner = {axis \in {"health", "discovery"} : card[axis] = "failed"}
    BY <2>4, <2>5 DEF banner
  <2>7. view.read = card.read /\ view.group = card.group
    BY <2>2, <2>3, <2>4, StoredIs DEF RoleGroup, GroupOf, Roles
  <2>8. view.body = "topology" <=> row.snap # NoSnapshot
    BY <2>4
  <2>9. row.snap # NoSnapshot <=> card.read # NoVersion
    BY <2>2, <2>3, StoredIs DEF NoVersion
  <2>10. view.body = "ssh healthy" => row.snap = NoSnapshot /\ row.health = "ok"
    BY <2>4
  <2>11. view.body = "topology" <=> ~card.needs /\ card.read # NoVersion
    <3>1. row.snap # NoSnapshot => ~card.needs
      BY <2>3
    <3> QED BY <2>8, <2>9, <3>1
  <2>12. view.body = "ssh healthy" => card.needs
    <3>1. row.snap = NoSnapshot /\ row.health = "ok" => HealthState(row) = "healthy"
      BY DEF HealthState
    <3> QED BY <2>3, <2>10, <3>1
  <2>13. Card(listed[drawer.key]) = card /\ Overview(drawer.row) = view
    BY <2>1 DEF card, view, row
  <2> QED BY <2>6, <2>7, <2>11, <2>12, <2>13 DEF CardAndDrawerAgree
<1> QED BY <1>1, PageSafe, PTL
=============================================================================

-------------------------- MODULE DiscoveryService --------------------------
(***************************************************************************)
(* hub/server/routes.js: the handlers that probe a server through the      *)
(* DiscoveryQueue, the rows they write (servers, snapshots,                *)
(* server_probe_state), deletion of a server, and a restart of the hub.    *)
(*                                                                         *)
(* A key is a server id (AUTOINCREMENT: never used again).  The topology   *)
(* of a server is a version number: an action run on it makes the next     *)
(* one, a full discovery reads the version of the moment its SSH command   *)
(* runs.  Every failure class of an outcome, the host key mismatch         *)
(* included, writes the same columns.                                      *)
(***************************************************************************)
EXTENDS DiscoveryQueue, ProbeOutcome

CONSTANTS
  MaxVersion,   \* bound: the last version of a server's topology
  MaxRestarts,  \* bound: restarts of the hub
  Managed,      \* versions in which the manager is installed
  RolesAt,      \* version -> the roles the server has
  StatusAt      \* version -> what `gre status --json` says about roles

Versions == 1..MaxVersion

ASSUME TasksAssumption  == Tasks = {"full", "health"}
ASSUME BoundsAssumption == MaxVersion \in Nat \ {0} /\ MaxRestarts \in Nat
ASSUME HostAssumption ==
  /\ Managed \subseteq Versions
  /\ RolesAt \in [Versions -> SUBSET Roles] /\ StatusAt \in [Versions -> SUBSET Evidence]
  /\ \A v \in Versions : RolesAt[v] = ExtractRoles(StatusAt[v])
  /\ \A v \in Versions \ Managed : RolesAt[v] = {}

NoVersion  == 0
NoSnapshot == [version |-> NoVersion, roles |-> {}]
NoKey      == "no key"

ASSUME KeyAssumption == NoKey \notin Keys

VARIABLES
  servers,   \* the ids of the servers table
  truth,     \* key -> the version of the topology on the server itself
  got,       \* job -> the version its session read, or NoVersion
  outcome,   \* job -> what its promise was settled with
  snapshots, \* key -> the version and the roles in the snapshots row, or NoSnapshot
  probes,    \* key -> the columns of the server_probe_state row
  acting,    \* caller -> the server its action has changed, or NoKey
  restarts

dbVars      == <<servers, snapshots, probes>>
serviceVars == <<qvars, dbVars, acting, truth, got, outcome, restarts>>

(* Requests, timers and SSH replies are macrotasks: they run only when the *)
(* microtasks, the .finally callback and the callers' continuations among  *)
(* them, are drained.                                                      *)
Drained ==
  /\ \A j \in Jobs : phase[j] # "settled"
  /\ \A c \in Callers : waiting[c] # NoJob => phase[waiting[c]] # "done"

NoRow    == [health |-> "null", discovery |-> "null", legacy |-> "null"]

ServiceInit ==
  /\ QueueInit
  /\ servers   = Keys
  /\ truth     = [k \in Keys |-> 1]
  /\ got       = [j \in Jobs |-> NoVersion]
  /\ outcome   = [j \in Jobs |-> "none"]
  /\ snapshots = [k \in Keys |-> NoSnapshot]
  /\ probes    = [k \in Keys |-> NoRow]
  /\ acting    = [c \in Callers |-> NoKey]
  /\ restarts  = 0

-----------------------------------------------------------------------------
(* writeProbeColumn: INSERT ... ON CONFLICT DO NOTHING fills the legacy    *)
(* column of a new row whatever the kind, then the kind's own column is    *)
(* updated, and a full probe is mirrored into the legacy column.           *)
WriteProbeColumn(k, kind, verdict) ==
  LET inserted == IF probes[k] = NoRow
                  THEN [NoRow EXCEPT !.legacy = verdict] ELSE probes[k]
  IN  probes' = [probes EXCEPT ![k] =
        IF kind = "health" THEN [inserted EXCEPT !.health = verdict]
        ELSE [inserted EXCEPT !.discovery = verdict, !.legacy = verdict]]

(* saveSnapshot, reached only from a discovery that succeeded.             *)
SaveSnapshot(k, version, roles) ==
  snapshots' = [snapshots EXCEPT ![k] = [version |-> version, roles |-> roles]]

(* The job's session executes its command on the server.                   *)
ReadServer(j) ==
  /\ Drained
  /\ phase[j] = "running" /\ got[j] = NoVersion
  /\ got' = [got EXCEPT ![j] = truth[jobKey[j]]]
  /\ UNCHANGED <<qvars, dbVars, acting, truth, outcome, restarts>>

(* The task's tail, after the await of the SSH call.  The row of a deleted *)
(* server cannot be referenced any more: the first INSERT throws and the   *)
(* promise is rejected.                                                    *)
Replies(j) ==
  IF got[j] = NoVersion THEN Lost
  ELSE IF jobTask[j] = "full" THEN RepliesOf(got[j] \in Managed, StatusAt[got[j]])
  ELSE {NoReply, Complete}

ProbeEnds(j, reply) ==
  LET k == jobKey[j]
      verdict == IF jobTask[j] = "full" THEN DiscoverOutcome(reply) ELSE ProbeHealth(reply)
  IN
  /\ Drained
  /\ Settle(j, k \in servers)
  /\ IF k \in servers
     THEN /\ outcome' = [outcome EXCEPT ![j] = IF reply.hostkey THEN "hostkey" ELSE verdict]
          /\ WriteProbeColumn(k, jobTask[j], verdict)
          /\ IF jobTask[j] = "full" /\ verdict = "ok"
             THEN SaveSnapshot(k, got[j], ParsedRoles(reply)) ELSE UNCHANGED snapshots
     ELSE /\ outcome' = [outcome EXCEPT ![j] = "rejected"]
          /\ UNCHANGED <<snapshots, probes>>
  /\ UNCHANGED <<servers, acting, truth, got, restarts>>

ProbeFinally(j) ==
  /\ Finalize(j)
  /\ UNCHANGED <<dbVars, acting, truth, got, outcome, restarts>>

-----------------------------------------------------------------------------
(* POST /servers/:id/discover and rediscover-unconfigured.                 *)
Discover(c, k) ==
  /\ Drained /\ k \in servers /\ acting[c] = NoKey
  /\ Run(c, k, "full")
  /\ UNCHANGED <<dbVars, acting, truth, got, outcome, restarts>>

(* runHealthProbe: skipped, with no change of state, when isBusy.          *)
HealthProbe(c, k) ==
  /\ Drained /\ k \in servers /\ acting[c] = NoKey
  /\ inFlight[k] = NoJob
  /\ Run(c, k, "health")
  /\ UNCHANGED <<dbVars, acting, truth, got, outcome, restarts>>

(* POST /servers/:id/action: the remote command changes the topology ...   *)
ActOnServer(c, k) ==
  /\ Drained /\ k \in servers /\ waiting[c] = NoJob /\ acting[c] = NoKey
  /\ truth[k] < MaxVersion
  /\ truth'  = [truth EXCEPT ![k] = @ + 1]
  /\ acting' = [acting EXCEPT ![c] = k]
  /\ UNCHANGED <<qvars, dbVars, got, outcome, restarts>>

(* ... and when it has returned the handler refreshes the snapshot, with   *)
(* the row it read at its start: the server may be gone by now.            *)
RefreshAfterAction(c) ==
  /\ Drained /\ acting[c] # NoKey
  /\ Run(c, acting[c], "full")
  /\ acting' = [acting EXCEPT ![c] = NoKey]
  /\ UNCHANGED <<dbVars, truth, got, outcome, restarts>>

(* The caller's continuation.                                              *)
Answer(c) ==
  /\ Return(c)
  /\ UNCHANGED <<dbVars, acting, truth, got, outcome, restarts>>

(* DELETE /servers/:id: both tables cascade.                               *)
DeleteServer(k) ==
  /\ Drained /\ k \in servers
  /\ servers'   = servers \ {k}
  /\ snapshots' = [snapshots EXCEPT ![k] = NoSnapshot]
  /\ probes'    = [probes EXCEPT ![k] = NoRow]
  /\ UNCHANGED <<qvars, acting, truth, got, outcome, restarts>>

(* openDb's carry-over of rows whose discovery columns are still NULL, run *)
(* on every start.                                                         *)
CarryOver(row) ==
  IF row.discovery = "null" THEN [row EXCEPT !.discovery = row.legacy] ELSE row

(* The process ends and starts again: the queue and every handler are      *)
(* gone, the database stays and is migrated.                               *)
Restart ==
  /\ Drained /\ restarts < MaxRestarts
  /\ restarts' = restarts + 1
  /\ phase'    = [j \in Jobs |-> IF j <= created THEN "done" ELSE "none"]
  /\ inFlight' = [k \in Keys |-> NoJob]
  /\ pending'  = << >>
  /\ active'   = 0
  /\ peak'     = 0
  /\ stats'    = [started |-> 0, completed |-> 0, failed |-> 0]
  /\ waiting'  = [c \in Callers |-> NoJob]
  /\ acting'   = [c \in Callers |-> NoKey]
  /\ probes'   = [k \in Keys |-> CarryOver(probes[k])]
  /\ UNCHANGED <<created, jobKey, jobTask, servers, snapshots, truth,
                 got, outcome>>

ServiceNext ==
  \/ \E j \in Jobs : ReadServer(j)
  \/ \E j \in Jobs : \E reply \in Replies(j) : ProbeEnds(j, reply)
  \/ \E j \in Jobs : ProbeFinally(j)
  \/ \E c \in Callers, k \in Keys :
       Discover(c, k) \/ HealthProbe(c, k) \/ ActOnServer(c, k)
  \/ \E c \in Callers : RefreshAfterAction(c) \/ Answer(c)
  \/ \E k \in Keys : DeleteServer(k)
  \/ Restart

ServiceSpec == ServiceInit /\ [][ServiceNext]_serviceVars

-----------------------------------------------------------------------------
(* The stored topology never goes back in time: a session that read the    *)
(* server earlier cannot overwrite what a later session read, whatever the *)
(* order in which their promises settle.  This is what keying every probe  *)
(* on the server id buys.                                                  *)
SnapshotNeverOlder ==
  [][\A k \in servers \cap servers' : snapshots'[k].version >= snapshots[k].version]_serviceVars

(* A recorded discovery failure is cleared only by a discovery that read   *)
(* the server: neither a later health ping nor a restart turns it into a   *)
(* success, and then the stored snapshot is the one that was read.         *)
FailureClearedByDiscovery ==
  [][\A k \in servers \cap servers' :
       probes[k].discovery = "failed" /\ probes'[k].discovery # "failed" =>
         \E j \in Jobs : /\ jobKey[j] = k /\ jobTask[j] = "full"
                         /\ outcome[j] = "none" /\ outcome'[j] = "ok"
                         /\ snapshots'[k].version = got[j]]_serviceVars

(* A snapshot tells the roles the server really had at the version it was  *)
(* read: a `gre status` that failed, timed out or printed no object while  *)
(* the script around it ended well is never stored as "no role", which is  *)
(* what used to move every server to UNCONFIGURED.                         *)
TellsRoles(snapshot) ==
  snapshot.version # NoVersion => snapshot.roles = RolesAt[snapshot.version]

RolesAreThoseRead == \A k \in Keys : TellsRoles(snapshots[k])
=============================================================================

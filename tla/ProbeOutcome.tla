---------------------------- MODULE ProbeOutcome ----------------------------
(***************************************************************************)
(* hub/server/discovery.js: what the answer of a probe's SSH session is    *)
(* taken for.  The script of a full discovery prints sections between      *)
(* markers; the session may end before it, in the middle of it or after    *)
(* it, the manager may be missing, and its `gre status --json` may fail in *)
(* several ways while the script around it ends well.                      *)
(*                                                                         *)
(* A reply is [hostkey, rc0, begun, gre, installed, status, evidence]:     *)
(* another host key was presented; exit code 0; a marker was printed; the  *)
(* whole `gre` section was; the manager is there; how its status came out; *)
(* and what the status object says about roles.                            *)
(***************************************************************************)
EXTENDS Naturals

Roles == {"IRAN", "FOREIGN"}

(* What in a status object speaks for a role, over the schemas in use.     *)
Evidence == {"role iran", "role foreign", "role both", "iran_peers", "nodes", "foreign_ip"}

NoReply == [hostkey |-> FALSE, rc0 |-> FALSE, begun |-> FALSE, gre |-> FALSE,
            installed |-> FALSE, status |-> "none", evidence |-> {}]

Statuses == {"object", "timeout", "failed", "empty", "not an object"}

(* extractRoles.                                                           *)
ExtractRoles(evidence) ==
  {r \in Roles : evidence \cap
     (IF r = "IRAN" THEN {"role iran", "role both", "iran_peers"}
      ELSE {"role foreign", "role both", "nodes", "foreign_ip"}) # {}}

(* parseProbe: status_error of a manager that is there.                    *)
StatusError(reply) ==
  CASE reply.status = "object"  -> "none"
    [] reply.status = "timeout" -> "timeout"
    [] reply.status = "failed"  -> "remote"
    [] OTHER                    -> "malformed"

ParsedRoles(reply) ==
  IF reply.installed /\ reply.status = "object" THEN ExtractRoles(reply.evidence) ELSE {}

(* classifyProbeResult: the error class, "none" for an outcome that is ok. *)
(* The classes of a session that failed before its first marker are told   *)
(* apart by the text of the error only.                                    *)
TransportError(reply) == ~reply.rc0 /\ ~reply.begun

(* Mutant: the error of the status is not looked at.                       *)
ClassifySections(reply) ==
  IF reply.hostkey THEN "hostkey"
  ELSE IF TransportError(reply) THEN "transport"
  ELSE IF ~reply.gre THEN "malformed" ELSE "none"

ClassifyProbeResult(reply) ==
  IF reply.hostkey THEN "hostkey"
  ELSE IF TransportError(reply) THEN "transport"
  ELSE IF ~reply.gre THEN "malformed"
  ELSE IF reply.installed THEN StatusError(reply) ELSE "none"

(* discoverOutcome and probeHealth: the verdict that is stored.            *)
DiscoverOutcome(reply) == IF ClassifyProbeResult(reply) = "none" THEN "ok" ELSE "failed"
ProbeHealth(reply)     == IF ~reply.hostkey /\ reply.rc0 /\ reply.begun THEN "ok" ELSE "failed"

(* What a session that has executed its command on the server can bring    *)
(* back (the script first looks for the manager, then asks it), and what   *)
(* one can bring that has not.                                             *)
Lost     == {NoReply, [NoReply EXCEPT !.hostkey = TRUE]}
Complete == [NoReply EXCEPT !.rc0 = TRUE, !.begun = TRUE, !.gre = TRUE]
CutShort == {NoReply, [NoReply EXCEPT !.begun = TRUE], [Complete EXCEPT !.gre = FALSE]}
Whole(status, rc0, evidence) ==
  [Complete EXCEPT !.installed = TRUE, !.status = status, !.rc0 = rc0,
                   !.evidence = IF status = "object" THEN evidence ELSE {}]
RepliesOf(managed, evidence) ==
  CutShort \cup
  (IF managed THEN {Whole(s, z, evidence) : s \in Statuses, z \in BOOLEAN}
   ELSE {Complete, [Complete EXCEPT !.rc0 = FALSE]})
=============================================================================

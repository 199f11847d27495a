------------------------- MODULE MCDiscoveryService -------------------------
(***************************************************************************)
(* The servers page and the probing service on one server that starts      *)
(* without the manager, and that an action makes an IRAN hub.  What is in  *)
(* play is chosen in the initial state:                                    *)
(*   hub       three probes, actions, a deletion and a restart; no page    *)
(*   probes    the page and two probes                                     *)
(*   the rest  the page, one probe, and one kind of disturbance            *)
(***************************************************************************)
EXTENDS ServersPage, TLC

MCManaged  == {2}
MCRolesAt  == [v \in 1..MaxVersion |-> IF v = 2 THEN {"IRAN"} ELSE {}]
MCStatusAt == [v \in 1..MaxVersion |-> IF v = 2 THEN {"role iran", "iran_peers"} ELSE {}]

VARIABLE play
MCvars == <<allVars, play>>

MCInit ==
  /\ PageInit
  /\ play \in {"hub", "probes", "actions", "deletion", "network", "restart", "session"}
  /\ \A j \in Jobs : jobTask[j] = "full"

MCNext ==
  /\ PageNext /\ UNCHANGED play
  /\ play = "hub" => ~signedIn'
  /\ play # "hub" => created' <= IF play = "probes" THEN 2 ELSE 1
  /\ play \notin {"hub", "actions"} => truth' = truth
  /\ play \notin {"hub", "deletion"} => servers' = servers
  /\ play # "network" => lost' = 0
  /\ play \notin {"hub", "restart"} => restarts' = 0
  /\ play # "session" => signOuts' = 0

MCSpec == MCInit /\ [][MCNext]_MCvars /\ WF_MCvars(PageRuns /\ UNCHANGED play)
=============================================================================

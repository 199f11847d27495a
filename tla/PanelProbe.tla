----------------------------- MODULE PanelProbe -----------------------------
(***************************************************************************)
(* What the hub knows of a 3x-ui panel: the columns client_model and       *)
(* last_probe_error of xui_panels, written by probePanel and by the        *)
(* request that adds a panel (hub/server/routes.js), from the answers of   *)
(* the panel to two questions asked together (resolveCapabilities and      *)
(* probeExtension of hub/server/xui.js).                                   *)
(*                                                                         *)
(* The panel is upgraded, downgraded and out of order as it likes.         *)
(***************************************************************************)
EXTENDS Naturals

CONSTANTS
  Panels,
  MaxProbes,   \* bound: probes
  MaxUpgrades  \* bound: changes of the software of a panel

ASSUME ProbeAssumption == MaxProbes \in Nat /\ MaxUpgrades \in Nat

VARIABLES
  served,    \* panel -> the client model of its software
  had,       \* history: panel -> the client models its software has had
  stored,    \* panel -> its row
  probes,    \* probe -> its panel, what it is for, and the answers so far
  probed, upgrades

probeVars == <<served, had, stored, probes, probed, upgrades>>

Models == {"embedded", "first_class"}
NoRow  == [saved |-> FALSE, model |-> "unknown", error |-> FALSE]
NoProbe == [panel |-> 0, for |-> "none", hosts |-> "none", clients |-> "none"]

(* A row from before the columns existed has no model.                     *)
ProbeInit ==
  /\ served \in [Panels -> Models]
  /\ had = [p \in Panels |-> {served[p]}]
  /\ stored \in [Panels -> {NoRow, [NoRow EXCEPT !.saved = TRUE]}]
  /\ probes = [n \in 1..MaxProbes |-> NoProbe]
  /\ probed = 0 /\ upgrades = 0

-----------------------------------------------------------------------------
Upgrade(p) ==
  /\ upgrades < MaxUpgrades /\ upgrades' = upgrades + 1
  /\ \E model \in Models \ {served[p]} :
       /\ served' = [served EXCEPT ![p] = model]
       /\ had' = [had EXCEPT ![p] = @ \cup {model}]
  /\ UNCHANGED <<stored, probes, probed>>

(* Both endpoints are asked at once, by a client of the panel of its own:  *)
(* for the list of panels when the last probe is ten minutes old, for the  *)
(* button, and before a panel is added.                                    *)
StartProbe(p, for) ==
  /\ probed < MaxProbes /\ probed' = probed + 1
  /\ probes' = [probes EXCEPT ![probed + 1] =
       [panel |-> p, for |-> for, hosts |-> "asked", clients |-> "asked"]]
  /\ UNCHANGED <<served, had, stored, upgrades>>

ProbePanel(p) == stored[p].saved /\ StartProbe(p, "refresh")
AddPanel(p)   == ~stored[p].saved /\ StartProbe(p, "add")

(* The database refuses it while routes use the panel; routes are left out.*)
DeletePanel(p) ==
  /\ stored[p].saved
  /\ stored' = [stored EXCEPT ![p] = NoRow]
  /\ UNCHANGED <<served, had, probes, probed, upgrades>>

(* 404 and 405 are an older panel; 401, 403, 5xx and no answer at all are  *)
(* a broken one.                                                           *)
AnswerHosts(n) ==
  /\ probes[n].hosts = "asked"
  /\ \E answer \in {"there", "missing", "broken"} :
       probes' = [probes EXCEPT ![n].hosts = answer]
  /\ UNCHANGED <<served, had, stored, probed, upgrades>>

AnswerClients(n) ==
  /\ probes[n].clients = "asked"
  /\ \E answer \in {IF served[probes[n].panel] = "first_class" THEN "there" ELSE "missing",
                    "broken"} :
       probes' = [probes EXCEPT ![n].clients = answer]
  /\ UNCHANGED <<served, had, stored, probed, upgrades>>

-----------------------------------------------------------------------------
(* Promise.all rejects with the first answer that is an error.  Mutant:    *)
(* an endpoint that does not answer well is not there.                     *)
RejectedNever(n) == FALSE
Rejected(n)      == "broken" \in {probes[n].hosts, probes[n].clients}
Answered(n)      == {probes[n].hosts, probes[n].clients} \cap {"asked", "none"} = {}

ModelOf(n) == IF probes[n].clients = "there" THEN "first_class" ELSE "embedded"

Ended(n) == probes' = [probes EXCEPT ![n] = NoProbe]

(* A failed probe records that it failed and leaves the model as it was.   *)
(* The write may come long after the answers (detectPanelVersion), and     *)
(* changes nothing when the row is gone.                                   *)
EndRefresh(n) ==
  LET p == probes[n].panel IN
  /\ probes[n].for = "refresh" /\ Ended(n)
  /\ \/ /\ Rejected(n)
        /\ stored' = [stored EXCEPT ![p].error = @ \/ stored[p].saved]
     \/ /\ Answered(n) /\ ~Rejected(n)
        /\ stored' = IF ~stored[p].saved THEN stored
                     ELSE [stored EXCEPT ![p].model = ModelOf(n), ![p].error = FALSE]
  /\ UNCHANGED <<served, had, probed, upgrades>>

(* Nothing is added after a failed probe; the name of a panel is unique.   *)
EndAdd(n) ==
  LET p == probes[n].panel IN
  /\ probes[n].for = "add" /\ Ended(n)
  /\ \/ Rejected(n) /\ UNCHANGED stored
     \/ /\ Answered(n) /\ ~Rejected(n)
        /\ stored' = IF stored[p].saved THEN stored
                     ELSE [stored EXCEPT ![p] = [saved |-> TRUE, model |-> ModelOf(n), error |-> FALSE]]
  /\ UNCHANGED <<served, had, probed, upgrades>>

ProbeNext ==
  \/ \E p \in Panels : Upgrade(p) \/ ProbePanel(p) \/ AddPanel(p) \/ DeletePanel(p)
  \/ \E n \in 1..MaxProbes : AnswerHosts(n) \/ AnswerClients(n)
                          \/ EndRefresh(n) \/ EndAdd(n)

ProbeSpec == ProbeInit /\ [][ProbeNext]_probeVars

-----------------------------------------------------------------------------
(* A panel that is out of order is never taken for one of the older kind:  *)
(* the client model that the hub has stored, and goes by whenever it lists *)
(* clients, is one that the panel has had (probeExtension, probePanel).    *)
StoredModelWasServed ==
  \A p \in Panels : stored[p].model # "unknown" => stored[p].model \in had[p]
=============================================================================

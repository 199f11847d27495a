--------------------------- MODULE MCPanelClients ---------------------------
(* Two routes and one client they may share, on one panel, and a second    *)
(* client, of the people's, that routes can be given instead, from the     *)
(* start or by an edit.  While a route has to do with the second one, the  *)
(* requests do not overlap, and people's steps and runs are three at most. *)
EXTENDS PanelClients, TLC

CONSTANTS r1, r2, e1, e2

MCRoutes == {r1, r2}
MCEmails == {e1, e2}
RouteSymmetry == Permutations(MCRoutes)

SecondClientUsed == \E r \in Routes : Email(r) = e2

MCInit == Init /\ clients[e2].exists
MCNext ==
  /\ Next
  /\ hands' # hands => clients'[e2] = clients[e2]
  /\ SecondClientUsed' => serial /\ hands' + started' <= 3
MCSpec == MCInit /\ [][MCNext]_vars
=============================================================================

-------------------------- MODULE MCKeyProvisioning --------------------------
(* Model values for TLC: two servers of the hub on one host, the comment of  *)
(* the first contained in that of the second (gre-hub-1 and gre-hub-10).     *)
EXTENDS KeyProvisioning, TLC

CONSTANTS s1, s10, h1, p1, p2

TwoServers   == {s1, s10}
OneHost      == {h1}
OnOneHost    == [s \in TwoServers |-> h1]
FirstWithin  == (s1 :> {s1, s10}) @@ (s10 :> {s10})
TwoPasswords == {p1, p2}
=============================================================================

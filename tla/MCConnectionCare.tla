-------------------------- MODULE MCConnectionCare --------------------------
(***************************************************************************)
(* Two ends whose paths carry 4 and 3 units with 1 of encapsulation, over  *)
(* egress interfaces of 4; one fault the quick check sees and `gre repair` *)
(* mends, one that only the full check sees and nothing mends.  The summary*)
(* sees two rows.  A third request is made in behaviours with one fault at *)
(* most whose requests are all about the MTU: there a success leaves what  *)
(* the summary sees.                                                       *)
(***************************************************************************)
EXTENDS ConnectionCare

MCMtus == {2, 3}
MCPath == [iran |-> 4, foreign |-> 3]
MCNic  == [iran |-> 4, foreign |-> 4]
MCDeep == {"route_missing"}
MCCodes == {"interface_down", "route_missing"}
MCHandled == {"interface_down"}

MCNext == Next /\ (started' > 2 => faults' <= 1 /\ \A i \in Ops : IsMtu(i)')
MCSpec == Init /\ [][MCNext]_vars
=============================================================================

--------------------------- MODULE MCHostManager ---------------------------
(***************************************************************************)
(* HostManager with two names, two subnets and two ports.  The requests    *)
(* hold a change of ports alone, of the clamp, of the subnet and of the    *)
(* endpoints, and configurations that clash in a port or in the subnet.    *)
(***************************************************************************)
EXTENDS HostManager

CONSTANTS a, b, n1, n2, l1, l2, p, q

C(net, link, ports, mss) == [net |-> net, link |-> link, ports |-> ports, mss |-> mss]

MCRequested == {C(n1, l1, {p}, TRUE), C(n1, l1, {q}, FALSE), C(n2, l2, {q}, TRUE)}

=============================================================================

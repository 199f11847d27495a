-------------------------- MODULE MCRouteLifecycle --------------------------
(* Model values for TLC.  Routes, ports and handlers are interchangeable;  *)
(* runs and names are numbers because the code orders them.                *)
EXTENDS RouteLifecycle, TLC

CONSTANTS r1, r2, p1, p2, h1, h2

TwoRoutes == {r1, r2}
TwoPorts  == {p1, p2}
TwoHandlers == {h1, h2}
OneRoute == {r1}
OneHandler == {h1}
Symmetry == Permutations(TwoRoutes) \cup Permutations(TwoPorts)
            \cup Permutations(TwoHandlers)
=============================================================================

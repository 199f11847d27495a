----------------------------- MODULE PortLedger -----------------------------
(***************************************************************************)
(* What the port registry promises, without rows, registry, requests or    *)
(* runs: a ledger of ports in which a route takes a port that no other     *)
(* route has, in exchange for the one it had, or gives its port back.      *)
(***************************************************************************)
CONSTANTS Routes, Ports, None

VARIABLE held  \* route -> the port that is its own, or None

LedgerInit == held = [r \in Routes |-> None]

Take(r, p) ==
  /\ \A q \in Routes \ {r} : held[q] # p
  /\ held' = [held EXCEPT ![r] = p]

GiveBack(r) == held' = [held EXCEPT ![r] = None]

LedgerNext == \E r \in Routes : GiveBack(r) \/ \E p \in Ports : Take(r, p)
LedgerSpec == LedgerInit /\ [][LedgerNext]_held
=============================================================================

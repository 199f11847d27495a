----------------------------- MODULE ProbeSlots -----------------------------
(***************************************************************************)
(* What the discovery queue promises, without jobs, promises or counters:  *)
(* a key enters, gets one of Concurrency sessions at once or later, and    *)
(* leaves.  No key holds two sessions because a key enters only when it is *)
(* out.                                                                    *)
(***************************************************************************)
EXTENDS Naturals, FiniteSets

CONSTANTS Keys, Concurrency

VARIABLES
  inside,  \* keys that have been requested and not answered yet
  open     \* keys with an SSH session

slotVars == <<inside, open>>

SlotsInit == inside = {} /\ open = {}

Enter(k) ==
  /\ k \notin inside
  /\ inside' = inside \cup {k}
  /\ open' = IF Cardinality(open) < Concurrency THEN open \cup {k} ELSE open

(* The freed session goes to a key that waits for one, if there is any.    *)
Leave(k) ==
  /\ k \in open
  /\ inside' = inside \ {k}
  /\ IF inside = open THEN open' = open \ {k}
     ELSE \E w \in inside \ open : open' = (open \ {k}) \cup {w}

SlotsNext == \E k \in Keys : Enter(k) \/ Leave(k)
SlotsSpec == SlotsInit /\ [][SlotsNext]_slotVars
=============================================================================

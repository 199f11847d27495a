------------------------------ MODULE MtuAdvice ------------------------------
(***************************************************************************)
(* hub/server/connection-mtu.js: what the answers of the two ends of a     *)
(* connection to `gre mtu diagnose` say together, and what the Hub may do  *)
(* on that evidence.  Sizes are numbers of any unit.                       *)
(***************************************************************************)
EXTENDS Naturals, FiniteSets

CONSTANTS
  MinLegal,   \* the smallest inner MTU
  Margin,     \* taken off a capacity nobody measured
  Tolerance,  \* paths further apart than this disagree
  None        \* no value

Side == {"iran", "foreign"}

ASSUME AdviceAssumption == /\ {MinLegal, Margin, Tolerance} \subseteq Nat
                           /\ None \notin Nat

\* The sides with one of a set still to be served: IRAN goes first.
First(left) == IF "iran" \in left THEN "iran" ELSE "foreign"

-----------------------------------------------------------------------------
(* One side.  An answer carries the MTU of the egress interface and of the *)
(* tunnel, the overhead, and for each of two probes the largest size that  *)
(* passed, or None when the probe did not pass.                            *)

Unread == [ok |-> FALSE, nic |-> None, gre |-> None, overhead |-> None,
           outer |-> None, inner |-> None]

\* The overhead reported, or the difference of the two MTUs.
OverheadOf(a) ==
  IF a.overhead # None THEN a.overhead
  ELSE IF a.nic # None /\ a.gre # None /\ a.nic > a.gre THEN a.nic - a.gre
  ELSE None

\* The strongest evidence of what the path carries.
SourceOf(a) ==
  IF a.outer # None THEN "outer_probe"
  ELSE IF a.inner # None /\ OverheadOf(a) # None THEN "inner_probe"
  ELSE IF a.nic # None THEN "configured_nic" ELSE "none"

CapacityOf(a) ==
  CASE SourceOf(a) = "outer_probe"    -> a.outer
    [] SourceOf(a) = "inner_probe"    -> a.inner + OverheadOf(a)
    [] SourceOf(a) = "configured_nic" -> a.nic
    [] OTHER                          -> None

NormalizeSide(a) ==
  [ok |-> a.ok, gre |-> a.gre, overhead |-> OverheadOf(a),
   source |-> SourceOf(a), capacity |-> CapacityOf(a),
   measured |-> SourceOf(a) \in {"outer_probe", "inner_probe"},
   reach |-> IF a.inner # None THEN "PASS" ELSE "UNKNOWN"]

-----------------------------------------------------------------------------
(* Both sides: v is a function from Side to views.                         *)

Capped(v) == {s \in Side : v[s].ok /\ v[s].capacity # None}

\* Mutant: the path of IRAN decides whenever it is known.
LowerIsIran(v) == First(Capped(v))

\* The smaller path, IRAN when they are equal.
Lower(v) ==
  IF Capped(v) = Side
  THEN IF v["foreign"].capacity < v["iran"].capacity THEN "foreign" ELSE "iran"
  ELSE First(Capped(v))

Asymmetric(v) ==
  /\ Capped(v) = Side
  /\ LET a == v["iran"].capacity   b == v["foreign"].capacity
     IN  a > b + Tolerance \/ b > a + Tolerance

Confidence(v) ==
  LET measured == {s \in Side : v[s].ok /\ v[s].measured}
  IN  IF \E s \in Side : ~v[s].ok THEN "unknown"
      ELSE IF measured = Side /\ ~Asymmetric(v) THEN "high"
      ELSE IF measured # {} THEN "medium" ELSE "low"

\* The overhead of the side the tunnel is sized by, or of the other one.
SizingOverhead(v) ==
  LET by == Lower(v)
      withOverhead == {s \in Side : v[s].ok /\ v[s].overhead # None}
  IN  IF Capped(v) # {} /\ v[by].overhead # None THEN v[by].overhead
      ELSE IF withOverhead = {} THEN None
      ELSE v[First(withOverhead)].overhead

Recommend(v) ==
  LET underlay == IF Capped(v) = {} THEN None ELSE v[Lower(v)].capacity
      overhead == SizingOverhead(v)
      margin   == IF Capped(v) # {} /\ v[Lower(v)].source = "configured_nic"
                  THEN Margin ELSE 0
      sized    == /\ \A s \in Side : v[s].ok
                  /\ underlay # None /\ overhead # None
                  /\ underlay >= margin + overhead + MinLegal
      value    == IF sized THEN underlay - margin - overhead ELSE None
  IN  [underlay |-> underlay, overhead |-> overhead, value |-> value,
       confidence |-> Confidence(v),
       safe |-> value # None /\ Confidence(v) \in {"high", "medium"}]

\* The limits a requested value is held to, whatever was recommended.
TargetFits(rec, target) ==
  /\ target >= MinLegal
  /\ (rec.underlay # None /\ rec.overhead # None)
       => target + rec.overhead <= rec.underlay

\* The read-only plan the operator confirms.
PlanMtuChange(v, target) ==
  LET rec == Recommend(v)
  IN  [safe |-> rec.safe,
       canApply |-> rec.safe /\ TargetFits(rec, target),
       current |-> [s \in Side |-> v[s].gre]]

-----------------------------------------------------------------------------
(* Verification.                                                           *)

\* Every side asked for reads back as the value it must have.
VerifyValues(answers, want, only) ==
  \A s \in only : answers[s].ok /\ want[s] # None /\ answers[s].gre = want[s]

\* Reachability states before and after a change: a tunnel that was reachable
\* and can no longer show it has not survived.
Regressed(before, after) ==
  \E s \in Side : after[s] = "FAIL" \/ (after[s] # "PASS" /\ before[s] = "PASS")
=============================================================================

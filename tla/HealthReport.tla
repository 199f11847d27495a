---------------------------- MODULE HealthReport ----------------------------
(***************************************************************************)
(* hub/server/connection-health.js: the report of `gre health-check` at    *)
(* each end of a connection, and the one verdict made of both.             *)
(***************************************************************************)
EXTENDS Naturals, FiniteSets

Severities == <<"info", "warning", "critical">>
Rank(severity) == CHOOSE n \in DOMAIN Severities : Severities[n] = severity
Verdicts == {"HEALTHY", "DEGRADED", "BROKEN", "UNKNOWN"}

\* The code both the CLI and the Hub use for what could not be looked at.
NoEvidence == "INSUFFICIENT_EVIDENCE"

\* A side that did not answer has no verdict and no findings.
Unanswered == [ok |-> FALSE, status |-> "UNKNOWN", complete |-> FALSE,
               findings |-> {}]

Reported(r, code) == \E f \in r.findings : f.code = code

\* One finding per code, as severe as its most severe report; the sides that
\* report it, and those of them that can repair it.
MergedCode(reports, code) ==
  LET said == {s \in DOMAIN reports : Reported(reports[s], code)}
      of(s) == {f \in reports[s].findings : f.code = code}
      all   == UNION {of(s) : s \in said}
      blind == IF code = NoEvidence
               THEN {s \in DOMAIN reports : ~reports[s].ok} ELSE {}
  IN  [code |-> code,
       severity |-> IF all = {} THEN "info"
                    ELSE (CHOOSE f \in all : \A g \in all :
                            Rank(f.severity) >= Rank(g.severity)).severity,
       safe |-> \E f \in all : f.safe,
       sides |-> said \cup blind,
       repairableOn |-> {s \in said : \E f \in of(s) : f.safe}]

\* Mutant: only the sides that answered count.
MergeAnswers(reports) ==
  LET readable == {s \in DOMAIN reports : reports[s].ok}
      codes == {f.code : f \in UNION {reports[s].findings : s \in readable}}
  IN  [status |-> IF codes = {} THEN "HEALTHY" ELSE "DEGRADED",
       complete |-> TRUE, readable |-> readable,
       findings |-> {MergedCode(reports, c) : c \in codes}]

\* A side nobody could read is a finding too.
MergeFindings(reports) ==
  LET readable == {s \in DOMAIN reports : reports[s].ok}
      codes == {f.code : f \in UNION {reports[s].findings : s \in DOMAIN reports}}
               \cup (IF readable = DOMAIN reports THEN {} ELSE {NoEvidence})
      findings == {MergedCode(reports, c) : c \in codes}
  IN  [status |->
         IF \/ \E s \in readable : reports[s].status = "BROKEN"
            \/ \E f \in findings : f.severity = "critical"
         THEN "BROKEN"
         ELSE IF \/ \E s \in readable : reports[s].status = "DEGRADED"
                 \/ findings # {}
         THEN "DEGRADED" ELSE "HEALTHY",
       complete |-> \A s \in DOMAIN reports : reports[s].ok /\ reports[s].complete,
       readable |-> readable,
       findings |-> findings]
=============================================================================

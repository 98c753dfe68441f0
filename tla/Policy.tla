------------------------------- MODULE Policy -------------------------------
(***************************************************************************)
(* The judging half of run_analysis: once the evidence of a capture is     *)
(* complete, the policy pack is evaluated on it at the pack's clock and    *)
(* the findings and checks are scored.                                     *)
(***************************************************************************)
EXTENDS RuleEngine, Posture

CONSTANTS
    FlowShapes, SessionShapes, HandshakeShapes, CertificateShapes, \* possible evidence
    Assets,        \* the inventories a score request may come with
    AnalysisDay,
    MaxEvidence,   \* bound on the records of a capture
    MaxFindings, MaxChecks  \* the limits of a ScoreRequest

VARIABLES
    phase,       \* "evidence", "evaluated", "scored" or "failed"
    evidence,    \* what the normalisers produced
    captureDay,  \* when the capture starts; 0 if that is not known
    evaluation,  \* findings and checks
    posture

vars == <<phase, evidence, captureDay, evaluation, posture>>

NoEvidence == [flows |-> {}, sessions |-> {}, handshakes |-> {}, certificates |-> {}]
NoEvaluation == [findings |-> {}, checks |-> {}]
NoPosture == [assessment_state |-> "unset"]

Shapes ==
  [flows |-> FlowShapes, sessions |-> SessionShapes, handshakes |-> HandshakeShapes,
   certificates |-> CertificateShapes]
Kinds == DOMAIN Shapes

\* What the evidence models and the pack schema enforce: states, severities and asset
\* labels are members of their enumerations.
ASSUME EvidenceAssumption ==
  /\ IsFiniteSet(Rules)
  /\ \A rule \in Rules : {rule.negative, rule.indeterminate} \subseteq DOMAIN SEVERITY_POINTS
  /\ \A kind \in Kinds : \A r \in Shapes[kind] : \A p \in DOMAIN r.fields :
       Last(p) = StateName => r.fields[p] \subseteq EvidenceState
  /\ \A h \in HandshakeShapes : h.secrecyState \in EvidenceState
  /\ \A c \in CertificateShapes : c.order \in Nat
  /\ \A assets \in Assets : \A e \in DOMAIN assets :
       /\ assets[e].exposure \in DOMAIN EXPOSURE_POINTS
       /\ assets[e].criticality \in DOMAIN CRITICALITY_POINTS
       /\ assets[e].blast_radius \in DOMAIN BLAST_RADIUS_POINTS

RecordCount(ev) == MapThenSumSet(LAMBDA k : Cardinality(ev[k]), Kinds)

Init ==
  /\ phase = "evidence" /\ evidence = NoEvidence
  /\ captureDay \in {0, AnalysisDay, 1}
  /\ evaluation = NoEvaluation /\ posture = NoPosture

\* A normaliser produces a record; only a certificate may share its connection.
AddRecord(kind, r) ==
  /\ phase = "evidence" /\ RecordCount(evidence) < MaxEvidence
  /\ \A q \in evidence[kind] : q.key # r.key
  /\ evidence' = [evidence EXCEPT ![kind] = @ \cup {r}]
  /\ UNCHANGED <<phase, captureDay, evaluation, posture>>

resolve_evaluation_clock == IF Clock = "analysis_time" THEN AnalysisDay ELSE captureDay

Evaluate ==
  /\ phase = "evidence"
  /\ resolve_evaluation_clock # 0
  /\ evaluation' = evaluate_policy_batch(evidence, resolve_evaluation_clock)
  /\ phase' = "evaluated"
  /\ UNCHANGED <<evidence, captureDay, posture>>

\* A historical pack cannot be evaluated on a capture of unknown date.
ClockUnavailable ==
  /\ phase = "evidence"
  /\ resolve_evaluation_clock = 0
  /\ phase' = "failed"
  /\ UNCHANGED <<evidence, captureDay, evaluation, posture>>

WithinLimits ==
  Cardinality(evaluation.findings) <= MaxFindings /\ Cardinality(evaluation.checks) <= MaxChecks

score_findings(assets) ==
  /\ phase = "evaluated" /\ WithinLimits
  /\ posture' = build_posture(evaluation.findings, evaluation.checks, assets)
  /\ phase' = "scored"
  /\ UNCHANGED <<evidence, captureDay, evaluation>>

\* A ScoreRequest over its limits is refused and the analysis fails with it.
RequestRefused ==
  /\ phase = "evaluated" /\ ~WithinLimits
  /\ phase' = "failed"
  /\ UNCHANGED <<evidence, captureDay, evaluation, posture>>

Next ==
  \/ \E kind \in Kinds : \E r \in Shapes[kind] : AddRecord(kind, r)
  \/ Evaluate \/ ClockUnavailable
  \/ \E assets \in Assets : score_findings(assets)
  \/ RequestRefused

Spec == Init /\ [][Next]_vars

-----------------------------------------------------------------------------
(* Properties.                                                             *)

Evaluated == phase \in {"evaluated", "scored"}
Today == resolve_evaluation_clock
Derived(rule) == \E p \in rule.where \cup rule.assertion : Head(p.path) = "derived"

\* The ways one fact of a context may be lost: the value, or its usability.
Lost(ctx) ==
  {[ctx EXCEPT ![p] = Missing] : p \in {q \in DOMAIN ctx : Head(q) # "derived"}}
  \cup {[ctx EXCEPT ![p] = {s}] :
          p \in {q \in DOMAIN ctx : Last(q) = StateName}, s \in UNUSABLE_STATES}

\* Losing a fact never turns a pass into a negative finding, nor a negative finding
\* into a pass (_eval_predicate, _evaluate_rule_with_coverage).  Rules over derived
\* facts are left out: transport_tls_established is false when nothing is known.
LossNeverFlipsAVerdict ==
  phase = "evaluated" =>
    \A j \in Judgements(evidence, Today) : ~Derived(j.rule) =>
      LET before == evaluate_rule(j.rule, j.ctx, Today).result
      IN  before \in {"pass", "negative"} =>
            \A ctx \in Lost(j.ctx) :
              LET after == evaluate_rule(j.rule, ctx, Today).result
              IN  after \in {"pass", "negative"} => after = before

\* The predicates that kept a rule from deciding.
Deciding(j) ==
  IF eval_predicates(j.rule.where, j.ctx) = "unusable" THEN j.rule.where ELSE j.rule.assertion

Checked(f) == {c \in evaluation.checks : c.code = f.code /\ c.key = f.key}

\* Findings and checks of one evaluation agree: every finding has one check, "fail"
\* for a negative one and never "pass" for any; a pass has no finding; and "not
\* observable" is said only when nothing worse than that kept the rule from deciding.
ChecksAgreeWithFindings ==
  Evaluated =>
    /\ \A f \in evaluation.findings :
         /\ Cardinality(Checked(f)) = 1
         /\ \A c \in Checked(f) : /\ (c.outcome = "fail") = (f.outcome = "negative")
                                  /\ c.outcome # "pass" /\ c.endpoint = f.endpoint
    /\ \A c \in evaluation.checks : c.outcome = "fail" =>
         \E f \in evaluation.findings : f.code = c.code /\ f.key = c.key
    /\ \A j \in Judgements(evidence, Today), c \in evaluation.checks :
         c.code = j.rule.id /\ c.key = j.record.key /\ c.outcome = "not_observable" =>
           UnusableStates(Deciding(j), j.ctx)
             \cap {"incomplete", "conflicting", "indeterminate"} = {}

\* The headline (_assessment_state, _risk_score): a complete assessment has no open
\* question and no indeterminate finding; a risk score of 0 means that every applicable
\* check passed, and no score that nothing was found and not all is known to be well.
HeadlineIsHonest ==
  phase = "scored" =>
    LET clean == \A c \in evaluation.checks : c.outcome = "pass"
    IN  /\ posture.assessment_state = "complete" =>
             /\ \A f \in evaluation.findings : f.outcome = "negative"
             /\ \A c \in evaluation.checks : c.outcome \in {"pass", "fail"}
        /\ posture.risk_score = {0} => clean /\ evaluation.checks # {}
        /\ posture.risk_score = {} => evaluation.findings = {} /\ ~(clean /\ evaluation.checks # {})
        /\ posture.coverage.overall["applicable"] = Cardinality(evaluation.checks)

\* The four tables that aggregate_coverage fills side by side tell one story, counter by
\* counter: the protocols add up to the whole and so do the categories, every protocol
\* has its row of cells and no other does, and the cells of a row add up to the
\* protocol's own count.  No table drops a check, counts one twice or files it elsewhere.
BreakdownsAddUp ==
  phase = "scored" =>
    LET matrix == posture.coverage
        sum(table, n) == SumFunction([k \in DOMAIN table |-> table[k][n]])
    IN  /\ DOMAIN matrix.by_cell = DOMAIN matrix.by_protocol
        /\ \A n \in Counters :
             /\ sum(matrix.by_protocol, n) = matrix.overall[n]
             /\ sum(matrix.by_category, n) = matrix.overall[n]
             /\ \A p \in DOMAIN matrix.by_cell :
                  sum(matrix.by_cell[p], n) = matrix.by_protocol[p][n]

\* Deduplication keeps every finding in exactly one cluster, never lets indeterminate
\* findings of other connections weaken or soften a negative one, and keeps every
\* score between the severity points and 100.
ClustersKeepTheWorst ==
  phase = "scored" =>
    LET clusters == {s.cluster : s \in posture.scored}
    IN  /\ \A f \in evaluation.findings : Cardinality({c \in clusters : f \in c.members}) = 1
        /\ \A c \in clusters :
             /\ c.members \subseteq evaluation.findings
             /\ c.unique_occurrences = c.recurrence_count
             /\ (c.outcome = "negative") = \E f \in c.members : f.outcome = "negative"
             /\ c.outcome = "negative" =>
                  /\ \E f \in c.members : f.outcome = "negative" /\ f.basis_state = c.basis_state
                  /\ \E f \in c.members : f.outcome = "negative" /\ f.severity = c.severity
        /\ \A s \in posture.scored :
             s.score \in SEVERITY_POINTS[s.cluster.severity]..100

=============================================================================

------------------------------ MODULE Posture -------------------------------
(***************************************************************************)
(* score_findings: findings of one code at one endpoint become a cluster,  *)
(* clusters are scored, checks are counted, and both make the headline of  *)
(* the report.  Every finding of an analysis has the same profile and pack.*)
(* Clusters are ordered by a key that ends in their identity: a set.       *)
(***************************************************************************)
EXTENDS EvidenceStates, FiniteSets, FiniteSetsExt

SEVERITY_POINTS == [high |-> 50, medium |-> 30, low |-> 15, informational |-> 0]
CONFIDENCE_POINTS ==
  [verified |-> 20, observed |-> 16, inferred |-> 12, incomplete |-> 6, conflicting |-> 3,
   indeterminate |-> 2, not_observable |-> 0]
EXPOSURE_POINTS == [public |-> 10, partner |-> 8, internal |-> 5, isolated |-> 2, unknown |-> 4]
CRITICALITY_POINTS == [critical |-> 5, high |-> 4, medium |-> 3, low |-> 1, unknown |-> 2]
BLAST_RADIUS_POINTS ==
  [organization |-> 5, multi_asset |-> 3, single_endpoint |-> 1, unknown |-> 1]

NoAsset == [exposure |-> "unknown", criticality |-> "unknown", blast_radius |-> "unknown"]

-----------------------------------------------------------------------------
(* Clusters.                                                               *)

group_key(f) == <<f.code, f.endpoint>>

occurrence_key(f) == <<f.target, f.key>>

\* Mutant: every member weighs, the indeterminate ones too.
AllMembers(members) == members

\* Severity and basis come from the negative members, if there are any.
pick_primary(members) ==
  LET negatives == {f \in members : f.outcome = "negative"}
  IN  IF negatives # {} THEN negatives ELSE members

max_severity(members) ==
  CHOOSE s \in {f.severity : f \in members} :
    \A f \in members : SEVERITY_POINTS[f.severity] <= SEVERITY_POINTS[s]

weakest_basis(members) ==
  CHOOSE s \in {f.basis_state : f \in members} :
    \A f \in members : STATE_RANK[s] <= STATE_RANK[f.basis_state]

cluster_from_group(members) ==
  LET primary == pick_primary(members)
      negative == \E f \in members : f.outcome = "negative"
  IN  [members |-> members,
       group |-> group_key(CHOOSE f \in members : TRUE),
       outcome |-> IF negative THEN "negative" ELSE "indeterminate",
       evaluation_state |-> IF negative THEN "verified" ELSE "indeterminate",
       severity |-> max_severity(primary),
       basis_state |-> weakest_basis(primary),
       recurrence_count |-> Cardinality(members),
       unique_occurrences |-> Cardinality({occurrence_key(f) : f \in members})]

dedup_findings(findings) ==
  {cluster_from_group({f \in findings : group_key(f) = k}) : k \in {group_key(f) : f \in findings}}

-----------------------------------------------------------------------------
(* Scores.                                                                 *)

RECURRENCE_STEP == 2
RECURRENCE_CAP == 10

recurrence_points(n) == Min({RECURRENCE_CAP, RECURRENCE_STEP * (n - 1)})

compute_score(c, asset) ==
  LET total == SEVERITY_POINTS[c.severity] + CONFIDENCE_POINTS[c.basis_state]
               + EXPOSURE_POINTS[asset.exposure] + recurrence_points(c.unique_occurrences)
               + CRITICALITY_POINTS[asset.criticality] + BLAST_RADIUS_POINTS[asset.blast_radius]
  IN  Min({100, total})

-----------------------------------------------------------------------------
(* Coverage.                                                               *)

Outcomes == {"pass", "fail", "unknown", "not_observable"}

Counters == Outcomes \cup {"applicable"}

zero_counts == [n \in Counters |-> 0]

\* One more check of the outcome.
increment(counts, outcome) ==
  [n \in Counters |-> IF n \in {outcome, "applicable"} THEN counts[n] + 1 ELSE counts[n]]

\* dict.get and item assignment.
Entry(table, k, default) == IF k \in DOMAIN table THEN table[k] ELSE default
WithEntry(table, k, v) == [x \in DOMAIN table \cup {k} |-> IF x = k THEN v ELSE table[x]]

\* One more check in the row of its key.
CountIn(table, k, outcome) ==
  WithEntry(table, k, increment(Entry(table, k, zero_counts), outcome))

\* Mutant: every check starts a new row of its protocol.
FreshRow(check, matrix) ==
  [overall |-> increment(matrix.overall, check.outcome),
   by_protocol |-> CountIn(matrix.by_protocol, check.protocol, check.outcome),
   by_category |-> CountIn(matrix.by_category, check.category, check.outcome),
   by_cell |-> WithEntry(matrix.by_cell, check.protocol,
                         CountIn(<< >>, check.category, check.outcome))]

\* One turn of the loop: each check is counted in four places.
CountCheck(check, matrix) ==
  [overall |-> increment(matrix.overall, check.outcome),
   by_protocol |-> CountIn(matrix.by_protocol, check.protocol, check.outcome),
   by_category |-> CountIn(matrix.by_category, check.category, check.outcome),
   by_cell |-> WithEntry(matrix.by_cell, check.protocol,
                         CountIn(Entry(matrix.by_cell, check.protocol, << >>),
                                 check.category, check.outcome))]

EmptyMatrix ==
  [overall |-> zero_counts, by_protocol |-> << >>, by_category |-> << >>, by_cell |-> << >>]

aggregate_coverage(checks) == FoldSet(CountCheck, EmptyMatrix, checks)

\* Mutant: what could not be observed does not limit the assessment.
LimitedByUnknown(counts) ==
  IF counts["applicable"] = 0 THEN "none"
  ELSE IF counts["unknown"] > 0 THEN "limited" ELSE "complete"

assessment_state(counts) ==
  IF counts["applicable"] = 0 THEN "none"
  ELSE IF counts["unknown"] > 0 \/ counts["not_observable"] > 0 THEN "limited" ELSE "complete"

\* The highest score; without findings 0, or nothing if the assessment is not complete.
risk_score(state, scores) ==
  CASE scores # {} -> {Max(scores)}
    [] scores = {} /\ state = "complete" -> {0}
    [] OTHER -> {}

scored_from_cluster(c, asset) == [cluster |-> c, score |-> compute_score(c, asset)]

\* assets maps the endpoints of the inventory to their labels.
build_posture(findings, checks, assets) ==
  LET asset(c) == IF c.group[2] \in DOMAIN assets THEN assets[c.group[2]] ELSE NoAsset
      scored == {scored_from_cluster(c, asset(c)) : c \in dedup_findings(findings)}
      coverage == aggregate_coverage(checks)
      state == assessment_state(coverage.overall)
  IN  [assessment_state |-> state, scored |-> scored, coverage |-> coverage,
       risk_score |-> risk_score(state, {s.score : s \in scored})]

=============================================================================

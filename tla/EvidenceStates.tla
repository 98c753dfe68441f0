--------------------------- MODULE EvidenceStates ---------------------------
(***************************************************************************)
(* The vocabulary every normaliser and policy shares: how far a fact that  *)
(* was read from a capture can be relied on (domain/evidence/run.py).      *)
(***************************************************************************)
EXTENDS Naturals

EvidenceState == {"observed", "verified", "inferred", "incomplete",
                  "conflicting", "not_observable", "indeterminate"}

\* The order in which a finding keeps the weakest of its evidence states.
STATE_RANK ==
  [conflicting |-> 0, incomplete |-> 1, indeterminate |-> 2, not_observable |-> 3,
   inferred |-> 4, observed |-> 5, verified |-> 6]

\* The states a rule may not decide on.
UNUSABLE_STATES == {"incomplete", "conflicting", "not_observable", "indeterminate"}

=============================================================================

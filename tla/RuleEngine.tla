----------------------------- MODULE RuleEngine -----------------------------
(***************************************************************************)
(* evaluate_policy_batch: a pack of rules applied to the evidence of a     *)
(* capture.  Predicates are three-valued; what a rule says of a record is  *)
(* a finding, a coverage check, both or neither.                           *)
(*                                                                         *)
(* A path is the sequence of its parts.  What is at a path is a set: empty *)
(* if nothing is there, else the one value.  A text that rules search for  *)
(* parts of is the set of those parts.  Paths are typed, so the comparisons*)
(* the engine refuses for their types do not occur.  Findings and checks   *)
(* are sorted by keys that tell them apart, so the lists are sets.         *)
(***************************************************************************)
EXTENDS EvidenceStates, SequencesExt

CONSTANTS
    Rules,   \* the rules of the pack
    Roles,   \* role id -> its predicates
    Clock    \* the pack's evaluation clock

Missing == {}
StateName == "evidence_state"

-----------------------------------------------------------------------------
(* What the validators of a pack ask of it; a pack that fails is not loaded.*)

PolicyOperator == {"eq", "not_eq", "in", "not_in", "lt", "lte", "gt", "gte",
                   "contains_any", "contains_none"}
PolicyTarget == {"handshake", "session", "certificate", "flow"}
ALLOWED_ROOTS == PolicyTarget \cup {"derived"}

Predicate(p) ==
  /\ p.operator \in PolicyOperator
  /\ p.path \in Seq(STRING) /\ p.state_path \in Seq(STRING)
  /\ Len(p.path) > 1 /\ Head(p.path) \in ALLOWED_ROOTS
  /\ p.state_path # << >> => Len(p.state_path) > 1 /\ Head(p.state_path) \in ALLOWED_ROOTS

PolicyRule(rule) ==
  /\ rule.target \in PolicyTarget
  /\ rule.fail_outcome \in {"negative", "indeterminate"}
  /\ rule.assertion # {}
  /\ \A p \in rule.where \cup rule.assertion : Predicate(p)
  /\ rule.effective_until # 0 => rule.effective_from < rule.effective_until

PolicyPack ==
  /\ Clock \in {"analysis_time", "capture_start_time"}
  /\ \A r \in DOMAIN Roles : Roles[r] # {} /\ \A p \in Roles[r] : Predicate(p)
  /\ Rules # {} /\ \A rule \in Rules : PolicyRule(rule) /\ rule.roles \subseteq DOMAIN Roles
  /\ \A a, b \in Rules : a.id = b.id => a = b

ASSUME PackIsValid == PolicyPack

-----------------------------------------------------------------------------
(* Predicates.                                                             *)

get_path(ctx, path) == IF path \in DOMAIN ctx THEN ctx[path] ELSE Missing

compare(op, a, v) ==
  CASE op = "eq" -> a = v
    [] op = "not_eq" -> a # v
    [] op = "in" -> a \in v
    [] op = "not_in" -> a \notin v
    [] op = "lt" -> a < v
    [] op = "lte" -> a <= v
    [] op = "gt" -> a > v
    [] op = "gte" -> a >= v
    [] op = "contains_any" -> a \cap v # {}
    [] op = "contains_none" -> a \cap v = {}

\* The state a path stands on: its own, its parent's, its record's, or a default.
state_for_path(ctx, path) ==
  LET near == get_path(ctx, Append(Front(path), StateName))
      root == get_path(ctx, <<Head(path), StateName>>)
  IN  CASE near # Missing -> CHOOSE s \in near : TRUE
        [] near = Missing /\ root # Missing -> CHOOSE s \in root : TRUE
        [] OTHER -> IF Head(path) = "derived" THEN "inferred" ELSE "observed"

\* A missing value is never better than indeterminate.
evidence_state_for_predicate(p, ctx) ==
  LET state == state_for_path(ctx, IF p.state_path = << >> THEN p.path ELSE p.state_path)
  IN  IF get_path(ctx, p.path) = Missing /\ state \in {"observed", "verified", "inferred"}
      THEN "indeterminate" ELSE state

\* Mutant: a value that is not there fails the predicate.
MissingFails(p, ctx) ==
  IF p.state_path # << >> /\ get_path(ctx, p.state_path) \cap UNUSABLE_STATES # {} THEN "unusable"
  ELSE IF \E a \in get_path(ctx, p.path) : compare(p.operator, a, p.value) THEN "pass"
  ELSE "fail"

eval_predicate(p, ctx) ==
  IF \/ p.state_path # << >> /\ get_path(ctx, p.state_path) \cap UNUSABLE_STATES # {}
     \/ get_path(ctx, p.path) = Missing
  THEN "unusable"
  ELSE IF \E a \in get_path(ctx, p.path) : compare(p.operator, a, p.value) THEN "pass"
  ELSE "fail"

\* Failing beats unusable, whatever the order of the predicates.
eval_predicates(ps, ctx) ==
  LET states == {eval_predicate(p, ctx) : p \in ps}
  IN  IF "fail" \in states THEN "fail" ELSE IF "unusable" \in states THEN "unusable" ELSE "pass"

UnusableStates(ps, ctx) ==
  {evidence_state_for_predicate(p, ctx) : p \in {q \in ps : eval_predicate(q, ctx) = "unusable"}}

Weakest(states) == CHOOSE s \in states : \A t \in states : STATE_RANK[s] <= STATE_RANK[t]

\* Mutant: the strongest of the states speaks for all.
StrongestSpeaks(states) ==
  LET s == CHOOSE s \in states : \A t \in states : STATE_RANK[t] <= STATE_RANK[s]
  IN  [outcome |-> IF s = "not_observable" THEN "not_observable" ELSE "unknown", state |-> s]

coverage_from_unusable(states) ==
  [outcome |-> IF Weakest(states) = "not_observable" THEN "not_observable" ELSE "unknown",
   state |-> Weakest(states)]

weakest_or_observed(ps, ctx) ==
  Weakest({evidence_state_for_predicate(p, ctx) : p \in ps})

-----------------------------------------------------------------------------
(* The context of a record: everything known of its connection.            *)

\* Evidence: ev.flows, ev.sessions, ev.handshakes, ev.certificates are sets of
\* records with a uid, a key and fields; at most one of the first three per uid.
OfUid(recs, uid) == {r \in recs : r.uid = uid}
Fields(recs) == UNION {{<<p, r.fields[p]>> : p \in DOMAIN r.fields} : r \in recs}

leaf_certificate(certs) ==
  LET leaves == {c \in certs : c.role = "server" /\ c.chain_index = 0}
  IN  IF leaves = {} THEN {} ELSE {CHOOSE c \in leaves : \A d \in leaves : c.order <= d.order}

AsContext(pairs) == [p \in {q[1] : q \in pairs} |-> (CHOOSE q \in pairs : q[1] = p)[2]]

\* Which role the connection's service has: one and only one must match.
service_role(flow, session) ==
  LET ctx == AsContext(Fields(flow) \cup Fields(session))
      matches == {r \in DOMAIN Roles : eval_predicates(Roles[r], ctx) = "pass"}
  IN  CASE flow = {} \/ session = {} \/ matches = {} -> "unclassified"
        [] OTHER -> IF Cardinality(matches) = 1 THEN CHOOSE r \in matches : TRUE
                    ELSE "indeterminate"

\* Facts derived from several records; forward secrecy is the handshake's own
\* (assess_forward_secrecy).
derived(flow, session, handshake) ==
  LET established ==
        \/ \E h \in handshake : get_path(h.fields, <<"handshake", "established">>) = {TRUE}
        \/ \E s \in session :
             get_path(s.fields, <<"session", "explicit_upgrade", "state">>) = {"tls_established"}
  IN  {<<<<"derived", "service_role">>, {service_role(flow, session)}>>,
       <<<<"derived", "observed_commands">>, {UNION {s.commands : s \in session}}>>,
       <<<<"derived", "transport_tls_established">>, {established}>>}
      \cup {<<<<"derived", "forward_secrecy", "outcome">>, {h.secrecy}>> : h \in handshake}
      \cup {<<<<"derived", "forward_secrecy", StateName>>, {h.secrecyState}>> : h \in handshake}

build_context(ev, target, record) ==
  LET flow == OfUid(ev.flows, record.uid)
      session == OfUid(ev.sessions, record.uid)
      handshake == OfUid(ev.handshakes, record.uid)
      certificate == IF target = "certificate" THEN {record}
                     ELSE leaf_certificate(OfUid(ev.certificates, record.uid))
  IN  AsContext(Fields(flow) \cup Fields(session) \cup Fields(handshake) \cup Fields(certificate)
                \cup derived(flow, session, handshake))

records_for_target(ev, target) ==
  CASE target = "handshake" -> ev.handshakes
    [] target = "session" -> ev.sessions
    [] target = "certificate" -> ev.certificates
    [] OTHER -> ev.flows

-----------------------------------------------------------------------------
(* One rule on one record.                                                 *)

rule_active(rule, day) ==
  rule.effective_from <= day /\ (rule.effective_until = 0 \/ day < rule.effective_until)

NoCheck == [outcome |-> "omitted", state |-> "observed"]
Coverage(result, check) == [result |-> result, check |-> check]

evaluate_rule(rule, ctx, day) ==
  LET role == get_path(ctx, <<"derived", "service_role">>)
      where == eval_predicates(rule.where, ctx)
      assertion == eval_predicates(rule.assertion, ctx)
      seen(outcome) == [outcome |-> outcome, state |-> weakest_or_observed(rule.assertion, ctx)]
  IN  CASE \/ ~rule_active(rule, day)
           \/ rule.roles # {} /\ role \cap rule.roles = {}
           \/ where = "fail" -> Coverage("not_applicable", NoCheck)
        [] OTHER ->
             IF where = "unusable"
             THEN Coverage("not_applicable", coverage_from_unusable(UnusableStates(rule.where, ctx)))
             ELSE IF assertion = "pass" THEN Coverage("pass", seen("pass"))
             ELSE IF assertion = "unusable"
             THEN Coverage("indeterminate",
                           coverage_from_unusable(UnusableStates(rule.assertion, ctx)))
             ELSE IF rule.fail_outcome = "indeterminate"
             THEN Coverage("indeterminate", seen("unknown"))
             ELSE Coverage("negative", seen("fail"))

endpoint_from_context(ctx) == get_path(ctx, <<"flow", "resp">>)

protocol_from_context(ctx) ==
  LET p == get_path(ctx, <<"session", "protocol">>)
  IN  IF p \cap {"smtp", "imap", "pop3"} # {} THEN CHOOSE x \in p : TRUE ELSE "unclassified"

\* The finding's basis is the weakest state among everything the rule looked at.
to_finding(rule, ctx, outcome, record) ==
  [code |-> rule.id, target |-> rule.target, key |-> record.key, outcome |-> outcome,
   endpoint |-> endpoint_from_context(ctx),
   severity |-> IF outcome = "indeterminate" THEN rule.indeterminate ELSE rule.negative,
   evaluation_state |-> IF outcome = "indeterminate" THEN "indeterminate" ELSE "verified",
   basis_state |->
     Weakest({evidence_state_for_predicate(p, ctx) : p \in rule.where \cup rule.assertion}
             \cup (IF rule.roles # {} THEN {"inferred"} ELSE {}))]

to_check(rule, ctx, record, check) ==
  [code |-> rule.id, category |-> rule.target, key |-> record.key,
   endpoint |-> endpoint_from_context(ctx), protocol |-> protocol_from_context(ctx),
   outcome |-> check.outcome, state |-> check.state]

\* Every active rule on every record of its target.
Judgements(ev, day) ==
  UNION {{[rule |-> rule, record |-> record, ctx |-> build_context(ev, rule.target, record)] :
            record \in records_for_target(ev, rule.target)} :
         rule \in {r \in Rules : rule_active(r, day)}}

evaluate_policy_batch(ev, day) ==
  LET js == Judgements(ev, day)
      cov(j) == evaluate_rule(j.rule, j.ctx, day)
      outcome(j) == IF cov(j).result = "indeterminate" THEN "indeterminate"
                    ELSE j.rule.fail_outcome
  IN  [findings |-> {to_finding(j.rule, j.ctx, outcome(j), j.record) :
                       j \in {k \in js : cov(k).result \in {"negative", "indeterminate"}}},
       checks |-> {to_check(j.rule, j.ctx, j.record, cov(j).check) :
                     j \in {k \in js : cov(k).check.outcome # "omitted"}}]

=============================================================================

---------------------------- MODULE Policy_proofs ----------------------------
(***************************************************************************)
(* What the verdicts of a policy pack promise for every pack the schema    *)
(* admits, every evidence and every inventory.                             *)
(***************************************************************************)
EXTENDS Policy, FiniteSetTheorems, NaturalsInduction, WellFoundedInduction, TLAPS

-----------------------------------------------------------------------------
(* Losing a fact.                                                          *)

\* No rule asserts how well something was observed.  The pack schema admits such an
\* assertion; no shipped pack (domain/policies/rules) has one: evidence_state stands in
\* their where clauses only.
AssertsValues == \A rule \in Rules : \A p \in rule.assertion : Last(p.path) # StateName

\* The context of the same connection with one fact less.
Weaker(ctx, new) ==
  /\ DOMAIN new = DOMAIN ctx
  /\ \E q \in DOMAIN ctx :
       /\ \A p \in DOMAIN ctx : p # q => new[p] = ctx[p]
       /\ \/ new[q] = Missing /\ Head(q) # "derived"
          \/ Last(q) = StateName /\ \E s \in UNUSABLE_STATES : new[q] = {s}

LEMMA LostIsWeaker ==
  ASSUME NEW ctx, NEW new \in Lost(ctx)
  PROVE  Weaker(ctx, new)
<1>1. CASE \E q \in DOMAIN ctx : Head(q) # "derived" /\ new = [ctx EXCEPT ![q] = Missing]
  <2>1. PICK q \in DOMAIN ctx : Head(q) # "derived" /\ new = [ctx EXCEPT ![q] = Missing]
    BY <1>1
  <2>2. /\ DOMAIN new = DOMAIN ctx /\ new[q] = Missing
        /\ \A p \in DOMAIN ctx : p # q => new[p] = ctx[p]
    BY <2>1
  <2> QED BY <2>1, <2>2 DEF Weaker
<1>2. CASE \E q \in DOMAIN ctx, s \in UNUSABLE_STATES :
             Last(q) = StateName /\ new = [ctx EXCEPT ![q] = {s}]
  <2>1. PICK q \in DOMAIN ctx, s \in UNUSABLE_STATES :
               Last(q) = StateName /\ new = [ctx EXCEPT ![q] = {s}]
    BY <1>2
  <2>2. /\ DOMAIN new = DOMAIN ctx /\ new[q] = {s}
        /\ \A p \in DOMAIN ctx : p # q => new[p] = ctx[p]
    BY <2>1
  <2> QED BY <2>1, <2>2 DEF Weaker
<1> QED BY <1>1, <1>2 DEF Lost

\* A predicate about a value passes or fails in the poorer context only if it did in the
\* richer one, unless it could not be decided there (_eval_predicate).
LEMMA LossOnlyUndecides ==
  ASSUME NEW ctx, NEW new, Weaker(ctx, new), NEW p, Last(p.path) # StateName,
         eval_predicate(p, ctx) # "unusable"
  PROVE  eval_predicate(p, new) \in {eval_predicate(p, ctx), "unusable"}
<1>1. PICK q \in DOMAIN ctx :
        /\ \A x \in DOMAIN ctx : x # q => new[x] = ctx[x]
        /\ \/ new[q] = Missing /\ Head(q) # "derived"
           \/ Last(q) = StateName /\ \E s \in UNUSABLE_STATES : new[q] = {s}
  BY DEF Weaker
<1>2. DOMAIN new = DOMAIN ctx
  BY DEF Weaker
<1>3. CASE p.path = q
  <2>1. get_path(new, p.path) = Missing
    BY <1>1, <1>2, <1>3 DEF get_path
  <2> QED BY <2>1 DEF eval_predicate
<1>4. CASE p.path # q
  <2>1. get_path(new, p.path) = get_path(ctx, p.path)
    BY <1>1, <1>2, <1>4 DEF get_path
  <2> QED BY <2>1 DEF eval_predicate
<1> QED BY <1>3, <1>4

\* The verdicts of a rule that are no abstention.
Decided(rule, ctx, day, verdict) ==
  /\ evaluate_rule(rule, ctx, day).result = verdict
  /\ eval_predicates(rule.where, ctx) = "pass"
  /\ verdict = "pass" => \A p \in rule.assertion : eval_predicate(p, ctx) = "pass"
  /\ verdict = "negative" => \E p \in rule.assertion : eval_predicate(p, ctx) = "fail"

LEMMA VerdictsAreDecided ==
  ASSUME NEW rule, NEW ctx, NEW day,
         evaluate_rule(rule, ctx, day).result \in {"pass", "negative"}
  PROVE  Decided(rule, ctx, day, evaluate_rule(rule, ctx, day).result)
<1> DEFINE where == eval_predicates(rule.where, ctx)
           assertion == eval_predicates(rule.assertion, ctx)
           result == evaluate_rule(rule, ctx, day).result
<1>1. \A ps : /\ eval_predicates(ps, ctx) \in {"pass", "fail", "unusable"}
              /\ eval_predicates(ps, ctx) = "fail" => \E p \in ps : eval_predicate(p, ctx) = "fail"
              /\ eval_predicates(ps, ctx) = "pass" =>
                   \A p \in ps : eval_predicate(p, ctx) \notin {"fail", "unusable"}
  BY DEF eval_predicates
<1>2. \A p : eval_predicate(p, ctx) \in {"pass", "fail", "unusable"}
  BY DEF eval_predicate
<1>3. /\ where = "pass"
      /\ result = "pass" => assertion = "pass"
      /\ result = "negative" => assertion = "fail"
  BY <1>1 DEF evaluate_rule, Coverage
<1> HIDE DEF result
<1> QED BY <1>1, <1>2, <1>3 DEF Decided, result

\* Of one state: the evidence it holds is judged the same with a fact less.
LEMMA LossKeepsVerdicts == AssertsValues => LossNeverFlipsAVerdict
<1> SUFFICES ASSUME AssertsValues,
                    NEW j \in Judgements(evidence, Today), NEW ctx \in Lost(j.ctx),
                    evaluate_rule(j.rule, j.ctx, Today).result \in {"pass", "negative"},
                    evaluate_rule(j.rule, ctx, Today).result \in {"pass", "negative"}
             PROVE  evaluate_rule(j.rule, ctx, Today).result
                      = evaluate_rule(j.rule, j.ctx, Today).result
  BY DEF LossNeverFlipsAVerdict
<1> DEFINE before == evaluate_rule(j.rule, j.ctx, Today).result
           after == evaluate_rule(j.rule, ctx, Today).result
<1>1. Decided(j.rule, j.ctx, Today, before) /\ Decided(j.rule, ctx, Today, after)
  BY VerdictsAreDecided
<1>2. Weaker(j.ctx, ctx)
  BY LostIsWeaker
<1>3. j.rule \in Rules
  BY DEF Judgements
<1>4. \A p \in j.rule.assertion : eval_predicate(p, j.ctx) # "unusable" =>
        eval_predicate(p, ctx) \in {eval_predicate(p, j.ctx), "unusable"}
  BY <1>2, <1>3, LossOnlyUndecides DEF AssertsValues
<1> HIDE DEF before, after
<1>5. before \in {"pass", "negative"} /\ after \in {"pass", "negative"}
  BY DEF before, after
<1>6. CASE before = "pass" /\ after = "negative"
  BY <1>1, <1>4, <1>6 DEF Decided
<1>7. CASE before = "negative" /\ after = "pass"
  BY <1>1, <1>4, <1>7 DEF Decided
<1> QED BY <1>5, <1>6, <1>7 DEF before, after

\* LossNeverFlipsAVerdict for every pack that asserts values: whatever one fact of a
\* context is lost or becomes unusable, no pass turns into a negative verdict and no
\* negative verdict into a pass (_eval_predicate, _evaluate_rule_with_coverage).
THEOREM LossIsNeverHeldAgainst == AssertsValues => (Spec => []LossNeverFlipsAVerdict)
<1> SUFFICES ASSUME AssertsValues PROVE Spec => []LossNeverFlipsAVerdict
  OBVIOUS
<1>1. LossNeverFlipsAVerdict
  BY LossKeepsVerdicts
<1> QED BY <1>1, PTL

-----------------------------------------------------------------------------
(* What a capture's evidence and its evaluation always are.                *)

KeysTellApart(recs) == \A a, b \in recs : a.key = b.key => a = b

\* Evidence of the normalisers: records of their kind, finitely many, told apart by
\* their keys.
KindInv(recs, shapes) == recs \subseteq shapes /\ IsFiniteSet(recs) /\ KeysTellApart(recs)

EvidenceInv(ev) ==
  /\ KindInv(ev.flows, FlowShapes) /\ KindInv(ev.sessions, SessionShapes)
  /\ KindInv(ev.handshakes, HandshakeShapes) /\ KindInv(ev.certificates, CertificateShapes)

EvidenceRecord ==
  [flows : SUBSET FlowShapes, sessions : SUBSET SessionShapes,
   handshakes : SUBSET HandshakeShapes, certificates : SUBSET CertificateShapes]

\* The evaluation is the pack's on the evidence, the posture that of the evaluation
\* with some inventory.
JudgedInv ==
  /\ evidence \in EvidenceRecord /\ EvidenceInv(evidence)
  /\ Evaluated => evaluation = evaluate_policy_batch(evidence, Today)
  /\ phase = "scored" => \E assets \in Assets :
       posture = build_posture(evaluation.findings, evaluation.checks, assets)

LEMMA InitJudged == Init => JudgedInv
<1> SUFFICES ASSUME Init PROVE JudgedInv
  OBVIOUS
<1>1. \A shapes : KindInv({}, shapes)
  BY FS_EmptySet DEF KindInv, KeysTellApart
<1>2. evidence \in EvidenceRecord /\ EvidenceInv(evidence)
  BY <1>1 DEF Init, NoEvidence, EvidenceRecord, EvidenceInv
<1> QED BY <1>2 DEF Init, JudgedInv, Evaluated

LEMMA AddKeeps ==
  ASSUME NEW recs, NEW shapes, KindInv(recs, shapes), NEW r \in shapes,
         \A q \in recs : q.key # r.key
  PROVE  KindInv(recs \cup {r}, shapes)
<1>1. IsFiniteSet(recs \cup {r})
  BY FS_AddElement DEF KindInv
<1> QED BY <1>1 DEF KindInv, KeysTellApart

LEMMA NextJudged == JudgedInv /\ [Next]_vars => JudgedInv'
<1> SUFFICES ASSUME JudgedInv, [Next]_vars PROVE JudgedInv'
  OBVIOUS
<1>1. ASSUME NEW kind \in Kinds, NEW r \in Shapes[kind], AddRecord(kind, r)
      PROVE  JudgedInv'
  <2>1. ~Evaluated'
    BY <1>1 DEF AddRecord, Evaluated
  <2>2. evidence' \in EvidenceRecord /\ EvidenceInv(evidence)'
    <3>1. CASE kind = "flows"
      <4>1. r \in FlowShapes /\ \A q \in evidence.flows : q.key # r.key
        BY <1>1, <3>1 DEF AddRecord, Shapes
      <4>2. evidence' = [evidence EXCEPT !.flows = @ \cup {r}]
        BY <1>1, <3>1 DEF AddRecord
      <4>3. KindInv(evidence.flows \cup {r}, FlowShapes)
        BY <4>1, AddKeeps DEF JudgedInv, EvidenceInv
      <4> QED BY <4>1, <4>2, <4>3 DEF JudgedInv, EvidenceInv, EvidenceRecord
    <3>2. CASE kind = "sessions"
      <4>1. r \in SessionShapes /\ \A q \in evidence.sessions : q.key # r.key
        BY <1>1, <3>2 DEF AddRecord, Shapes
      <4>2. evidence' = [evidence EXCEPT !.sessions = @ \cup {r}]
        BY <1>1, <3>2 DEF AddRecord
      <4>3. KindInv(evidence.sessions \cup {r}, SessionShapes)
        BY <4>1, AddKeeps DEF JudgedInv, EvidenceInv
      <4> QED BY <4>1, <4>2, <4>3 DEF JudgedInv, EvidenceInv, EvidenceRecord
    <3>3. CASE kind = "handshakes"
      <4>1. r \in HandshakeShapes /\ \A q \in evidence.handshakes : q.key # r.key
        BY <1>1, <3>3 DEF AddRecord, Shapes
      <4>2. evidence' = [evidence EXCEPT !.handshakes = @ \cup {r}]
        BY <1>1, <3>3 DEF AddRecord
      <4>3. KindInv(evidence.handshakes \cup {r}, HandshakeShapes)
        BY <4>1, AddKeeps DEF JudgedInv, EvidenceInv
      <4> QED BY <4>1, <4>2, <4>3 DEF JudgedInv, EvidenceInv, EvidenceRecord
    <3>4. CASE kind = "certificates"
      <4>1. r \in CertificateShapes /\ \A q \in evidence.certificates : q.key # r.key
        BY <1>1, <3>4 DEF AddRecord, Shapes
      <4>2. evidence' = [evidence EXCEPT !.certificates = @ \cup {r}]
        BY <1>1, <3>4 DEF AddRecord
      <4>3. KindInv(evidence.certificates \cup {r}, CertificateShapes)
        BY <4>1, AddKeeps DEF JudgedInv, EvidenceInv
      <4> QED BY <4>1, <4>2, <4>3 DEF JudgedInv, EvidenceInv, EvidenceRecord
    <3> QED BY <3>1, <3>2, <3>3, <3>4 DEF Kinds, Shapes
  <2>3. phase' # "scored"
    BY <1>1 DEF AddRecord
  <2> QED BY <2>1, <2>2, <2>3 DEF JudgedInv
<1>2. CASE Evaluate
  <2>1. /\ UNCHANGED <<evidence, captureDay>> /\ phase' = "evaluated"
        /\ evaluation' = evaluate_policy_batch(evidence, Today)
    BY <1>2 DEF Evaluate, Today
  <2>2. Today' = Today
    BY <2>1 DEF Today, resolve_evaluation_clock
  <2> QED BY <2>1, <2>2 DEF JudgedInv
<1>3. CASE ClockUnavailable
  BY <1>3 DEF ClockUnavailable, JudgedInv, Evaluated
<1>4. ASSUME NEW assets \in Assets, score_findings(assets)
      PROVE  JudgedInv'
  <2>1. /\ UNCHANGED <<evidence, captureDay, evaluation>> /\ phase' = "scored"
        /\ posture' = build_posture(evaluation.findings, evaluation.checks, assets)
        /\ phase = "evaluated"
    BY <1>4 DEF score_findings
  <2>2. Today' = Today
    BY <2>1 DEF Today, resolve_evaluation_clock
  <2>3. evaluation = evaluate_policy_batch(evidence, Today)
    BY <2>1 DEF JudgedInv, Evaluated
  <2> QED BY <2>1, <2>2, <2>3 DEF JudgedInv
<1>5. CASE RequestRefused
  BY <1>5 DEF RequestRefused, JudgedInv, Evaluated
<1>6. CASE UNCHANGED vars
  <2>1. Today' = Today
    BY <1>6 DEF vars, Today, resolve_evaluation_clock
  <2> QED BY <1>6, <2>1 DEF vars, JudgedInv, Evaluated
<1> QED BY <1>1, <1>2, <1>3, <1>4, <1>5, <1>6 DEF Next

LEMMA JudgedAlways == Spec => []JudgedInv
BY InitJudged, NextJudged, PTL DEF Spec

-----------------------------------------------------------------------------
(* What the context of a record says of evidence states.                   *)

\* Pairs of a path and what is there: states at the paths of states.
StatesTyped(pairs) == \A q \in pairs : Last(q[1]) = StateName => q[2] \subseteq EvidenceState

ContextTyped(ctx) == \A p \in DOMAIN ctx : Last(p) = StateName => ctx[p] \subseteq EvidenceState

LEMMA AsContextTyped ==
  ASSUME NEW pairs, StatesTyped(pairs)
  PROVE  ContextTyped(AsContext(pairs))
<1> SUFFICES ASSUME NEW p \in DOMAIN AsContext(pairs), Last(p) = StateName
             PROVE  AsContext(pairs)[p] \subseteq EvidenceState
  BY DEF ContextTyped
<1>1. p \in {q[1] : q \in pairs}
  BY DEF AsContext
<1>2. PICK q \in pairs : q[1] = p
  BY <1>1
<1> DEFINE x == CHOOSE y \in pairs : y[1] = p
<1>3. x \in pairs /\ x[1] = p
  BY <1>2
<1>4. AsContext(pairs)[p] = x[2]
  BY <1>1 DEF AsContext
<1> HIDE DEF x
<1> QED BY <1>3, <1>4 DEF StatesTyped

LEMMA FieldsTyped ==
  ASSUME NEW recs, NEW kind \in Kinds, recs \subseteq Shapes[kind]
  PROVE  StatesTyped(Fields(recs))
<1> SUFFICES ASSUME NEW q \in Fields(recs), Last(q[1]) = StateName
             PROVE  q[2] \subseteq EvidenceState
  BY DEF StatesTyped
<1>1. PICK r \in recs : q \in {<<p, r.fields[p]>> : p \in DOMAIN r.fields}
  BY DEF Fields
<1>2. PICK p \in DOMAIN r.fields : q = <<p, r.fields[p]>>
  BY <1>1
<1> QED BY <1>2, EvidenceAssumption

LEMMA DerivedTyped ==
  ASSUME NEW flow, NEW session, NEW handshake, handshake \subseteq HandshakeShapes
  PROVE  StatesTyped(derived(flow, session, handshake))
<1> DEFINE R == <<"derived", "service_role">>
           C == <<"derived", "observed_commands">>
           T == <<"derived", "transport_tls_established">>
           O == <<"derived", "forward_secrecy", "outcome">>
<1>1. Last(R) # StateName /\ Last(C) # StateName /\ Last(T) # StateName /\ Last(O) # StateName
  BY DEF Last, StateName
<1> HIDE DEF R, C, T, O
<1> SUFFICES ASSUME NEW q \in derived(flow, session, handshake), Last(q[1]) = StateName
             PROVE  q[2] \subseteq EvidenceState
  BY DEF StatesTyped
<1>2. PICK a, b, c : derived(flow, session, handshake)
        = {<<R, a>>, <<C, b>>, <<T, c>>} \cup {<<O, {h.secrecy}>> : h \in handshake}
          \cup {<<<<"derived", "forward_secrecy", StateName>>, {h.secrecyState}>> : h \in handshake}
  BY Zenon DEF derived, R, C, T, O
<1>3. PICK h \in handshake : q = <<<<"derived", "forward_secrecy", StateName>>, {h.secrecyState}>>
  BY <1>1, <1>2
<1> QED BY <1>3, EvidenceAssumption

\* A set of natural numbers that is not empty has a least member.
LEMMA LeastExists ==
  ASSUME NEW S \in SUBSET Nat, S # {}
  PROVE  \E m \in S : \A x \in S : m <= x
<1>1. PICK m \in S : \A x \in S : ~(<<x, m>> \in OpToRel(<, Nat))
  BY NatLessThanWellFounded, WFMin
<1>2. \A x \in S : ~(x < m)
  BY <1>1 DEF OpToRel
<1> QED BY <1>2

LEMMA LeafIsOne ==
  ASSUME NEW certs, certs \subseteq CertificateShapes
  PROVE  leaf_certificate(certs) \subseteq certs
<1> DEFINE leaves == {c \in certs : c.role = "server" /\ c.chain_index = 0}
           orders == {c.order : c \in leaves}
<1>1. CASE leaves = {}
  BY <1>1 DEF leaf_certificate
<1>2. CASE leaves # {}
  <2>1. orders \in SUBSET Nat /\ orders # {}
    BY <1>2, EvidenceAssumption
  <2> HIDE DEF leaves
  <2>2. PICK m \in orders : \A x \in orders : m <= x
    BY <2>1, LeastExists
  <2>3. \E c \in leaves : \A d \in leaves : c.order <= d.order
    BY <2>2
  <2> DEFINE c == CHOOSE c \in leaves : \A d \in leaves : c.order <= d.order
  <2>4. c \in leaves
    BY <2>3
  <2> HIDE DEF c
  <2>5. leaf_certificate(certs) = {c}
    BY <1>2 DEF leaf_certificate, leaves, c
  <2> QED BY <2>4, <2>5 DEF leaves
<1> QED BY <1>1, <1>2

LEMMA ContextIsTyped ==
  ASSUME NEW ev, EvidenceInv(ev), NEW target, NEW record,
         target = "certificate" => record \in CertificateShapes
  PROVE  ContextTyped(build_context(ev, target, record))
<1> DEFINE flow == OfUid(ev.flows, record.uid)
           session == OfUid(ev.sessions, record.uid)
           handshake == OfUid(ev.handshakes, record.uid)
           certificate == IF target = "certificate" THEN {record}
                          ELSE leaf_certificate(OfUid(ev.certificates, record.uid))
<1>1. /\ flow \subseteq FlowShapes /\ session \subseteq SessionShapes
      /\ handshake \subseteq HandshakeShapes
      /\ OfUid(ev.certificates, record.uid) \subseteq CertificateShapes
  BY DEF EvidenceInv, KindInv, OfUid
<1>2. certificate \subseteq CertificateShapes
  BY <1>1, LeafIsOne
<1> HIDE DEF flow, session, handshake, certificate
<1>3. StatesTyped(Fields(flow)) /\ StatesTyped(Fields(session))
  BY <1>1, FieldsTyped DEF Kinds, Shapes
<1>4. StatesTyped(Fields(handshake)) /\ StatesTyped(Fields(certificate))
  BY <1>1, <1>2, FieldsTyped DEF Kinds, Shapes
<1>5. StatesTyped(derived(flow, session, handshake))
  BY <1>1, DerivedTyped
<1>6. StatesTyped(Fields(flow) \cup Fields(session) \cup Fields(handshake) \cup Fields(certificate)
                  \cup derived(flow, session, handshake))
  BY <1>3, <1>4, <1>5 DEF StatesTyped
<1> QED BY <1>6, AsContextTyped DEF build_context, flow, session, handshake, certificate

\* The state a predicate of the pack rests on is an evidence state
\* (_evidence_state_for_predicate).
LEMMA PredicateStateTyped ==
  ASSUME NEW ctx, ContextTyped(ctx), NEW p, Predicate(p)
  PROVE  evidence_state_for_predicate(p, ctx) \in EvidenceState
<1> DEFINE path == IF p.state_path = << >> THEN p.path ELSE p.state_path
           near == get_path(ctx, Append(Front(path), StateName))
           root == get_path(ctx, <<Head(path), StateName>>)
<1>1. path \in Seq(STRING) /\ Len(path) > 1
  BY DEF Predicate
<1> HIDE DEF path
<1>2. Last(Append(Front(path), StateName)) = StateName
  BY <1>1 DEF Front, Last
<1>3. Last(<<Head(path), StateName>>) = StateName
  BY DEF Last
<1>4. near \subseteq EvidenceState /\ root \subseteq EvidenceState
  BY <1>2, <1>3 DEF ContextTyped, get_path, Missing
<1>5. state_for_path(ctx, path) \in EvidenceState
  <2> HIDE DEF near, root
  <2>1. near # {} => (CHOOSE s \in near : TRUE) \in EvidenceState
    BY <1>4
  <2>2. root # {} => (CHOOSE s \in root : TRUE) \in EvidenceState
    BY <1>4
  <2>3. "inferred" \in EvidenceState /\ "observed" \in EvidenceState
    BY DEF EvidenceState
  <2> QED BY <2>1, <2>2, <2>3 DEF state_for_path, near, root, Missing
<1> QED BY <1>5 DEF evidence_state_for_predicate, path, EvidenceState

LEMMA WeakestIsLeast ==
  ASSUME NEW states \in SUBSET EvidenceState, states # {}
  PROVE  /\ Weakest(states) \in states
         /\ \A t \in states : STATE_RANK[Weakest(states)] <= STATE_RANK[t]
<1>1. \A s \in states : STATE_RANK[s] \in Nat
  BY DEF EvidenceState, STATE_RANK
<1> DEFINE ranks == {STATE_RANK[s] : s \in states}
<1>2. ranks \in SUBSET Nat /\ ranks # {}
  BY <1>1
<1>3. PICK m \in ranks : \A x \in ranks : m <= x
  BY <1>2, LeastExists
<1>4. \E s \in states : \A t \in states : STATE_RANK[s] <= STATE_RANK[t]
  BY <1>3
<1> QED BY <1>4 DEF Weakest

-----------------------------------------------------------------------------
(* One judgement per rule and record.                                      *)

Judgement(ev, rule, record) ==
  [rule |-> rule, record |-> record, ctx |-> build_context(ev, rule.target, record)]

Verdict(j, day) == evaluate_rule(j.rule, j.ctx, day)

FindingOf(j, day) ==
  to_finding(j.rule, j.ctx, IF Verdict(j, day).result = "indeterminate" THEN "indeterminate"
                            ELSE j.rule.fail_outcome, j.record)

CheckOf(j, day) == to_check(j.rule, j.ctx, j.record, Verdict(j, day).check)

LEMMA JudgementsAre ==
  ASSUME NEW ev, NEW day, NEW j \in Judgements(ev, day)
  PROVE  /\ j.rule \in Rules /\ j.record \in records_for_target(ev, j.rule.target)
         /\ j = Judgement(ev, j.rule, j.record)
<1>1. PICK rule \in {r \in Rules : rule_active(r, day)} :
        j \in {[rule |-> rule, record |-> record, ctx |-> build_context(ev, rule.target, record)] :
                 record \in records_for_target(ev, rule.target)}
  BY DEF Judgements
<1>2. PICK record \in records_for_target(ev, rule.target) : j = Judgement(ev, rule, record)
  BY <1>1 DEF Judgement
<1>3. j.rule = rule /\ j.record = record
  BY <1>2 DEF Judgement
<1> QED BY <1>1, <1>2, <1>3

LEMMA EvaluationIs ==
  ASSUME NEW ev, NEW day
  PROVE  /\ evaluate_policy_batch(ev, day).findings
              = {FindingOf(j, day) : j \in {k \in Judgements(ev, day) :
                                              Verdict(k, day).result \in {"negative", "indeterminate"}}}
         /\ evaluate_policy_batch(ev, day).checks
              = {CheckOf(j, day) : j \in {k \in Judgements(ev, day) :
                                            Verdict(k, day).check.outcome # "omitted"}}
BY DEF evaluate_policy_batch, FindingOf, CheckOf, Verdict

\* The ids of the rules and the keys of a kind tell judgements apart.
LEMMA OneJudgement ==
  ASSUME NEW ev, EvidenceInv(ev), NEW day,
         NEW i \in Judgements(ev, day), NEW j \in Judgements(ev, day),
         i.rule.id = j.rule.id, i.record.key = j.record.key
  PROVE  i = j
<1>1. i.rule = j.rule
  BY JudgementsAre, PackIsValid DEF PolicyPack
<1>2. \A target : KeysTellApart(records_for_target(ev, target))
  BY DEF EvidenceInv, KindInv, records_for_target
<1>3. i.record = j.record
  BY <1>1, <1>2, JudgementsAre DEF KeysTellApart
<1>4. i = Judgement(ev, i.rule, i.record) /\ j = Judgement(ev, j.rule, j.record)
  BY JudgementsAre
<1> QED BY <1>1, <1>3, <1>4

LEMMA JudgementTyped ==
  ASSUME NEW ev, EvidenceInv(ev), NEW day, NEW j \in Judgements(ev, day)
  PROVE  /\ PolicyRule(j.rule) /\ ContextTyped(j.ctx)
         /\ \A p \in j.rule.where \cup j.rule.assertion :
              evidence_state_for_predicate(p, j.ctx) \in EvidenceState
<1>1. j.rule \in Rules /\ j.record \in records_for_target(ev, j.rule.target)
  BY JudgementsAre
<1>2. PolicyRule(j.rule)
  BY <1>1, PackIsValid DEF PolicyPack
<1>3. j.rule.target = "certificate" => j.record \in CertificateShapes
  BY <1>1 DEF records_for_target, EvidenceInv, KindInv
<1>4. j.ctx = build_context(ev, j.rule.target, j.record)
  <2>1. j = Judgement(ev, j.rule, j.record)
    BY JudgementsAre
  <2>2. \A rule, record : Judgement(ev, rule, record).ctx = build_context(ev, rule.target, record)
    BY DEF Judgement
  <2> QED BY <2>1, <2>2
<1>5. ContextTyped(j.ctx)
  BY <1>3, <1>4, ContextIsTyped
<1>6. \A p \in j.rule.where \cup j.rule.assertion : Predicate(p)
  BY <1>2 DEF PolicyRule
<1> QED BY <1>2, <1>5, <1>6, PredicateStateTyped

\* What stands behind a verdict and its coverage (_evaluate_rule_with_coverage).
VerdictShape(rule, ctx, v) ==
  /\ v.result \in {"pass", "negative", "indeterminate", "not_applicable"}
  /\ v.check.outcome \in {"pass", "fail", "unknown", "not_observable", "omitted"}
  /\ v.result = "negative" => v.check.outcome = "fail" /\ rule.fail_outcome # "indeterminate"
  /\ v.check.outcome = "fail" => v.result = "negative"
  /\ v.result = "indeterminate" => v.check.outcome \in {"unknown", "not_observable"}
  /\ v.check.outcome = "not_observable" =>
       LET ps == IF eval_predicates(rule.where, ctx) = "unusable" THEN rule.where ELSE rule.assertion
       IN  /\ eval_predicates(ps, ctx) = "unusable"
           /\ Weakest(UnusableStates(ps, ctx)) = "not_observable"

LEMMA VerdictsAreShaped ==
  ASSUME NEW rule, NEW ctx, NEW day
  PROVE  VerdictShape(rule, ctx, evaluate_rule(rule, ctx, day))
<1> DEFINE where == eval_predicates(rule.where, ctx)
           assertion == eval_predicates(rule.assertion, ctx)
           seen(outcome) == [outcome |-> outcome, state |-> weakest_or_observed(rule.assertion, ctx)]
           v == evaluate_rule(rule, ctx, day)
           cov(ps) == coverage_from_unusable(UnusableStates(ps, ctx))
<1>1. where \in {"pass", "fail", "unusable"} /\ assertion \in {"pass", "fail", "unusable"}
  BY DEF eval_predicates
<1>2. \A ps : /\ cov(ps).outcome \in {"unknown", "not_observable"}
              /\ cov(ps).outcome = "not_observable" =>
                   Weakest(UnusableStates(ps, ctx)) = "not_observable"
  BY DEF coverage_from_unusable
<1>3. \A o : seen(o).outcome = o
  OBVIOUS
<1>4. \/ v = Coverage("not_applicable", NoCheck)
      \/ where = "unusable" /\ v = Coverage("not_applicable", cov(rule.where))
      \/ where = "pass" /\ assertion = "pass" /\ v = Coverage("pass", seen("pass"))
      \/ where = "pass" /\ assertion = "unusable" /\ v = Coverage("indeterminate", cov(rule.assertion))
      \/ where = "pass" /\ rule.fail_outcome = "indeterminate" /\ v = Coverage("indeterminate", seen("unknown"))
      \/ where = "pass" /\ rule.fail_outcome # "indeterminate" /\ v = Coverage("negative", seen("fail"))
  <2> HIDE DEF cov
  <2> QED BY <1>1 DEF evaluate_rule, cov
<1> HIDE DEF where, assertion, seen, v, cov
<1>5. \A r, c : Coverage(r, c).result = r /\ Coverage(r, c).check = c
  BY DEF Coverage
<1>6. NoCheck.outcome = "omitted"
  BY DEF NoCheck
<1>7. CASE v = Coverage("not_applicable", NoCheck)
  BY <1>5, <1>6, <1>7 DEF VerdictShape, v
<1>8. CASE where = "unusable" /\ v = Coverage("not_applicable", cov(rule.where))
  BY <1>2, <1>5, <1>8 DEF VerdictShape, v, where
<1>9. CASE where = "pass" /\ assertion = "unusable" /\ v = Coverage("indeterminate", cov(rule.assertion))
  BY <1>2, <1>5, <1>9 DEF VerdictShape, v, where, assertion
<1>10. CASE v = Coverage("pass", seen("pass"))
  BY <1>3, <1>5, <1>10 DEF VerdictShape, v
<1>11. CASE v = Coverage("indeterminate", seen("unknown"))
  BY <1>3, <1>5, <1>11 DEF VerdictShape, v
<1>12. CASE rule.fail_outcome # "indeterminate" /\ v = Coverage("negative", seen("fail"))
  BY <1>3, <1>5, <1>12 DEF VerdictShape, v
<1> QED BY <1>4, <1>7, <1>8, <1>9, <1>10, <1>11, <1>12

\* The states that kept a set of predicates from deciding.
LEMMA UnusableHasStates ==
  ASSUME NEW ps, NEW ctx, eval_predicates(ps, ctx) = "unusable",
         \A p \in ps : evidence_state_for_predicate(p, ctx) \in EvidenceState
  PROVE  UnusableStates(ps, ctx) # {} /\ UnusableStates(ps, ctx) \in SUBSET EvidenceState
<1>1. PICK p \in ps : eval_predicate(p, ctx) = "unusable"
  BY DEF eval_predicates
<1> QED BY <1>1 DEF UnusableStates

\* Each of the three parts of ChecksAgreeWithFindings, of one evaluation.
LEMMA FindingsAreChecked ==
  ASSUME NEW ev, EvidenceInv(ev), NEW day,
         NEW f \in evaluate_policy_batch(ev, day).findings
  PROVE  \E c : /\ {d \in evaluate_policy_batch(ev, day).checks :
                      d.code = f.code /\ d.key = f.key} = {c}
                /\ (c.outcome = "fail") = (f.outcome = "negative")
                /\ c.outcome # "pass" /\ c.endpoint = f.endpoint
<1> DEFINE js == Judgements(ev, day)
           checks == evaluate_policy_batch(ev, day).checks
<1>1. PICK j \in js : f = FindingOf(j, day) /\ Verdict(j, day).result \in {"negative", "indeterminate"}
  BY EvaluationIs
<1> DEFINE c == CheckOf(j, day)
<1>2. VerdictShape(j.rule, j.ctx, Verdict(j, day))
  BY VerdictsAreShaped DEF Verdict
<1>3. j.rule.fail_outcome \in {"negative", "indeterminate"}
  BY JudgementTyped DEF PolicyRule
<1>4. \A k : /\ CheckOf(k, day).code = k.rule.id /\ CheckOf(k, day).key = k.record.key
             /\ CheckOf(k, day).outcome = Verdict(k, day).check.outcome
             /\ CheckOf(k, day).endpoint = endpoint_from_context(k.ctx)
  BY DEF CheckOf, to_check
<1>5. /\ f.code = j.rule.id /\ f.key = j.record.key /\ f.endpoint = endpoint_from_context(j.ctx)
      /\ f.outcome = IF Verdict(j, day).result = "indeterminate" THEN "indeterminate"
                     ELSE j.rule.fail_outcome
  BY <1>1 DEF FindingOf, to_finding
<1>6. c \in checks
  BY <1>1, <1>2, EvaluationIs DEF VerdictShape
<1>7. ASSUME NEW d \in checks, d.code = f.code, d.key = f.key
      PROVE  d = c
  <2>1. PICK k \in js : d = CheckOf(k, day)
    BY <1>7, EvaluationIs
  <2>2. k = j
    BY <1>4, <1>5, <1>7, <2>1, OneJudgement
  <2> QED BY <2>1, <2>2
<1> HIDE DEF checks
<1>8. {d \in checks : d.code = f.code /\ d.key = f.key} = {c}
  BY <1>4, <1>5, <1>6, <1>7
<1>9. /\ c.outcome = "fail" <=> f.outcome = "negative"
      /\ c.outcome # "pass" /\ c.endpoint = f.endpoint
  BY <1>1, <1>2, <1>3, <1>4, <1>5 DEF VerdictShape
<1> HIDE DEF c
<1> QED BY <1>8, <1>9 DEF checks

LEMMA FailuresAreFound ==
  ASSUME NEW ev, NEW day,
         NEW c \in evaluate_policy_batch(ev, day).checks, c.outcome = "fail"
  PROVE  \E f \in evaluate_policy_batch(ev, day).findings : f.code = c.code /\ f.key = c.key
<1>1. PICK j \in Judgements(ev, day) : c = CheckOf(j, day)
  BY EvaluationIs
<1>2. /\ c.code = j.rule.id /\ c.key = j.record.key
      /\ c.outcome = Verdict(j, day).check.outcome
  BY <1>1 DEF CheckOf, to_check
<1>3. Verdict(j, day).result = "negative"
  BY <1>2, VerdictsAreShaped DEF Verdict, VerdictShape
<1>4. FindingOf(j, day) \in evaluate_policy_batch(ev, day).findings
  BY <1>3, EvaluationIs
<1>5. FindingOf(j, day).code = j.rule.id /\ FindingOf(j, day).key = j.record.key
  BY DEF FindingOf, to_finding
<1> QED BY <1>2, <1>4, <1>5

LEMMA UnobservableIsHonest ==
  ASSUME NEW ev, EvidenceInv(ev), NEW day, NEW j \in Judgements(ev, day),
         NEW c \in evaluate_policy_batch(ev, day).checks,
         c.code = j.rule.id, c.key = j.record.key, c.outcome = "not_observable"
  PROVE  UnusableStates(Deciding(j), j.ctx)
           \cap {"incomplete", "conflicting", "indeterminate"} = {}
<1>1. PICK k \in Judgements(ev, day) : c = CheckOf(k, day)
  BY EvaluationIs
<1>2. /\ c.code = k.rule.id /\ c.key = k.record.key
      /\ c.outcome = Verdict(k, day).check.outcome
  BY <1>1 DEF CheckOf, to_check
<1>3. k = j
  BY <1>2, OneJudgement
<1> DEFINE states == UnusableStates(Deciding(j), j.ctx)
<1>4. eval_predicates(Deciding(j), j.ctx) = "unusable" /\ Weakest(states) = "not_observable"
  BY <1>2, <1>3, VerdictsAreShaped DEF Verdict, VerdictShape, Deciding
<1>5. \A p \in Deciding(j) : evidence_state_for_predicate(p, j.ctx) \in EvidenceState
  BY JudgementTyped DEF Deciding
<1>6. states # {} /\ states \in SUBSET EvidenceState
  BY <1>4, <1>5, UnusableHasStates
<1> HIDE DEF states
<1>7. \A t \in states : STATE_RANK["not_observable"] <= STATE_RANK[t]
  BY <1>4, <1>6, WeakestIsLeast
<1>8. \A t \in states : t \notin {"incomplete", "conflicting", "indeterminate"}
  BY <1>7 DEF STATE_RANK
<1> QED BY <1>8 DEF states

\* ChecksAgreeWithFindings for every pack and all evidence: each finding is backed by
\* exactly one check that says the same, no failed check is without its finding, and
\* "not observable" never covers up a worse reason (evaluate_policy_batch).
THEOREM ChecksAndFindingsAgree == Spec => []ChecksAgreeWithFindings
<1>1. JudgedInv => ChecksAgreeWithFindings
  <2> SUFFICES ASSUME JudgedInv, Evaluated
               PROVE  ChecksAgreeWithFindings
    BY DEF ChecksAgreeWithFindings
  <2>1. evaluation = evaluate_policy_batch(evidence, Today) /\ EvidenceInv(evidence)
    BY DEF JudgedInv
  <2>2. ASSUME NEW f \in evaluation.findings
        PROVE  /\ Cardinality(Checked(f)) = 1
               /\ \A c \in Checked(f) : /\ (c.outcome = "fail") = (f.outcome = "negative")
                                        /\ c.outcome # "pass" /\ c.endpoint = f.endpoint
    <3>1. PICK c : /\ Checked(f) = {c}
                   /\ (c.outcome = "fail") = (f.outcome = "negative")
                   /\ c.outcome # "pass" /\ c.endpoint = f.endpoint
      BY <2>1, FindingsAreChecked DEF Checked
    <3> QED BY <3>1, FS_Singleton
  <2>3. \A c \in evaluation.checks : c.outcome = "fail" =>
          \E f \in evaluation.findings : f.code = c.code /\ f.key = c.key
    BY <2>1, FailuresAreFound
  <2>4. \A j \in Judgements(evidence, Today), c \in evaluation.checks :
          c.code = j.rule.id /\ c.key = j.record.key /\ c.outcome = "not_observable" =>
            UnusableStates(Deciding(j), j.ctx)
              \cap {"incomplete", "conflicting", "indeterminate"} = {}
    BY <2>1, UnobservableIsHonest
  <2> QED BY <2>2, <2>3, <2>4 DEF ChecksAgreeWithFindings
<1> QED BY <1>1, JudgedAlways, PTL

-----------------------------------------------------------------------------
(* Clusters of findings.                                                   *)

\* What of a finding its cluster and score depend on.
FindingTyped(f) ==
  /\ f.outcome \in {"negative", "indeterminate"}
  /\ f.severity \in DOMAIN SEVERITY_POINTS /\ f.basis_state \in EvidenceState

LEMMA FindingsAreTyped ==
  ASSUME NEW ev, EvidenceInv(ev), NEW day,
         NEW f \in evaluate_policy_batch(ev, day).findings
  PROVE  FindingTyped(f)
<1>1. PICK j \in Judgements(ev, day) : f = FindingOf(j, day)
  BY EvaluationIs
<1>2. PolicyRule(j.rule) /\ j.rule \in Rules
  BY JudgementTyped, JudgementsAre
<1> DEFINE states == {evidence_state_for_predicate(p, j.ctx) : p \in j.rule.where \cup j.rule.assertion}
                     \cup (IF j.rule.roles # {} THEN {"inferred"} ELSE {})
<1>3. \A p \in j.rule.where \cup j.rule.assertion :
        evidence_state_for_predicate(p, j.ctx) \in EvidenceState
  BY JudgementTyped
<1>4. "inferred" \in EvidenceState
  BY DEF EvidenceState
<1>5. states \in SUBSET EvidenceState /\ states # {}
  BY <1>2, <1>3, <1>4 DEF PolicyRule
<1>6. f.basis_state = Weakest(states)
  BY <1>1 DEF FindingOf, to_finding
<1> HIDE DEF states
<1>7. f.basis_state \in EvidenceState
  BY <1>5, <1>6, WeakestIsLeast
<1>8. f.severity \in DOMAIN SEVERITY_POINTS
  <2>1. f.severity \in {j.rule.indeterminate, j.rule.negative}
    BY <1>1 DEF FindingOf, to_finding
  <2> QED BY <1>2, <2>1, EvidenceAssumption
<1>9. f.outcome \in {"negative", "indeterminate"}
  BY <1>1, <1>2 DEF FindingOf, to_finding, PolicyRule
<1> QED BY <1>7, <1>8, <1>9 DEF FindingTyped

\* A finding is told from the others of its pack by its rule and its record.
LEMMA FindingsToldApart ==
  ASSUME NEW ev, EvidenceInv(ev), NEW day,
         NEW f \in evaluate_policy_batch(ev, day).findings,
         NEW g \in evaluate_policy_batch(ev, day).findings,
         f.code = g.code, f.key = g.key
  PROVE  f = g
<1>1. PICK i \in Judgements(ev, day) : f = FindingOf(i, day)
  BY EvaluationIs
<1>2. PICK j \in Judgements(ev, day) : g = FindingOf(j, day)
  BY EvaluationIs
<1>3. \A k : FindingOf(k, day).code = k.rule.id /\ FindingOf(k, day).key = k.record.key
  BY DEF FindingOf, to_finding
<1> QED BY <1>1, <1>2, <1>3, OneJudgement

LEMMA FindingsAreFinite ==
  ASSUME NEW ev, EvidenceInv(ev), NEW day
  PROVE  IsFiniteSet(evaluate_policy_batch(ev, day).findings)
<1> DEFINE findings == evaluate_policy_batch(ev, day).findings
           records == ev.flows \cup ev.sessions \cup ev.handshakes \cup ev.certificates
           all == Rules \X records
           found(p) == FindingOf(Judgement(ev, p[1], p[2]), day)
           D == {p \in all : found(p) \in findings}
           F == [p \in D |-> found(p)]
<1>1. IsFiniteSet(records)
  BY FS_Union DEF EvidenceInv, KindInv
<1>2. IsFiniteSet(all)
  BY <1>1, EvidenceAssumption, FS_Product
<1>3. IsFiniteSet(D)
  BY <1>2, FS_Subset
<1>4. ASSUME NEW f \in findings PROVE \E p \in D : F[p] = f
  <2>1. PICK j \in Judgements(ev, day) : f = FindingOf(j, day)
    BY EvaluationIs
  <2>2. j.rule \in Rules /\ j.record \in records /\ j = Judgement(ev, j.rule, j.record)
    BY JudgementsAre DEF records_for_target
  <2>3. <<j.rule, j.record>> \in all /\ found(<<j.rule, j.record>>) = f
    BY <2>1, <2>2
  <2> HIDE DEF found, all
  <2>4. <<j.rule, j.record>> \in D
    BY <2>3
  <2> QED BY <2>3, <2>4
<1> HIDE DEF found, all, findings
<1>5. F \in Surjection(D, findings)
  BY <1>4 DEF Surjection
<1> QED BY <1>3, <1>5, FS_Surjection DEF findings

\* The worst severity and the weakest basis of findings are those of some of them.
LEMMA WorstIsAMember ==
  ASSUME NEW members, members # {}, \A f \in members : FindingTyped(f)
  PROVE  /\ \E f \in members : f.severity = max_severity(members)
         /\ \E f \in members : f.basis_state = weakest_basis(members)
<1>1. \A f \in members : STATE_RANK[f.basis_state] \in Nat
  BY DEF FindingTyped, EvidenceState, STATE_RANK
<1>2. \A f \in members : SEVERITY_POINTS[f.severity] \in Nat /\ SEVERITY_POINTS[f.severity] <= 100
  BY DEF FindingTyped, SEVERITY_POINTS
<1>3. PICK e \in members : \A g \in members : STATE_RANK[e.basis_state] <= STATE_RANK[g.basis_state]
  <2> DEFINE ranks == {STATE_RANK[f.basis_state] : f \in members}
  <2>1. PICK m \in ranks : \A x \in ranks : m <= x
    BY <1>1, LeastExists
  <2> QED BY <2>1
<1>4. PICK h \in members : \A g \in members : SEVERITY_POINTS[g.severity] <= SEVERITY_POINTS[h.severity]
  <2> DEFINE gaps == {100 - SEVERITY_POINTS[f.severity] : f \in members}
  <2>1. gaps \in SUBSET Nat /\ gaps # {}
    BY <1>2
  <2>2. PICK m \in gaps : \A x \in gaps : m <= x
    BY <2>1, LeastExists
  <2>3. PICK h \in members : m = 100 - SEVERITY_POINTS[h.severity]
    OBVIOUS
  <2>4. \A g \in members : 100 - SEVERITY_POINTS[h.severity] <= 100 - SEVERITY_POINTS[g.severity]
    BY <2>2, <2>3
  <2> QED BY <1>2, <2>4
<1>5. max_severity(members) \in {f.severity : f \in members}
  <2>1. \E s \in {f.severity : f \in members} :
          \A g \in members : SEVERITY_POINTS[g.severity] <= SEVERITY_POINTS[s]
    BY <1>4
  <2> QED BY <2>1 DEF max_severity
<1>6. weakest_basis(members) \in {f.basis_state : f \in members}
  <2>1. \E s \in {f.basis_state : f \in members} :
          \A g \in members : STATE_RANK[s] <= STATE_RANK[g.basis_state]
    BY <1>3
  <2> QED BY <2>1 DEF weakest_basis
<1> QED BY <1>5, <1>6

\* The findings of one code at one endpoint.
Group(findings, k) == {f \in findings : group_key(f) = k}

\* What ClustersKeepTheWorst says of one cluster.
ClusterKeeps(c, findings) ==
  /\ c.members \subseteq findings /\ c.members # {}
  /\ c.unique_occurrences = c.recurrence_count /\ c.unique_occurrences \in Nat \ {0}
  /\ (c.outcome = "negative") = \E f \in c.members : f.outcome = "negative"
  /\ c.outcome = "negative" =>
       /\ \E f \in c.members : f.outcome = "negative" /\ f.basis_state = c.basis_state
       /\ \E f \in c.members : f.outcome = "negative" /\ f.severity = c.severity
  /\ c.severity \in DOMAIN SEVERITY_POINTS /\ c.basis_state \in EvidenceState

LEMMA ClusterOfGroup ==
  ASSUME NEW ev, EvidenceInv(ev), NEW day,
         NEW f \in evaluate_policy_batch(ev, day).findings
  PROVE  LET findings == evaluate_policy_batch(ev, day).findings
             members == Group(findings, group_key(f))
         IN  /\ cluster_from_group(members).members = members
             /\ f \in members
             /\ ClusterKeeps(cluster_from_group(members), findings)
<1> DEFINE findings == evaluate_policy_batch(ev, day).findings
           members == Group(findings, group_key(f))
           negatives == {g \in members : g.outcome = "negative"}
           primary == pick_primary(members)
           c == cluster_from_group(members)
           keys == {occurrence_key(g) : g \in members}
           K == [g \in members |-> occurrence_key(g)]
<1>1. f \in members /\ members \subseteq findings
  BY DEF Group
<1>2. \A g \in members : FindingTyped(g)
  BY <1>1, FindingsAreTyped
<1>3. primary \subseteq members /\ primary # {} /\ (negatives # {} => primary = negatives)
  BY <1>1 DEF pick_primary
<1>4. PICK g \in primary : g.severity = max_severity(primary)
  BY <1>2, <1>3, WorstIsAMember
<1>5. PICK h \in primary : h.basis_state = weakest_basis(primary)
  BY <1>2, <1>3, WorstIsAMember
<1>6. /\ c.members = members
      /\ c.outcome = IF \E x \in members : x.outcome = "negative" THEN "negative" ELSE "indeterminate"
      /\ c.severity = max_severity(primary) /\ c.basis_state = weakest_basis(primary)
      /\ c.recurrence_count = Cardinality(members)
      /\ c.unique_occurrences = Cardinality(keys)
  BY DEF cluster_from_group
<1>7. IsFiniteSet(members)
  BY <1>1, FindingsAreFinite, FS_Subset
<1>8. ASSUME NEW x \in members, NEW y \in members, occurrence_key(x) = occurrence_key(y)
      PROVE  x = y
  <2>1. x.code = y.code
    BY DEF Group, group_key
  <2>2. x.key = y.key
    BY <1>8 DEF occurrence_key
  <2> QED BY <1>1, <2>1, <2>2, FindingsToldApart
<1> HIDE DEF findings, members
<1>9. Cardinality(keys) = Cardinality(members) /\ IsFiniteSet(keys)
  <2>1. K \in Surjection(members, keys)
    BY DEF Surjection
  <2>2. K \in Injection(members, keys)
    BY <1>8 DEF Injection, IsInjective
  <2> QED BY <1>7, <2>1, <2>2, FS_Surjection
<1>10. Cardinality(keys) \in Nat \ {0}
  <2>1. Cardinality(members) \in Nat /\ Cardinality(members) # 0
    BY <1>1, <1>7, FS_CardinalityType, FS_EmptySet
  <2> QED BY <1>9, <2>1
<1> HIDE DEF primary, c, keys
<1>11. c.severity \in DOMAIN SEVERITY_POINTS /\ c.basis_state \in EvidenceState
  BY <1>2, <1>3, <1>4, <1>5, <1>6 DEF FindingTyped
<1>12. c.outcome = "negative" => g \in negatives /\ h \in negatives
  BY <1>3, <1>4, <1>5, <1>6
<1>13. (c.outcome = "negative") = \E x \in members : x.outcome = "negative"
  BY <1>6
<1>14. ClusterKeeps(c, findings)
  BY <1>1, <1>4, <1>5, <1>6, <1>9, <1>10, <1>11, <1>12, <1>13 DEF ClusterKeeps
<1> QED BY <1>1, <1>6, <1>14 DEF c, findings, members

LEMMA ClustersKeep ==
  ASSUME NEW ev, EvidenceInv(ev), NEW day,
         NEW c \in dedup_findings(evaluate_policy_batch(ev, day).findings)
  PROVE  ClusterKeeps(c, evaluate_policy_batch(ev, day).findings)
<1> DEFINE findings == evaluate_policy_batch(ev, day).findings
<1>1. PICK f \in findings : c = cluster_from_group(Group(findings, group_key(f)))
  BY DEF dedup_findings, Group
<1> QED BY <1>1, ClusterOfGroup

\* The smaller of two numbers.
LEMMA MinOfTwo ==
  ASSUME NEW a \in Int, NEW b \in Int
  PROVE  Min({a, b}) = IF a <= b THEN a ELSE b
<1> DEFINE S == {a, b}
<1>1. \E x \in S : \A y \in S : x =< y
  OBVIOUS
<1>2. Min(S) \in S /\ \A y \in S : Min(S) =< y
  BY <1>1 DEF Min
<1> QED BY <1>2

LEMMA ScoreIsBounded ==
  ASSUME NEW c, NEW asset, c.severity \in DOMAIN SEVERITY_POINTS,
         c.basis_state \in EvidenceState, c.unique_occurrences \in Nat \ {0},
         asset.exposure \in DOMAIN EXPOSURE_POINTS,
         asset.criticality \in DOMAIN CRITICALITY_POINTS,
         asset.blast_radius \in DOMAIN BLAST_RADIUS_POINTS
  PROVE  /\ compute_score(c, asset) \in SEVERITY_POINTS[c.severity]..100
         /\ compute_score(c, asset) \in 1..100
<1>1. SEVERITY_POINTS[c.severity] \in Nat /\ SEVERITY_POINTS[c.severity] <= 100
  BY DEF SEVERITY_POINTS
<1>2. CONFIDENCE_POINTS[c.basis_state] \in Nat
  BY DEF CONFIDENCE_POINTS, EvidenceState
<1>3. EXPOSURE_POINTS[asset.exposure] \in Nat \ {0}
  BY DEF EXPOSURE_POINTS
<1>4. CRITICALITY_POINTS[asset.criticality] \in Nat
  BY DEF CRITICALITY_POINTS
<1>5. BLAST_RADIUS_POINTS[asset.blast_radius] \in Nat
  BY DEF BLAST_RADIUS_POINTS
<1>6. recurrence_points(c.unique_occurrences) \in Nat
  <2>1. 2 * (c.unique_occurrences - 1) \in Nat
    OBVIOUS
  <2> QED BY <2>1, MinOfTwo DEF recurrence_points, RECURRENCE_CAP, RECURRENCE_STEP
<1> DEFINE total == SEVERITY_POINTS[c.severity] + CONFIDENCE_POINTS[c.basis_state]
                    + EXPOSURE_POINTS[asset.exposure] + recurrence_points(c.unique_occurrences)
                    + CRITICALITY_POINTS[asset.criticality] + BLAST_RADIUS_POINTS[asset.blast_radius]
<1>7. total \in Nat /\ 1 <= total /\ SEVERITY_POINTS[c.severity] <= total
  <2>1. \A s, k, e, r, t, b \in Nat : e # 0 =>
          s + k + e + r + t + b \in Nat /\ 1 <= s + k + e + r + t + b /\ s <= s + k + e + r + t + b
    OBVIOUS
  <2> QED BY <1>1, <1>2, <1>3, <1>4, <1>5, <1>6, <2>1
<1>8. compute_score(c, asset) = Min({100, total})
  BY DEF compute_score
<1> HIDE DEF total
<1>9. Min({100, total}) = IF 100 <= total THEN 100 ELSE total
  BY <1>7, MinOfTwo
<1> QED BY <1>1, <1>7, <1>8, <1>9

\* The posture of an evaluation holds its clusters, each with a score in bounds.
LEMMA PostureIs ==
  ASSUME NEW findings, NEW checks, NEW assets \in Assets,
         \A c \in dedup_findings(findings) : ClusterKeeps(c, findings)
  PROVE  LET scored == build_posture(findings, checks, assets).scored
         IN  /\ {s.cluster : s \in scored} = dedup_findings(findings)
             /\ \A s \in scored : /\ s.score \in SEVERITY_POINTS[s.cluster.severity]..100
                                  /\ s.score \in 1..100
<1> DEFINE clusters == dedup_findings(findings)
           asset(c) == IF c.group[2] \in DOMAIN assets THEN assets[c.group[2]] ELSE NoAsset
           scored == build_posture(findings, checks, assets).scored
<1>1. scored = {scored_from_cluster(c, asset(c)) : c \in clusters}
  BY DEF build_posture
<1>2. \A c : /\ asset(c).exposure \in DOMAIN EXPOSURE_POINTS
             /\ asset(c).criticality \in DOMAIN CRITICALITY_POINTS
             /\ asset(c).blast_radius \in DOMAIN BLAST_RADIUS_POINTS
  <2>1. /\ NoAsset.exposure \in DOMAIN EXPOSURE_POINTS
        /\ NoAsset.criticality \in DOMAIN CRITICALITY_POINTS
        /\ NoAsset.blast_radius \in DOMAIN BLAST_RADIUS_POINTS
    BY DEF NoAsset, EXPOSURE_POINTS, CRITICALITY_POINTS, BLAST_RADIUS_POINTS
  <2> QED BY <2>1, EvidenceAssumption
<1> HIDE DEF asset, scored, clusters
<1>3. \A c : /\ scored_from_cluster(c, asset(c)).cluster = c
             /\ scored_from_cluster(c, asset(c)).score = compute_score(c, asset(c))
  BY DEF scored_from_cluster
<1>4. {s.cluster : s \in scored} = clusters
  BY <1>1, <1>3
<1>5. ASSUME NEW s \in scored
      PROVE  s.score \in SEVERITY_POINTS[s.cluster.severity]..100 /\ s.score \in 1..100
  <2>1. PICK c \in clusters : s = scored_from_cluster(c, asset(c))
    BY <1>1
  <2>2. ClusterKeeps(c, findings)
    BY DEF clusters
  <2>3. /\ compute_score(c, asset(c)) \in SEVERITY_POINTS[c.severity]..100
        /\ compute_score(c, asset(c)) \in 1..100
    BY <1>2, <2>2, ScoreIsBounded DEF ClusterKeeps
  <2> QED BY <1>3, <2>1, <2>3
<1> QED BY <1>4, <1>5 DEF clusters, scored

\* ClustersKeepTheWorst for every pack, all evidence and every inventory: no finding is
\* lost or counted twice, a negative finding keeps its cluster negative with a severity
\* and a basis that a negative member has, and no score leaves its range
\* (dedup_findings, compute_score).
THEOREM ClustersAreHonest == Spec => []ClustersKeepTheWorst
<1>1. JudgedInv => ClustersKeepTheWorst
  <2> SUFFICES ASSUME JudgedInv, phase = "scored"
               PROVE  ClustersKeepTheWorst
    BY DEF ClustersKeepTheWorst
  <2> DEFINE clusters == dedup_findings(evaluation.findings)
  <2>1. evaluation = evaluate_policy_batch(evidence, Today) /\ EvidenceInv(evidence)
    BY DEF JudgedInv, Evaluated
  <2>2. PICK assets \in Assets :
          posture = build_posture(evaluation.findings, evaluation.checks, assets)
    BY DEF JudgedInv
  <2>3. \A f \in evaluation.findings :
          LET c == cluster_from_group(Group(evaluation.findings, group_key(f)))
          IN  c.members = Group(evaluation.findings, group_key(f)) /\ f \in c.members
    BY <2>1, ClusterOfGroup
  <2>4. clusters = {cluster_from_group(Group(evaluation.findings, group_key(f))) :
                      f \in evaluation.findings}
    BY DEF dedup_findings, Group
  <2>5. \A c \in clusters : ClusterKeeps(c, evaluation.findings)
    BY <2>1, ClustersKeep
  <2>6. /\ {s.cluster : s \in posture.scored} = clusters
        /\ \A s \in posture.scored : s.score \in SEVERITY_POINTS[s.cluster.severity]..100
    BY <2>2, <2>5, PostureIs
  <2>7. ASSUME NEW f \in evaluation.findings
        PROVE  Cardinality({c \in clusters : f \in c.members}) = 1
    <3> DEFINE c == cluster_from_group(Group(evaluation.findings, group_key(f)))
    <3>1. c \in clusters /\ f \in c.members
      BY <2>3, <2>4
    <3>2. ASSUME NEW d \in clusters, f \in d.members PROVE d = c
      <4>1. PICK g \in evaluation.findings :
              d = cluster_from_group(Group(evaluation.findings, group_key(g)))
        BY <2>4
      <4>2. f \in Group(evaluation.findings, group_key(g))
        BY <2>3, <3>2, <4>1
      <4>3. group_key(f) = group_key(g)
        BY <4>2 DEF Group
      <4> QED BY <4>1, <4>3
    <3> HIDE DEF c, clusters
    <3>3. {d \in clusters : f \in d.members} = {c}
      BY <3>1, <3>2
    <3> QED BY <3>3, FS_Singleton
  <2> HIDE DEF clusters
  <2> QED BY <2>5, <2>6, <2>7 DEF ClustersKeepTheWorst, ClusterKeeps
<1> QED BY <1>1, JudgedAlways, PTL

-----------------------------------------------------------------------------
(* The headline.                                                           *)

LEMMA ChecksAreFinite ==
  ASSUME NEW ev, EvidenceInv(ev), NEW day
  PROVE  /\ IsFiniteSet(evaluate_policy_batch(ev, day).checks)
         /\ \A c \in evaluate_policy_batch(ev, day).checks : c.outcome \in Outcomes
<1> DEFINE checks == evaluate_policy_batch(ev, day).checks
           records == ev.flows \cup ev.sessions \cup ev.handshakes \cup ev.certificates
           all == Rules \X records
           checked(p) == CheckOf(Judgement(ev, p[1], p[2]), day)
           D == {p \in all : checked(p) \in checks}
           F == [p \in D |-> checked(p)]
<1>1. IsFiniteSet(records)
  BY FS_Union DEF EvidenceInv, KindInv
<1>2. IsFiniteSet(all)
  BY <1>1, EvidenceAssumption, FS_Product
<1>3. IsFiniteSet(D)
  BY <1>2, FS_Subset
<1>4. ASSUME NEW c \in checks PROVE c.outcome \in Outcomes /\ \E p \in D : F[p] = c
  <2>1. PICK j \in Judgements(ev, day) :
          c = CheckOf(j, day) /\ Verdict(j, day).check.outcome # "omitted"
    BY EvaluationIs
  <2>2. j.rule \in Rules /\ j.record \in records /\ j = Judgement(ev, j.rule, j.record)
    BY JudgementsAre DEF records_for_target
  <2>3. <<j.rule, j.record>> \in all /\ checked(<<j.rule, j.record>>) = c
    BY <2>1, <2>2
  <2> HIDE DEF checked, all
  <2>4. <<j.rule, j.record>> \in D
    BY <2>3
  <2>5. c.outcome = Verdict(j, day).check.outcome
    BY <2>1 DEF CheckOf, to_check
  <2>6. c.outcome \in Outcomes
    BY <2>1, <2>5, VerdictsAreShaped DEF Verdict, VerdictShape, Outcomes
  <2> QED BY <2>3, <2>4, <2>6
<1> HIDE DEF checked, all, checks
<1>5. F \in Surjection(D, checks)
  BY <1>4 DEF Surjection
<1> QED BY <1>3, <1>4, <1>5, FS_Surjection DEF checks

-----------------------------------------------------------------------------
(* What the loop of aggregate_coverage computes, stated without it: every   *)
(* counter is the number of checks it counts, in every table.              *)

Counted(T, n) == {c \in T : n \in {c.outcome, "applicable"}}

Counts(T) == [n \in Counters |-> Cardinality(Counted(T, n))]

Table(T, key) == [k \in {key[c] : c \in T} |-> Counts({c \in T : key[c] = k})]

Cells(T, protocol, category) ==
  [p \in {protocol[c] : c \in T} |-> Table({c \in T : protocol[c] = p}, category)]

Tabulated(T, protocol, category) ==
  [overall |-> Counts(T), by_protocol |-> Table(T, protocol), by_category |-> Table(T, category),
   by_cell |-> Cells(T, protocol, category)]

\* The counts of a set of checks are numbers; "applicable" is its size, and another count
\* is 0 exactly when no check has its outcome (_increment).
LEMMA CountsAddUp ==
  ASSUME NEW checks, IsFiniteSet(checks), \A c \in checks : c.outcome \in Outcomes
  PROVE  /\ \A o \in Outcomes : Counts(checks)[o] \in Nat
         /\ \A o \in Outcomes : Counts(checks)[o] = 0 <=> \A c \in checks : c.outcome # o
         /\ Counts(checks)["applicable"] = Cardinality(checks)
<1>1. \A n : IsFiniteSet(Counted(checks, n))
  BY FS_Subset DEF Counted
<1>2. \A n \in Counters : Counts(checks)[n] = Cardinality(Counted(checks, n))
  BY DEF Counts
<1>3. \A n \in Counters : Counts(checks)[n] = 0 <=> Counted(checks, n) = {}
  BY <1>1, <1>2, FS_EmptySet
<1>4. \A o \in Outcomes : o \in Counters /\ o # "applicable"
  BY DEF Counters, Outcomes
<1>5. \A o \in Outcomes : Counted(checks, o) = {} <=> \A c \in checks : c.outcome # o
  BY <1>4 DEF Counted
<1>6. Counted(checks, "applicable") = checks /\ "applicable" \in Counters
  BY DEF Counted, Counters
<1>7. Counts(checks)["applicable"] = Cardinality(checks)
  BY <1>2, <1>6
<1>8. ASSUME NEW o \in Outcomes
      PROVE  /\ Counts(checks)[o] \in Nat
             /\ Counts(checks)[o] = 0 <=> \A c \in checks : c.outcome # o
  <2>1. o \in Counters
    BY <1>4
  <2>2. Cardinality(Counted(checks, o)) \in Nat
    BY <1>1, FS_CardinalityType
  <2>3. /\ Counts(checks)[o] = Cardinality(Counted(checks, o))
        /\ Counts(checks)[o] = 0 <=> Counted(checks, o) = {}
    BY <1>2, <1>3, <2>1
  <2>4. Counted(checks, o) = {} <=> \A c \in checks : c.outcome # o
    BY <1>5
  <2> QED BY <2>2, <2>3, <2>4
<1> QED BY <1>7, <1>8

\* Without checks there is nothing to count.
LEMMA NothingToCount == Counts({}) = zero_counts
<1>1. \A n : Counted({}, n) = {}
  BY DEF Counted
<1> QED BY <1>1, FS_EmptySet DEF Counts, zero_counts

\* One more check is one more in each counter that counts it (_increment).
LEMMA OneMoreCounts ==
  ASSUME NEW T, IsFiniteSet(T), NEW x \in T
  PROVE  Counts(T) = increment(Counts(T \ {x}), x.outcome)
<1> DEFINE U == T \ {x}
<1>1. IsFiniteSet(U)
  BY FS_Subset
<1>2. ASSUME NEW n \in Counters
      PROVE  Counts(T)[n] = IF n \in {x.outcome, "applicable"} THEN Counts(U)[n] + 1
                            ELSE Counts(U)[n]
  <2>1. Counts(T)[n] = Cardinality(Counted(T, n)) /\ Counts(U)[n] = Cardinality(Counted(U, n))
    BY DEF Counts
  <2>2. IsFiniteSet(Counted(U, n)) /\ x \notin Counted(U, n)
    BY <1>1, FS_Subset DEF Counted
  <2>3. CASE n \in {x.outcome, "applicable"}
    <3>1. Counted(T, n) = Counted(U, n) \cup {x}
      BY <2>3 DEF Counted
    <3>2. Cardinality(Counted(T, n)) = Cardinality(Counted(U, n)) + 1
      BY <2>2, <3>1, FS_AddElement
    <3> QED BY <2>1, <2>3, <3>2
  <2>4. CASE n \notin {x.outcome, "applicable"}
    <3>1. Counted(T, n) = Counted(U, n)
      BY <2>4 DEF Counted
    <3> QED BY <2>1, <2>4, <3>1
  <2> QED BY <2>3, <2>4
<1>3. Counts(T) = [n \in Counters |-> Counts(T)[n]]
  BY DEF Counts
<1>4. increment(Counts(U), x.outcome) =
        [n \in Counters |-> IF n \in {x.outcome, "applicable"} THEN Counts(U)[n] + 1
                            ELSE Counts(U)[n]]
  BY DEF increment
<1> HIDE DEF U
<1>5. Counts(T) = increment(Counts(U), x.outcome)
  BY <1>2, <1>3, <1>4
<1> QED BY <1>5 DEF U

\* One more check is counted in the row of its key, which may be new; the other rows
\* stay (CountIn).
LEMMA OneMoreInTable ==
  ASSUME NEW T, IsFiniteSet(T), NEW x \in T, NEW key
  PROVE  Table(T, key) = CountIn(Table(T \ {x}, key), key[x], x.outcome)
<1> DEFINE U == T \ {x}
           of(S, k) == {c \in S : key[c] = k}
           table == Table(U, key)
<1>1. /\ DOMAIN Table(T, key) = {key[c] : c \in T} /\ DOMAIN table = {key[c] : c \in U}
      /\ \A k \in DOMAIN Table(T, key) : Table(T, key)[k] = Counts(of(T, k))
      /\ \A k \in DOMAIN table : table[k] = Counts(of(U, k))
  BY DEF Table
<1>2. {key[c] : c \in T} = DOMAIN table \cup {key[x]}
  BY <1>1
<1>3. \A k : k # key[x] => of(T, k) = of(U, k)
  OBVIOUS
<1>4. Counts(of(T, key[x])) = increment(Counts(of(U, key[x])), x.outcome)
  <2>1. IsFiniteSet(of(T, key[x])) /\ x \in of(T, key[x])
    BY FS_Subset
  <2>2. of(T, key[x]) \ {x} = of(U, key[x])
    OBVIOUS
  <2> HIDE DEF of
  <2> QED BY <2>1, <2>2, OneMoreCounts
<1>5. Entry(table, key[x], zero_counts) = Counts(of(U, key[x]))
  <2>1. CASE key[x] \in DOMAIN table
    BY <1>1, <2>1 DEF Entry
  <2>2. CASE key[x] \notin DOMAIN table
    <3>1. of(U, key[x]) = {}
      BY <1>1, <2>2
    <3> HIDE DEF of, table
    <3> QED BY <2>2, <3>1, NothingToCount DEF Entry
  <2> QED BY <2>1, <2>2
<1> HIDE DEF of, table, U
<1>6. CountIn(table, key[x], x.outcome) =
        [k \in DOMAIN table \cup {key[x]} |->
           IF k = key[x] THEN Counts(of(T, key[x])) ELSE table[k]]
  BY <1>4, <1>5 DEF CountIn, WithEntry
<1>7. \A k \in DOMAIN table \cup {key[x]} :
        Table(T, key)[k] = IF k = key[x] THEN Counts(of(T, key[x])) ELSE table[k]
  BY <1>1, <1>2, <1>3
<1>8. Table(T, key) = [k \in DOMAIN table \cup {key[x]} |-> Table(T, key)[k]]
  BY <1>1, <1>2 DEF Table
<1>9. Table(T, key) = CountIn(table, key[x], x.outcome)
  BY <1>6, <1>7, <1>8
<1> QED BY <1>9 DEF table, U

\* The same of the rows of cells, where a new protocol starts an empty row (setdefault).
LEMMA OneMoreCell ==
  ASSUME NEW T, IsFiniteSet(T), NEW x \in T, NEW protocol, NEW category
  PROVE  Cells(T, protocol, category) =
           LET cells == Cells(T \ {x}, protocol, category)
           IN  WithEntry(cells, protocol[x],
                         CountIn(Entry(cells, protocol[x], << >>), category[x], x.outcome))
<1> DEFINE U == T \ {x}
           of(S, p) == {c \in S : protocol[c] = p}
           all == Cells(T, protocol, category)
           cells == Cells(U, protocol, category)
           row == CountIn(Entry(cells, protocol[x], << >>), category[x], x.outcome)
<1>1. /\ DOMAIN all = {protocol[c] : c \in T} /\ DOMAIN cells = {protocol[c] : c \in U}
      /\ \A p \in DOMAIN all : all[p] = Table(of(T, p), category)
      /\ \A p \in DOMAIN cells : cells[p] = Table(of(U, p), category)
  BY DEF Cells
<1>2. DOMAIN all = DOMAIN cells \cup {protocol[x]}
  BY <1>1
<1>3. \A p : p # protocol[x] => of(T, p) = of(U, p)
  OBVIOUS
<1>4. Table(of(T, protocol[x]), category) =
        CountIn(Table(of(U, protocol[x]), category), category[x], x.outcome)
  <2>1. IsFiniteSet(of(T, protocol[x])) /\ x \in of(T, protocol[x])
    BY FS_Subset
  <2>2. of(T, protocol[x]) \ {x} = of(U, protocol[x])
    OBVIOUS
  <2> HIDE DEF of
  <2> QED BY <2>1, <2>2, OneMoreInTable
<1>5. Entry(cells, protocol[x], << >>) = Table(of(U, protocol[x]), category)
  <2>1. CASE protocol[x] \in DOMAIN cells
    BY <1>1, <2>1 DEF Entry
  <2>2. CASE protocol[x] \notin DOMAIN cells
    <3>1. of(U, protocol[x]) = {}
      BY <1>1, <2>2
    <3>2. Table({}, category) = << >>
      BY DEF Table
    <3> HIDE DEF of, cells
    <3> QED BY <2>2, <3>1, <3>2 DEF Entry
  <2> QED BY <2>1, <2>2
<1>6. all = [p \in DOMAIN all |-> all[p]]
  BY DEF Cells
<1> HIDE DEF of, cells, all, U
<1>7. row = Table(of(T, protocol[x]), category)
  BY <1>4, <1>5
<1> HIDE DEF row
<1>8. \A p \in DOMAIN all : all[p] = IF p = protocol[x] THEN row ELSE cells[p]
  BY <1>1, <1>2, <1>3, <1>7
<1>9. all = WithEntry(cells, protocol[x], row)
  BY <1>2, <1>6, <1>8 DEF WithEntry
<1> QED BY <1>9 DEF all, cells, row, U

\* The loop of aggregate_coverage ends with the counts of the checks, whatever the order
\* it takes them in.
LEMMA LoopTabulates ==
  ASSUME NEW checks, IsFiniteSet(checks), NEW protocol, NEW category,
         \A c \in checks : protocol[c] = c.protocol /\ category[c] = c.category
  PROVE  aggregate_coverage(checks) = Tabulated(checks, protocol, category)
<1> DEFINE Is(h) == h = [s \in SUBSET checks |-> IF s = {} THEN EmptyMatrix
                            ELSE CountCheck(CHOOSE x \in s : TRUE, h[s \ {CHOOSE x \in s : TRUE}])]
           iter == CHOOSE h : Is(h)
           g == [s \in SUBSET checks |-> Tabulated(s, protocol, category)]
<1>1. aggregate_coverage(checks) = iter[checks]
  BY DEF aggregate_coverage, FoldSet, MapThenFoldSet
<1>2. ASSUME NEW s \in SUBSET checks, NEW x \in s
      PROVE  Tabulated(s, protocol, category)
               = CountCheck(x, Tabulated(s \ {x}, protocol, category))
  <2>1. IsFiniteSet(s) /\ protocol[x] = x.protocol /\ category[x] = x.category
    BY FS_Subset
  <2>2. Counts(s) = increment(Counts(s \ {x}), x.outcome)
    BY <2>1, OneMoreCounts
  <2>3. Table(s, protocol) = CountIn(Table(s \ {x}, protocol), x.protocol, x.outcome)
    BY <2>1, OneMoreInTable
  <2>4. Table(s, category) = CountIn(Table(s \ {x}, category), x.category, x.outcome)
    BY <2>1, OneMoreInTable
  <2>5. Cells(s, protocol, category) =
          WithEntry(Cells(s \ {x}, protocol, category), x.protocol,
                    CountIn(Entry(Cells(s \ {x}, protocol, category), x.protocol, << >>),
                            x.category, x.outcome))
    BY <2>1, OneMoreCell
  <2> QED BY <2>2, <2>3, <2>4, <2>5 DEF Tabulated, CountCheck
<1>3. Tabulated({}, protocol, category) = EmptyMatrix
  <2>1. Table({}, protocol) = << >> /\ Table({}, category) = << >>
    BY DEF Table
  <2>2. Cells({}, protocol, category) = << >>
    BY DEF Cells
  <2> QED BY <2>1, <2>2, NothingToCount DEF Tabulated, EmptyMatrix
<1>4. Is(g)
  <2>1. ASSUME NEW s \in SUBSET checks
        PROVE  g[s] = IF s = {} THEN EmptyMatrix
                      ELSE CountCheck(CHOOSE x \in s : TRUE, g[s \ {CHOOSE x \in s : TRUE}])
    <3>1. CASE s = {}
      BY <1>3, <3>1
    <3>2. CASE s # {}
      <4> DEFINE x == CHOOSE x \in s : TRUE
      <4>1. x \in s /\ s \ {x} \in SUBSET checks
        BY <3>2
      <4> HIDE DEF x
      <4>2. g[s] = CountCheck(x, g[s \ {x}])
        BY <1>2, <4>1
      <4> QED BY <3>2, <4>2 DEF x
    <3> QED BY <3>1, <3>2
  <2> QED BY <2>1
<1> HIDE DEF g
<1>5. Is(iter)
  <2> HIDE DEF Is
  <2> QED BY <1>4
<1> HIDE DEF iter
<1>6. \A s \in SUBSET checks : iter[s] = IF s = {} THEN EmptyMatrix
                ELSE CountCheck(CHOOSE x \in s : TRUE, iter[s \ {CHOOSE x \in s : TRUE}])
  BY <1>5
<1>7. \A s \in SUBSET checks : g[s] = IF s = {} THEN EmptyMatrix
                ELSE CountCheck(CHOOSE x \in s : TRUE, g[s \ {CHOOSE x \in s : TRUE}])
  BY <1>4
<1> HIDE DEF Is
<1>8. \A s \in SUBSET checks : iter[s] = g[s]
  <2> SUFFICES ASSUME \E s \in SUBSET checks : iter[s] # g[s] PROVE FALSE
    OBVIOUS
  <2> DEFINE bad == {Cardinality(s) : s \in {t \in SUBSET checks : iter[t] # g[t]}}
  <2>1. bad \in SUBSET Nat /\ bad # {}
    BY FS_Subset, FS_CardinalityType
  <2>2. PICK m \in bad : \A y \in bad : m <= y
    BY <2>1, LeastExists
  <2>3. PICK s \in SUBSET checks : iter[s] # g[s] /\ Cardinality(s) = m
    BY <2>2
  <2>4. s # {}
    BY <1>6, <1>7, <2>3
  <2> DEFINE x == CHOOSE x \in s : TRUE
  <2>5. x \in s
    BY <2>4
  <2>6. iter[s] = CountCheck(x, iter[s \ {x}]) /\ g[s] = CountCheck(x, g[s \ {x}])
    BY <1>6, <1>7, <2>4
  <2> HIDE DEF x
  <2>7. IsFiniteSet(s) /\ Cardinality(s) \in Nat /\ Cardinality(s \ {x}) = Cardinality(s) - 1
    BY <2>5, FS_Subset, FS_CardinalityType, FS_RemoveElement
  <2>8. s \ {x} \in SUBSET checks /\ iter[s \ {x}] # g[s \ {x}]
    BY <2>3, <2>6
  <2>9. Cardinality(s \ {x}) \in bad
    BY <2>8
  <2> HIDE DEF bad
  <2> QED BY <2>2, <2>3, <2>7, <2>9
<1>9. g[checks] = Tabulated(checks, protocol, category)
  BY DEF g
<1> QED BY <1>1, <1>8, <1>9

\* An assessment is complete when there are checks and all of them were decided.
LEMMA CompleteIsDecided ==
  ASSUME NEW checks, IsFiniteSet(checks), \A c \in checks : c.outcome \in Outcomes
  PROVE  assessment_state(Counts(checks)) = "complete"
           <=> checks # {} /\ \A c \in checks : c.outcome \in {"pass", "fail"}
<1> DEFINE counts == Counts(checks)
<1>1. {"unknown", "not_observable"} \subseteq Outcomes
  BY DEF Outcomes
<1>2. counts["unknown"] > 0 <=> \E c \in checks : c.outcome = "unknown"
  BY <1>1, CountsAddUp
<1>3. counts["not_observable"] > 0 <=> \E c \in checks : c.outcome = "not_observable"
  BY <1>1, CountsAddUp
<1>4. counts["applicable"] = 0 <=> checks = {}
  BY CountsAddUp, FS_EmptySet
<1> HIDE DEF counts
<1>5. assessment_state(counts) = "complete" <=>
        checks # {} /\ ~(counts["unknown"] > 0) /\ ~(counts["not_observable"] > 0)
  BY <1>4 DEF assessment_state
<1>6. (\A c \in checks : c.outcome \in {"pass", "fail"})
        <=> ~(\E c \in checks : c.outcome = "unknown") /\ ~(\E c \in checks : c.outcome = "not_observable")
  BY DEF Outcomes
<1> QED BY <1>2, <1>3, <1>5, <1>6 DEF counts

\* The highest of scores is one of them.
LEMMA MaxIsAScore ==
  ASSUME NEW S \in SUBSET (1..100), S # {}
  PROVE  Max(S) \in S
<1> DEFINE gaps == {100 - x : x \in S}
<1>1. gaps \in SUBSET Nat /\ gaps # {}
  <2>1. \A x \in S : x \in 1..100 /\ 100 - x \in Nat
    OBVIOUS
  <2> QED BY <2>1
<1>2. PICK m \in gaps : \A y \in gaps : m <= y
  BY <1>1, LeastExists
<1>3. PICK x \in S : m = 100 - x
  OBVIOUS
<1>4. \A y \in S : 100 - x <= 100 - y
  BY <1>2, <1>3
<1>5. \A y \in S : x >= y
  BY <1>4
<1> QED BY <1>5 DEF Max

\* HeadlineIsHonest for every pack, all evidence and every inventory: the state and the
\* risk score at the head of a report never promise more than its checks and findings
\* (_assessment_state, _risk_score).
THEOREM HeadlineHoldsUp == Spec => []HeadlineIsHonest
<1>1. JudgedInv => HeadlineIsHonest
  <2> SUFFICES ASSUME JudgedInv, phase = "scored"
               PROVE  HeadlineIsHonest
    BY DEF HeadlineIsHonest
  <2> DEFINE findings == evaluation.findings
             checks == evaluation.checks
             scores == {s.score : s \in posture.scored}
             clean == \A c \in checks : c.outcome = "pass"
  <2>1. evaluation = evaluate_policy_batch(evidence, Today) /\ EvidenceInv(evidence)
    BY DEF JudgedInv, Evaluated
  <2>2. PICK assets \in Assets : posture = build_posture(findings, checks, assets)
    BY DEF JudgedInv
  <2>3. /\ posture.coverage.overall = Counts(checks)
        /\ posture.assessment_state = assessment_state(Counts(checks))
        /\ posture.risk_score = risk_score(posture.assessment_state, scores)
    <3> DEFINE protocol == [c \in checks |-> c.protocol]
               category == [c \in checks |-> c.category]
    <3>1. aggregate_coverage(checks) = Tabulated(checks, protocol, category)
      <4>1. IsFiniteSet(checks)
        BY <2>1, ChecksAreFinite
      <4>2. \A c \in checks : protocol[c] = c.protocol /\ category[c] = c.category
        OBVIOUS
      <4> HIDE DEF checks, protocol, category
      <4> QED BY <4>1, <4>2, LoopTabulates
    <3>2. aggregate_coverage(checks).overall = Counts(checks)
      BY <3>1 DEF Tabulated
    <3> HIDE DEF checks
    <3> QED BY <2>2, <3>2 DEF build_posture
  <2>4. IsFiniteSet(checks) /\ \A c \in checks : c.outcome \in Outcomes
    BY <2>1, ChecksAreFinite
  <2>5. posture.assessment_state = "complete"
          <=> checks # {} /\ \A c \in checks : c.outcome \in {"pass", "fail"}
    BY <2>3, <2>4, CompleteIsDecided
  <2>6. ASSUME NEW f \in findings
        PROVE  \E c \in checks : c.outcome # "pass" /\ (c.outcome = "fail" <=> f.outcome = "negative")
    BY <2>1, FindingsAreChecked
  <2>7. \A c \in checks : c.outcome = "fail" => findings # {}
    BY <2>1, FailuresAreFound
  <2>8. /\ scores \in SUBSET (1..100)
        /\ scores = {} <=> findings = {}
    <3>1. \A c \in dedup_findings(findings) : ClusterKeeps(c, findings)
      BY <2>1, ClustersKeep
    <3>2. /\ {s.cluster : s \in posture.scored} = dedup_findings(findings)
          /\ \A s \in posture.scored : s.score \in 1..100
      BY <2>2, <3>1, PostureIs
    <3>3. dedup_findings(findings) = {} <=> findings = {}
      <4>1. dedup_findings(findings) =
              {cluster_from_group(Group(findings, group_key(f))) : f \in findings}
        BY DEF dedup_findings, Group
      <4> QED BY <4>1
    <3>4. posture.scored = {} <=> findings = {}
      BY <3>2, <3>3
    <3> QED BY <3>2, <3>4
  <2>9. /\ posture.risk_score = {0} => scores = {} /\ posture.assessment_state = "complete"
        /\ posture.risk_score = {} => scores = {} /\ posture.assessment_state # "complete"
    <3> HIDE DEF scores
    <3>1. CASE scores # {}
      <4>1. Max(scores) \in 1..100
        BY <2>8, <3>1, MaxIsAScore
      <4>2. posture.risk_score = {Max(scores)}
        BY <2>3, <3>1 DEF risk_score
      <4> QED BY <4>1, <4>2
    <3>2. CASE scores = {}
      BY <2>3, <3>2 DEF risk_score
    <3> QED BY <3>1, <3>2
  <2>10. posture.coverage.overall["applicable"] = Cardinality(checks)
    BY <2>3, <2>4, CountsAddUp
  <2> HIDE DEF findings, checks, scores
  <2>11. posture.assessment_state = "complete" => \A f \in findings : f.outcome = "negative"
    BY <2>5, <2>6
  <2>12. posture.risk_score = {0} => clean /\ checks # {}
    BY <2>5, <2>7, <2>8, <2>9
  <2>13. posture.risk_score = {} => findings = {} /\ ~(clean /\ checks # {})
    BY <2>5, <2>8, <2>9
  <2> QED BY <2>5, <2>10, <2>11, <2>12, <2>13 DEF HeadlineIsHonest, findings, checks
<1> QED BY <1>1, JudgedAlways, PTL

-----------------------------------------------------------------------------
(* Sums.  A function on the subsets of a set that adds one element at a     *)
(* time, whichever it is, is the sum.                                      *)

AddsUp(g, f, S) ==
  /\ g \in [SUBSET S -> Nat] /\ g[{}] = 0
  /\ \A s \in SUBSET S : \A x \in s : g[s] = f[x] + g[s \ {x}]

LEMMA SumIs ==
  ASSUME NEW S, IsFiniteSet(S), NEW f, NEW g, AddsUp(g, f, S)
  PROVE  SumFunctionOnSet(f, S) = g[S]
<1> DEFINE Is(h) == h = [s \in SUBSET S |-> IF s = {} THEN 0
                            ELSE f[CHOOSE x \in s : TRUE] + h[s \ {CHOOSE x \in s : TRUE}]]
           iter == CHOOSE h : Is(h)
<1>1. SumFunctionOnSet(f, S) = iter[S]
  BY DEF SumFunctionOnSet, FoldFunctionOnSet, MapThenFoldSet
<1>2. Is(g)
  <2>1. \A s \in SUBSET S : g[s] = IF s = {} THEN 0
                            ELSE f[CHOOSE x \in s : TRUE] + g[s \ {CHOOSE x \in s : TRUE}]
    BY DEF AddsUp
  <2> QED BY <2>1 DEF AddsUp
<1>3. Is(iter)
  BY <1>2
<1> HIDE DEF iter
<1>4. \A s \in SUBSET S : iter[s] = IF s = {} THEN 0
                            ELSE f[CHOOSE x \in s : TRUE] + iter[s \ {CHOOSE x \in s : TRUE}]
  BY <1>3
<1> HIDE DEF Is
<1>5. \A s \in SUBSET S : iter[s] = g[s]
  <2> SUFFICES ASSUME \E s \in SUBSET S : iter[s] # g[s] PROVE FALSE
    OBVIOUS
  <2> DEFINE bad == {Cardinality(s) : s \in {t \in SUBSET S : iter[t] # g[t]}}
  <2>1. bad \in SUBSET Nat /\ bad # {}
    BY FS_Subset, FS_CardinalityType
  <2>2. PICK m \in bad : \A x \in bad : m <= x
    BY <2>1, LeastExists
  <2>3. PICK s \in SUBSET S : iter[s] # g[s] /\ Cardinality(s) = m
    BY <2>2
  <2>4. s # {}
    BY <1>4, <2>3 DEF AddsUp
  <2> DEFINE x == CHOOSE x \in s : TRUE
  <2>5. x \in s
    BY <2>4
  <2>6. iter[s] = f[x] + iter[s \ {x}]
    BY <1>4, <2>4
  <2> HIDE DEF x
  <2>7. g[s] = f[x] + g[s \ {x}]
    BY <2>5 DEF AddsUp
  <2>8. IsFiniteSet(s) /\ Cardinality(s) \in Nat /\ Cardinality(s \ {x}) = Cardinality(s) - 1
    BY <2>5, FS_Subset, FS_CardinalityType, FS_RemoveElement
  <2>9. s \ {x} \in SUBSET S /\ iter[s \ {x}] # g[s \ {x}]
    BY <2>3, <2>6, <2>7
  <2>10. Cardinality(s \ {x}) \in bad
    BY <2>9
  <2> HIDE DEF bad
  <2> QED BY <2>2, <2>3, <2>8, <2>10
<1> QED BY <1>1, <1>5

\* The members of U, counted class by class over the classes of T, add up to U.
LEMMA ClassesAddUp ==
  ASSUME NEW T, IsFiniteSet(T), NEW U, U \subseteq T, NEW key,
         NEW f, f = [k \in {key[t] : t \in T} |-> Cardinality({t \in U : key[t] = k})]
  PROVE  SumFunction(f) = Cardinality(U)
<1> DEFINE S == {key[t] : t \in T}
           of(s) == {t \in U : key[t] \in s}
           g == [s \in SUBSET S |-> Cardinality(of(s))]
<1>1. IsFiniteSet(S)
  <2> DEFINE F == [t \in T |-> key[t]]
  <2>1. F \in Surjection(T, S)
    BY DEF Surjection
  <2> QED BY <2>1, FS_Surjection
<1>2. \A s : IsFiniteSet(of(s)) /\ Cardinality(of(s)) \in Nat
  BY FS_Subset, FS_CardinalityType
<1>3. g[{}] = 0
  <2>1. of({}) = {}
    OBVIOUS
  <2> QED BY <2>1, FS_EmptySet
<1>4. ASSUME NEW s \in SUBSET S, NEW x \in s PROVE g[s] = f[x] + g[s \ {x}]
  <2>1. f[x] = Cardinality(of({x}))
    <3>1. {t \in U : key[t] = x} = of({x})
      OBVIOUS
    <3> QED BY <3>1
  <2>2. of(s) = of({x}) \cup of(s \ {x}) /\ of({x}) \cap of(s \ {x}) = {}
    OBVIOUS
  <2> HIDE DEF of
  <2>3. Cardinality(of(s)) = Cardinality(of({x})) + Cardinality(of(s \ {x})) - Cardinality({})
    BY <1>2, <2>2, FS_Union
  <2>4. Cardinality(of(s)) = Cardinality(of({x})) + Cardinality(of(s \ {x}))
    BY <1>2, <2>3, FS_EmptySet
  <2> QED BY <2>1, <2>4
<1>5. AddsUp(g, f, S)
  BY <1>2, <1>3, <1>4 DEF AddsUp
<1>6. of(S) = U
  OBVIOUS
<1>7. SumFunction(f) = SumFunctionOnSet(f, S)
  BY DEF SumFunction
<1> HIDE DEF of, S
<1>8. SumFunctionOnSet(f, S) = g[S]
  BY <1>1, <1>5, SumIs
<1> QED BY <1>6, <1>7, <1>8

\* The rows of a table add up, counter by counter, to the counts of all its checks.
LEMMA RowsAddUp ==
  ASSUME NEW T, IsFiniteSet(T), NEW key, NEW n \in Counters
  PROVE  SumFunction([k \in DOMAIN Table(T, key) |-> Table(T, key)[k][n]]) = Counts(T)[n]
<1> DEFINE f == [k \in DOMAIN Table(T, key) |-> Table(T, key)[k][n]]
           U == Counted(T, n)
<1>1. \A k \in {key[t] : t \in T} :
        Table(T, key)[k][n] = Cardinality(Counted({c \in T : key[c] = k}, n))
  BY DEF Table, Counts
<1>2. \A k : Counted({c \in T : key[c] = k}, n) = {t \in U : key[t] = k}
  BY DEF Counted
<1>3. DOMAIN Table(T, key) = {key[t] : t \in T}
  BY DEF Table
<1>4. f = [k \in {key[t] : t \in T} |-> Cardinality({t \in U : key[t] = k})]
  <2>1. \A k \in {key[t] : t \in T} : Table(T, key)[k][n] = Cardinality({t \in U : key[t] = k})
    BY <1>1, <1>2
  <2> HIDE DEF U
  <2> QED BY <1>3, <2>1
<1>5. U \subseteq T
  BY DEF Counted
<1> HIDE DEF f, U
<1>6. SumFunction(f) = Cardinality(U)
  BY <1>4, <1>5, ClassesAddUp
<1> QED BY <1>6 DEF f, U, Counts

\* BreakdownsAddUp for every pack and all evidence: whatever protocols and categories the
\* checks have and in whatever order they are counted, the four tables of the coverage
\* agree in every counter (aggregate_coverage).
THEOREM BreakdownsCountEveryCheck == Spec => []BreakdownsAddUp
<1>1. JudgedInv => BreakdownsAddUp
  <2> SUFFICES ASSUME JudgedInv, phase = "scored"
               PROVE  BreakdownsAddUp
    BY DEF BreakdownsAddUp
  <2> DEFINE checks == evaluation.checks
             matrix == posture.coverage
             sum(table, n) == SumFunction([k \in DOMAIN table |-> table[k][n]])
             protocol == [c \in checks |-> c.protocol]
             category == [c \in checks |-> c.category]
  <2>1. evaluation = evaluate_policy_batch(evidence, Today) /\ EvidenceInv(evidence)
    BY DEF JudgedInv, Evaluated
  <2>2. PICK assets \in Assets : posture = build_posture(evaluation.findings, checks, assets)
    BY DEF JudgedInv
  <2>3. IsFiniteSet(checks)
    BY <2>1, ChecksAreFinite
  <2>4. \A c \in checks : protocol[c] = c.protocol /\ category[c] = c.category
    OBVIOUS
  <2> HIDE DEF checks, protocol, category
  <2>5. matrix = Tabulated(checks, protocol, category)
    <3>1. matrix = aggregate_coverage(checks)
      BY <2>2 DEF build_posture
    <3> QED BY <2>3, <2>4, <3>1, LoopTabulates
  <2> HIDE DEF matrix
  <2>6. /\ matrix.overall = Counts(checks) /\ matrix.by_protocol = Table(checks, protocol)
        /\ matrix.by_category = Table(checks, category)
        /\ matrix.by_cell = Cells(checks, protocol, category)
    BY <2>5 DEF Tabulated
  <2>7. DOMAIN matrix.by_cell = DOMAIN matrix.by_protocol
    BY <2>6 DEF Cells, Table
  <2>8. ASSUME NEW n \in Counters
        PROVE  /\ sum(matrix.by_protocol, n) = matrix.overall[n]
               /\ sum(matrix.by_category, n) = matrix.overall[n]
    BY <2>3, <2>6, RowsAddUp
  <2>9. ASSUME NEW n \in Counters, NEW p \in DOMAIN matrix.by_cell
        PROVE  sum(matrix.by_cell[p], n) = matrix.by_protocol[p][n]
    <3> DEFINE own == {c \in checks : protocol[c] = p}
    <3>1. matrix.by_cell[p] = Table(own, category) /\ matrix.by_protocol[p] = Counts(own)
      BY <2>6, <2>9 DEF Cells, Table
    <3>2. IsFiniteSet(own)
      BY <2>3, FS_Subset
    <3> HIDE DEF own
    <3> QED BY <3>1, <3>2, RowsAddUp
  <2> QED BY <2>7, <2>8, <2>9 DEF BreakdownsAddUp, matrix
<1> QED BY <1>1, JudgedAlways, PTL

=============================================================================

------------------------- MODULE Certificates_proofs -------------------------
(***************************************************************************)
(* What the verdicts on server leaves promise for every certificate, log,  *)
(* trust store and limit, and for every answer the verifier may give.      *)
(***************************************************************************)
EXTENDS Certificates, FiniteSetTheorems, WellFoundedInduction, TLAPS

-----------------------------------------------------------------------------
(* One verdict.                                                            *)

\* What VerdictsHaveReasons asks of one verdict.
Reasoned(v) ==
  /\ \A p \in {v.capture, v.analysis} : (p.valid = "no") = (p.reasons # {})
  /\ (v.identity.match = "no") = (v.identity.reasons # {})
  /\ (v.capture.valid = None \/ v.analysis.valid = None \/ v.identity.match = None)
       = (v.indeterminate # {})

\* What IdentityNeedsItsParentDomain asks of the verdict on one leaf.
Covered(leaf, v) ==
  LET ref == v.reference.id
      san == extract_san_entries(Certs[leaf.cert])
  IN  v.identity.match = "yes" =>
        \E e \in san :
          /\ e.kind = ref.kind
          /\ IF e.kind = "ip" THEN e.name = ref.name
             ELSE LET host == normalize_dns(ref.name) IN
                  /\ Len(e.name) = Len(host)
                  /\ Tail(e.name) = Tail(host)
                  /\ Head(e.name) \in {Head(host), "*"}

\* A judged path has an answer, and a reason exactly when the answer is no
\* (validate_certificate_path).
LEMMA PathsHaveReasons ==
  ASSUME NEW leaf, NEW above, NEW t, NEW answer
  PROVE  LET p == validate_certificate_path(leaf, above, t, answer)
         IN  /\ p.valid \in {"yes", "no"}
             /\ (p.valid = "no") = (p.reasons # {})
<1> DEFINE code == map_verification_failure(leaf, above, t, answer)
<1> HIDE DEF code
<1> QED BY DEF validate_certificate_path, Path, code

\* An identity verdict is "no" exactly when it has a reason and a reference was there
\* to compare with; without one the reason says so (match_service_identity).
LEMMA IdentitiesHaveReasons ==
  ASSUME NEW reference, NEW san
  PROVE  LET i == match_service_identity(reference, san)
         IN  \/ i = Identity("yes", {})
             \/ i = Identity("no", {"san_missing"}) \/ i = Identity("no", {"san_mismatch"})
             \/ i = Identity(None, {"reference_identity_unavailable"})
BY DEF match_service_identity

\* The verdict of _validate_server_leaf has its reasons.
LEMMA LeafIsReasoned ==
  ASSUME NEW leaf, NEW a, NEW b
  PROVE  Reasoned(validate_server_leaf(leaf, a, b))
<1> DEFINE v == validate_server_leaf(leaf, a, b)
           row == RowOf(leaf.uid)
           reference == reference_identity(row)
           identity == match_service_identity(reference.id, extract_san_entries(Certs[leaf.cert]))
           p == validate_certificate_path(leaf.cert, Intermediates(leaf), row.ts, a)
           q == validate_certificate_path(leaf.cert, Intermediates(leaf), AnalysisTime, b)
<1>1. CASE ~leaf.syntax_valid
  <2>1. /\ v.capture = Unjudged /\ v.analysis = Unjudged /\ v.identity = Identity(None, {})
        /\ "syntax_invalid_leaf" \in v.indeterminate
    BY <1>1 DEF validate_server_leaf
  <2> QED BY <2>1 DEF Reasoned, Unjudged, Path, Identity, None
<1>2. CASE leaf.syntax_valid
  <2> HIDE DEF row, reference, identity, p, q
  <2>1. /\ v.capture = IF row.ts = NoTime THEN Unjudged ELSE p
        /\ v.analysis = q
        /\ v.identity = IF identity.match = None THEN Identity(None, {}) ELSE identity
        /\ v.indeterminate = (IF row.ts = NoTime THEN {"capture_time_unavailable"} ELSE {})
                             \cup (IF identity.match = None THEN identity.reasons ELSE {})
    BY <1>2 DEF validate_server_leaf, row, reference, identity, p, q
  <2>2. /\ p.valid \in {"yes", "no"} /\ (p.valid = "no") = (p.reasons # {})
        /\ q.valid \in {"yes", "no"} /\ (q.valid = "no") = (q.reasons # {})
    BY PathsHaveReasons DEF p, q
  <2>3. \/ identity = Identity("yes", {})
        \/ identity = Identity("no", {"san_missing"}) \/ identity = Identity("no", {"san_mismatch"})
        \/ identity = Identity(None, {"reference_identity_unavailable"})
    BY IdentitiesHaveReasons DEF identity
  <2> HIDE DEF v
  <2>4. \A x \in {v.capture, v.analysis} : (x.valid = "no") = (x.reasons # {})
    BY <2>1, <2>2 DEF Unjudged, Path, None
  <2>5. (v.identity.match = "no") = (v.identity.reasons # {})
    BY <2>1, <2>3 DEF Identity, None
  <2>6. (v.identity.match = None) = (identity.match = None)
    BY <2>1, <2>3 DEF Identity, None
  <2>7. (v.capture.valid = None) = (row.ts = NoTime) /\ v.analysis.valid # None
    BY <2>1, <2>2 DEF Unjudged, Path, None
  <2>8. (v.indeterminate # {}) = (row.ts = NoTime \/ identity.match = None)
    BY <2>1, <2>3 DEF Identity, None
  <2> QED BY <2>4, <2>5, <2>6, <2>7, <2>8 DEF Reasoned, v
<1> QED BY <1>1, <1>2

\* A pattern matches only hosts of its own depth and parent domain
\* (dns_name_matches).
LEMMA MatchKeepsTheParent ==
  ASSUME NEW pattern, NEW host, dns_name_matches(pattern, host)
  PROVE  /\ Len(pattern) = Len(host)
         /\ Tail(pattern) = Tail(host)
         /\ Head(pattern) \in {Head(host), "*"}
BY DEF dns_name_matches

\* The verdict of _validate_server_leaf names an identity only where the leaf has it.
LEMMA LeafIsCovered ==
  ASSUME NEW leaf, NEW a, NEW b
  PROVE  Covered(leaf, validate_server_leaf(leaf, a, b))
<1> DEFINE v == validate_server_leaf(leaf, a, b)
           reference == reference_identity(RowOf(leaf.uid))
           ref == reference.id
           san == extract_san_entries(Certs[leaf.cert])
           identity == match_service_identity(ref, san)
           host == IF ref.kind = "dns" THEN normalize_dns(ref.name) ELSE ref.name
<1> SUFFICES ASSUME v.identity.match = "yes"
             PROVE  \E e \in san :
                      /\ e.kind = ref.kind
                      /\ IF e.kind = "ip" THEN e.name = ref.name
                         ELSE /\ Len(e.name) = Len(normalize_dns(ref.name))
                              /\ Tail(e.name) = Tail(normalize_dns(ref.name))
                              /\ Head(e.name) \in {Head(normalize_dns(ref.name)), "*"}
  <2>1. v.reference = reference
    BY DEF validate_server_leaf
  <2> HIDE DEF v, reference
  <2> QED BY <2>1 DEF Covered, v
<1>1. identity.match = "yes"
  <2> HIDE DEF identity
  <2> QED BY DEF validate_server_leaf, Identity, None, identity
<1>2. PICK e \in san : /\ e.kind = ref.kind
                       /\ IF e.kind = "ip" THEN e.name = host ELSE dns_name_matches(e.name, host)
  <2> HIDE DEF ref, san
  <2> QED BY <1>1 DEF match_service_identity, Identity, None
<1>3. e.kind \in {"dns", "ip"}
  <2>1. PICK j \in DOMAIN Certs[leaf.cert].san : /\ Usable(Certs[leaf.cert].san[j])
                                                /\ e = SanEntry(Certs[leaf.cert].san[j])
    BY <1>2 DEF extract_san_entries
  <2> QED BY <2>1 DEF Usable, SanEntry
<1> HIDE DEF v, ref, san
<1>4. CASE e.kind = "ip"
  BY <1>2, <1>4
<1>5. CASE e.kind = "dns"
  <2>1. dns_name_matches(e.name, normalize_dns(ref.name))
    BY <1>2, <1>5
  <2> QED BY <1>2, <1>5, <2>1, MatchKeepsTheParent
<1> QED BY <1>3, <1>4, <1>5

-----------------------------------------------------------------------------
(* Every verdict.                                                          *)

\* A step keeps the verdicts there were; a new one is _validate_server_leaf's.
LEMMA VerdictsComeFromTheLeaf ==
  ASSUME [Next]_vars
  PROVE  \A leaf \in DOMAIN validation' :
           \/ leaf \in DOMAIN validation /\ validation'[leaf] = validation[leaf]
           \/ \E a, b \in VerifierAnswer : validation'[leaf] = validate_server_leaf(leaf, a, b)
<1>1. CASE \E leaf \in Unvalidated : AttachValidation(leaf)
  <2>1. PICK l \in Unvalidated, a \in VerifierAnswer, b \in VerifierAnswer :
               validation' = [r \in DOMAIN validation \cup {l} |->
                                IF r = l THEN validate_server_leaf(l, a, b) ELSE validation[r]]
    BY <1>1 DEF AttachValidation, Verifier
  <2> QED BY <2>1
<1>2. CASE UNCHANGED validation
  BY <1>2
<1>3. CASE \E row \in SslRows : ReadRow(row)
  BY <1>3, <1>2 DEF ReadRow
<1>4. CASE \E trust \in BOOLEAN : EndRows(trust)
  BY <1>4, <1>2 DEF EndRows
<1>5. CASE EndValidation
  BY <1>5, <1>2 DEF EndValidation
<1>6. CASE \E row \in SslRows : RowRaises(row)
  BY <1>6, <1>2 DEF RowRaises
<1>7. CASE \E leaf \in Unvalidated : LeafRaises(leaf)
  BY <1>7, <1>2 DEF LeafRaises
<1> QED BY <1>1, <1>2, <1>3, <1>4, <1>5, <1>6, <1>7 DEF Next, vars

\* VerdictsHaveReasons for every input: whatever chain, instants and reference a
\* server's leaf is judged by, a negative verdict has a reason, a positive one none, and
\* a missing one is explained (PathReasonCode, _validate_server_leaf).
THEOREM NoBareVerdicts == Spec => []VerdictsHaveReasons
<1> DEFINE Inv == \A leaf \in DOMAIN validation : Reasoned(validation[leaf])
<1>1. Init => Inv
  BY DEF Init
<1>2. Inv /\ [Next]_vars => Inv'
  BY VerdictsComeFromTheLeaf, LeafIsReasoned
<1>3. Inv => VerdictsHaveReasons
  BY DEF Reasoned, VerdictsHaveReasons
<1> QED BY <1>1, <1>2, <1>3, PTL DEF Spec

\* IdentityNeedsItsParentDomain for every input: however names are written, a leaf is
\* said to have the reference identity only through an entry of the same kind, depth and
\* parent domain (match_service_identity, _dns_name_matches).
THEOREM IdentityIsNeverStretched == Spec => []IdentityNeedsItsParentDomain
<1> DEFINE Inv == \A leaf \in DOMAIN validation : Covered(leaf, validation[leaf])
<1>1. Init => Inv
  BY DEF Init
<1>2. Inv /\ [Next]_vars => Inv'
  <2> SUFFICES ASSUME Inv, [Next]_vars, NEW leaf \in DOMAIN validation'
               PROVE  Covered(leaf, validation'[leaf])
    BY DEF Covered
  <2>1. CASE leaf \in DOMAIN validation /\ validation'[leaf] = validation[leaf]
    BY <2>1
  <2>2. CASE \E a, b \in VerifierAnswer : validation'[leaf] = validate_server_leaf(leaf, a, b)
    BY <2>2, LeafIsCovered
  <2> QED BY <2>1, <2>2, VerdictsComeFromTheLeaf
<1>3. Inv => IdentityNeedsItsParentDomain
  BY DEF Covered, IdentityNeedsItsParentDomain
<1> QED BY <1>1, <1>2, <1>3, PTL DEF Spec

-----------------------------------------------------------------------------
(***************************************************************************)
(* The loops over a connection's files and offers.  A loop is a recursive  *)
(* function on the number of turns taken; Loop(g, N, x, F) says g is the   *)
(* one that starts at x and whose turn n maps y to F[n, y].  Every loop    *)
(* exists, so the model's definitions, which choose it, have its equation. *)
(***************************************************************************)

LEMMA LeastExists ==
  ASSUME NEW S \in SUBSET Nat, S # {}
  PROVE  \E m \in S : \A x \in S : m <= x
<1>1. PICK m \in S : \A x \in S : ~(<<x, m>> \in OpToRel(<, Nat))
  BY NatLessThanWellFounded, WFMin
<1>2. \A x \in S : ~(x < m)
  BY <1>1 DEF OpToRel
<1> QED BY <1>2

Loop(g, N, x, T, F) ==
  /\ g \in [0..N -> T] /\ g[0] = x
  /\ \A n \in 1..N : g[n] = F[n, g[n - 1]]

\* A loop whose turns stay in T runs to its end.
LEMMA LoopExists ==
  ASSUME NEW N \in Nat, NEW T, NEW x \in T, NEW F \in [(1..N) \X T -> T]
  PROVE  \E g : Loop(g, N, x, T, F)
<1> DEFINE bad == {n \in 0..N : ~\E g : Loop(g, n, x, T, F)}
<1> SUFFICES ASSUME bad # {} PROVE FALSE
  OBVIOUS
<1>1. PICK n \in bad : \A m \in bad : n <= m
  <2>1. bad \in SUBSET Nat
    OBVIOUS
  <2> HIDE DEF bad
  <2> QED BY <2>1, LeastExists
<1>2. n # 0
  <2> DEFINE g == [k \in 0..0 |-> x]
  <2>1. 0 \in 0..0 /\ g \in [0..0 -> T] /\ g[0] = x
    OBVIOUS
  <2>2. \A m \in 1..0 : FALSE
    OBVIOUS
  <2> HIDE DEF g
  <2>3. Loop(g, 0, x, T, F)
    BY <2>1, <2>2 DEF Loop
  <2> QED BY <1>1, <2>3
<1>3. n \in 1..N /\ n - 1 \in 0..N /\ ~(n <= n - 1)
  BY <1>1, <1>2
<1>4. PICK g : Loop(g, n - 1, x, T, F)
  BY <1>1, <1>3
<1> DEFINE y == F[n, g[n - 1]]
           h == [k \in 0..n |-> IF k = n THEN y ELSE g[k]]
<1>5. y \in T
  <2>1. n - 1 \in 0..(n - 1)
    BY <1>3
  <2>2. g \in [0..(n - 1) -> T]
    BY <1>4 DEF Loop
  <2>3. g[n - 1] \in T
    BY <2>1, <2>2
  <2> QED BY <1>3, <2>3
<1>6. Loop(h, n, x, T, F)
  <2> HIDE DEF y
  <2>1. \A k \in 0..n : k # n => k \in 0..(n - 1)
    BY <1>3
  <2>2. h \in [0..n -> T] /\ h[0] = x
    <3>1. g \in [0..(n - 1) -> T] /\ g[0] = x
      BY <1>4 DEF Loop
    <3>2. 0 \in 0..n /\ n # 0
      BY <1>3
    <3>3. \A k \in 0..n : h[k] \in T
      BY <1>5, <2>1, <3>1
    <3> QED BY <3>1, <3>2, <3>3
  <2>3. ASSUME NEW m \in 1..n PROVE h[m] = F[m, h[m - 1]]
    <3>1. m \in 0..n /\ m - 1 \in 0..n /\ m - 1 # n
      BY <1>3
    <3>2. h[m - 1] = g[m - 1] /\ h[m] = IF m = n THEN y ELSE g[m]
      BY <3>1
    <3>3. CASE m = n
      BY <3>2, <3>3 DEF y
    <3>4. CASE m # n
      <4>1. m \in 1..(n - 1)
        BY <1>3, <3>4
      <4>2. g[m] = F[m, g[m - 1]]
        BY <1>4, <4>1 DEF Loop
      <4> QED BY <3>2, <3>4, <4>2
    <3> QED BY <3>3, <3>4
  <2> HIDE DEF h
  <2> QED BY <2>2, <2>3 DEF Loop
<1> QED BY <1>1, <1>6

\* Every file a connection is given is an extracted one (_files_for_uid).
LEMMA FilesAreExtracted ==
  ASSUME NEW uid
  PROVE  files_for_uid(uid) \in Seq(Extracted)
<1> DEFINE N == Len(FileRows)
           T == Seq(Extracted)
           F == [p \in (1..N) \X T |-> add_file(uid, p[2], FileRows[p[1]])]
           Is(a) == a = [n \in 0..N |-> IF n = 0 THEN << >>
                                        ELSE add_file(uid, a[n - 1], FileRows[n])]
           found == CHOOSE a : Is(a)
<1>1. N \in Nat
  BY ListAssumption
<1>2. ASSUME NEW s \in T, NEW f PROVE add_file(uid, s, f) \in T
  <2> DEFINE matched == IF FileOfConnection(f, uid) THEN FileMatch(f) \ ToSet(s) ELSE {}
  <2>1. matched \subseteq Extracted
    BY DEF FileMatch
  <2> HIDE DEF matched
  <2> DEFINE c == CHOOSE c \in matched : TRUE
  <2>2. matched # {} => c \in Extracted
    BY <2>1
  <2>3. add_file(uid, s, f) = IF matched = {} THEN s ELSE Append(s, c)
    BY DEF add_file, matched
  <2> HIDE DEF c
  <2> QED BY <2>2, <2>3
<1>3. << >> \in T
  OBVIOUS
<1> HIDE DEF T
<1>4. F \in [(1..N) \X T -> T]
  BY <1>2
<1>5. \A n \in 1..N, y \in T : F[n, y] = add_file(uid, y, FileRows[n])
  OBVIOUS
<1> HIDE DEF N, F
<1>6. PICK g : Loop(g, N, << >>, T, F)
  BY <1>1, <1>3, <1>4, LoopExists
<1>7. g \in [0..N -> T] /\ Is(g)
  <2>1. g \in [0..N -> T] /\ g[0] = << >>
    BY <1>6 DEF Loop
  <2>2. ASSUME NEW n \in 0..N
        PROVE  g[n] = IF n = 0 THEN << >> ELSE add_file(uid, g[n - 1], FileRows[n])
    <3>1. CASE n = 0
      BY <2>1, <3>1
    <3>2. CASE n # 0
      <4>1. n \in 1..N /\ n - 1 \in 0..N
        BY <1>1, <3>2
      <4>2. g[n] = F[n, g[n - 1]]
        BY <1>6, <4>1 DEF Loop
      <4>3. g[n - 1] \in T
        BY <2>1, <4>1
      <4> QED BY <1>5, <3>2, <4>1, <4>2, <4>3
    <3> QED BY <3>1, <3>2
  <2> QED BY <2>1, <2>2
<1>8. Is(found)
  <2> HIDE DEF Is
  <2> QED BY <1>7
<1>9. files_for_uid(uid) = found[N]
  BY DEF files_for_uid, N
<1> HIDE DEF found
<1>10. ASSUME NEW n \in 0..N PROVE found[n] \in T
  <2> DEFINE bad == {m \in 0..N : found[m] \notin T}
  <2> SUFFICES ASSUME bad # {} PROVE FALSE
    OBVIOUS
  <2>1. PICK m \in bad : \A k \in bad : m <= k
    <3>1. bad \in SUBSET Nat
      BY <1>1
    <3> HIDE DEF bad
    <3> QED BY <3>1, LeastExists
  <2>2. m \in 0..N /\ found[m] \notin T
    BY <2>1
  <2>3. CASE m = 0
    BY <1>3, <1>8, <2>2, <2>3
  <2>4. CASE m # 0
    <3>1. m - 1 \in 0..N /\ ~(m <= m - 1)
      BY <1>1, <2>2, <2>4
    <3>2. found[m - 1] \in T
      BY <2>1, <3>1
    <3>3. found[m] = add_file(uid, found[m - 1], FileRows[m])
      BY <1>8, <2>2, <2>4
    <3> QED BY <1>2, <2>2, <3>2, <3>3
  <2> QED BY <2>3, <2>4
<1>11. N \in 0..N
  BY <1>1
<1> QED BY <1>9, <1>10, <1>11 DEF T

-----------------------------------------------------------------------------
(* What a row adds to the records.                                         *)

\* The records S after the first n offers of a row: those there were, new ones that are
\* offers of extracted certificates, and one for every such offer unless the list is full.
Holds(S, rs, row, offers, n) ==
  /\ rs \subseteq S /\ IsFiniteSet(S) /\ Cardinality(S) <= MaxCertificates
  /\ \A r \in S \ rs : \E k \in 1..n :
       match_fingerprint(offers[k].cert) /\ r = Evidence(row, offers[k])
  /\ \A k \in 1..n :
       match_fingerprint(offers[k].cert) =>
         \/ \E r \in S : Key(r) = Key(Evidence(row, offers[k]))
         \/ Cardinality(S) = MaxCertificates

\* One more offer keeps the list within its limit and leaves nothing out of a list that
\* has room (add_record).
LEMMA OneOffer ==
  ASSUME NEW S, NEW rs, NEW row, NEW offers, NEW n \in Nat, n > 0,
         Holds(S, rs, row, offers, n - 1)
  PROVE  Holds(AddOffer(S, row, offers[n]), rs, row, offers, n)
<1> DEFINE o == offers[n]
           e == Evidence(row, o)
           U == AddOffer(S, row, o)
<1> HIDE DEF e
<1>1. /\ rs \subseteq S /\ IsFiniteSet(S) /\ Cardinality(S) <= MaxCertificates
      /\ \A r \in S \ rs : \E k \in 1..(n - 1) :
           match_fingerprint(offers[k].cert) /\ r = Evidence(row, offers[k])
      /\ \A k \in 1..(n - 1) :
           match_fingerprint(offers[k].cert) =>
             \/ \E r \in S : Key(r) = Key(Evidence(row, offers[k]))
             \/ Cardinality(S) = MaxCertificates
  BY DEF Holds
<1>2. Cardinality(S) \in Nat /\ MaxCertificates \in Nat
  BY <1>1, FS_CardinalityType, LimitAssumption
<1>3. \A k \in 1..n : k \in 1..(n - 1) \/ k = n
  OBVIOUS
<1>4. \A k \in 1..(n - 1) : k \in 1..n
  OBVIOUS
<1>5. n \in 1..n
  OBVIOUS
<1>6. \/ /\ U = S
         /\ match_fingerprint(o.cert) =>
              (\E r \in S : Key(r) = Key(e)) \/ Cardinality(S) = MaxCertificates
      \/ /\ U = S \cup {e} /\ match_fingerprint(o.cert) /\ Cardinality(S) < MaxCertificates
         /\ e \notin S
  <2>1. U = IF match_fingerprint(o.cert) THEN add_record(S, e) ELSE S
    BY DEF AddOffer, e
  <2>2. add_record(S, e) = IF Cardinality(S) >= MaxCertificates \/ \E r \in S : Key(r) = Key(e)
                           THEN S ELSE S \cup {e}
    BY DEF add_record
  <2>3. Cardinality(S) >= MaxCertificates => Cardinality(S) = MaxCertificates
    BY <1>1, <1>2
  <2>4. ~(Cardinality(S) >= MaxCertificates) => Cardinality(S) < MaxCertificates
    BY <1>2
  <2> HIDE DEF U, o
  <2> QED BY <2>1, <2>2, <2>3, <2>4
<1> HIDE DEF U
<1>7. CASE /\ U = S
           /\ match_fingerprint(o.cert) =>
                (\E r \in S : Key(r) = Key(e)) \/ Cardinality(S) = MaxCertificates
  <2>1. \A r \in U \ rs : \E k \in 1..n :
          match_fingerprint(offers[k].cert) /\ r = Evidence(row, offers[k])
    BY <1>1, <1>4, <1>7
  <2>2. \A k \in 1..n :
          match_fingerprint(offers[k].cert) =>
            \/ \E r \in U : Key(r) = Key(Evidence(row, offers[k]))
            \/ Cardinality(U) = MaxCertificates
    BY <1>1, <1>3, <1>7 DEF e
  <2>3. rs \subseteq U /\ IsFiniteSet(U) /\ Cardinality(U) <= MaxCertificates
    BY <1>1, <1>7
  <2> QED BY <2>1, <2>2, <2>3 DEF Holds, U
<1>8. CASE /\ U = S \cup {e} /\ match_fingerprint(o.cert) /\ Cardinality(S) < MaxCertificates
           /\ e \notin S
  <2>1. IsFiniteSet(U) /\ Cardinality(U) = Cardinality(S) + 1
    BY <1>1, <1>8, FS_AddElement
  <2>2. Cardinality(U) <= MaxCertificates /\ Cardinality(S) # MaxCertificates
    BY <1>2, <1>8, <2>1
  <2>3. \A r \in U \ rs : \E k \in 1..n :
          match_fingerprint(offers[k].cert) /\ r = Evidence(row, offers[k])
    <3>1. ASSUME NEW r \in U \ rs, r \in S
          PROVE  \E k \in 1..n : match_fingerprint(offers[k].cert) /\ r = Evidence(row, offers[k])
      BY <1>1, <1>4, <3>1
    <3>2. ASSUME NEW r \in U \ rs, r = e
          PROVE  \E k \in 1..n : match_fingerprint(offers[k].cert) /\ r = Evidence(row, offers[k])
      BY <1>5, <1>8, <3>2 DEF e
    <3> QED BY <1>8, <3>1, <3>2
  <2>4. \A k \in 1..n :
          match_fingerprint(offers[k].cert) =>
            \E r \in U : Key(r) = Key(Evidence(row, offers[k]))
    BY <1>1, <1>3, <1>8, <2>2 DEF e
  <2>5. rs \subseteq U
    BY <1>1, <1>8
  <2> QED BY <2>1, <2>2, <2>3, <2>4, <2>5 DEF Holds, U
<1> QED BY <1>6, <1>7, <1>8

\* All the offers of a row, one after the other (normalize_certificates).
LEMMA AllOffers ==
  ASSUME NEW rs, IsFiniteSet(rs), Cardinality(rs) <= MaxCertificates,
         NEW row, NEW offers, Len(offers) \in Nat
  PROVE  Holds(AddOffers(rs, row, offers), rs, row, offers, Len(offers))
<1> DEFINE N == Len(offers)
           T == SUBSET (rs \cup {Evidence(row, offers[k]) : k \in 1..N})
           F == [p \in (1..N) \X T |-> AddOffer(p[2], row, offers[p[1]])]
           Is(a) == a = [n \in 0..N |-> IF n = 0 THEN rs
                                        ELSE AddOffer(a[n - 1], row, offers[n])]
           after == CHOOSE a : Is(a)
<1>1. N \in Nat
  OBVIOUS
<1> HIDE DEF N
<1>2. ASSUME NEW n \in 1..N, NEW S \in T PROVE AddOffer(S, row, offers[n]) \in T
  <2> DEFINE e == Evidence(row, offers[n])
  <2>1. AddOffer(S, row, offers[n]) \in {S, S \cup {e}}
    BY DEF AddOffer, add_record
  <2> HIDE DEF e
  <2>2. e \in {Evidence(row, offers[k]) : k \in 1..N}
    BY DEF e
  <2> QED BY <2>1, <2>2
<1>3. rs \in T
  OBVIOUS
<1> HIDE DEF T
<1>4. F \in [(1..N) \X T -> T]
  BY <1>2
<1>5. \A n \in 1..N, y \in T : F[n, y] = AddOffer(y, row, offers[n])
  OBVIOUS
<1> HIDE DEF F
<1>6. PICK g : Loop(g, N, rs, T, F)
  BY <1>1, <1>3, <1>4, LoopExists
<1>7. Is(g)
  <2>1. g \in [0..N -> T] /\ g[0] = rs
    BY <1>6 DEF Loop
  <2>2. ASSUME NEW n \in 0..N
        PROVE  g[n] = IF n = 0 THEN rs ELSE AddOffer(g[n - 1], row, offers[n])
    <3>1. CASE n = 0
      BY <2>1, <3>1
    <3>2. CASE n # 0
      <4>1. n \in 1..N /\ n - 1 \in 0..N
        BY <1>1, <3>2
      <4>2. g[n] = F[n, g[n - 1]]
        BY <1>6, <4>1 DEF Loop
      <4>3. g[n - 1] \in T
        BY <2>1, <4>1
      <4> QED BY <1>5, <3>2, <4>1, <4>2, <4>3
    <3> QED BY <3>1, <3>2
  <2> QED BY <2>1, <2>2
<1>8. Is(after)
  <2> HIDE DEF Is
  <2> QED BY <1>7
<1>9. AddOffers(rs, row, offers) = after[N]
  BY DEF AddOffers, N
<1> HIDE DEF after
<1>10. ASSUME NEW n \in 0..N PROVE Holds(after[n], rs, row, offers, n)
  <2> DEFINE bad == {m \in 0..N : ~Holds(after[m], rs, row, offers, m)}
  <2> SUFFICES ASSUME bad # {} PROVE FALSE
    OBVIOUS
  <2>1. PICK m \in bad : \A k \in bad : m <= k
    <3>1. bad \in SUBSET Nat
      BY <1>1
    <3> HIDE DEF bad
    <3> QED BY <3>1, LeastExists
  <2>2. m \in 0..N /\ ~Holds(after[m], rs, row, offers, m)
    BY <2>1
  <2>3. CASE m = 0
    <3>1. after[0] = rs
      BY <1>8, <2>2, <2>3
    <3>2. \A k \in 1..0 : FALSE
      OBVIOUS
    <3>3. Holds(rs, rs, row, offers, 0)
      BY <3>2 DEF Holds
    <3> QED BY <2>2, <2>3, <3>1, <3>3
  <2>4. CASE m # 0
    <3>1. m \in Nat /\ m > 0 /\ m - 1 \in 0..N /\ ~(m <= m - 1)
      BY <1>1, <2>2, <2>4
    <3>2. Holds(after[m - 1], rs, row, offers, m - 1)
      BY <2>1, <3>1
    <3>3. after[m] = AddOffer(after[m - 1], row, offers[m])
      BY <1>8, <2>2, <2>4
    <3>4. Holds(AddOffer(after[m - 1], row, offers[m]), rs, row, offers, m)
      BY <3>1, <3>2, OneOffer
    <3> QED BY <2>2, <3>3, <3>4
  <2> QED BY <2>3, <2>4
<1>11. N \in 0..N
  BY <1>1
<1> QED BY <1>9, <1>10, <1>11 DEF N

\* What the record of an offer keeps of it (_to_evidence).
LEMMA EvidenceFacts ==
  ASSUME NEW row, NEW o
  PROVE  LET r == Evidence(row, o)
             kept == parse_certificate_der(Certs[o.cert]) = None /\ ~o.truncated
         IN  /\ r.cert = o.cert /\ r.uid = row.uid /\ r.chain_index = o.index /\ r.role = o.role
             /\ r.syntax_valid = kept
<1> DEFINE c == Certs[o.cert]
           error == parse_certificate_der(c)
           now == validity_at(AnalysisTime, c)
           then == validity_at(row.ts, c)
           soon == expires_within_warning(AnalysisTime, c)
           bits == effective_strength_bits(c.key)
<1> HIDE DEF error, now, then, soon, bits
<1>1. Evidence(row, o) =
        [cert |-> o.cert, uid |-> row.uid, chain_index |-> o.index, role |-> o.role,
         syntax_valid |-> error = None /\ ~o.truncated, syntax_error |-> error,
         valid_at_capture |-> IF (error = None /\ ~o.truncated) /\ row.ts # NoTime
                              THEN IF then THEN "yes" ELSE "no" ELSE None,
         valid_at_analysis |-> IF error = None /\ ~o.truncated
                               THEN IF now THEN "yes" ELSE "no" ELSE None,
         expiring |-> (error = None /\ ~o.truncated) /\ soon,
         strength |-> IF error = None /\ ~o.truncated THEN bits ELSE 0,
         evidence_state |-> IF o.truncated THEN "incomplete" ELSE "observed"]
  BY DEF Evidence, to_evidence, error, now, then, soon, bits
<1> QED BY <1>1 DEF error, now, then

\* An offer of a row by the place it claims: a fingerprint of one of its chains or,
\* without any of the server's, a file of the connection (normalize_certificates).
OfferFrom(row, o) ==
  /\ o.index \in Nat
  /\ \/ /\ o.index + 1 \in DOMAIN row.serverFps
        /\ o = Offer(row.serverFps[o.index + 1], o.index, "server", FALSE)
     \/ /\ o.index + 1 \in DOMAIN row.clientFps
        /\ o = Offer(row.clientFps[o.index + 1], o.index, "client", FALSE)
     \/ /\ row.serverFps = << >> /\ o.index + 1 \in DOMAIN files_for_uid(row.uid)
        /\ o = Offer(files_for_uid(row.uid)[o.index + 1], o.index, "server",
                     Fuids[files_for_uid(row.uid)[o.index + 1]] \in TruncatedFuids)

LEMMA OfferShape ==
  ASSUME NEW c, NEW i, NEW role, NEW t
  PROVE  LET o == Offer(c, i, role, t)
         IN  o.cert = c /\ o.index = i /\ o.role = role /\ o.truncated = t
BY DEF Offer

LEMMA OffersAreSequences ==
  ASSUME NEW row \in SslRows
  PROVE  /\ Len(Offers(row)) \in Nat /\ DOMAIN Offers(row) = 1..Len(Offers(row))
         /\ \A k \in DOMAIN Offers(row) : OfferFrom(row, Offers(row)[k])
         /\ ~Hidden(row) => \A i \in DOMAIN row.serverFps :
              /\ i \in DOMAIN Offers(row)
              /\ Offers(row)[i] = Offer(row.serverFps[i], i - 1, "server", FALSE)
<1> DEFINE s == Chain(row.serverFps, "server")
           c == Chain(row.clientFps, "client")
           f == Fallback(row)
           A == {o \in {s[i] : i \in DOMAIN s} \cup {c[i] : i \in DOMAIN c}
                        \cup {f[i] : i \in DOMAIN f} : TRUE}
<1>1. s \in Seq(A) /\ Len(s) = Len(row.serverFps)
  <2>1. row.serverFps \in Seq(ToSet(row.serverFps))
    BY ListAssumption
  <2>2. Len(row.serverFps) \in Nat /\ DOMAIN row.serverFps = 1..Len(row.serverFps)
    BY <2>1
  <2>3. s = [i \in 1..Len(row.serverFps) |-> Offer(row.serverFps[i], i - 1, "server", FALSE)]
    BY <2>2 DEF Chain
  <2> HIDE DEF s, c, f
  <2>4. s = [i \in 1..Len(row.serverFps) |-> s[i]]
    BY <2>3
  <2>5. \A i \in 1..Len(row.serverFps) : s[i] \in A
    BY <2>4
  <2> HIDE DEF A
  <2> QED BY <2>2, <2>4, <2>5
<1>2. c \in Seq(A) /\ Len(c) = Len(row.clientFps)
  <2>1. row.clientFps \in Seq(ToSet(row.clientFps))
    BY ListAssumption
  <2>2. Len(row.clientFps) \in Nat /\ DOMAIN row.clientFps = 1..Len(row.clientFps)
    BY <2>1
  <2>3. c = [i \in 1..Len(row.clientFps) |-> Offer(row.clientFps[i], i - 1, "client", FALSE)]
    BY <2>2 DEF Chain
  <2> HIDE DEF s, c, f
  <2>4. c = [i \in 1..Len(row.clientFps) |-> c[i]]
    BY <2>3
  <2>5. \A i \in 1..Len(row.clientFps) : c[i] \in A
    BY <2>4
  <2> HIDE DEF A
  <2> QED BY <2>2, <2>4, <2>5
<1> DEFINE files == files_for_uid(row.uid)
<1>3. files \in Seq(Extracted)
  BY FilesAreExtracted
<1> HIDE DEF files
<1>4. \/ f = << >>
      \/ /\ row.serverFps = << >>
         /\ f = [k \in DOMAIN files |-> Offer(files[k], k - 1, "server",
                                              Fuids[files[k]] \in TruncatedFuids)]
  BY DEF Fallback, files
<1>5. f \in Seq(A)
  <2>1. CASE f = << >>
    BY <2>1
  <2>2. CASE f # << >>
    <3>1. f = [k \in 1..Len(files) |-> f[k]] /\ Len(files) \in Nat
      BY <1>3, <1>4, <2>2
    <3> HIDE DEF s, c, f
    <3>2. \A i \in 1..Len(files) : f[i] \in A
      BY <3>1
    <3> HIDE DEF A
    <3> QED BY <3>1, <3>2
  <2> QED BY <2>1, <2>2
<1>6. ASSUME NEW o \in A PROVE OfferFrom(row, o)
  <2>1. ASSUME NEW i \in DOMAIN s, o = s[i] PROVE OfferFrom(row, o)
    <3>1. i \in DOMAIN row.serverFps /\ i \in Nat \ {0}
      BY ListAssumption DEF Chain
    <3>2. o = Offer(row.serverFps[i], i - 1, "server", FALSE)
      BY <2>1, <3>1 DEF Chain
    <3>3. o.index = i - 1
      BY <3>2 DEF Offer
    <3>4. o.index + 1 = i /\ o.index \in Nat
      BY <3>1, <3>3
    <3> QED BY <3>1, <3>2, <3>3, <3>4 DEF OfferFrom
  <2>2. ASSUME NEW i \in DOMAIN c, o = c[i] PROVE OfferFrom(row, o)
    <3>1. i \in DOMAIN row.clientFps /\ i \in Nat \ {0}
      BY ListAssumption DEF Chain
    <3>2. o = Offer(row.clientFps[i], i - 1, "client", FALSE)
      BY <2>2, <3>1 DEF Chain
    <3>3. o.index = i - 1
      BY <3>2 DEF Offer
    <3>4. o.index + 1 = i /\ o.index \in Nat
      BY <3>1, <3>3
    <3> QED BY <3>1, <3>2, <3>3, <3>4 DEF OfferFrom
  <2>3. ASSUME NEW i \in DOMAIN f, o = f[i] PROVE OfferFrom(row, o)
    <3>1. /\ row.serverFps = << >>
          /\ f = [k \in DOMAIN files |-> Offer(files[k], k - 1, "server",
                                               Fuids[files[k]] \in TruncatedFuids)]
      BY <1>4, <2>3
    <3> HIDE DEF f
    <3>2. i \in DOMAIN files /\ i \in Nat \ {0}
      BY <1>3, <3>1
    <3>3. o = Offer(files[i], i - 1, "server", Fuids[files[i]] \in TruncatedFuids)
      BY <2>3, <3>1, <3>2
    <3>4. o.index = i - 1 /\ o.index + 1 = i /\ o.index \in Nat
      BY <3>2, <3>3, OfferShape
    <3> QED BY <3>1, <3>2, <3>3, <3>4 DEF OfferFrom, files
  <2> HIDE DEF s, c, f
  <2> QED BY <2>1, <2>2, <2>3
<1> HIDE DEF A, s, c, f
<1>7. Offers(row) = IF Hidden(row) THEN << >> ELSE s \o c \o f
  BY DEF Offers, s, c, f
<1>8. Offers(row) \in Seq(A)
  BY <1>1, <1>2, <1>5, <1>7
<1>9. /\ Len(Offers(row)) \in Nat /\ DOMAIN Offers(row) = 1..Len(Offers(row))
      /\ \A k \in DOMAIN Offers(row) : Offers(row)[k] \in A
  BY <1>8
<1>10. ASSUME ~Hidden(row), NEW i \in DOMAIN row.serverFps
       PROVE  /\ i \in DOMAIN Offers(row)
              /\ Offers(row)[i] = Offer(row.serverFps[i], i - 1, "server", FALSE)
  <2>1. s[i] = Offer(row.serverFps[i], i - 1, "server", FALSE)
    BY DEF s, Chain
  <2>2. i \in 1..Len(s)
    <3>1. row.serverFps \in Seq(ToSet(row.serverFps))
      BY ListAssumption
    <3> QED BY <1>1, <3>1
  <2>3. Offers(row) = s \o c \o f
    BY <1>7, <1>10
  <2>4. i \in 1..Len(s \o c \o f) /\ (s \o c \o f)[i] = s[i]
    BY <1>1, <1>2, <1>5, <2>2
  <2>5. s \o c \o f \in Seq(A)
    BY <1>1, <1>2, <1>5
  <2> QED BY <2>1, <2>3, <2>4, <2>5
<1> QED BY <1>6, <1>9, <1>10

\* Two offers of a row that claim one place are one offer: the fingerprints and the files
\* of a connection are never mixed.
LEMMA PlacesDiffer ==
  ASSUME NEW row, NEW o, NEW p, OfferFrom(row, o), OfferFrom(row, p),
         o.index = p.index, o.role = p.role
  PROVE  o = p
<1>1. "server" # "client"
  OBVIOUS
<1>2. row.serverFps = << >> => ~(o.index + 1 \in DOMAIN row.serverFps)
  OBVIOUS
<1>3. \A q : OfferFrom(row, q) =>
        \/ /\ q.role = "server" /\ q.index + 1 \in DOMAIN row.serverFps
           /\ q = Offer(row.serverFps[q.index + 1], q.index, "server", FALSE)
        \/ /\ q.role = "client"
           /\ q = Offer(row.clientFps[q.index + 1], q.index, "client", FALSE)
        \/ /\ q.role = "server" /\ row.serverFps = << >>
           /\ q = Offer(files_for_uid(row.uid)[q.index + 1], q.index, "server",
                        Fuids[files_for_uid(row.uid)[q.index + 1]] \in TruncatedFuids)
  <2> TAKE q
  <2>1. \A c, i : /\ q = Offer(c, i, "server", FALSE) => q.role = "server"
                  /\ q = Offer(c, i, "client", FALSE) => q.role = "client"
    BY DEF Offer
  <2>2. \A c, i, t : q = Offer(c, i, "server", t) => q.role = "server"
    BY OfferShape
  <2> QED BY <2>1, <2>2 DEF OfferFrom
<1>4. CASE o.role = "client"
  BY <1>1, <1>3, <1>4, Zenon
<1>5. CASE o.role = "server" /\ row.serverFps = << >>
  <2>1. /\ ~(o.index + 1 \in DOMAIN row.serverFps) /\ ~(p.index + 1 \in DOMAIN row.serverFps)
        /\ o.role # "client" /\ p.role # "client"
    BY <1>2, <1>5
  <2> DEFINE X(i) == Offer(files_for_uid(row.uid)[i + 1], i, "server",
                           Fuids[files_for_uid(row.uid)[i + 1]] \in TruncatedFuids)
  <2>2. o = X(o.index) /\ p = X(p.index)
    BY <1>3, <2>1, Zenon
  <2> HIDE DEF X
  <2> QED BY <2>2
<1>6. CASE o.role = "server" /\ row.serverFps # << >>
  BY <1>1, <1>3, <1>6, Zenon
<1> QED BY <1>3, <1>4, <1>5, <1>6, Zenon

-----------------------------------------------------------------------------
(* The records.                                                            *)

\* Rows have uids of their own, records are the evidence of offers of their rows and have
\* their payload in the store, and no offer is left out of a list that has room.
Recorded ==
  /\ log \subseteq SslRows /\ \A p, q \in log : p.uid = q.uid => p = q
  /\ IsFiniteSet(records) /\ Cardinality(records) <= MaxCertificates
  /\ \A r \in records :
       /\ r.cert \in artifacts /\ r.cert \in Extracted
       /\ \E row \in log : \E k \in DOMAIN Offers(row) : r = Evidence(row, Offers(row)[k])
  /\ \A row \in log : \A k \in DOMAIN Offers(row) :
       match_fingerprint(Offers(row)[k].cert) =>
         \/ \E r \in records : Key(r) = Key(Evidence(row, Offers(row)[k]))
         \/ Cardinality(records) = MaxCertificates

LEMMA RecordedInit == Init => Recorded
BY FS_EmptySet, LimitAssumption DEF Init, Recorded

LEMMA RecordedRow ==
  ASSUME Recorded, NEW row \in SslRows, ReadRow(row)
  PROVE  Recorded'
<1> DEFINE offers == Offers(row)
<1>1. Len(offers) \in Nat /\ DOMAIN offers = 1..Len(offers)
  BY OffersAreSequences
<1>2. Holds(records', records, row, offers, Len(offers))
  BY <1>1, AllOffers DEF Recorded, ReadRow
<1>3. /\ records \subseteq records' /\ IsFiniteSet(records')
      /\ Cardinality(records') <= MaxCertificates
      /\ \A r \in records' \ records : \E k \in DOMAIN offers :
           match_fingerprint(offers[k].cert) /\ r = Evidence(row, offers[k])
      /\ \A k \in DOMAIN offers :
           match_fingerprint(offers[k].cert) =>
             \/ \E r \in records' : Key(r) = Key(Evidence(row, offers[k]))
             \/ Cardinality(records') = MaxCertificates
  BY <1>1, <1>2 DEF Holds
<1>4. log' = log \cup {row} /\ \A r \in log : r.uid # row.uid
  BY DEF ReadRow, NewRow
<1>5. /\ artifacts \subseteq artifacts'
      /\ \A k \in DOMAIN offers : offers[k].cert \in Extracted => offers[k].cert \in artifacts'
  BY DEF ReadRow
<1> HIDE DEF offers
<1>6. log' \subseteq SslRows /\ \A p, q \in log' : p.uid = q.uid => p = q
  BY <1>4 DEF Recorded
<1>7. ASSUME NEW r \in records'
      PROVE  /\ r.cert \in artifacts' /\ r.cert \in Extracted
             /\ \E w \in log' : \E k \in DOMAIN Offers(w) : r = Evidence(w, Offers(w)[k])
  <2>1. CASE r \in records
    BY <1>4, <1>5, <2>1 DEF Recorded
  <2>2. CASE r \notin records
    <3>1. PICK k \in DOMAIN offers : match_fingerprint(offers[k].cert) /\ r = Evidence(row, offers[k])
      BY <1>3, <2>2
    <3>2. r.cert = offers[k].cert
      BY <3>1, EvidenceFacts
    <3>3. r.cert \in artifacts' /\ r.cert \in Extracted
      BY <1>5, <3>1, <3>2 DEF match_fingerprint
    <3> QED BY <1>4, <3>1, <3>3 DEF offers
  <2> QED BY <2>1, <2>2
<1>8. Cardinality(records) = MaxCertificates => Cardinality(records') = MaxCertificates
  <2>1. /\ Cardinality(records) \in Nat /\ Cardinality(records') \in Nat
        /\ Cardinality(records) <= Cardinality(records')
    BY <1>3, FS_CardinalityType, FS_Subset DEF Recorded
  <2> QED BY <1>3, <2>1, LimitAssumption
<1>9. ASSUME NEW w \in log', NEW k \in DOMAIN Offers(w), match_fingerprint(Offers(w)[k].cert)
      PROVE  \/ \E r \in records' : Key(r) = Key(Evidence(w, Offers(w)[k]))
             \/ Cardinality(records') = MaxCertificates
  <2>1. CASE w \in log
    BY <1>3, <1>8, <1>9, <2>1 DEF Recorded
  <2>2. CASE w = row
    BY <1>3, <1>9, <2>2 DEF offers
  <2> QED BY <1>4, <2>1, <2>2
<1> QED BY <1>3, <1>6, <1>7, <1>9 DEF Recorded

LEMMA RecordedStep == Recorded /\ [Next]_vars => Recorded'
<1> SUFFICES ASSUME Recorded, [Next]_vars PROVE Recorded'
  OBVIOUS
<1>1. CASE \E row \in SslRows : ReadRow(row)
  BY <1>1, RecordedRow
<1>2. CASE UNCHANGED <<log, records, artifacts>>
  BY <1>2 DEF Recorded
<1>3. CASE \E trust \in BOOLEAN : EndRows(trust)
  BY <1>2, <1>3 DEF EndRows
<1>4. CASE \E leaf \in Unvalidated : AttachValidation(leaf)
  BY <1>2, <1>4 DEF AttachValidation
<1>5. CASE EndValidation
  BY <1>2, <1>5 DEF EndValidation
<1>6. CASE \E leaf \in Unvalidated : LeafRaises(leaf)
  BY <1>2, <1>6 DEF LeafRaises
<1>7. CASE \E row \in SslRows : RowRaises(row)
  <2>1. log' = log /\ records' = records /\ artifacts \subseteq artifacts'
    BY <1>7 DEF RowRaises
  <2> QED BY <2>1 DEF Recorded
<1> QED BY <1>1, <1>2, <1>3, <1>4, <1>5, <1>6, <1>7 DEF Next, vars

\* OneCertificatePerPlace for every log, set of files and limit: the fingerprints and the
\* files of a connection are never mixed, records stay within the limit, and each has its
\* payload stored (normalize_certificates).
THEOREM PlacesAreNeverShared == Spec => []OneCertificatePerPlace
<1>1. Recorded => OneCertificatePerPlace
  <2> SUFFICES ASSUME Recorded, NEW r \in records, NEW s \in records,
                      r.uid = s.uid, r.role = s.role, r.chain_index = s.chain_index
               PROVE  r = s
    BY DEF Recorded, OneCertificatePerPlace
  <2>1. PICK w \in log : \E k \in DOMAIN Offers(w) : r = Evidence(w, Offers(w)[k])
    BY DEF Recorded
  <2>2. PICK k \in DOMAIN Offers(w) : r = Evidence(w, Offers(w)[k])
    BY <2>1
  <2>3. PICK v \in log : \E j \in DOMAIN Offers(v) : s = Evidence(v, Offers(v)[j])
    BY DEF Recorded
  <2>4. PICK j \in DOMAIN Offers(v) : s = Evidence(v, Offers(v)[j])
    BY <2>3
  <2> DEFINE o == Offers(w)[k]
             p == Offers(v)[j]
  <2>5. /\ r.uid = w.uid /\ r.chain_index = o.index /\ r.role = o.role
        /\ s.uid = v.uid /\ s.chain_index = p.index /\ s.role = p.role
    BY <2>2, <2>4, EvidenceFacts
  <2>6. w = v /\ w \in SslRows
    BY <2>5 DEF Recorded
  <2>7. OfferFrom(w, o) /\ OfferFrom(w, p)
    BY <2>6, OffersAreSequences
  <2>8. o.index = p.index /\ o.role = p.role
    BY <2>5
  <2> HIDE DEF o, p
  <2>9. o = p
    BY <2>7, <2>8, PlacesDiffer
  <2> QED BY <2>2, <2>4, <2>6, <2>9 DEF o, p
<1> QED BY <1>1, RecordedInit, RecordedStep, PTL DEF Spec

-----------------------------------------------------------------------------
(* Where path verdicts come from.                                          *)

\* Verdicts are made once the rows are read, on leaves among the records, from answers the
\* verifier can give.
Judged ==
  \A leaf \in DOMAIN validation :
    /\ phase # "rows" /\ leaf \in records /\ ServerLeaf(leaf)
    /\ \E a \in Verifier(leaf.cert, RowOf(leaf.uid).ts), b \in Verifier(leaf.cert, AnalysisTime) :
         validation[leaf] = validate_server_leaf(leaf, a, b)

LEMMA JudgedStep == Judged /\ [Next]_vars => Judged'
<1> SUFFICES ASSUME Judged, [Next]_vars PROVE Judged'
  OBVIOUS
<1>1. ASSUME NEW row \in SslRows, ReadRow(row) PROVE Judged'
  <2>1. phase = "rows" /\ validation' = validation
    BY <1>1 DEF ReadRow, NewRow
  <2>2. DOMAIN validation = {}
    BY <2>1 DEF Judged
  <2> QED BY <2>1, <2>2 DEF Judged
<1>2. ASSUME NEW l \in Unvalidated, AttachValidation(l) PROVE Judged'
  <2>1. /\ phase = "validate" /\ phase' = phase /\ records' = records /\ log' = log
        /\ l \in records /\ ServerLeaf(l)
    BY <1>2 DEF AttachValidation, Unvalidated
  <2>2. PICK a \in Verifier(l.cert, RowOf(l.uid).ts), b \in Verifier(l.cert, AnalysisTime) :
               validation' = [r \in DOMAIN validation \cup {l} |->
                                IF r = l THEN validate_server_leaf(l, a, b) ELSE validation[r]]
    BY <1>2 DEF AttachValidation
  <2> SUFFICES ASSUME NEW leaf \in DOMAIN validation'
               PROVE  /\ phase # "rows" /\ leaf \in records /\ ServerLeaf(leaf)
                      /\ \E c \in Verifier(leaf.cert, RowOf(leaf.uid).ts),
                            d \in Verifier(leaf.cert, AnalysisTime) :
                           validation'[leaf] = validate_server_leaf(leaf, c, d)
    <3>1. \A x, c, d : validate_server_leaf(x, c, d)' = validate_server_leaf(x, c, d)
      BY <2>1 DEF validate_server_leaf, RowOf, Intermediates
    <3>2. \A x : RowOf(x)' = RowOf(x)
      BY <2>1 DEF RowOf
    <3> QED BY <2>1, <3>1, <3>2 DEF Judged, ServerLeaf
  <2>3. CASE leaf = l
    BY <2>1, <2>2, <2>3
  <2>4. CASE leaf # l
    BY <2>1, <2>2, <2>4 DEF Judged
  <2> QED BY <2>3, <2>4
<1>3. CASE UNCHANGED <<log, records, validation>> /\ (phase # "rows" => phase' # "rows")
  <2>1. \A x, c, d : validate_server_leaf(x, c, d)' = validate_server_leaf(x, c, d)
    BY <1>3 DEF validate_server_leaf, RowOf, Intermediates
  <2>2. \A x : RowOf(x)' = RowOf(x)
    BY <1>3 DEF RowOf
  <2> QED BY <1>3, <2>1, <2>2 DEF Judged, ServerLeaf
<1>4. CASE \E trust \in BOOLEAN : EndRows(trust)
  BY <1>3, <1>4 DEF EndRows
<1>5. CASE EndValidation
  BY <1>3, <1>5 DEF EndValidation
<1>6. CASE \E row \in SslRows : RowRaises(row)
  BY <1>3, <1>6 DEF RowRaises
<1>7. CASE \E leaf \in Unvalidated : LeafRaises(leaf)
  BY <1>3, <1>7 DEF LeafRaises
<1> QED BY <1>1, <1>2, <1>3, <1>4, <1>5, <1>6, <1>7 DEF Next, vars

\* What the reasons of a path verdict say of the chain (validate_certificate_path).
LEMMA PathGrounds ==
  ASSUME NEW leaf, NEW above, NEW t, NEW answer
  PROVE  LET p == validate_certificate_path(leaf, above, t, answer)
             c == Certs[leaf]
         IN  /\ "missing_intermediate" \in p.reasons => above = {} /\ c.subject # c.issuer
             /\ "untrusted_issuer" \in p.reasons => above # {} \/ c.issuer \in AnchorSubjects
             /\ "self_signed" \in p.reasons =>
                  c.subject = c.issuer /\ c.subject \notin AnchorSubjects
<1> DEFINE code == map_verification_failure(leaf, above, t, answer)
           c == Certs[leaf]
           self == c.subject = c.issuer /\ c.subject \notin AnchorSubjects
<1>1. /\ code = "missing_intermediate" => above = {} /\ c.subject # c.issuer
      /\ code = "untrusted_issuer" => above # {} \/ c.issuer \in AnchorSubjects
      /\ code = "self_signed" => self
  <2>1. \/ code \in {"not_yet_valid", "expired", "signature_verification_failed",
                     "invalid_extensions", "max_chain_depth_exceeded"}
        \/ code = IF self THEN "self_signed"
                  ELSE IF above = {} /\ c.issuer \notin AnchorSubjects
                  THEN "missing_intermediate" ELSE "untrusted_issuer"
    BY DEF map_verification_failure
  <2> HIDE DEF code
  <2> QED BY <2>1
<1> HIDE DEF code
<1> QED BY <1>1 DEF validate_certificate_path, Path, code

\* The paths of a verdict: judged for a leaf that parses, at capture time if there is one
\* (_validate_server_leaf).
LEMMA LeafPaths ==
  ASSUME NEW leaf, NEW a, NEW b
  PROVE  LET v == validate_server_leaf(leaf, a, b)
             ts == RowOf(leaf.uid).ts
         IN  /\ \/ v.capture = Unjudged
                \/ /\ leaf.syntax_valid /\ ts # NoTime
                   /\ v.capture = validate_certificate_path(leaf.cert, Intermediates(leaf), ts, a)
             /\ \/ v.analysis = Unjudged
                \/ /\ leaf.syntax_valid
                   /\ v.analysis = validate_certificate_path(leaf.cert, Intermediates(leaf),
                                                             AnalysisTime, b)
<1> DEFINE p == validate_certificate_path(leaf.cert, Intermediates(leaf), RowOf(leaf.uid).ts, a)
           q == validate_certificate_path(leaf.cert, Intermediates(leaf), AnalysisTime, b)
<1> HIDE DEF p, q
<1>1. /\ validate_server_leaf(leaf, a, b).capture =
           IF ~leaf.syntax_valid THEN Unjudged
           ELSE IF RowOf(leaf.uid).ts = NoTime THEN Unjudged ELSE p
      /\ validate_server_leaf(leaf, a, b).analysis =
           IF ~leaf.syntax_valid THEN Unjudged ELSE q
  BY DEF validate_server_leaf, p, q
<1> QED BY <1>1 DEF p, q

\* PathVerdictsAreGrounded for every log, limit and answer of the verifier: a missing
\* intermediate is only reported of a leaf that others issued and where none could be
\* used or the list was full, an untrusted issuer only where the issuer was there to be
\* judged, and a self-signed leaf only where it is one (_map_verification_failure).
THEOREM PathVerdictsHaveGrounds == Spec => []PathVerdictsAreGrounded
<1>1. Recorded /\ Judged => PathVerdictsAreGrounded
  <2> SUFFICES ASSUME Recorded, Judged, NEW leaf \in DOMAIN validation
               PROVE
                 LET v == validation[leaf]
                     c == Certs[leaf.cert]
                     row == RowOf(leaf.uid)
                     above == {i \in 2..Len(row.serverFps) :
                                 row.serverFps[i] \in Extracted
                                 /\ parse_certificate_der(Certs[row.serverFps[i]]) = None}
                     reasons == v.capture.reasons \cup v.analysis.reasons
                 IN  /\ "missing_intermediate" \in reasons =>
                          /\ above = {} \/ Cardinality(records) = MaxCertificates
                          /\ c.subject # c.issuer
                     /\ "untrusted_issuer" \in reasons =>
                          above # {} \/ row.serverFps = << >> \/ c.issuer \in AnchorSubjects
                     /\ "self_signed" \in reasons =>
                          c.subject = c.issuer /\ c.subject \notin AnchorSubjects
    BY DEF PathVerdictsAreGrounded
  <2> DEFINE v == validation[leaf]
             row == RowOf(leaf.uid)
             fps == row.serverFps
             c == Certs[leaf.cert]
             above == {i \in 2..Len(fps) :
                         fps[i] \in Extracted /\ parse_certificate_der(Certs[fps[i]]) = None}
  <2>1. leaf \in records /\ ServerLeaf(leaf)
    BY DEF Judged
  <2>2. PICK a \in Verifier(leaf.cert, row.ts), b \in Verifier(leaf.cert, AnalysisTime) :
               v = validate_server_leaf(leaf, a, b)
    BY DEF Judged
  <2>3. /\ \/ v.capture = Unjudged
           \/ /\ leaf.syntax_valid /\ row.ts # NoTime
              /\ v.capture = validate_certificate_path(leaf.cert, Intermediates(leaf), row.ts, a)
        /\ \/ v.analysis = Unjudged
           \/ /\ leaf.syntax_valid
              /\ v.analysis = validate_certificate_path(leaf.cert, Intermediates(leaf),
                                                        AnalysisTime, b)
    BY <2>2, LeafPaths
  <2>4. PICK w \in log : \E k \in DOMAIN Offers(w) : leaf = Evidence(w, Offers(w)[k])
    BY <2>1 DEF Recorded
  <2>5. PICK k \in DOMAIN Offers(w) : leaf = Evidence(w, Offers(w)[k])
    BY <2>4
  <2>6. row = w /\ row \in log /\ row \in SslRows
    <3>1. leaf.uid = w.uid
      BY <2>5, EvidenceFacts
    <3> QED BY <3>1 DEF Recorded, RowOf
  <2>7. ~Hidden(row)
    <3>1. Hidden(w) => DOMAIN Offers(w) = {}
      BY DEF Offers
    <3> QED BY <2>5, <2>6, <3>1
  <2> HIDE DEF v, row, c
  <2>8. fps \in Seq(ToSet(fps))
    BY <2>6, ListAssumption
  <2>9. Unjudged.reasons = {}
    BY DEF Unjudged, Path
  <2>10. "missing_intermediate" \in v.capture.reasons \cup v.analysis.reasons =>
           Intermediates(leaf) = {} /\ c.subject # c.issuer
    BY <2>3, <2>9, PathGrounds DEF c
  <2>11. "untrusted_issuer" \in v.capture.reasons \cup v.analysis.reasons =>
           Intermediates(leaf) # {} \/ c.issuer \in AnchorSubjects
    BY <2>3, <2>9, PathGrounds DEF c
  <2>12. ASSUME above # {}, Cardinality(records) # MaxCertificates
         PROVE  Intermediates(leaf) # {}
    <3>1. PICK i \in 2..Len(fps) : fps[i] \in Extracted
                                        /\ parse_certificate_der(Certs[fps[i]]) = None
      BY <2>12
    <3>2. i \in DOMAIN fps /\ i - 1 # 0
      BY <2>8
    <3>3. i \in DOMAIN Offers(row) /\ Offers(row)[i] = Offer(fps[i], i - 1, "server", FALSE)
      BY <2>6, <2>7, <3>2, OffersAreSequences
    <3> DEFINE o == Offers(row)[i]
    <3>4. o.cert = fps[i] /\ o.index = i - 1 /\ o.role = "server" /\ o.truncated = FALSE
      BY <3>3 DEF Offer
    <3> HIDE DEF o
    <3>5. PICK r \in records : Key(r) = Key(Evidence(row, o))
      BY <2>6, <2>12, <3>1, <3>3, <3>4 DEF Recorded, match_fingerprint, o
    <3>6. r.uid = leaf.uid /\ r.chain_index = i - 1 /\ r.role = "server" /\ r.cert = fps[i]
      <4>1. leaf.uid = row.uid
        BY <2>5, <2>6, EvidenceFacts
      <4> QED BY <3>4, <3>5, <4>1, EvidenceFacts DEF Key
    <3>7. r.syntax_valid
      <4>1. PICK u \in log : \E j \in DOMAIN Offers(u) : r = Evidence(u, Offers(u)[j])
        BY DEF Recorded
      <4>2. PICK j \in DOMAIN Offers(u) : r = Evidence(u, Offers(u)[j])
        BY <4>1
      <4> DEFINE x == Offers(u)[j]
      <4>3. r.uid = u.uid /\ r.chain_index = x.index /\ r.role = x.role
        BY <4>2, EvidenceFacts
      <4>4. u = row
        <5>1. leaf.uid = row.uid
          BY <2>5, <2>6, EvidenceFacts
        <5> QED BY <2>6, <3>6, <4>3, <5>1 DEF Recorded
      <4>5. OfferFrom(row, x) /\ OfferFrom(row, o)
        BY <2>6, <3>3, <4>4, OffersAreSequences DEF o
      <4>6. x.index = o.index /\ x.role = o.role
        BY <3>4, <3>6, <4>3
      <4> HIDE DEF x
      <4>7. x = o
        BY <4>5, <4>6, PlacesDiffer
      <4>8. r = Evidence(row, o)
        BY <4>2, <4>4, <4>7 DEF x
      <4>9. parse_certificate_der(Certs[o.cert]) = None
        BY <3>1, <3>4
      <4> QED BY <3>4, <4>8, <4>9, EvidenceFacts
    <3> QED BY <3>2, <3>6, <3>7 DEF Intermediates
  <2>13. ASSUME Intermediates(leaf) # {}, fps # << >>
         PROVE  above # {}
    <3>1. PICK r \in records : /\ r.uid = leaf.uid /\ r.role = "server"
                               /\ r.chain_index # 0 /\ r.syntax_valid
      BY <2>13 DEF Intermediates
    <3>2. PICK u \in log : \E j \in DOMAIN Offers(u) : r = Evidence(u, Offers(u)[j])
      BY DEF Recorded
    <3>3. PICK j \in DOMAIN Offers(u) : r = Evidence(u, Offers(u)[j])
      BY <3>2
    <3> DEFINE x == Offers(u)[j]
    <3>4. r.uid = u.uid /\ r.chain_index = x.index /\ r.role = x.role /\ r.cert = x.cert
      BY <3>3, EvidenceFacts
    <3>5. u = row
      <4>1. leaf.uid = row.uid
        BY <2>5, <2>6, EvidenceFacts
      <4> QED BY <2>6, <3>1, <3>4, <4>1 DEF Recorded
    <3>6. OfferFrom(row, x)
      BY <2>6, <3>5, OffersAreSequences
    <3>7. parse_certificate_der(Certs[x.cert]) = None
      BY <3>1, <3>3, EvidenceFacts
    <3>8. x.cert \in Extracted
      BY <3>4 DEF Recorded
    <3> HIDE DEF x
    <3>10. x.index + 1 \in DOMAIN fps /\ x.cert = fps[x.index + 1]
      <4>1. x.role = "server"
        BY <3>1, <3>4
      <4>2. \A d, i : x = Offer(d, i, "client", FALSE) => x.role = "client"
        BY DEF Offer
      <4>3. \A d, i : x = Offer(d, i, "server", FALSE) => x.cert = d
        BY DEF Offer
      <4> QED BY <2>13, <3>6, <4>1, <4>2, <4>3 DEF OfferFrom
    <3>11. x.index # 0 /\ x.index \in Nat
      BY <3>1, <3>4, <3>6 DEF OfferFrom
    <3>12. x.index + 1 \in 2..Len(fps)
      BY <2>8, <3>10, <3>11
    <3> QED BY <3>7, <3>8, <3>10, <3>12
  <2>14. "self_signed" \in v.capture.reasons \cup v.analysis.reasons =>
           c.subject = c.issuer /\ c.subject \notin AnchorSubjects
    BY <2>3, <2>9, PathGrounds DEF c
  <2> QED BY <2>10, <2>11, <2>12, <2>13, <2>14 DEF v, row, c
<1>2. Init => Judged
  BY DEF Init, Judged
<1> QED BY <1>1, <1>2, RecordedInit, RecordedStep, JudgedStep, PTL DEF Spec

=============================================================================

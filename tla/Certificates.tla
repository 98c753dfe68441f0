---------------------------- MODULE Certificates ----------------------------
(***************************************************************************)
(* normalize_certificates: the DER files Zeek extracted, joined with the   *)
(* rows of ssl.log (one per connection) into certificate records, and the  *)
(* path and identity verdicts attached to the servers' leaves.             *)
(*                                                                         *)
(* A certificate stands for its payload and for both its digests.  A DNS   *)
(* name is the sequence of its labels; Lower folds the case of a label or  *)
(* a connection uid, and maps a label that cannot be encoded to BadLabel.  *)
(* Subjects and issuers are names to compare.  Records are sorted by a key *)
(* that tells them apart, so the list is modelled as a set.                *)
(***************************************************************************)
EXTENDS EvidenceStates, SequencesExt

CONSTANTS
    Certs,            \* certificate -> its contents
    Fuids,            \* extracted certificate -> the Zeek file id, or None
    FileRows,         \* sm_cert.log and files.log, in the order they are read
    SslRows,          \* the rows ssl.log may hold
    Lower, BadLabel, Starred,
    AnchorSubjects,   \* subjects of the trust store
    ExpectedHostname, \* the configured reference identity, or NoId
    AnalysisTime, WarningWindow,
    MaxCertificates,  \* MAX_CERTIFICATES_PER_RUN
    MaxChainDepth,    \* MAX_CHAIN_DEPTH
    MaxSanEntries     \* _MAX_SAN_ENTRIES

VARIABLES
    phase,      \* "rows", "validate", "done", or "failed": an exception ended the call,
                \* and the records and verdicts made so far are returned to nobody
    log,        \* the rows of ssl.log read so far
    records,    \* certificate records
    artifacts,  \* the artifact store
    validation  \* verdicts on records: record -> CertificateValidation

vars == <<phase, log, records, artifacts, validation>>

None == "none"
NoTime == -1
NoId == [kind |-> None, name |-> << >>]
Extracted == DOMAIN Fuids

ASSUME LimitAssumption == MaxCertificates \in Nat

\* What the parser may meet in a file (parse_certificate_der).  The library decodes some
\* parts of a certificate only when they are read: one with "badFacts" loads, and its
\* key or its names raise; one with "badExtensions" raises when its extensions are read.
ASSUME DerAssumption ==
  \A c \in Extracted : Certs[c].der \in
    {"oversize", "nested", "malformed", "crashes", "badFacts", "badExtensions", "ok"}

\* The logs and the chains in their rows are lists.
ASSUME ListAssumption ==
  /\ FileRows \in Seq(ToSet(FileRows))
  /\ \A row \in SslRows : /\ row.serverFps \in Seq(ToSet(row.serverFps))
                          /\ row.clientFps \in Seq(ToSet(row.clientFps))

-----------------------------------------------------------------------------
(* A certificate's own facts.                                              *)

RSA_MODULUS_STRENGTH ==
  <<<<1024, 80>>, <<2048, 112>>, <<3072, 128>>, <<4096, 152>>, <<7680, 192>>, <<15360, 256>>>>
ECC_SIZE_STRENGTH == <<<<160, 80>>, <<224, 112>>, <<256, 128>>, <<384, 192>>, <<521, 256>>>>

\* The strength at the largest threshold the size reaches; 0 stands for unmapped.
floor_lookup(table, size) ==
  Max({0} \cup {table[i][2] : i \in {j \in DOMAIN table : table[j][1] <= size}})

\* Curves and algorithms of fixed strength are given by their strength.
effective_strength_bits(key) ==
  CASE key.fixed > 0 -> key.fixed
    [] key.fixed = 0 /\ key.algorithm \in {"RSA", "DSA"} ->
         floor_lookup(RSA_MODULUS_STRENGTH, key.size)
    [] key.fixed = 0 /\ key.algorithm = "ECDSA" -> floor_lookup(ECC_SIZE_STRENGTH, key.size)
    [] OTHER -> 0

validity_at(t, c) == c.not_before <= t /\ t <= c.not_after

expires_within_warning(t, c) == t <= c.not_after /\ c.not_after - t <= WarningWindow

Raised == "raised"

\* parse_certificate_der: the size and nesting limits come before the parser.  What
\* raises after the certificate was loaded is not caught.
parse_certificate_der(c) ==
  CASE c.der = "oversize" -> "certificate_exceeds_size_limit"
    [] c.der = "nested" -> "certificate_asn1_nesting_exceeds_limit"
    [] c.der = "malformed" -> "certificate_der_invalid"
    [] c.der = "crashes" -> "certificate_parse_failed"
    [] c.der = "badFacts" -> Raised
    [] c.der \in {"badExtensions", "ok"} -> None

\* A certificate that does not parse, or was cut off, keeps none of its contents; one
\* that was cut off and parses carries no error.
to_evidence(cert, uid, index, role, captured, truncated) ==
  LET c == Certs[cert]
      error == parse_certificate_der(c)
      kept == error = None /\ ~truncated
      verdict(t) == IF validity_at(t, c) THEN "yes" ELSE "no"
  IN  [cert |-> cert, uid |-> uid, chain_index |-> index, role |-> role,
       syntax_valid |-> kept, syntax_error |-> error,
       valid_at_capture |-> IF kept /\ captured # NoTime THEN verdict(captured) ELSE None,
       valid_at_analysis |-> IF kept THEN verdict(AnalysisTime) ELSE None,
       expiring |-> kept /\ expires_within_warning(AnalysisTime, c),
       strength |-> IF kept THEN effective_strength_bits(c.key) ELSE 0,
       evidence_state |-> IF truncated THEN "incomplete" ELSE "observed"]

-----------------------------------------------------------------------------
(* Which certificates a connection offered.                                *)

\* Fingerprints name a certificate by either digest; only extracted ones are found.
match_fingerprint(fp) == fp \in Extracted

\* Whether a row of sm_cert.log or files.log belongs to the connection.  A row
\* without a uid lists connections in conn_uids, which are folded to lower case.
FileOfConnection(f, uid) ==
  /\ IF f.uid # None THEN f.uid = uid ELSE \E u \in f.conn_uids : Lower[u] = uid
  /\ f.log = "files.log" => f.source \in {None, "SSL"}

\* The extracted file a row names: by digest first, then by file id.
FileMatch(f) ==
  IF f.cert \in Extracted THEN {f.cert}
  ELSE {c \in Extracted : f.fuid # None /\ Fuids[c] = f.fuid}

\* A file found twice keeps its first place.
add_file(uid, found, f) ==
  LET matched == IF FileOfConnection(f, uid) THEN FileMatch(f) \ ToSet(found) ELSE {}
  IN  IF matched = {} THEN found ELSE Append(found, CHOOSE c \in matched : TRUE)

files_for_uid(uid) ==
  LET found[n \in 0..Len(FileRows)] ==
        IF n = 0 THEN << >> ELSE add_file(uid, found[n - 1], FileRows[n])
  IN  found[Len(FileRows)]

TruncatedFuids ==
  {FileRows[i].fuid : i \in {j \in DOMAIN FileRows :
                               FileRows[j].log = "sm_cert.log" /\ FileRows[j].truncated}}

\* The handshake of a row hid its certificates (TLS 1.3).
Hidden(row) == ~row.serverCertificate /\ row.history \cap {"x", "X"} = {}

\* A certificate a row names, and the place it was sent in.
Offer(cert, index, role, truncated) ==
  [cert |-> cert, index |-> index, role |-> role, truncated |-> truncated]

Chain(fps, role) == [i \in DOMAIN fps |-> Offer(fps[i], i - 1, role, FALSE)]

\* Mutant: the connection's files are read although fingerprints name the chain.
FilesAlways(row) ==
  IF row.history \cap {"x", "X"} = {} THEN << >>
  ELSE LET files == files_for_uid(row.uid)
       IN  [k \in DOMAIN files |-> Offer(files[k], k - 1, "server",
                                         Fuids[files[k]] \in TruncatedFuids)]

\* Without fingerprints of a server chain, every file of the connection counts as one
\* of the server's, if a certificate message was seen at all.
Fallback(row) ==
  IF row.serverFps # << >> \/ row.history \cap {"x", "X"} = {} THEN << >>
  ELSE LET files == files_for_uid(row.uid)
       IN  [k \in DOMAIN files |-> Offer(files[k], k - 1, "server",
                                         Fuids[files[k]] \in TruncatedFuids)]

\* The certificates of a row in the order they are recorded.
Offers(row) ==
  IF Hidden(row) THEN << >>
  ELSE Chain(row.serverFps, "server") \o Chain(row.clientFps, "client") \o Fallback(row)

Evidence(row, o) == to_evidence(o.cert, row.uid, o.index, o.role, row.ts, o.truncated)

Key(r) == <<r.uid, r.chain_index, r.role, r.cert>>

add_record(rs, item) ==
  IF Cardinality(rs) >= MaxCertificates \/ \E r \in rs : Key(r) = Key(item) THEN rs
  ELSE rs \cup {item}

\* A fingerprint that names no extracted certificate is passed over.
AddOffer(rs, row, o) ==
  IF match_fingerprint(o.cert) THEN add_record(rs, Evidence(row, o)) ELSE rs

AddOffers(rs, row, offers) ==
  LET after[n \in 0..Len(offers)] ==
        IF n = 0 THEN rs ELSE AddOffer(after[n - 1], row, offers[n])
  IN  after[Len(offers)]

\* The offer names an extracted certificate whose facts cannot be read.
Raises(o) ==
  match_fingerprint(o.cert) /\ parse_certificate_der(Certs[o.cert]) = Raised

NewRow(row) == phase = "rows" /\ \A r \in log : r.uid # row.uid

\* One row of ssl.log.  Payloads are stored even when the record list is full.
ReadRow(row) ==
  /\ NewRow(row)
  /\ \A k \in DOMAIN Offers(row) : ~Raises(Offers(row)[k])
  /\ log' = log \cup {row}
  /\ records' = AddOffers(records, row, Offers(row))
  /\ artifacts' = artifacts \cup {c \in Extracted : \E k \in DOMAIN Offers(row) :
                                                      Offers(row)[k].cert = c}
  /\ UNCHANGED <<phase, validation>>

\* The exception of an offer ends normalize_certificates.  Its payload, and those of the
\* offers before it, were stored.
RowRaises(row) ==
  /\ NewRow(row)
  /\ \E k \in DOMAIN Offers(row) :
       /\ Raises(Offers(row)[k])
       /\ \A j \in 1..(k - 1) : ~Raises(Offers(row)[j])
       /\ artifacts' = artifacts \cup {c \in Extracted : \E j \in 1..k : Offers(row)[j].cert = c}
  /\ phase' = "failed"
  /\ UNCHANGED <<log, records, validation>>

-----------------------------------------------------------------------------
(* Path validation.  What the verifier says is not decided here: it accepts *)
(* a chain only while the leaf is valid, or names what it disliked.         *)

VerifierAnswer == {"accepts", "time", "signature", "extension", "depth", "candidates"}

Verifier(leaf, t) == {a \in VerifierAnswer : a = "accepts" => validity_at(t, Certs[leaf])}

\* The reason code of a rejection.
map_verification_failure(leaf, intermediates, t, answer) ==
  LET c == Certs[leaf] IN
  CASE answer = "time" -> IF t < c.not_before THEN "not_yet_valid" ELSE "expired"
    [] answer = "signature" -> "signature_verification_failed"
    [] answer = "extension" -> "invalid_extensions"
    [] answer = "depth" -> "max_chain_depth_exceeded"
    [] OTHER -> IF c.subject = c.issuer /\ c.subject \notin AnchorSubjects THEN "self_signed"
                ELSE IF intermediates = {} /\ c.issuer \notin AnchorSubjects
                THEN "missing_intermediate" ELSE "untrusted_issuer"

Path(valid, reasons) == [valid |-> valid, reasons |-> reasons]

validate_certificate_path(leaf, intermediates, t, answer) ==
  IF 1 + Cardinality(intermediates) > MaxChainDepth
  THEN Path("no", {"max_chain_depth_exceeded"})
  ELSE IF answer = "accepts" THEN Path("yes", {})
  ELSE Path("no", {map_verification_failure(leaf, intermediates, t, answer)})

-----------------------------------------------------------------------------
(* Identity.                                                               *)

RightTrimmed(name) ==
  SubSeq(name, 1, Max({0} \cup {i \in DOMAIN name : name[i] # ""}))

\* The labels in canonical form, or the empty name if there is none.
normalize_dns(name) ==
  LET labels == RightTrimmed(name)
      folded == [i \in DOMAIN labels |-> IF labels[i] = "*" THEN "*" ELSE Lower[labels[i]]]
  IN  IF \E i \in DOMAIN labels : labels[i] = "" \/ folded[i] = BadLabel THEN << >> ELSE folded

Usable(e) == e.kind = "ip" \/ (e.kind = "dns" /\ normalize_dns(e.name) # << >>)

SanEntry(e) ==
  [kind |-> e.kind, name |-> IF e.kind = "dns" THEN normalize_dns(e.name) ELSE e.name]

\* The first MaxSanEntries names and addresses of the extension, in its order.
extract_san_entries(c) ==
  {SanEntry(c.san[i]) : i \in {j \in DOMAIN c.san :
     /\ Usable(c.san[j])
     /\ Cardinality({h \in 1..(j - 1) : Usable(c.san[h])}) < MaxSanEntries}}

\* Mutant: a wildcard stands for any number of labels.
DeepWildcard(pattern, host) ==
  IF \A i \in DOMAIN pattern : pattern[i] \notin Starred THEN pattern = host
  ELSE Head(pattern) = "*" /\ Len(host) >= Len(pattern) /\ Head(host) # "*"
       /\ \A i \in DOMAIN Tail(pattern) :
            Tail(pattern)[i] = SubSeq(host, Len(host) - Len(pattern) + 2, Len(host))[i]

\* A wildcard is a whole leftmost label and stands for exactly one label.
dns_name_matches(pattern, host) ==
  IF \A i \in DOMAIN pattern : pattern[i] \notin Starred THEN pattern = host
  ELSE /\ Len(pattern) >= 2 /\ Head(pattern) = "*"
       /\ \A i \in DOMAIN Tail(pattern) : Tail(pattern)[i] \notin Starred
       /\ Len(pattern) = Len(host)
       /\ Head(host) # "*"
       /\ Tail(host) = Tail(pattern)

Identity(match, reasons) == [match |-> match, reasons |-> reasons]

match_service_identity(reference, san) ==
  IF reference = NoId THEN Identity(None, {"reference_identity_unavailable"})
  ELSE IF san = {} THEN Identity("no", {"san_missing"})
  ELSE LET host == IF reference.kind = "dns" THEN normalize_dns(reference.name) ELSE reference.name
           hit(e) == e.kind = reference.kind
                     /\ IF e.kind = "ip" THEN e.name = host ELSE dns_name_matches(e.name, host)
       IN  IF host # << >> /\ \E e \in san : hit(e) THEN Identity("yes", {})
           ELSE Identity("no", {"san_mismatch"})

reference_identity(row) ==
  CASE ExpectedHostname # NoId -> [id |-> ExpectedHostname, source |-> "configured"]
    [] ExpectedHostname = NoId /\ row.server_name # NoId ->
         [id |-> row.server_name, source |-> "sni"]
    [] OTHER -> [id |-> NoId, source |-> None]

-----------------------------------------------------------------------------
(* The verdicts on a server's leaf.                                        *)

RowOf(uid) == CHOOSE row \in log : row.uid = uid

\* Mutant: whatever was sent in the connection counts as the server's chain.
AnyChain(leaf) ==
  {r.cert : r \in {q \in records : q.uid = leaf.uid /\ q.syntax_valid}}

\* The parseable certificates of the server's chain above the leaf.
Intermediates(leaf) ==
  {r.cert : r \in {q \in records : /\ q.uid = leaf.uid /\ q.role = "server"
                                   /\ q.chain_index # 0 /\ q.syntax_valid}}

Unjudged == Path(None, {})

\* Mutant: a path that cannot be judged at capture time is a bare failure.
BareFailure(leaf, atCapture, atAnalysis) ==
  LET row == RowOf(leaf.uid)
      reference == reference_identity(row)
      identity == match_service_identity(reference.id, extract_san_entries(Certs[leaf.cert]))
  IN  [syntax_valid |-> TRUE, reference |-> reference,
       capture |-> IF row.ts = NoTime THEN Path("no", {})
                   ELSE validate_certificate_path(leaf.cert, Intermediates(leaf), row.ts, atCapture),
       analysis |-> validate_certificate_path(leaf.cert, Intermediates(leaf), AnalysisTime,
                                              atAnalysis),
       identity |-> identity, indeterminate |-> {}]

\* The paths are judged at two instants, each on its own; atCapture and atAnalysis are
\* the verifier's answers.
validate_server_leaf(leaf, atCapture, atAnalysis) ==
  LET row == RowOf(leaf.uid)
      reference == reference_identity(row)
      identity == match_service_identity(reference.id, extract_san_entries(Certs[leaf.cert]))
      missing(cond, reason) == IF cond THEN {reason} ELSE {}
  IN  IF ~leaf.syntax_valid
      THEN [syntax_valid |-> FALSE, reference |-> reference, capture |-> Unjudged,
            analysis |-> Unjudged, identity |-> Identity(None, {}),
            indeterminate |->
              {"syntax_invalid_leaf"}
              \cup missing(reference.id = NoId, "reference_identity_unavailable")]
      ELSE [syntax_valid |-> TRUE, reference |-> reference,
            capture |-> IF row.ts = NoTime THEN Unjudged
                        ELSE validate_certificate_path(leaf.cert, Intermediates(leaf), row.ts,
                                                       atCapture),
            analysis |-> validate_certificate_path(leaf.cert, Intermediates(leaf), AnalysisTime,
                                                   atAnalysis),
            identity |-> IF identity.match = None THEN Identity(None, {}) ELSE identity,
            indeterminate |-> missing(row.ts = NoTime, "capture_time_unavailable")
                              \cup (IF identity.match = None THEN identity.reasons ELSE {})]

ServerLeaf(r) == r.role = "server" /\ r.chain_index = 0

Unvalidated == {r \in records : ServerLeaf(r) /\ r \notin DOMAIN validation}

\* Without a trust snapshot the records are final as they are.
EndRows(trust) ==
  /\ phase = "rows"
  /\ phase' = IF trust THEN "validate" ELSE "done"
  /\ UNCHANGED <<log, records, artifacts, validation>>

\* The extensions of a leaf that parsed are read for its names, and any exception but
\* ExtensionNotFound is let through (extract_san_entries).
ExtensionsRaise(leaf) == leaf.syntax_valid /\ Certs[leaf.cert].der = "badExtensions"

LeafRaises(leaf) ==
  /\ phase = "validate" /\ ExtensionsRaise(leaf)
  /\ phase' = "failed"
  /\ UNCHANGED <<log, records, artifacts, validation>>

\* The instant of the row, where the verifier is not asked if there is none.
AttachValidation(leaf) ==
  /\ phase = "validate" /\ ~ExtensionsRaise(leaf)
  /\ \E a \in Verifier(leaf.cert, RowOf(leaf.uid).ts), b \in Verifier(leaf.cert, AnalysisTime) :
       validation' = [r \in DOMAIN validation \cup {leaf} |->
                        IF r = leaf THEN validate_server_leaf(leaf, a, b) ELSE validation[r]]
  /\ UNCHANGED <<phase, log, records, artifacts>>

EndValidation ==
  /\ phase = "validate" /\ Unvalidated = {}
  /\ phase' = "done"
  /\ UNCHANGED <<log, records, artifacts, validation>>

Init ==
  /\ phase = "rows" /\ log = {} /\ records = {} /\ artifacts = {}
  /\ validation = << >>

Next ==
  \/ \E row \in SslRows : ReadRow(row)
  \/ \E row \in SslRows : RowRaises(row)
  \/ \E trust \in BOOLEAN : EndRows(trust)
  \/ \E leaf \in Unvalidated : AttachValidation(leaf)
  \/ \E leaf \in Unvalidated : LeafRaises(leaf)
  \/ EndValidation

Spec == Init /\ [][Next]_vars

-----------------------------------------------------------------------------
(* Properties.                                                             *)

\* No two records claim one place in one chain, and every record has its payload in
\* the store: the fingerprints and the files of a connection are never mixed, whatever
\* order the rows come in and wherever the record limit falls (normalize_certificates).
OneCertificatePerPlace ==
  /\ Cardinality(records) <= MaxCertificates
  /\ \A r \in records : r.cert \in artifacts /\ r.cert \in Extracted
  /\ \A r, s \in records :
       r.uid = s.uid /\ r.role = s.role /\ r.chain_index = s.chain_index => r = s

\* "Never emit a bare false without one" (PathReasonCode): a negative verdict always
\* has a reason, a positive one never, and where a verdict is missing, something says
\* why it could not be made (_validate_server_leaf).
VerdictsHaveReasons ==
  \A leaf \in DOMAIN validation :
    LET v == validation[leaf] IN
    /\ \A p \in {v.capture, v.analysis} : (p.valid = "no") = (p.reasons # {})
    /\ (v.identity.match = "no") = (v.identity.reasons # {})
    /\ (v.capture.valid = None \/ v.analysis.valid = None \/ v.identity.match = None)
         = (v.indeterminate # {})

\* The reason of a path verdict is true of the chain the server sent.  An intermediate is
\* missing only where the leaf was issued by another subject and no certificate above it
\* could be used, because none parsed or the record list was full; an issuer is untrusted
\* only where a certificate above the leaf could be used, the chain came from the files
\* of the connection, or the leaf's issuer is an anchor; a self-signed leaf names itself
\* as its issuer and is no anchor (_map_verification_failure, _attach_validations).
PathVerdictsAreGrounded ==
  \A leaf \in DOMAIN validation :
    LET v == validation[leaf]
        c == Certs[leaf.cert]
        row == RowOf(leaf.uid)
        above == {i \in 2..Len(row.serverFps) :
                    row.serverFps[i] \in Extracted
                    /\ parse_certificate_der(Certs[row.serverFps[i]]) = None}
        reasons == v.capture.reasons \cup v.analysis.reasons
    IN  /\ "missing_intermediate" \in reasons =>
             /\ above = {} \/ Cardinality(records) = MaxCertificates
             /\ c.subject # c.issuer
        /\ "untrusted_issuer" \in reasons =>
             above # {} \/ row.serverFps = << >> \/ c.issuer \in AnchorSubjects
        /\ "self_signed" \in reasons => c.subject = c.issuer /\ c.subject \notin AnchorSubjects

\* A name of the certificate covers the reference identity only at its own depth: the
\* parent domains are equal, and if the first labels differ the certificate's is the
\* wildcard.  An address is never covered by a name, nor a name by an address.
IdentityNeedsItsParentDomain ==
  \A leaf \in DOMAIN validation :
    LET v == validation[leaf]
        ref == v.reference.id
        san == extract_san_entries(Certs[leaf.cert])
    IN  v.identity.match = "yes" =>
          \E e \in san :
            /\ e.kind = ref.kind
            /\ IF e.kind = "ip" THEN e.name = ref.name
               ELSE LET host == normalize_dns(ref.name) IN
                    /\ Len(e.name) = Len(host)
                    /\ Tail(e.name) = Tail(host)
                    /\ Head(e.name) \in {Head(host), "*"}

=============================================================================

----------------------------- MODULE Handshakes -----------------------------
(***************************************************************************)
(* One TLS connection on its way through the evidence pipeline: its        *)
(* reconstruction quality (FlowQuality), the handshake normalize_handshakes*)
(* builds from its ssl.log row and TShark's handshake frames, and the      *)
(* key-exchange and forward-secrecy judgements made of it.                 *)
(*                                                                         *)
(* A cipher suite is its class: the key exchange its name spells in TLS    *)
(* 1.2, or "tls13" for a name that spells none.  A named group is its IANA *)
(* code, and a curve the family its name belongs to.                       *)
(***************************************************************************)
EXTENDS FlowQuality

CONSTANTS
    ConnRows,     \* conn.log rows: protocol, history letters, missed bytes
    ReconShapes,  \* sm_tcp_recon.log events
    SslRows,      \* ssl.log rows
    HelloFrames,  \* TShark frames: handshake message types, selected group
    GroupNames,   \* the IANA snapshot: group code -> family of its name
    KnownSuites,  \* the cipher suites of the registry snapshot
    MaxEvents, MaxFrames  \* bounds on recon events and frames

VARIABLES
    phase,     \* "flow", "classified", "row", "frames" or "done"
    conn, truncated, losses,  \* what the classifier is given
    recon,     \* the connection's recon events, in log order
    facts,     \* what normalize_flows keeps of them
    flow,      \* the flow's verdict
    row,       \* the connection's ssl.log row
    frames,    \* the connection's handshake frames, in capture order
    queue,     \* the handshake types of the last frame that are still to be attached
    attach,    \* _attach_frames: the messages, the original ones, those with a frame
    handshake  \* the TlsHandshake

flowVars == <<conn, truncated, losses, recon, facts>>
vars == <<phase, flowVars, flow, row, frames, queue, attach, handshake>>

None == "none"
NoGroup == 65536            \* one more than the largest group code
NoHandshake == [uid |-> None]

-----------------------------------------------------------------------------
(* Messages: one per letter of the history, then frames by kind.           *)

HISTORY_KIND ==
  [C |-> "client_hello", s |-> "server_hello", j |-> "hello_retry_request",
   x |-> "certificate", X |-> "certificate", y |-> "certificate_verify",
   Y |-> "certificate_verify", n |-> "server_hello_done", k |-> "server_key_exchange",
   f |-> "finished", o |-> "encrypted_extensions", flip |-> "direction_flip"]

messages_from_ssl_history(history) ==
  [i \in DOMAIN history |->
     [kind |-> HISTORY_KIND[history[i]], frame |-> 0,
      evidence_state |-> IF history[i] = "flip" THEN "observed" ELSE "inferred"]]

\* Messages of a kind that wait for a frame, oldest first.
Pending(messages, taken, kind) ==
  {i \in DOMAIN messages \ taken : messages[i].kind = kind}

\* The message a handshake type of frame f belongs to: a ServerHello with a selected
\* group is a HelloRetryRequest, which may stand in the history as a ServerHello.
TypeKind(type, f) ==
  IF type = "server_hello" /\ f.group # NoGroup THEN "hello_retry_request" ELSE type

Target(original, taken, kind) ==
  LET own == Pending(original, taken, kind)
  IN  IF own = {} /\ kind = "hello_retry_request" THEN Pending(original, taken, "server_hello")
      ELSE own

\* Mutant: the newest waiting message of the kind takes the frame.
AttachNewest(acc, type, f, n) ==
  LET kind == TypeKind(type, f)
      target == Target(acc.original, acc.taken, kind)
  IN  IF target = {} THEN acc
      ELSE [acc EXCEPT !.taken = @ \cup {Max(target)},
              !.messages[Max(target)] =
                 [kind |-> kind, frame |-> n, evidence_state |-> "observed"]]

AttachType(acc, type, f, n) ==
  LET kind == TypeKind(type, f)
      target == Target(acc.original, acc.taken, kind)
  IN  IF target = {} THEN acc
      ELSE [acc EXCEPT !.taken = @ \cup {Min(target)},
              !.messages[Min(target)] =
                 [kind |-> kind, frame |-> n, evidence_state |-> "observed"]]

NoFrames(messages) == [original |-> messages, messages |-> messages, taken |-> {}]

-----------------------------------------------------------------------------
(* Version, cipher suite, certificate messages.                            *)

Letters(history) == {history[i] : i \in DOMAIN history}
has_server_hello(history) == Letters(history) \cap {"s", "j"} # {}

\* The version the server selected; the ClientHello's offers never decide it.
resolve_selected_version(r) ==
  LET server == has_server_hello(r.history)
      legacy == IF r.legacy # None THEN r.legacy ELSE r.version
  IN  IF server /\ r.supported # None
      THEN [selected |-> r.supported, source |-> "supported_versions", state |-> "observed"]
      ELSE IF server /\ legacy # None
      THEN [selected |-> legacy, source |-> "legacy_record", state |-> "observed"]
      ELSE [selected |-> None, source |-> None,
            state |-> IF "C" \in Letters(r.history) THEN "incomplete" ELSE "not_observable"]

cipher_evidence(r) ==
  IF ~has_server_hello(r.history) THEN [name |-> None, state |-> "incomplete"]
  ELSE IF r.cipher = None THEN [name |-> None, state |-> "not_observable"]
  ELSE [name |-> r.cipher, state |-> IF r.cipher \in KnownSuites THEN "observed" ELSE "inferred"]

certificate_state(history, letter) ==
  IF letter \in Letters(history) THEN "observed" ELSE "not_observable"

\* The CertificateVerify algorithm of the first frame that carries one.
certificate_verify_signature(history, fs) ==
  LET signed == {n \in DOMAIN fs : "certificate_verify" \in Letters(fs[n].types)
                                   /\ fs[n].algorithm # None}
  IN  IF Letters(history) \cap {"y", "Y"} = {} THEN [algorithm |-> None, state |-> "not_observable"]
      ELSE IF signed = {} THEN [algorithm |-> None, state |-> "incomplete"]
      ELSE [algorithm |-> fs[Min(signed)].algorithm, state |-> "observed"]

visibility(r, version) ==
  LET seen == Letters(r.history)
      full == IF version = "TLSv13" THEN {"x", "y"} \subseteq seen
              ELSE r.established /\ has_server_hello(r.history) /\ seen \cap {"x", "n"} # {}
  IN  IF r.history = << >> THEN "not_observable" ELSE IF full THEN "full" ELSE "partial"

TruncationReasons == {"snaplen_truncation", "segment_gap", "capture_loss", "midstream_start"}

handshake_evidence_state(f, version, established) ==
  IF f.quality = "conflicting" THEN "conflicting"
  ELSE IF f.quality = "incomplete" /\ f.reason \in TruncationReasons /\ ~established
  THEN "incomplete"
  ELSE version.state

-----------------------------------------------------------------------------
(* Key exchange and forward secrecy.                                       *)

\* The family of the selected group: by name, or by the ranges of its code.
group_family(name, code) ==
  CASE name = "mlkem" -> "(EC)DHE"
    [] name = "ffdhe" -> "DHE"
    [] name = "ec" -> "ECDHE"
    [] OTHER -> IF code \in 256..260 THEN "DHE"
                ELSE IF code >= 4585 THEN "(EC)DHE" ELSE "ECDHE"

KX(mechanism, state) == [mechanism |-> mechanism, state |-> state]

classify_tls13(r, name) ==
  LET keyShare == r.group # NoGroup \/ r.curve # None
  IN  CASE r.resumed /\ keyShare -> KX("PSK-(EC)DHE", "observed")
        [] r.resumed /\ ~keyShare ->
             KX("PSK", IF "psk_dhe_ke" \in r.psk THEN "indeterminate" ELSE "inferred")
        [] ~r.resumed /\ keyShare -> KX(group_family(name, r.group), "observed")
        [] OTHER -> KX(None, IF r.clientShares THEN "incomplete" ELSE "indeterminate")

classify_tls12(r) ==
  CASE r.cipher = None -> KX(None, "incomplete")
    [] r.cipher \in {"tls13", "unknown"} -> KX(None, "indeterminate")
    [] OTHER -> KX(r.cipher, "inferred")

classify_key_exchange(r, selected, name) ==
  IF selected = None THEN KX(None, "incomplete")
  ELSE IF selected = "TLSv13" THEN classify_tls13(r, name) ELSE classify_tls12(r)

\* The group's name is that of its code in the snapshot, or else the logged curve.
key_exchange_evidence(r, selected) ==
  classify_key_exchange(r, selected,
    IF r.group \in DOMAIN GroupNames THEN GroupNames[r.group] ELSE r.curve)

Usable == EvidenceState \ UNUSABLE_STATES

\* Mutant: the handshake's own state is not consulted.
SecrecyOfExchange(h) ==
  CASE h.kx.state \notin Usable \/ h.kx.mechanism = None -> "indeterminate"
    [] h.kx.state \in Usable /\ h.kx.mechanism \in {"ECDHE", "DHE", "(EC)DHE", "PSK-(EC)DHE"} ->
         "present"
    [] h.kx.state \in Usable /\ h.kx.mechanism \in {"RSA", "DH", "ECDH"} -> "absent"
    [] OTHER -> "indeterminate"

\* A version outside both lists (DTLS, say) is not judged: unsupported_version.
assess_forward_secrecy(h) ==
  CASE \/ h.evidence_state \in {"incomplete", "conflicting"}
       \/ h.version.state \notin Usable \/ h.version.selected = None
       \/ h.kx.state \notin Usable \/ h.kx.mechanism = None -> "indeterminate"
    [] OTHER ->
         IF h.version.selected = "TLSv13"
         THEN IF h.kx.mechanism \in {"ECDHE", "DHE", "(EC)DHE", "PSK-(EC)DHE"}
              THEN "present" ELSE "indeterminate"
         ELSE IF h.version.selected \notin {"TLSv12", "TLSv11", "TLSv10", "SSLv3"}
         THEN "indeterminate"
         ELSE IF h.kx.mechanism \in {"ECDHE", "DHE"} THEN "present"
         ELSE IF h.kx.mechanism \in {"RSA", "DH", "ECDH"} THEN "absent" ELSE "indeterminate"

handshake_from_row(r, f, fs, messages) ==
  LET version == resolve_selected_version(r)
  IN  [uid |-> r.uid, established |-> r.established, resumed |-> r.resumed,
       version |-> version,
       messages |-> messages,
       hello_retry |-> \/ "j" \in Letters(r.history)
                       \/ \E i \in DOMAIN messages : messages[i].kind = "hello_retry_request",
       cipher |-> cipher_evidence(r),
       kx |-> key_exchange_evidence(r, version.selected),
       certificate |-> certificate_state(r.history, "x"),
       certificate_verify |-> certificate_state(r.history, "y"),
       signature |-> certificate_verify_signature(r.history, fs),
       visibility |-> visibility(r, version.selected),
       evidence_state |-> handshake_evidence_state(f, version, r.established)]

-----------------------------------------------------------------------------

\* tcp-reconstruction.zeek counts bytes and gives every gap its length, a history is made
\* of the letters that Zeek defines, and a frame carries a list of handshake types.
ASSUME RowAssumption ==
  /\ \A c \in ConnRows : c.missed \in Nat
  /\ \A ev \in ReconShapes : ev.len \in Nat /\ (ev.type = "seq_gap" => ev.len # 0)
  /\ \A r \in SslRows : r.history \in Seq(DOMAIN HISTORY_KIND)
  /\ \A f \in HelloFrames : f.types \in Seq(STRING)

NoRow == [uid |-> None]
NoFlow == [quality |-> None, reason |-> Nothing]

Init ==
  /\ phase = "flow"
  /\ conn \in ConnRows /\ truncated \in BOOLEAN /\ losses \in {0, 2}
  /\ recon = << >> /\ facts = NoRecon /\ flow = NoFlow
  /\ row = NoRow /\ frames = << >> /\ queue = << >> /\ attach = NoFrames(<< >>)
  /\ handshake = NoHandshake

\* One event of the connection in sm_tcp_recon.log, and its turn in the loop of
\* normalize_flows.
LogRecon(ev) ==
  /\ phase = "flow" /\ Len(recon) < MaxEvents
  /\ recon' = Append(recon, ev)
  /\ facts' = KeepEvent(facts, Len(recon), ev)
  /\ UNCHANGED <<phase, conn, truncated, losses, flow, row, frames, queue, attach, handshake>>

\* normalize_flows classifies the connection.
NormalizeFlow ==
  /\ phase = "flow"
  /\ flow' = classify_reconstruction(conn, facts, truncated, losses)
  /\ phase' = "classified"
  /\ UNCHANGED <<flowVars, row, frames, queue, attach, handshake>>

\* normalize_handshakes finds the flow of an ssl.log row by uid, if conn.log has it;
\* from here on only the flow's verdict is read of what came before.
JoinFlow(joined) ==
  /\ phase = "classified"
  /\ phase' = "row"
  /\ flow' = IF joined THEN [quality |-> flow.quality, reason |-> flow.reason] ELSE NoFlow
  /\ recon' = << >> /\ facts' = NoRecon
  /\ conn' = NoRow /\ truncated' = FALSE /\ losses' = 0
  /\ UNCHANGED <<row, frames, queue, attach, handshake>>

\* _handshake_from_row begins: the history's letters are the messages.
ReadSslRow(r) ==
  /\ phase = "row"
  /\ row' = r
  /\ attach' = NoFrames(messages_from_ssl_history(r.history))
  /\ phase' = "frames"
  /\ UNCHANGED <<flowVars, flow, frames, queue, handshake>>

\* The next frame; frames are numbered in capture order, and one without a number is
\* skipped.
ReadFrame(f) ==
  /\ phase = "frames" /\ queue = << >> /\ Len(frames) < MaxFrames
  /\ frames' = Append(frames, f)
  /\ queue' = IF f.numbered THEN f.types ELSE << >>
  /\ UNCHANGED <<phase, flowVars, flow, row, attach, handshake>>

\* The next handshake type of the frame.
AttachNext ==
  /\ phase = "frames" /\ queue # << >>
  /\ attach' = AttachType(attach, Head(queue), frames[Len(frames)], Len(frames))
  /\ queue' = Tail(queue)
  /\ UNCHANGED <<phase, flowVars, flow, row, frames, handshake>>

NormalizeHandshake ==
  /\ phase = "frames" /\ queue = << >>
  /\ handshake' = handshake_from_row(row, flow, frames, attach.messages)
  /\ phase' = "done"
  /\ UNCHANGED <<flowVars, flow, row, frames, queue, attach>>

Next ==
  \/ \E ev \in ReconShapes : LogRecon(ev)
  \/ NormalizeFlow
  \/ \E joined \in BOOLEAN : JoinFlow(joined)
  \/ \E r \in SslRows : ReadSslRow(r)
  \/ \E f \in HelloFrames : ReadFrame(f)
  \/ AttachNext
  \/ NormalizeHandshake

Spec == Init /\ [][Next]_vars

-----------------------------------------------------------------------------
(* Properties.                                                             *)

Classified == phase = "classified"
Done == phase = "done"

\* A stream is called complete only if nothing that was kept of it is missing or in
\* doubt: every recon event within the limit is harmless, no byte was missed anywhere,
\* and the connection was seen to begin and to end.  Nothing is said of the events
\* beyond MaxEventsPerFlow: normalize_flows drops them, and a gap or a conflict among
\* them does not keep the stream from being called complete.
CompleteMeansWhole ==
  Classified /\ conn.proto = "tcp" =>
    /\ (\E i \in DOMAIN recon : i <= MaxEventsPerFlow /\ recon[i].type = "rexmit_inconsistency")
         => flow.quality = "conflicting"
    /\ flow.quality = "complete" =>
         /\ ~truncated /\ losses = 0 /\ conn.missed = 0
         /\ \A i \in DOMAIN recon : i <= MaxEventsPerFlow =>
              recon[i].type \notin {"seq_gap", "rexmit_inconsistency"}
         /\ "S" \in conn.history /\ (EstablishedConn(conn) => Ended(conn))

\* What would be kept of another log.
ReconOf(events) ==
  LET after[n \in 0..Len(events)] ==
        IF n = 0 THEN NoRecon ELSE KeepEvent(after[n - 1], n - 1, events[n])
  IN  after[Len(events)]

\* The verdict on a stream does not depend on the order in which Zeek logged its
\* events (as long as none is cut off).
VerdictIgnoresEventOrder ==
  Classified /\ Len(recon) <= MaxEventsPerFlow =>
    \A p \in Bijection(DOMAIN recon, DOMAIN recon) :
      LET other == classify_reconstruction(conn, ReconOf([i \in DOMAIN recon |-> recon[p[i]]]),
                                           truncated, losses)
      IN  /\ other.quality = flow.quality /\ other.reason = flow.reason
          /\ other.gap_bytes = flow.gap_bytes /\ other.exact = flow.exact
          /\ other.conditions = flow.conditions

\* A frame number is attached to a message of a kind the frame carries, at most once
\* per message it carries, and later messages of a kind never get earlier frames.
FramesFollowMessages ==
  Done =>
    LET m == handshake.messages
        attached(n) == {i \in DOMAIN m : m[i].frame = n}
    IN  /\ Len(m) = Len(row.history)
        /\ \A n \in DOMAIN frames :
             /\ Cardinality(attached(n)) <= Len(frames[n].types)
             /\ \A i \in attached(n) : \E t \in Letters(frames[n].types) :
                  m[i].kind = TypeKind(t, frames[n])
        /\ \A i, j \in DOMAIN m :
             i < j /\ m[i].kind = m[j].kind /\ m[i].kind # "hello_retry_request"
               /\ m[j].frame # 0 => m[i].frame # 0 /\ m[i].frame <= m[j].frame

\* Forward secrecy is judged only on a handshake the server answered, on a stream
\* without conflict and, unless the handshake was seen to complete, without loss;
\* "absent" is said only of a static key exchange in SSLv3 to TLS 1.2, "present" only
\* of an ephemeral one there, or of a key share or curve in TLS 1.3.
SecrecyIsGrounded ==
  Done /\ assess_forward_secrecy(handshake) # "indeterminate" =>
    /\ has_server_hello(row.history)
    /\ flow.quality # "conflicting"
    /\ row.established \/ flow.reason \notin TruncationReasons
    /\ IF assess_forward_secrecy(handshake) = "absent"
       THEN /\ handshake.version.selected \in {"TLSv12", "TLSv11", "TLSv10", "SSLv3"}
            /\ row.cipher \in {"RSA", "DH", "ECDH"}
       ELSE IF handshake.version.selected = "TLSv13" THEN row.group # NoGroup \/ row.curve # None
       ELSE /\ handshake.version.selected \in {"TLSv12", "TLSv11", "TLSv10", "SSLv3"}
            /\ row.cipher \in {"ECDHE", "DHE"}

=============================================================================

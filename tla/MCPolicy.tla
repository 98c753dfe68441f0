------------------------------ MODULE MCPolicy ------------------------------
(* Two connections to one mail server, and rules of the IETF pack: one per   *)
(* target and per way of deciding.                                           *)
EXTENDS Policy

P(path, state_path, op, value) ==
  [path |-> path, state_path |-> state_path, operator |-> op, value |-> value]
Plain(path, op, value) == P(path, << >>, op, value)

MCRoles ==
  LET protocol == P(<<"session", "protocol">>, <<"session", StateName>>, "eq", "smtp")
      port(op, v) == P(<<"flow", "resp", "port">>, <<"flow", StateName>>, op, v)
  IN  [smtp_relay |-> {protocol, port("eq", 25)},
       smtp_submission |-> {protocol, port("in", {465, 587})}]

Rule(id, target, from, until, roles, where, assertion, fail, negative) ==
  [id |-> id, target |-> target, effective_from |-> from, effective_until |-> until,
   roles |-> roles, where |-> where, assertion |-> assertion, fail_outcome |-> fail,
   negative |-> negative, indeterminate |-> "informational"]

Suite == <<"handshake", "cipher_suite", "name">>
Secrecy == <<"derived", "forward_secrecy", "outcome">>

PathValid == <<"certificate", "validation", "path_valid_at_capture_time">>
Upgrade == <<"session", "explicit_upgrade", "state">>
SuiteSeen == Plain(<<"handshake", "cipher_suite", StateName>>, "in", {"observed", "inferred"})

\* The last rule is in no pack; its schema allows it, and two records decide if it applies.
MCRules ==
  {Rule("TLS_CIPHER_NULL", "handshake", 1, 0, {}, {SuiteSeen},
        {Plain(Suite, "contains_none", {"_NULL_"})}, "negative", "high"),
   Rule("TLS_CIPHER_CBC", "handshake", 2, 0, {},
        {SuiteSeen, Plain(<<"handshake", "version", "selected">>, "in", {"TLSv11", "TLSv12"})},
        {Plain(Suite, "contains_none", {"_CBC_"})}, "negative", "medium"),
   Rule("TLS_FORWARD_SECRECY_INDETERMINATE", "handshake", 1, 0, {},
        {Plain(Secrecy, "eq", "indeterminate")}, {Plain(Secrecy, "eq", "present")},
        "indeterminate", "informational"),
   Rule("CERT_PATH_INVALID_AT_CAPTURE", "certificate", 1, 3, {},
        {Plain(<<"certificate", "role">>, "eq", "server"),
         Plain(<<"certificate", "chain_index">>, "eq", 0)},
        {Plain(PathValid, "eq", TRUE)}, "negative", "high"),
   Rule("MAIL_SUBMISSION_CLEARTEXT", "session", 1, 0, {"smtp_submission"}, {},
        {Plain(<<"derived", "transport_tls_established">>, "eq", TRUE)}, "negative", "medium"),
   Rule("UPGRADE_PLAINTEXT_FALLBACK", "session", 1, 0, {"smtp_submission"},
        {Plain(Upgrade, "eq", "plaintext_fallback")}, {Plain(Upgrade, "eq", "tls_established")},
        "negative", "medium"),
   Rule("SUBMISSION_UPGRADES", "session", 1, 0, {}, MCRoles["smtp_submission"],
        {P(Upgrade, <<"session", StateName>>, "eq", "tls_established")}, "negative", "low")}

Flow(uid, state, port) ==
  [uid |-> uid, key |-> <<uid>>,
   fields |-> (<<"flow", StateName>> :> {state}) @@ (<<"flow", "resp", "port">> :> {port})
              @@ (<<"flow", "resp">> :> {"mx"})]

MCFlowShapes ==
  {Flow("c1", s, port) : s \in {"observed", "incomplete"}, port \in {25, 587}}
  \cup {Flow("c2", "observed", 587)}

Session(uid, state, upgrade) ==
  [uid |-> uid, key |-> <<uid>>, commands |-> {"STARTTLS"},
   fields |-> (<<"session", StateName>> :> {state}) @@ (<<"session", "protocol">> :> {"smtp"})
              @@ (Upgrade :> upgrade)
              @@ (<<"session", "explicit_upgrade", StateName>> :>
                    {IF upgrade = {} THEN "not_observable" ELSE "observed"})]

MCSessionShapes ==
  {Session("c1", s, u) : s \in {"observed", "not_observable"},
                         u \in {{}, {"tls_established"}, {"plaintext_fallback"}}}
  \cup {Session("c2", "observed", {"plaintext_fallback"})}

Handshake(uid, suite, suiteState, version, secrecy, secrecyState) ==
  [uid |-> uid, key |-> <<uid>>, secrecy |-> secrecy, secrecyState |-> secrecyState,
   fields |-> (<<"handshake", StateName>> :> {"observed"})
              @@ (<<"handshake", "established">> :> {TRUE})
              @@ (<<"handshake", "cipher_suite", "name">> :> suite)
              @@ (<<"handshake", "cipher_suite", StateName>> :> {suiteState})
              @@ (<<"handshake", "version", "selected">> :> version)
              @@ (<<"handshake", "version", StateName>> :>
                    {CASE version # {} -> "observed" [] suiteState = "incomplete" -> "incomplete"
                       [] OTHER -> "not_observable"})]

MCHandshakeShapes ==
  {Handshake("c1", s, "observed", v, "present", "inferred") :
     s \in {{{}}, {{"_NULL_"}}, {{"_CBC_"}}}, v \in {{}, {"TLSv12"}}}
  \cup {Handshake("c1", {}, "incomplete", {}, "indeterminate", "indeterminate"),
        Handshake("c1", {}, "not_observable", {"TLSv12"}, "indeterminate", "indeterminate"),
        Handshake("c2", {{"_NULL_"}}, "inferred", {"TLSv12"}, "absent", "inferred"),
        Handshake("c2", {{}}, "observed", {}, "indeterminate", "not_observable")}

Certificate(uid, index, valid, state) ==
  [uid |-> uid, key |-> <<uid, index>>, role |-> "server", chain_index |-> index, order |-> 0,
   fields |-> (<<"certificate", StateName>> :> {state})
              @@ (<<"certificate", "role">> :> {"server"})
              @@ (<<"certificate", "chain_index">> :> {index})
              @@ (PathValid :> valid)]

MCCertificateShapes ==
  {Certificate("c1", 0, {v}, "observed") : v \in BOOLEAN}
  \cup {Certificate("c1", 1, {}, "observed"), Certificate("c2", 0, {FALSE}, "observed"),
        Certificate("c2", 0, {}, "incomplete")}

MCAssets ==
  {<< >>, {"mx"} :> [exposure |-> "public", criticality |-> "critical",
                     blast_radius |-> "organization"]}
=============================================================================

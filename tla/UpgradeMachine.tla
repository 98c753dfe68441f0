--------------------------- MODULE UpgradeMachine ---------------------------
(***************************************************************************)
(* The STARTTLS / STLS machines of domain/policies/starttls: how one       *)
(* observed protocol event moves the machine of each mail protocol, and    *)
(* the verdict read from it when the transcript ends.                      *)
(*                                                                         *)
(* A ProtocolEvent keeps what the three machines tell apart.  "command" is *)
(* the class the protocol puts the command word in (for SMTP "capability"  *)
(* is EHLO, HELO or LHLO, "credential" AUTH; for POP3 CAPA and USER, PASS, *)
(* APOP, AUTH; for IMAP CAPABILITY and LOGIN, AUTHENTICATE; "starttls" is  *)
(* STARTTLS or STLS; "harmless" any other command the protocol lists).     *)
(* "reply" is the class of the reply code or status word, "token" whether  *)
(* the word STARTTLS (STLS) stands in the text.                            *)
(***************************************************************************)
EXTENDS EvidenceStates

CONSTANTS Frames, Tags      \* frame numbers, IMAP command tags

NoFrame == 0               \* frame numbers start at 1
NoTag == "no_tag"
None == "none"

MailProtocol == {"smtp", "imap", "pop3"}
SessionEventKind == {"request", "reply", "capability", "starttls", "confirmation",
                     "ambiguous_banner", "unexpected"}
Commands == {None, "starttls", "capability", "credential", "harmless", "other"}
\* "done250" is the reply code 250; "accept" any other success, "refuse" a failure
\* (SMTP 4xx or 5xx, IMAP NO or BAD, POP3 -ERR), "other" anything else.
Replies == {None, "accept", "done250", "refuse", "other"}
UpgradeState == {"advertised", "requested", "accepted", "tls_established",
                 "plaintext_fallback", "violation"}

ProtocolEvent ==
  [kind : SessionEventKind, command : Commands, reply : Replies, token : BOOLEAN,
   tag : Tags \cup {NoTag}, frame : Frames \cup {NoFrame}]

Machine ==
  [advertised : BOOLEAN, requested : BOOLEAN, accepted : BOOLEAN, sawCapability : BOOLEAN,
   violation : BOOLEAN, fallback : BOOLEAN, awaiting : BOOLEAN,
   tag : Tags \cup {NoTag}, frames : SUBSET Frames]

Start ==
  [advertised |-> FALSE, requested |-> FALSE, accepted |-> FALSE, sawCapability |-> FALSE,
   violation |-> FALSE, fallback |-> FALSE, awaiting |-> FALSE, tag |-> NoTag, frames |-> {}]

\* Mutant: only the first frame is kept.
AddFirstFrame(m, e) == [m EXCEPT !.frames = IF @ = {} THEN {e.frame} \ {NoFrame} ELSE @]

add_frame(m, e) == [m EXCEPT !.frames = @ \cup ({e.frame} \ {NoFrame})]

-----------------------------------------------------------------------------
(* What an event says about capabilities, before it is interpreted.        *)

Noted(m, e, saw, advertises) ==
  LET kept == IF advertises THEN add_frame(m, e) ELSE m
  IN  [kept EXCEPT !.sawCapability = @ \/ saw, !.advertised = @ \/ advertises]

SmtpCapabilityReply(e) ==
  e.kind = "capability" \/ (e.kind = "reply" /\ e.command = "capability")

SmtpAdvertisement(e) ==
  \/ e.kind \in {"capability", "reply"} /\ e.token
  \/ e.kind = "reply" /\ e.command = "starttls" /\ e.reply = "done250"

ImapCapability(e) ==
  \/ e.kind = "capability"
  \/ e.kind = "request" /\ e.command = "capability"
  \/ e.kind = "reply" /\ e.token

ImapAdvertisement(e) == e.kind \in {"capability", "reply"} /\ e.token

Pop3Advertisement(e) ==
  \/ e.kind \in {"capability", "reply"} /\ e.token
  \/ e.kind = "capability" /\ e.command = "starttls"

-----------------------------------------------------------------------------
(* The reply to a STARTTLS request: SMTP and POP3 take the next reply      *)
(* whatever it says; IMAP waits for OK, NO or BAD under the right tag.     *)

Succeeds(e) == e.reply \in {"accept", "done250"}

\* Mutant: a refused second request takes the acceptance of the first back.
ResetReply(m, e) ==
  LET done == [m EXCEPT !.awaiting = FALSE, !.accepted = Succeeds(e)]
  IN  IF Succeeds(e) \/ e.reply = "refuse" THEN add_frame(done, e) ELSE done

NextReply(m, e) ==
  LET done == [m EXCEPT !.awaiting = FALSE, !.accepted = @ \/ Succeeds(e)]
  IN  IF Succeeds(e) \/ e.reply = "refuse" THEN add_frame(done, e) ELSE done

\* Mutant: the reply to any command is taken for the reply to STARTTLS.
AnyTagReply(m, e) ==
  IF Succeeds(e) \/ e.reply = "refuse"
  THEN add_frame([m EXCEPT !.awaiting = FALSE, !.tag = NoTag,
                            !.accepted = @ \/ Succeeds(e)], e)
  ELSE m

TaggedReply(m, e) ==
  IF /\ m.tag = NoTag \/ e.tag = NoTag \/ e.tag = m.tag
     /\ Succeeds(e) \/ e.reply = "refuse"
  THEN add_frame([m EXCEPT !.awaiting = FALSE, !.tag = NoTag,
                            !.accepted = @ \/ Succeeds(e)], e)
  ELSE m

-----------------------------------------------------------------------------
(* The part the three machines share: the chain of tests at the end of the *)
(* loop body.  "answered" is what m becomes when e answers the request.    *)

Interpreted(m, e, hello, answered) ==
  LET seen == add_frame(m, e)
      naked == m.accepted /\ ~hello        \* accepted, and no ClientHello anywhere
  IN  CASE e.kind = "request" /\ e.command = "starttls" ->
             [seen EXCEPT !.requested = TRUE, !.awaiting = TRUE, !.tag = e.tag]
        [] e.kind = "reply" /\ m.awaiting -> answered
        [] e.kind = "starttls" -> [seen EXCEPT !.accepted = TRUE]
        [] e.kind = "unexpected" /\ naked -> [seen EXCEPT !.violation = TRUE]
        [] e.kind = "request" /\ e.command = "credential" ->
             [seen EXCEPT !.violation = @ \/ naked, !.fallback = @ \/ ~m.accepted]
        [] e.kind = "request" /\ e.command \in {None, "other"} /\ naked ->
             [seen EXCEPT !.violation = TRUE]
        [] OTHER -> m

smtp_upgrade(m, e, hello) ==
  LET noted == Noted(m, e, SmtpCapabilityReply(e), SmtpAdvertisement(e))
  IN  Interpreted(noted, e, hello, NextReply(noted, e))

imap_upgrade(m, e, hello) ==
  LET noted == Noted(m, e, ImapCapability(e), ImapAdvertisement(e))
  IN  Interpreted(noted, e, hello, TaggedReply(noted, e))

pop3_upgrade(m, e, hello) ==
  LET noted == Noted(m, e, ImapCapability(e), Pop3Advertisement(e))
  IN  Interpreted(noted, e, hello, NextReply(noted, e))

Upgrade(protocol, m, e, hello) ==
  CASE protocol = "smtp" -> smtp_upgrade(m, e, hello)
    [] protocol = "imap" -> imap_upgrade(m, e, hello)
    [] protocol = "pop3" -> pop3_upgrade(m, e, hello)

-----------------------------------------------------------------------------
(* The ExplicitUpgrade returned when the transcript ends.                  *)

\* Mutant: an established TLS session is reported before a plaintext fallback.
TlsFirst(m, hello) ==
  CASE m.violation -> "violation"
    [] ~m.violation /\ m.accepted -> IF hello THEN "tls_established" ELSE "accepted"
    [] ~m.violation /\ ~m.accepted /\ m.fallback -> "plaintext_fallback"
    [] ~m.violation /\ ~m.fallback /\ ~m.accepted /\ m.requested -> "requested"
    [] OTHER -> IF m.advertised THEN "advertised" ELSE None

Verdict(m, hello) ==
  CASE m.violation -> "violation"
    [] ~m.violation /\ m.fallback -> "plaintext_fallback"
    [] ~m.violation /\ ~m.fallback /\ m.accepted ->
         IF hello THEN "tls_established" ELSE "accepted"
    [] ~m.violation /\ ~m.fallback /\ ~m.accepted /\ m.requested -> "requested"
    [] ~m.violation /\ ~m.fallback /\ ~m.accepted /\ ~m.requested /\ m.advertised ->
         "advertised"
    [] OTHER -> None

DowngradeConsistent(m) == m.sawCapability /\ ~m.advertised /\ m.requested /\ m.accepted

ExplicitUpgrade(m, hello, helloFrames) ==
  [state |-> Verdict(m, hello),
   evidence_state |-> IF Verdict(m, hello) = None THEN "not_observable" ELSE "observed",
   frames |-> m.frames \cup (IF m.accepted /\ hello THEN helloFrames ELSE {}),
   downgrade |-> DowngradeConsistent(m)]

-----------------------------------------------------------------------------
(* Implicit TLS: the ALPN the server selected identifies the protocol, a   *)
(* well-known port never does.                                             *)

correlate_implicit_tls(onImplicitPort, tls, alpn, frames) ==
  [protocol |-> IF tls THEN alpn ELSE None,
   evidence_state |-> IF alpn # None /\ tls THEN "observed"
                      ELSE IF onImplicitPort THEN "indeterminate" ELSE "not_observable",
   frames |-> IF tls /\ (alpn # None \/ onImplicitPort) THEN frames ELSE {}]

=============================================================================

------------------------------ MODULE StartTls ------------------------------
(***************************************************************************)
(* A transcript of one mail session is fed to the upgrade machine of its   *)
(* protocol, event by event, as the loops of smtp_upgrade, imap_upgrade    *)
(* and pop3_upgrade do.  Whether a ClientHello was seen is known before    *)
(* the loop starts, for the connection as a whole.                         *)
(***************************************************************************)
EXTENDS UpgradeMachine, Sequences

CONSTANTS Observations, \* the events a transcript is made of; "framed" says that TShark
                        \* gave the event its frame number
          MaxEvents     \* bound on the length of a transcript

ASSUME FramesAreNumbers == Frames \subseteq Nat \ {0} /\ 1..MaxEvents \subseteq Frames
ASSUME BoundIsNat == MaxEvents \in Nat
ASSUME ObservationsAreEvents ==
  Observations \subseteq [kind : SessionEventKind, command : Commands, reply : Replies,
                          token : BOOLEAN, tag : Tags \cup {NoTag}, framed : BOOLEAN]

VARIABLES protocol, hello, machine, events

vars == <<protocol, hello, machine, events>>

At(o, n) == [kind |-> o.kind, command |-> o.command, reply |-> o.reply,
             token |-> o.token, tag |-> o.tag, frame |-> IF o.framed THEN n ELSE NoFrame]

Init ==
  /\ protocol \in MailProtocol
  /\ hello \in BOOLEAN
  /\ machine = Start
  /\ events = << >>

\* One turn of the loop; the n-th event stands in frame n, if its frame is known.
Feed(o) ==
  /\ Len(events) < MaxEvents
  /\ LET e == At(o, Len(events) + 1)
     IN  /\ machine' = Upgrade(protocol, machine, e, hello)
         /\ events' = Append(events, e)
  /\ UNCHANGED <<protocol, hello>>

Next == \E o \in Observations : Feed(o)

Spec == Init /\ [][Next]_vars

-----------------------------------------------------------------------------
(* What the transcript says, stated without the machine.                   *)

IsRequest(e) == e.kind = "request" /\ e.command = "starttls"
IsCredential(e) == e.kind = "request" /\ e.command = "credential"

\* e could be what accepts the upgrade.
CanAccept(e) == e.kind = "starttls" \/ (e.kind = "reply" /\ Succeeds(e))

\* The reply at j settles the request at i.
Settles(i, j) ==
  /\ events[j].kind = "reply"
  /\ protocol = "imap" =>
       /\ Succeeds(events[j]) \/ events[j].reply = "refuse"
       /\ events[i].tag = NoTag \/ events[j].tag = NoTag \/ events[j].tag = events[i].tag

\* The reply at j is the one taken for the answer to the request at i: no other
\* reply settled it and no later request replaced it.
Answers(i, j) ==
  /\ i < j /\ IsRequest(events[i]) /\ Settles(i, j)
  /\ \A k \in (i+1)..(j-1) : ~Settles(i, k) /\ ~IsRequest(events[k])

AcceptedAt(j) ==
  \/ events[j].kind = "starttls"
  \/ Succeeds(events[j]) /\ \E i \in 1..(j-1) : Answers(i, j)

AcceptedBefore(n) == \E j \in 1..(n-1) : AcceptedAt(j)

\* An event that must not be seen in the clear once the upgrade was accepted.
Forbidden(e) ==
  \/ e.kind = "unexpected"
  \/ e.kind = "request" /\ e.command \in {None, "other", "credential"}

Advertises(e) ==
  CASE protocol = "smtp" -> SmtpAdvertisement(e)
    [] protocol = "imap" -> ImapAdvertisement(e)
    [] protocol = "pop3" -> Pop3Advertisement(e)

\* The first line is the code's rule: a forbidden event counts only if the connection
\* never shows a ClientHello.  The documentation's table has no such exemption (see
\* ClearTextIsViolation).
TranscriptVerdict ==
  LET all == DOMAIN events
      end == Len(events) + 1
  IN  IF ~hello /\ \E n \in all : Forbidden(events[n]) /\ AcceptedBefore(n) THEN "violation"
      ELSE IF \E n \in all : IsCredential(events[n]) /\ ~AcceptedBefore(n)
           THEN "plaintext_fallback"
      ELSE IF AcceptedBefore(end) THEN (IF hello THEN "tls_established" ELSE "accepted")
      ELSE IF \E n \in all : IsRequest(events[n]) THEN "requested"
      ELSE IF \E n \in all : Advertises(events[n]) THEN "advertised" ELSE None

-----------------------------------------------------------------------------
(* Properties.                                                             *)

\* The machine keeps its types while it reads a transcript.
TypeOK ==
  /\ protocol \in MailProtocol
  /\ hello \in BOOLEAN
  /\ machine \in Machine
  /\ events \in Seq(ProtocolEvent)
  /\ Len(events) <= MaxEvents

\* The verdict of the flags a machine carries from event to event is the verdict
\* the whole transcript deserves: which reply answered which request, and whether a
\* credential or another command came before or after the acceptance.  The transcript's
\* verdict follows the code where it departs from the documentation: a command sent in
\* the clear after the acceptance is forgiven when a ClientHello was seen.
VerdictOfTranscript == Verdict(machine, hello) = TranscriptVerdict

\* "Never invent TLS": TLS is reported as established only if a ClientHello was
\* seen, the server accepted the upgrade, and every credential sent in the clear
\* came after an event that can accept it.
NeverInventTls ==
  Verdict(machine, hello) = "tls_established" =>
    /\ hello
    /\ \E j \in DOMAIN events : CanAccept(events[j])
    /\ \A n \in DOMAIN events :
         IsCredential(events[n]) => \E j \in 1..(n-1) : CanAccept(events[j])

\* A violation or a fallback is reported with the frame of an event that shows it:
\* the forbidden event itself, or a credential sent before the acceptance.
BadVerdictShowsItsFrame ==
  Verdict(machine, hello) \in {"violation", "plaintext_fallback"} =>
    \E n \in DOMAIN events :
      /\ events[n].frame \in ExplicitUpgrade(machine, hello, {}).frames \cup {NoFrame}
      /\ IF Verdict(machine, hello) = "violation"
         THEN Forbidden(events[n]) /\ \E j \in 1..(n-1) : CanAccept(events[j])
         ELSE IsCredential(events[n])

\* docs/forensics/starttls-and-stls.md: a violation is a "Plaintext command (or
\* unexpected) after accept, before ClientHello".  The events of a transcript are read
\* in the clear, so a forbidden one after the acceptance came before the ClientHello,
\* and whether a ClientHello followed makes no difference.  The code's guards ask for
\* a connection without any ClientHello (smtp_upgrade and its siblings).
ClearTextIsViolation ==
  (\E n \in DOMAIN events : Forbidden(events[n]) /\ AcceptedBefore(n))
    => Verdict(machine, hello) = "violation"

Rank(v) == CASE v = None -> 0 [] v = "advertised" -> 1 [] v = "requested" -> 2
             [] v \in {"accepted", "tls_established"} -> 3
             [] v = "plaintext_fallback" -> 4 [] v = "violation" -> 5

\* Reading one more event never improves the verdict's rank back: a longer transcript
\* never hides a violation, a fallback or an upgrade that a shorter one showed, and
\* a transcript cut short (as a session's events are) never reports worse.
VerdictOnlyRises ==
  [][Rank(Verdict(machine, hello)) <= Rank(Verdict(machine', hello'))]_vars

=============================================================================

--------------------------- MODULE StartTls_proofs --------------------------
(***************************************************************************)
(* What the upgrade machines promise of every transcript, of any length    *)
(* and over any observations.  UpgradeTurns says what a turn of the loop   *)
(* may do to the flags, UpgradeExact what it does to them exactly; the     *)
(* theorems use nothing else about the machines.                           *)
(***************************************************************************)
EXTENDS StartTls, TLAPS

\* The frame of e is among the frames of m, if it is known.
Shows(m, e) == e.frame = NoFrame \/ e.frame \in m.frames

\* What one event may do to a machine: flags only go up, and each for a reason.
Turn(m, n, e) ==
  /\ n \in Machine
  /\ m.frames \subseteq n.frames
  /\ m.advertised => n.advertised
  /\ m.requested => n.requested
  /\ m.accepted => n.accepted
  /\ m.fallback => n.fallback
  /\ m.violation => n.violation
  /\ n.accepted /\ ~m.accepted => CanAccept(e)
  /\ n.fallback /\ ~m.fallback => IsCredential(e) /\ Shows(n, e)
  /\ n.violation /\ ~m.violation => Forbidden(e) /\ m.accepted /\ Shows(n, e)
  /\ IsCredential(e) /\ ~m.accepted => n.fallback

\* add_frame keeps every flag and adds at most the frame of the event.
LEMMA AddFrame ==
  ASSUME NEW m \in Machine, NEW e \in ProtocolEvent
  PROVE  /\ add_frame(m, e) \in Machine
         /\ add_frame(m, e) = [m EXCEPT !.frames = @ \cup ({e.frame} \ {NoFrame})]
         /\ m.frames \subseteq add_frame(m, e).frames
         /\ Shows(add_frame(m, e), e)
BY DEF add_frame, Machine, ProtocolEvent, Shows

\* What is noted about capabilities touches no other flag.
LEMMA NotedKeeps ==
  ASSUME NEW m \in Machine, NEW e \in ProtocolEvent, NEW saw \in BOOLEAN, NEW adv \in BOOLEAN
  PROVE  LET n == Noted(m, e, saw, adv)
         IN  /\ n \in Machine
             /\ m.frames \subseteq n.frames
             /\ m.advertised => n.advertised
             /\ n.requested = m.requested /\ n.accepted = m.accepted
             /\ n.fallback = m.fallback /\ n.violation = m.violation
<1> DEFINE kept == IF adv THEN add_frame(m, e) ELSE m
<1>1. /\ kept \in Machine /\ m.frames \subseteq kept.frames
      /\ kept.requested = m.requested /\ kept.accepted = m.accepted
      /\ kept.fallback = m.fallback /\ kept.violation = m.violation
      /\ kept.advertised = m.advertised
  BY AddFrame DEF add_frame, Machine
<1>2. Noted(m, e, saw, adv)
        = [kept EXCEPT !.sawCapability = @ \/ saw, !.advertised = @ \/ adv]
  BY DEF Noted
<1> HIDE DEF kept
<1>3. (kept.sawCapability \/ saw) \in BOOLEAN /\ (kept.advertised \/ adv) \in BOOLEAN
  OBVIOUS
<1> QED BY <1>1, <1>2, <1>3 DEF Machine

\* What an answer to a request may do.
Answered(m, n, e) ==
  /\ n \in Machine
  /\ m.frames \subseteq n.frames
  /\ n.advertised = m.advertised /\ n.requested = m.requested
  /\ n.fallback = m.fallback /\ n.violation = m.violation
  /\ n.accepted = (m.accepted \/ Succeeds(e)) \/ n.accepted = m.accepted

\* SMTP's and POP3's reply.
LEMMA NextReplyAnswers ==
  ASSUME NEW m \in Machine, NEW e \in ProtocolEvent
  PROVE  Answered(m, NextReply(m, e), e)
<1> DEFINE done == [m EXCEPT !.awaiting = FALSE, !.accepted = @ \/ Succeeds(e)]
<1>1. done \in Machine
  BY DEF Machine, Succeeds
<1>2. add_frame(done, e) \in Machine /\ done.frames \subseteq add_frame(done, e).frames
  BY <1>1, AddFrame
<1>3. NextReply(m, e) = IF Succeeds(e) \/ e.reply = "refuse" THEN add_frame(done, e) ELSE done
  BY DEF NextReply
<1> QED BY <1>1, <1>2, <1>3 DEF Answered, add_frame, Machine

\* IMAP's reply: the same, or the machine as it was.
LEMMA TaggedReplyAnswers ==
  ASSUME NEW m \in Machine, NEW e \in ProtocolEvent
  PROVE  Answered(m, TaggedReply(m, e), e)
<1> DEFINE done == [m EXCEPT !.awaiting = FALSE, !.tag = NoTag, !.accepted = @ \/ Succeeds(e)]
<1>1. done \in Machine
  BY DEF Machine, Succeeds
<1>2. add_frame(done, e) \in Machine /\ done.frames \subseteq add_frame(done, e).frames
  BY <1>1, AddFrame
<1>3. TaggedReply(m, e) = add_frame(done, e) \/ TaggedReply(m, e) = m
  BY DEF TaggedReply
<1>4. CASE TaggedReply(m, e) = add_frame(done, e)
  BY <1>1, <1>2, <1>4 DEF Answered, add_frame, Machine
<1>5. CASE TaggedReply(m, e) = m
  BY <1>5 DEF Answered
<1> QED BY <1>3, <1>4, <1>5

\* The chain of tests every machine ends its loop body with.
LEMMA InterpretedTurns ==
  ASSUME NEW m \in Machine, NEW e \in ProtocolEvent, NEW h \in BOOLEAN, NEW a,
         Answered(m, a, e)
  PROVE  Turn(m, Interpreted(m, e, h, a), e)
<1> DEFINE seen == add_frame(m, e)
           naked == m.accepted /\ ~h
           n == Interpreted(m, e, h, a)
<1> SUFFICES Turn(m, n, e)
  OBVIOUS
<1>0. /\ seen \in Machine /\ m.frames \subseteq seen.frames /\ Shows(seen, e)
      /\ seen = [m EXCEPT !.frames = @ \cup ({e.frame} \ {NoFrame})]
  BY AddFrame
<1>a. /\ seen.requested = m.requested /\ seen.accepted = m.accepted
      /\ seen.advertised = m.advertised
      /\ seen.fallback = m.fallback /\ seen.violation = m.violation
  BY <1>0 DEF Machine
<1> HIDE DEF seen
<1>1. CASE e.kind = "request" /\ e.command = "starttls"
  <2>1. n = [seen EXCEPT !.requested = TRUE, !.awaiting = TRUE, !.tag = e.tag]
    BY <1>1 DEF Interpreted, seen, None
  <2>2. /\ n \in Machine /\ n.frames = seen.frames /\ n.requested
        /\ n.accepted = m.accepted /\ n.advertised = m.advertised
        /\ n.fallback = m.fallback /\ n.violation = m.violation
    BY <2>1, <1>0, <1>a DEF Machine, ProtocolEvent
  <2>3. ~IsCredential(e) /\ m.frames \subseteq n.frames
    BY <2>2, <1>0, <1>1 DEF IsCredential
  <2> HIDE DEF n
  <2> QED BY <2>2, <2>3 DEF Turn
<1>2. CASE e.kind = "reply"
  <2>1. n = a \/ n = m
    BY <1>2 DEF Interpreted
  <2>2. CASE n = a
    BY <2>2, <1>2 DEF Turn, Answered, CanAccept, IsCredential
  <2>3. CASE n = m
    BY <2>3, <1>2 DEF Turn, IsCredential, Machine
  <2> QED BY <2>1, <2>2, <2>3
<1>3. CASE e.kind = "starttls"
  <2>1. n = [seen EXCEPT !.accepted = TRUE]
    BY <1>3 DEF Interpreted, seen
  <2>2. /\ n \in Machine /\ n.frames = seen.frames /\ n.accepted
        /\ n.requested = m.requested /\ n.advertised = m.advertised
        /\ n.fallback = m.fallback /\ n.violation = m.violation
    BY <2>1, <1>0, <1>a DEF Machine
  <2>3. CanAccept(e) /\ ~IsCredential(e) /\ m.frames \subseteq n.frames
    BY <2>2, <1>0, <1>3 DEF CanAccept, IsCredential
  <2> HIDE DEF n
  <2> QED BY <2>2, <2>3 DEF Turn
<1>4. CASE e.kind = "unexpected"
  <2>1. n = IF naked THEN [seen EXCEPT !.violation = TRUE] ELSE m
    BY <1>4 DEF Interpreted, seen
  <2>2. CASE n = m
    BY <2>2, <1>4 DEF Turn, IsCredential, Machine
  <2>3. CASE naked
    <3>1. n = [seen EXCEPT !.violation = TRUE]
      BY <2>1, <2>3
    <3>2. /\ n \in Machine /\ n.frames = seen.frames /\ n.violation
          /\ n.accepted = m.accepted /\ n.requested = m.requested
          /\ n.advertised = m.advertised /\ n.fallback = m.fallback
      BY <3>1, <1>0, <1>a DEF Machine
    <3>3. Forbidden(e) /\ ~IsCredential(e) /\ Shows(n, e) /\ m.frames \subseteq n.frames
      BY <1>0, <1>4, <3>2 DEF Forbidden, IsCredential, Shows
    <3> HIDE DEF n
    <3> QED BY <2>3, <3>2, <3>3 DEF Turn
  <2> QED BY <2>1, <2>2, <2>3
<1>5. CASE e.kind = "request" /\ e.command = "credential"
  <2>1. n = [seen EXCEPT !.violation = @ \/ naked, !.fallback = @ \/ ~m.accepted]
    BY <1>5, Zenon DEF Interpreted, seen, None
  <2>2. n \in Machine /\ n.frames = seen.frames
    BY <2>1, <1>0 DEF Machine
  <2>3. /\ n.violation <=> (m.violation \/ naked)
        /\ n.fallback <=> (m.fallback \/ ~m.accepted)
        /\ n.accepted = m.accepted /\ n.requested = m.requested
        /\ n.advertised = m.advertised
    BY <2>1, <1>0, <1>a DEF Machine
  <2>4. Shows(n, e) /\ Forbidden(e) /\ IsCredential(e) /\ m.frames \subseteq n.frames
    BY <2>2, <1>0, <1>5 DEF Shows, Forbidden, IsCredential
  <2> HIDE DEF n
  <2> QED BY <2>2, <2>3, <2>4 DEF Turn
<1>6. CASE e.kind = "request" /\ e.command \notin {"starttls", "credential"}
  <2>1. n = IF e.command \in {None, "other"} /\ naked
            THEN [seen EXCEPT !.violation = TRUE] ELSE m
    BY <1>6 DEF Interpreted, seen
  <2>2. CASE n = m
    BY <2>2, <1>6 DEF Turn, IsCredential, Machine
  <2>3. CASE e.command \in {None, "other"} /\ naked
    <3>1. n = [seen EXCEPT !.violation = TRUE]
      BY <2>1, <2>3
    <3>2. /\ n \in Machine /\ n.frames = seen.frames /\ n.violation
          /\ n.accepted = m.accepted /\ n.requested = m.requested
          /\ n.advertised = m.advertised /\ n.fallback = m.fallback
      BY <3>1, <1>0, <1>a DEF Machine
    <3>3. Forbidden(e) /\ ~IsCredential(e) /\ Shows(n, e) /\ m.frames \subseteq n.frames
      BY <2>3, <1>0, <1>6, <3>2 DEF Forbidden, IsCredential, Shows
    <3> HIDE DEF n
    <3> QED BY <2>3, <3>2, <3>3 DEF Turn
  <2> QED BY <2>1, <2>2, <2>3
<1>7. CASE e.kind \in {"capability", "confirmation", "ambiguous_banner"}
  <2>1. n = m
    BY <1>7 DEF Interpreted
  <2> QED BY <2>1, <1>7 DEF Turn, IsCredential, Machine
<1> QED BY <1>1, <1>2, <1>3, <1>4, <1>5, <1>6, <1>7
     DEF ProtocolEvent, SessionEventKind

\* One event, whatever the protocol.
LEMMA UpgradeTurns ==
  ASSUME NEW p \in MailProtocol, NEW m \in Machine, NEW e \in ProtocolEvent, NEW h \in BOOLEAN
  PROVE  Turn(m, Upgrade(p, m, e, h), e)
<1>1. ASSUME NEW saw \in BOOLEAN, NEW adv \in BOOLEAN, NEW a,
             Answered(Noted(m, e, saw, adv), a, e)
      PROVE  Turn(m, Interpreted(Noted(m, e, saw, adv), e, h, a), e)
  <2> DEFINE k == Noted(m, e, saw, adv)
  <2>1. /\ k \in Machine /\ m.frames \subseteq k.frames
        /\ m.advertised => k.advertised
        /\ k.requested = m.requested /\ k.accepted = m.accepted
        /\ k.fallback = m.fallback /\ k.violation = m.violation
    BY NotedKeeps
  <2> HIDE DEF k
  <2>2. Turn(k, Interpreted(k, e, h, a), e)
    BY <2>1, <1>1, InterpretedTurns DEF k
  <2>3. Turn(m, Interpreted(k, e, h, a), e)
    BY <2>1, <2>2 DEF Turn
  <2> QED BY <2>3 DEF k
<1>2. SmtpCapabilityReply(e) \in BOOLEAN /\ SmtpAdvertisement(e) \in BOOLEAN
  BY DEF SmtpCapabilityReply, SmtpAdvertisement, ProtocolEvent
<1>3. /\ ImapCapability(e) \in BOOLEAN /\ ImapAdvertisement(e) \in BOOLEAN
      /\ Pop3Advertisement(e) \in BOOLEAN
  BY DEF ImapCapability, ImapAdvertisement, Pop3Advertisement, ProtocolEvent
<1>4. CASE p = "smtp"
  BY <1>1, <1>2, <1>4, NotedKeeps, NextReplyAnswers DEF Upgrade, smtp_upgrade
<1>5. CASE p = "imap"
  BY <1>1, <1>3, <1>5, NotedKeeps, TaggedReplyAnswers DEF Upgrade, imap_upgrade
<1>6. CASE p = "pop3"
  BY <1>1, <1>3, <1>6, NotedKeeps, NextReplyAnswers DEF Upgrade, pop3_upgrade
<1> QED BY <1>4, <1>5, <1>6 DEF MailProtocol

-----------------------------------------------------------------------------
(* The inductive invariant: each flag is backed by an event of the transcript. *)

FlagsBacked ==
  /\ machine.accepted => \E j \in DOMAIN events : CanAccept(events[j])
  /\ ~machine.fallback => \A n \in DOMAIN events :
       IsCredential(events[n]) => \E j \in 1..(n-1) : CanAccept(events[j])
  /\ machine.fallback => \E n \in DOMAIN events :
       IsCredential(events[n]) /\ Shows(machine, events[n])
  /\ machine.violation => \E n \in DOMAIN events :
       /\ Forbidden(events[n]) /\ Shows(machine, events[n])
       /\ \E j \in 1..(n-1) : CanAccept(events[j])

\* One turn of the loop, seen from the transcript: the event is appended and the
\* machine makes a Turn.
LEMMA FeedTurns ==
  ASSUME TypeOK, NEW o \in Observations, Feed(o)
  PROVE  \E e \in ProtocolEvent :
           /\ events' = Append(events, e) /\ Turn(machine, machine', e)
           /\ protocol' = protocol /\ hello' = hello /\ Len(events) < MaxEvents
<1> DEFINE e == At(o, Len(events) + 1)
<1>1. Len(events) + 1 \in 1..MaxEvents /\ Len(events) < MaxEvents
  BY BoundIsNat DEF Feed, TypeOK
<1>2. e \in ProtocolEvent
  BY <1>1, FramesAreNumbers, ObservationsAreEvents DEF At, ProtocolEvent
<1>3. Turn(machine, machine', e)
  BY <1>2, UpgradeTurns DEF Feed, TypeOK
<1> QED BY <1>1, <1>2, <1>3 DEF Feed

\* The type invariant is inductive.
LEMMA TypeStep == TypeOK /\ [Next]_vars => TypeOK'
<1> SUFFICES ASSUME TypeOK, [Next]_vars PROVE TypeOK'
  OBVIOUS
<1>1. CASE Next
  <2>1. PICK o \in Observations : Feed(o)
    BY <1>1 DEF Next
  <2>2. PICK e \in ProtocolEvent :
           /\ events' = Append(events, e) /\ Turn(machine, machine', e)
           /\ protocol' = protocol /\ hello' = hello /\ Len(events) < MaxEvents
    BY <2>1, FeedTurns
  <2> QED BY <2>2, BoundIsNat DEF TypeOK, Turn
<1>2. CASE UNCHANGED vars
  BY <1>2 DEF TypeOK, vars
<1> QED BY <1>1, <1>2

\* FlagsBacked is inductive: what backs a flag stays in the transcript.
LEMMA BackedStep == TypeOK /\ FlagsBacked /\ [Next]_vars => FlagsBacked'
<1> SUFFICES ASSUME TypeOK, FlagsBacked, [Next]_vars PROVE FlagsBacked'
  OBVIOUS
<1>1. CASE Next
  <2>1. PICK o \in Observations : Feed(o)
    BY <1>1 DEF Next
  <2>2. PICK e \in ProtocolEvent :
           /\ events' = Append(events, e) /\ Turn(machine, machine', e)
           /\ protocol' = protocol /\ hello' = hello /\ Len(events) < MaxEvents
    BY <2>1, FeedTurns
  <2> DEFINE last == Len(events) + 1
  <2>3. /\ DOMAIN events = 1..Len(events) /\ DOMAIN events' = 1..last
        /\ Len(events) \in Nat /\ last \in DOMAIN events' /\ events'[last] = e
        /\ \A n \in DOMAIN events : n \in DOMAIN events' /\ events'[n] = events[n]
    BY <2>2 DEF TypeOK
  <2>4. \A x : Shows(machine, x) => Shows(machine', x)
    BY <2>2 DEF Turn, Shows
  <2>5. (\E j \in DOMAIN events : CanAccept(events[j]))
          => \E j \in 1..(last-1) : CanAccept(events'[j])
    BY <2>3
  <2>6. machine'.accepted => \E j \in DOMAIN events' : CanAccept(events'[j])
    <3>1. CASE machine.accepted
      BY <3>1, <2>3 DEF FlagsBacked
    <3>2. CASE ~machine.accepted
      BY <3>2, <2>2, <2>3 DEF Turn
    <3> QED BY <3>1, <3>2
  <2>7. ASSUME ~machine'.fallback, NEW n \in DOMAIN events', IsCredential(events'[n])
        PROVE  \E j \in 1..(n-1) : CanAccept(events'[j])
    <3>1. ~machine.fallback
      BY <2>7, <2>2 DEF Turn
    <3>2. CASE n = last
      <4>1. machine.accepted
        BY <3>2, <2>7, <2>2, <2>3 DEF Turn
      <4> QED BY <4>1, <3>2, <2>5 DEF FlagsBacked
    <3>3. CASE n # last
      <4>1. n \in DOMAIN events
        BY <3>3, <2>3
      <4>2. PICK j \in 1..(n-1) : CanAccept(events[j])
        BY <4>1, <3>1, <2>7, <2>3 DEF FlagsBacked
      <4>3. j \in DOMAIN events
        BY <4>1, <2>3
      <4> QED BY <4>2, <4>3, <2>3
    <3> QED BY <3>2, <3>3
  <2>8. ASSUME machine'.fallback
        PROVE  \E n \in DOMAIN events' : IsCredential(events'[n]) /\ Shows(machine', events'[n])
    <3>1. CASE machine.fallback
      BY <3>1, <2>3, <2>4 DEF FlagsBacked
    <3>2. CASE ~machine.fallback
      BY <3>2, <2>8, <2>2, <2>3 DEF Turn
    <3> QED BY <3>1, <3>2
  <2>9. ASSUME machine'.violation
        PROVE  \E n \in DOMAIN events' :
                 /\ Forbidden(events'[n]) /\ Shows(machine', events'[n])
                 /\ \E j \in 1..(n-1) : CanAccept(events'[j])
    <3>1. CASE machine.violation
      <4>1. PICK n \in DOMAIN events :
               /\ Forbidden(events[n]) /\ Shows(machine, events[n])
               /\ \E j \in 1..(n-1) : CanAccept(events[j])
        BY <3>1 DEF FlagsBacked
      <4>2. PICK j \in 1..(n-1) : CanAccept(events[j])
        BY <4>1
      <4>3. j \in DOMAIN events
        BY <2>3
      <4>4. CanAccept(events'[j]) /\ Forbidden(events'[n]) /\ Shows(machine', events'[n])
        BY <4>1, <4>2, <4>3, <2>3, <2>4
      <4> QED BY <4>4, <2>3
    <3>2. CASE ~machine.violation
      <4>1. Forbidden(e) /\ machine.accepted /\ Shows(machine', e)
        BY <3>2, <2>9, <2>2 DEF Turn
      <4>2. \E j \in 1..(last-1) : CanAccept(events'[j])
        BY <4>1, <2>5 DEF FlagsBacked
      <4> QED BY <4>1, <4>2, <2>3
    <3> QED BY <3>1, <3>2
  <2> QED BY <2>6, <2>7, <2>8, <2>9 DEF FlagsBacked
<1>2. CASE UNCHANGED vars
  BY <1>2 DEF FlagsBacked, vars
<1> QED BY <1>1, <1>2

\* The empty transcript and the fresh machine.
LEMMA Initially == Init => TypeOK /\ FlagsBacked
<1> SUFFICES ASSUME Init PROVE TypeOK /\ FlagsBacked
  OBVIOUS
<1>1. Start \in Machine /\ ~Start.accepted /\ ~Start.fallback /\ ~Start.violation
  BY DEF Start, Machine
<1>2. TypeOK
  BY <1>1, BoundIsNat DEF Init, TypeOK
<1>3. FlagsBacked
  BY <1>1 DEF Init, FlagsBacked
<1> QED BY <1>2, <1>3

\* smtp_upgrade, imap_upgrade and pop3_upgrade keep the types of their flags, on every
\* transcript over any set of observations.
THEOREM MachineTypes == Spec => []TypeOK
<1>1. Init => TypeOK
  BY Initially
<1> QED BY <1>1, TypeStep, PTL DEF Spec

\* The flags of the machines are backed by events of the transcript.
THEOREM FlagsAreBacked == Spec => []FlagsBacked
<1> QED BY Initially, TypeStep, BackedStep, PTL DEF Spec

\* "Never invent TLS": no transcript, however long and in whatever order, makes a machine
\* report TLS without a ClientHello, without an acceptance, or over a credential sent in
\* the clear before anything could have accepted the upgrade.
THEOREM TlsIsNeverInvented == Spec => []NeverInventTls
<1>1. TypeOK /\ FlagsBacked => NeverInventTls
  <2> SUFFICES ASSUME TypeOK, FlagsBacked, Verdict(machine, hello) = "tls_established"
               PROVE  hello /\ machine.accepted /\ ~machine.fallback
    BY DEF NeverInventTls, FlagsBacked
  <2> QED BY DEF Verdict, None, TypeOK, Machine
<1> QED BY <1>1, MachineTypes, FlagsAreBacked, PTL

\* A violation or a plaintext fallback is never reported without the frame, if it is known,
\* of an event that shows it.
THEOREM BadVerdictsShowFrames == Spec => []BadVerdictShowsItsFrame
<1>1. TypeOK /\ FlagsBacked => BadVerdictShowsItsFrame
  <2> SUFFICES ASSUME TypeOK, FlagsBacked PROVE BadVerdictShowsItsFrame
    OBVIOUS
  <2>1. \A x : Shows(machine, x)
               => x.frame \in ExplicitUpgrade(machine, hello, {}).frames \cup {NoFrame}
    BY DEF Shows, ExplicitUpgrade
  <2>2. Verdict(machine, hello) = "violation" => machine.violation
    BY DEF Verdict, None, TypeOK, Machine
  <2>3. Verdict(machine, hello) = "plaintext_fallback" => machine.fallback
    BY DEF Verdict, None, TypeOK, Machine
  <2> QED BY <2>1, <2>2, <2>3 DEF BadVerdictShowsItsFrame, FlagsBacked
<1> QED BY <1>1, MachineTypes, FlagsAreBacked, PTL

\* A longer transcript never hides what a shorter one showed.
THEOREM VerdictsOnlyRise == Spec => VerdictOnlyRises
<1>1. TypeOK /\ [Next]_vars
        => [Rank(Verdict(machine, hello)) <= Rank(Verdict(machine', hello'))]_vars
  <2> SUFFICES ASSUME TypeOK, Next
               PROVE  Rank(Verdict(machine, hello)) <= Rank(Verdict(machine', hello'))
    OBVIOUS
  <2>1. PICK o \in Observations : Feed(o)
    BY DEF Next
  <2>2. PICK e \in ProtocolEvent :
           /\ events' = Append(events, e) /\ Turn(machine, machine', e)
           /\ protocol' = protocol /\ hello' = hello /\ Len(events) < MaxEvents
    BY <2>1, FeedTurns
  <2>3. ASSUME NEW m \in Machine
        PROVE  Rank(Verdict(m, hello)) =
                 IF m.violation THEN 5 ELSE IF m.fallback THEN 4 ELSE IF m.accepted THEN 3
                 ELSE IF m.requested THEN 2 ELSE IF m.advertised THEN 1 ELSE 0
    BY DEF Rank, Verdict, None, Machine
  <2>4. machine \in Machine /\ machine' \in Machine
    BY <2>2 DEF TypeOK, Turn
  <2>5. /\ machine.advertised => machine'.advertised
        /\ machine.requested => machine'.requested
        /\ machine.accepted => machine'.accepted
        /\ machine.fallback => machine'.fallback
        /\ machine.violation => machine'.violation
    BY <2>2 DEF Turn
  <2> QED BY <2>2, <2>3, <2>4, <2>5
<1> QED BY <1>1, MachineTypes, PTL DEF Spec, VerdictOnlyRises

-----------------------------------------------------------------------------
(* What the flags mean, exactly: the verdict is that of the transcript.    *)

\* Advertises and Settles for a protocol, a machine and one event.
AdvertisesIn(p, e) ==
  CASE p = "smtp" -> SmtpAdvertisement(e)
    [] p = "imap" -> ImapAdvertisement(e)
    [] p = "pop3" -> Pop3Advertisement(e)

SettlesFor(p, tag, e) ==
  /\ e.kind = "reply"
  /\ p = "imap" =>
       /\ Succeeds(e) \/ e.reply = "refuse"
       /\ tag = NoTag \/ e.tag = NoTag \/ e.tag = tag

\* What one event does to every flag of a machine that the verdict is read from, once its
\* advertisement is noted, and to the request that waits for an answer.
ExactStep(p, m, n, e, h) ==
  /\ n.requested <=> m.requested \/ IsRequest(e)
  /\ n.accepted <=>
       \/ m.accepted
       \/ e.kind = "starttls"
       \/ m.awaiting /\ SettlesFor(p, m.tag, e) /\ Succeeds(e)
  /\ n.fallback <=> m.fallback \/ (IsCredential(e) /\ ~m.accepted)
  /\ n.violation <=> m.violation \/ (Forbidden(e) /\ m.accepted /\ ~h)
  /\ n.awaiting <=> IsRequest(e) \/ (m.awaiting /\ ~SettlesFor(p, m.tag, e))
  /\ IsRequest(e) => n.tag = e.tag
  /\ n.awaiting /\ ~IsRequest(e) => n.tag = m.tag

ExactTurn(p, m, n, e, h) ==
  /\ n.advertised <=> m.advertised \/ AdvertisesIn(p, e)
  /\ ExactStep(p, m, n, e, h)

\* The request at i still waits for its answer when the transcript ends.
Open(i) ==
  /\ IsRequest(events[i])
  /\ \A k \in (i+1)..Len(events) : ~Settles(i, k) /\ ~IsRequest(events[k])

\* Each flag says exactly what the transcript shows: the inductive invariant.
FlagsExact ==
  /\ machine.advertised <=> \E n \in DOMAIN events : Advertises(events[n])
  /\ machine.requested <=> \E n \in DOMAIN events : IsRequest(events[n])
  /\ machine.accepted <=> AcceptedBefore(Len(events) + 1)
  /\ machine.fallback <=>
       \E n \in DOMAIN events : IsCredential(events[n]) /\ ~AcceptedBefore(n)
  /\ machine.violation <=>
       ~hello /\ \E n \in DOMAIN events : Forbidden(events[n]) /\ AcceptedBefore(n)
  /\ machine.awaiting <=> \E i \in DOMAIN events : Open(i)
  /\ \A i \in DOMAIN events : Open(i) => machine.tag = events[i].tag

\* What an answer to a request does, exactly.
ExactAnswer(p, m, n, e) ==
  /\ n.advertised = m.advertised /\ n.requested = m.requested
  /\ n.fallback = m.fallback /\ n.violation = m.violation
  /\ n.accepted <=> m.accepted \/ (SettlesFor(p, m.tag, e) /\ Succeeds(e))
  /\ n.awaiting <=> m.awaiting /\ ~SettlesFor(p, m.tag, e)
  /\ n.awaiting => n.tag = m.tag

\* SMTP and POP3 take the next reply for the answer.
LEMMA NextReplyExact ==
  ASSUME NEW m \in Machine, NEW e \in ProtocolEvent, NEW p \in {"smtp", "pop3"},
         e.kind = "reply"
  PROVE  ExactAnswer(p, m, NextReply(m, e), e)
<1> DEFINE done == [m EXCEPT !.awaiting = FALSE, !.accepted = @ \/ Succeeds(e)]
           n == NextReply(m, e)
<1>1. done \in Machine
  BY DEF Machine, Succeeds
<1>2. n = add_frame(done, e) \/ n = done
  BY DEF NextReply
<1>3. /\ done.advertised = m.advertised /\ done.requested = m.requested
      /\ done.fallback = m.fallback /\ done.violation = m.violation
      /\ done.accepted <=> m.accepted \/ Succeeds(e)
      /\ ~done.awaiting
  BY DEF Machine
<1> HIDE DEF done
<1>4. /\ n.advertised = m.advertised /\ n.requested = m.requested
      /\ n.fallback = m.fallback /\ n.violation = m.violation
      /\ n.accepted = done.accepted /\ n.awaiting = done.awaiting
  BY <1>1, <1>2, <1>3 DEF add_frame, Machine
<1>5. SettlesFor(p, m.tag, e)
  BY DEF SettlesFor
<1> HIDE DEF n
<1> QED BY <1>3, <1>4, <1>5 DEF ExactAnswer, n

\* IMAP waits for OK, NO or BAD under the tag of the request.
LEMMA TaggedReplyExact ==
  ASSUME NEW m \in Machine, NEW e \in ProtocolEvent, e.kind = "reply"
  PROVE  m.awaiting => ExactAnswer("imap", m, TaggedReply(m, e), e)
<1> DEFINE done == [m EXCEPT !.awaiting = FALSE, !.tag = NoTag, !.accepted = @ \/ Succeeds(e)]
           n == TaggedReply(m, e)
<1>1. done \in Machine
  BY DEF Machine, Succeeds
<1>2. n = IF SettlesFor("imap", m.tag, e) THEN add_frame(done, e) ELSE m
  BY DEF TaggedReply, SettlesFor
<1>3. /\ done.advertised = m.advertised /\ done.requested = m.requested
      /\ done.fallback = m.fallback /\ done.violation = m.violation
      /\ done.accepted <=> m.accepted \/ Succeeds(e)
      /\ ~done.awaiting
  BY DEF Machine
<1> HIDE DEF done, n
<1>4. CASE SettlesFor("imap", m.tag, e)
  <2>1. /\ n.advertised = done.advertised /\ n.requested = done.requested
        /\ n.fallback = done.fallback /\ n.violation = done.violation
        /\ n.accepted = done.accepted /\ n.awaiting = done.awaiting
    BY <1>1, <1>2, <1>4 DEF add_frame, Machine
  <2> QED BY <1>3, <1>4, <2>1 DEF ExactAnswer, n
<1>5. CASE ~SettlesFor("imap", m.tag, e)
  <2>1. n = m
    BY <1>2, <1>5
  <2> QED BY <1>5, <2>1 DEF ExactAnswer, n, Machine
<1> QED BY <1>4, <1>5

\* What the chain of tests does to the flags, exactly, when it is given the answer of
\* its protocol.
LEMMA InterpretedExact ==
  ASSUME NEW m \in Machine, NEW e \in ProtocolEvent, NEW h \in BOOLEAN, NEW a,
         NEW p \in MailProtocol,
         e.kind = "reply" /\ m.awaiting => ExactAnswer(p, m, a, e)
  PROVE  LET n == Interpreted(m, e, h, a)
         IN  n.advertised = m.advertised /\ ExactStep(p, m, n, e, h)
<1> DEFINE seen == add_frame(m, e)
           naked == m.accepted /\ ~h
           n == Interpreted(m, e, h, a)
<1> SUFFICES n.advertised = m.advertised /\ ExactStep(p, m, n, e, h)
  OBVIOUS
<1>0. seen \in Machine /\ seen = [m EXCEPT !.frames = @ \cup ({e.frame} \ {NoFrame})]
  BY AddFrame
<1>a. /\ seen.requested = m.requested /\ seen.accepted = m.accepted
      /\ seen.advertised = m.advertised /\ seen.awaiting = m.awaiting /\ seen.tag = m.tag
      /\ seen.fallback = m.fallback /\ seen.violation = m.violation
  BY <1>0 DEF Machine
<1>b. e.kind # "reply" => ~SettlesFor(p, m.tag, e)
  BY DEF SettlesFor
<1>c. /\ m.requested \in BOOLEAN /\ m.accepted \in BOOLEAN /\ m.advertised \in BOOLEAN
      /\ m.awaiting \in BOOLEAN /\ m.fallback \in BOOLEAN /\ m.violation \in BOOLEAN
  BY DEF Machine
<1> HIDE DEF seen
<1>1. CASE e.kind = "request" /\ e.command = "starttls"
  <2>1. n = [seen EXCEPT !.requested = TRUE, !.awaiting = TRUE, !.tag = e.tag]
    BY <1>1 DEF Interpreted, seen, None
  <2>2. /\ n.requested /\ n.awaiting /\ n.tag = e.tag /\ n.accepted = m.accepted
        /\ n.advertised = m.advertised /\ n.fallback = m.fallback
        /\ n.violation = m.violation
    BY <2>1, <1>0, <1>a DEF Machine
  <2>3. IsRequest(e) /\ ~IsCredential(e) /\ ~Forbidden(e)
    BY <1>1 DEF IsRequest, IsCredential, Forbidden, None
  <2> HIDE DEF n
  <2> QED BY <2>2, <2>3, <1>1, <1>b, <1>c DEF ExactStep
<1>2. CASE e.kind = "reply"
  <2>1. n = IF m.awaiting THEN a ELSE m
    BY <1>2, <1>c DEF Interpreted
  <2>2. ~IsRequest(e) /\ ~IsCredential(e) /\ ~Forbidden(e)
    BY <1>2 DEF IsRequest, IsCredential, Forbidden
  <2> HIDE DEF n
  <2>3. CASE m.awaiting
    BY <2>1, <2>2, <2>3, <1>2, <1>c DEF ExactAnswer, ExactStep
  <2>4. CASE ~m.awaiting
    BY <2>1, <2>2, <2>4, <1>2, <1>c DEF ExactStep
  <2> QED BY <2>3, <2>4
<1>3. CASE e.kind = "starttls"
  <2>1. n = [seen EXCEPT !.accepted = TRUE]
    BY <1>3 DEF Interpreted, seen
  <2>2. /\ n.accepted /\ n.requested = m.requested /\ n.awaiting = m.awaiting
        /\ n.tag = m.tag /\ n.advertised = m.advertised /\ n.fallback = m.fallback
        /\ n.violation = m.violation
    BY <2>1, <1>0, <1>a DEF Machine
  <2>3. ~IsRequest(e) /\ ~IsCredential(e) /\ ~Forbidden(e)
    BY <1>3 DEF IsRequest, IsCredential, Forbidden
  <2> HIDE DEF n
  <2> QED BY <2>2, <2>3, <1>3, <1>b, <1>c DEF ExactStep
<1>4. CASE e.kind # "reply" /\ e.kind # "starttls" /\ ~IsRequest(e)
  <2>1. n = IF IsCredential(e)
            THEN [seen EXCEPT !.violation = @ \/ naked, !.fallback = @ \/ ~m.accepted]
            ELSE IF Forbidden(e) /\ naked THEN [seen EXCEPT !.violation = TRUE] ELSE m
    <3>1. CASE IsCredential(e)
      <4>1. e.kind = "request" /\ e.command = "credential"
        BY <3>1 DEF IsCredential
      <4>2. n = [seen EXCEPT !.violation = @ \/ naked, !.fallback = @ \/ ~m.accepted]
        BY <4>1, Zenon DEF Interpreted, seen, None
      <4> QED BY <3>1, <4>2
    <3>2. CASE ~IsCredential(e) /\ Forbidden(e)
      BY <3>2, <1>4 DEF Interpreted, seen, IsCredential, IsRequest, Forbidden, None
    <3>3. CASE ~IsCredential(e) /\ ~Forbidden(e)
      BY <3>3, <1>4 DEF Interpreted, seen, IsCredential, IsRequest, Forbidden
    <3> QED BY <3>1, <3>2, <3>3
  <2>2. IsCredential(e) => Forbidden(e)
    BY DEF IsCredential, Forbidden
  <2> HIDE DEF n
  <2>3. CASE IsCredential(e)
    <3>1. /\ n.accepted = m.accepted /\ n.requested = m.requested
          /\ n.awaiting = m.awaiting /\ n.tag = m.tag /\ n.advertised = m.advertised
          /\ n.violation <=> (m.violation \/ naked)
          /\ n.fallback <=> (m.fallback \/ ~m.accepted)
      BY <2>1, <2>3, <1>0, <1>a DEF Machine
    <3> QED BY <3>1, <2>2, <2>3, <1>4, <1>b, <1>c DEF ExactStep
  <2>4. CASE ~IsCredential(e) /\ Forbidden(e) /\ naked
    <3>1. n = [seen EXCEPT !.violation = TRUE]
      BY <2>1, <2>4
    <3>2. /\ n.accepted = m.accepted /\ n.requested = m.requested /\ n.violation
          /\ n.awaiting = m.awaiting /\ n.tag = m.tag /\ n.advertised = m.advertised
          /\ n.fallback = m.fallback
      BY <3>1, <1>0, <1>a DEF Machine
    <3> QED BY <3>2, <2>4, <1>4, <1>b, <1>c DEF ExactStep
  <2>5. CASE ~IsCredential(e) /\ ~(Forbidden(e) /\ naked)
    <3>1. n = m
      BY <2>1, <2>5
    <3> QED BY <3>1, <2>5, <1>4, <1>b, <1>c DEF ExactStep
  <2> QED BY <2>3, <2>4, <2>5
<1> QED BY <1>1, <1>2, <1>3, <1>4 DEF IsRequest

\* One event, whatever the protocol, exactly.
LEMMA UpgradeExact ==
  ASSUME NEW p \in MailProtocol, NEW m \in Machine, NEW e \in ProtocolEvent, NEW h \in BOOLEAN
  PROVE  ExactTurn(p, m, Upgrade(p, m, e, h), e, h)
<1>1. ASSUME NEW saw \in BOOLEAN, NEW adv \in BOOLEAN, NEW a, adv = AdvertisesIn(p, e),
             e.kind = "reply" /\ Noted(m, e, saw, adv).awaiting
               => ExactAnswer(p, Noted(m, e, saw, adv), a, e)
      PROVE  ExactTurn(p, m, Interpreted(Noted(m, e, saw, adv), e, h, a), e, h)
  <2> DEFINE k == Noted(m, e, saw, adv)
             kept == IF adv THEN add_frame(m, e) ELSE m
  <2>1. /\ k \in Machine
        /\ k.requested = m.requested /\ k.accepted = m.accepted
        /\ k.fallback = m.fallback /\ k.violation = m.violation
    BY NotedKeeps
  <2>2. k = [kept EXCEPT !.sawCapability = @ \/ saw, !.advertised = @ \/ adv]
    BY DEF Noted
  <2>3. /\ kept \in Machine /\ kept.awaiting = m.awaiting /\ kept.tag = m.tag
        /\ kept.advertised = m.advertised
    BY AddFrame DEF add_frame, Machine
  <2> HIDE DEF kept, k
  <2>4. /\ k.awaiting = m.awaiting /\ k.tag = m.tag
        /\ k.advertised <=> m.advertised \/ adv
    BY <2>2, <2>3 DEF Machine
  <2> DEFINE n == Interpreted(k, e, h, a)
  <2>5. n.advertised = k.advertised /\ ExactStep(p, k, n, e, h)
    BY <2>1, <1>1, InterpretedExact DEF k
  <2> HIDE DEF n
  <2>6. ExactStep(p, m, n, e, h)
    BY <2>1, <2>4, <2>5 DEF ExactStep
  <2>7. n.advertised <=> m.advertised \/ AdvertisesIn(p, e)
    BY <2>4, <2>5, <1>1
  <2> QED BY <2>6, <2>7 DEF ExactTurn, n, k
<1>2. SmtpCapabilityReply(e) \in BOOLEAN /\ SmtpAdvertisement(e) \in BOOLEAN
  BY DEF SmtpCapabilityReply, SmtpAdvertisement, ProtocolEvent
<1>3. /\ ImapCapability(e) \in BOOLEAN /\ ImapAdvertisement(e) \in BOOLEAN
      /\ Pop3Advertisement(e) \in BOOLEAN
  BY DEF ImapCapability, ImapAdvertisement, Pop3Advertisement, ProtocolEvent
<1>4. CASE p = "smtp"
  <2> DEFINE k == Noted(m, e, SmtpCapabilityReply(e), SmtpAdvertisement(e))
  <2>1. k \in Machine
    BY <1>2, NotedKeeps
  <2>2. AdvertisesIn(p, e) = SmtpAdvertisement(e)
    BY <1>4 DEF AdvertisesIn
  <2>3. Upgrade(p, m, e, h) = Interpreted(k, e, h, NextReply(k, e))
    BY <1>4 DEF Upgrade, smtp_upgrade
  <2> QED BY <1>1, <1>2, <1>4, <2>1, <2>2, <2>3, NextReplyExact
<1>5. CASE p = "imap"
  <2> DEFINE k == Noted(m, e, ImapCapability(e), ImapAdvertisement(e))
  <2>1. k \in Machine
    BY <1>3, NotedKeeps
  <2>2. AdvertisesIn(p, e) = ImapAdvertisement(e)
    BY <1>5 DEF AdvertisesIn
  <2>3. Upgrade(p, m, e, h) = Interpreted(k, e, h, TaggedReply(k, e))
    BY <1>5 DEF Upgrade, imap_upgrade
  <2> QED BY <1>1, <1>3, <1>5, <2>1, <2>2, <2>3, TaggedReplyExact
<1>6. CASE p = "pop3"
  <2> DEFINE k == Noted(m, e, ImapCapability(e), Pop3Advertisement(e))
  <2>1. k \in Machine
    BY <1>3, NotedKeeps
  <2>2. AdvertisesIn(p, e) = Pop3Advertisement(e)
    BY <1>6 DEF AdvertisesIn
  <2>3. Upgrade(p, m, e, h) = Interpreted(k, e, h, NextReply(k, e))
    BY <1>6 DEF Upgrade, pop3_upgrade
  <2> QED BY <1>1, <1>3, <1>6, <2>1, <2>2, <2>3, NextReplyExact
<1> QED BY <1>4, <1>5, <1>6 DEF MailProtocol

\* Appending an event settles nothing about the events before it, and it answers a request
\* exactly when that request is open.
LEMMA AppendKeeps ==
  ASSUME TypeOK, NEW e \in ProtocolEvent, events' = Append(events, e), protocol' = protocol,
         NEW last \in Nat, last = Len(events) + 1
  PROVE  /\ \A j \in DOMAIN events : AcceptedAt(j)' <=> AcceptedAt(j)
         /\ \A n \in 1..last : AcceptedBefore(n)' <=> AcceptedBefore(n)
         /\ \A i \in DOMAIN events :
              Answers(i, last)' <=> Open(i) /\ SettlesFor(protocol, events[i].tag, e)
         /\ \A i \in DOMAIN events :
              Open(i)' <=> /\ Open(i) /\ ~IsRequest(e)
                           /\ ~SettlesFor(protocol, events[i].tag, e)
         /\ Open(last)' <=> IsRequest(e)
<1>1. /\ DOMAIN events = 1..Len(events) /\ DOMAIN events' = 1..last
      /\ Len(events) \in Nat /\ events'[last] = e /\ Len(events') = last
      /\ \A n \in DOMAIN events : events'[n] = events[n]
  BY DEF TypeOK
<1>2. ASSUME NEW i \in DOMAIN events, NEW j \in DOMAIN events
      PROVE  Settles(i, j)' <=> Settles(i, j)
  BY <1>1 DEF Settles
<1>3. ASSUME NEW i \in DOMAIN events, NEW j \in DOMAIN events
      PROVE  Answers(i, j)' <=> Answers(i, j)
  <2>1. \A k \in (i+1)..(j-1) :
          k \in DOMAIN events /\ (Settles(i, k)' <=> Settles(i, k)) /\ events'[k] = events[k]
    BY <1>1, <1>2
  <2>2. events'[i] = events[i] /\ (Settles(i, j)' <=> Settles(i, j))
    BY <1>1, <1>2
  <2> QED BY <2>1, <2>2 DEF Answers
<1>4. ASSUME NEW j \in DOMAIN events
      PROVE  AcceptedAt(j)' <=> AcceptedAt(j)
  <2>1. \A i \in 1..(j-1) : i \in DOMAIN events /\ (Answers(i, j)' <=> Answers(i, j))
    BY <1>1, <1>3
  <2>2. events'[j] = events[j]
    BY <1>1
  <2> QED BY <2>1, <2>2 DEF AcceptedAt
<1>5. ASSUME NEW n \in 1..last
      PROVE  AcceptedBefore(n)' <=> AcceptedBefore(n)
  <2>1. \A j \in 1..(n-1) : j \in DOMAIN events /\ (AcceptedAt(j)' <=> AcceptedAt(j))
    BY <1>1, <1>4
  <2> QED BY <2>1 DEF AcceptedBefore
<1>6. ASSUME NEW i \in DOMAIN events
      PROVE  Settles(i, last)' <=> SettlesFor(protocol, events[i].tag, e)
  BY <1>1 DEF Settles, SettlesFor
<1>7. ASSUME NEW i \in DOMAIN events
      PROVE  /\ Answers(i, last)' <=> Open(i) /\ SettlesFor(protocol, events[i].tag, e)
             /\ Open(i)' <=> /\ Open(i) /\ ~IsRequest(e)
                             /\ ~SettlesFor(protocol, events[i].tag, e)
  <2>1. \A k \in (i+1)..Len(events) :
          k \in DOMAIN events /\ (Settles(i, k)' <=> Settles(i, k)) /\ events'[k] = events[k]
    BY <1>1, <1>2
  <2>2. (i+1)..(last-1) = (i+1)..Len(events) /\ i < last
    BY <1>1
  <2>3. events'[i] = events[i]
    BY <1>1
  <2>4. Answers(i, last)' <=> /\ IsRequest(events[i]) /\ Settles(i, last)'
                              /\ \A k \in (i+1)..Len(events) : ~Settles(i, k) /\ ~IsRequest(events[k])
    BY <2>1, <2>2, <2>3 DEF Answers
  <2>5. Answers(i, last)' <=> Open(i) /\ SettlesFor(protocol, events[i].tag, e)
    BY <2>4, <1>6 DEF Open
  <2>6. (i+1)..last = ((i+1)..Len(events)) \cup {last}
    BY <1>1
  <2>7. Open(i)' <=> /\ IsRequest(events[i])
                     /\ \A k \in (i+1)..last : ~Settles(i, k)' /\ ~IsRequest(events'[k])
    BY <2>3, <1>1 DEF Open
  <2>8. Open(i)' <=> /\ IsRequest(events[i]) /\ ~Settles(i, last)' /\ ~IsRequest(e)
                     /\ \A k \in (i+1)..Len(events) : ~Settles(i, k) /\ ~IsRequest(events[k])
    BY <2>1, <2>6, <2>7, <1>1
  <2>9. Open(i)' <=> /\ Open(i) /\ ~IsRequest(e)
                     /\ ~SettlesFor(protocol, events[i].tag, e)
    BY <2>8, <1>6 DEF Open
  <2> QED BY <2>5, <2>9
<1>8. Open(last)' <=> IsRequest(e)
  <2>1. (last+1)..last = {}
    BY <1>1
  <2> QED BY <2>1, <1>1 DEF Open
<1> QED BY <1>4, <1>5, <1>7, <1>8

\* One turn of the loop, exactly.
LEMMA FeedExact ==
  ASSUME TypeOK, NEW o \in Observations, Feed(o)
  PROVE  \E e \in ProtocolEvent :
           /\ events' = Append(events, e) /\ ExactTurn(protocol, machine, machine', e, hello)
           /\ protocol' = protocol /\ hello' = hello
<1> DEFINE e == At(o, Len(events) + 1)
<1>1. Len(events) + 1 \in 1..MaxEvents /\ Len(events) < MaxEvents
  BY BoundIsNat DEF Feed, TypeOK
<1>2. e \in ProtocolEvent
  BY <1>1, FramesAreNumbers, ObservationsAreEvents DEF At, ProtocolEvent
<1>3. ExactTurn(protocol, machine, machine', e, hello)
  BY <1>2, UpgradeExact DEF Feed, TypeOK
<1> QED BY <1>1, <1>2, <1>3 DEF Feed

\* FlagsExact is inductive: a turn moves each flag exactly as the appended event changes
\* what the transcript says.
LEMMA ExactIsInductive == TypeOK /\ FlagsExact /\ [Next]_vars => FlagsExact'
<1> SUFFICES ASSUME TypeOK, FlagsExact, [Next]_vars PROVE FlagsExact'
  OBVIOUS
<1>1. CASE Next
  <2>1. PICK o \in Observations : Feed(o)
    BY <1>1 DEF Next
  <2>2. PICK e \in ProtocolEvent :
           /\ events' = Append(events, e) /\ ExactTurn(protocol, machine, machine', e, hello)
           /\ protocol' = protocol /\ hello' = hello
    BY <2>1, FeedExact
  <2>0. PICK last \in Nat : last = Len(events) + 1
    BY DEF TypeOK
  <2> DEFINE settled == SettlesFor(protocol, machine.tag, e)
  <2>3. /\ DOMAIN events = 1..Len(events) /\ DOMAIN events' = DOMAIN events \cup {last}
        /\ Len(events) \in Nat /\ events'[last] = e /\ Len(events') = last
        /\ \A n \in DOMAIN events : events'[n] = events[n] /\ n \in 1..last
        /\ last \in 1..last /\ last \notin DOMAIN events
    BY <2>0, <2>2 DEF TypeOK
  <2>4. /\ \A j \in DOMAIN events : AcceptedAt(j)' <=> AcceptedAt(j)
        /\ \A n \in 1..last : AcceptedBefore(n)' <=> AcceptedBefore(n)
        /\ \A i \in DOMAIN events :
             Answers(i, last)' <=> Open(i) /\ SettlesFor(protocol, events[i].tag, e)
        /\ \A i \in DOMAIN events :
             Open(i)' <=> /\ Open(i) /\ ~IsRequest(e)
                          /\ ~SettlesFor(protocol, events[i].tag, e)
        /\ Open(last)' <=> IsRequest(e)
    BY <2>0, <2>2, AppendKeeps
  <2>5. \A i \in DOMAIN events : Open(i) => machine.tag = events[i].tag
    BY DEF FlagsExact
  <2>6. AcceptedAt(last)' <=>
          e.kind = "starttls" \/ (Succeeds(e) /\ machine.awaiting /\ settled)
    <3>1. 1..(last-1) = DOMAIN events
      BY <2>0, <2>3
    <3>2. AcceptedAt(last)' <=>
            e.kind = "starttls" \/ (Succeeds(e) /\ \E i \in DOMAIN events : Answers(i, last)')
      BY <3>1, <2>3 DEF AcceptedAt
    <3>3. (\E i \in DOMAIN events : Answers(i, last)')
            <=> (\E i \in DOMAIN events : Open(i)) /\ settled
      BY <2>4, <2>5
    <3> QED BY <3>2, <3>3 DEF FlagsExact
  <2>7. machine'.accepted <=> AcceptedBefore(Len(events) + 1)'
    <3>1. AcceptedBefore(Len(events) + 1)' <=> \E j \in 1..last : AcceptedAt(j)'
      BY <2>3 DEF AcceptedBefore
    <3>2. 1..last = DOMAIN events \cup {last}
      BY <2>3
    <3>3. (\E j \in 1..last : AcceptedAt(j)')
            <=> AcceptedAt(last)' \/ \E j \in DOMAIN events : AcceptedAt(j)
      BY <3>2, <2>4
    <3>4. AcceptedBefore(Len(events) + 1) <=> \E j \in DOMAIN events : AcceptedAt(j)
      BY <2>3 DEF AcceptedBefore
    <3> QED BY <3>1, <3>3, <3>4, <2>2, <2>6 DEF FlagsExact, ExactTurn, ExactStep
  <2>8. machine.accepted <=> AcceptedBefore(last)
    BY <2>0 DEF FlagsExact
  <2>9. machine'.fallback <=>
          \E n \in DOMAIN events' : IsCredential(events'[n]) /\ ~AcceptedBefore(n)'
    <3>1. (\E n \in DOMAIN events' : IsCredential(events'[n]) /\ ~AcceptedBefore(n)')
            <=> \/ \E n \in DOMAIN events : IsCredential(events[n]) /\ ~AcceptedBefore(n)
                \/ IsCredential(e) /\ ~AcceptedBefore(last)
      BY <2>3, <2>4
    <3> QED BY <3>1, <2>2, <2>8 DEF FlagsExact, ExactTurn, ExactStep
  <2>10. machine'.violation <=>
           ~hello' /\ \E n \in DOMAIN events' : Forbidden(events'[n]) /\ AcceptedBefore(n)'
    <3>1. (\E n \in DOMAIN events' : Forbidden(events'[n]) /\ AcceptedBefore(n)')
            <=> \/ \E n \in DOMAIN events : Forbidden(events[n]) /\ AcceptedBefore(n)
                \/ Forbidden(e) /\ AcceptedBefore(last)
      BY <2>3, <2>4
    <3> QED BY <3>1, <2>2, <2>8 DEF FlagsExact, ExactTurn, ExactStep
  <2>11. machine'.advertised <=> \E n \in DOMAIN events' : Advertises(events[n])'
    <3>1. \A n \in DOMAIN events : Advertises(events[n])' <=> Advertises(events[n])
      BY <2>2, <2>3 DEF Advertises
    <3>2. Advertises(events[last])' <=> AdvertisesIn(protocol, e)
      BY <2>2, <2>3 DEF Advertises, AdvertisesIn
    <3> QED BY <3>1, <3>2, <2>2, <2>3 DEF FlagsExact, ExactTurn
  <2>12. machine'.requested <=> \E n \in DOMAIN events' : IsRequest(events'[n])
    BY <2>2, <2>3 DEF FlagsExact, ExactTurn, ExactStep
  <2>13. /\ machine'.awaiting <=> \E i \in DOMAIN events' : Open(i)'
         /\ \A i \in DOMAIN events' : Open(i)' => machine'.tag = events'[i].tag
    <3>1. (\E i \in DOMAIN events' : Open(i)')
            <=> IsRequest(e) \/ ((\E i \in DOMAIN events : Open(i)) /\ ~settled)
      <4>1. (\E i \in DOMAIN events : Open(i)')
              <=> (\E i \in DOMAIN events : Open(i)) /\ ~settled /\ ~IsRequest(e)
        BY <2>4, <2>5
      <4> QED BY <4>1, <2>3, <2>4
    <3>2. machine'.awaiting <=> \E i \in DOMAIN events' : Open(i)'
      BY <3>1, <2>2 DEF FlagsExact, ExactTurn, ExactStep
    <3>3. ASSUME NEW i \in DOMAIN events', Open(i)'
          PROVE  machine'.tag = events'[i].tag
      <4>1. CASE i = last
        BY <4>1, <3>3, <2>2, <2>3, <2>4 DEF ExactTurn, ExactStep
      <4>2. CASE i # last
        <5>1. i \in DOMAIN events
          BY <4>2, <2>3
        <5>2. Open(i) /\ ~IsRequest(e) /\ machine.tag = events[i].tag
          BY <5>1, <3>3, <2>4, <2>5
        <5>3. machine'.awaiting
          BY <3>2, <3>3
        <5> QED BY <5>1, <5>2, <5>3, <2>2, <2>3 DEF ExactTurn, ExactStep
      <4> QED BY <4>1, <4>2
    <3> QED BY <3>2, <3>3
  <2> QED BY <2>7, <2>9, <2>10, <2>11, <2>12, <2>13 DEF FlagsExact
<1>2. CASE UNCHANGED vars
  <2>1. protocol' = protocol /\ hello' = hello /\ machine' = machine /\ events' = events
    BY <1>2 DEF vars
  <2>2. \A i, j : Settles(i, j)' <=> Settles(i, j)
    BY <2>1 DEF Settles
  <2>3. \A i, j : Answers(i, j)' <=> Answers(i, j)
    BY <2>1, <2>2 DEF Answers
  <2>4. \A n : AcceptedBefore(n)' <=> AcceptedBefore(n)
    BY <2>1, <2>3 DEF AcceptedBefore, AcceptedAt
  <2>5. \A i : Open(i)' <=> Open(i)
    BY <2>1, <2>2 DEF Open
  <2>6. \A e : Advertises(e)' <=> Advertises(e)
    BY <2>1, Zenon DEF Advertises
  <2> QED BY <2>1, <2>4, <2>5, <2>6 DEF FlagsExact
<1> QED BY <1>1, <1>2

\* The flags a machine carries from event to event say exactly what its transcript shows.
THEOREM FlagsSayTheTranscript == Spec => []FlagsExact
<1>1. Init => FlagsExact
  <2>1. ~Start.accepted /\ ~Start.fallback /\ ~Start.violation /\ ~Start.awaiting
        /\ ~Start.requested /\ ~Start.advertised
    BY DEF Start
  <2>2. Init => DOMAIN events = {} /\ Len(events) = 0 /\ machine = Start
    BY DEF Init
  <2>3. 1..(0 + 1 - 1) = {}
    OBVIOUS
  <2> QED BY <2>1, <2>2, <2>3 DEF FlagsExact, AcceptedBefore
<1> QED BY <1>1, MachineTypes, ExactIsInductive, PTL DEF Spec

\* On every transcript, of any length and over any observations, the verdict read from the
\* flags of smtp_upgrade, imap_upgrade or pop3_upgrade is the verdict the transcript deserves.
THEOREM VerdictsFollowTheTranscript == Spec => []VerdictOfTranscript
<1>1. TypeOK /\ FlagsExact => VerdictOfTranscript
  <2> SUFFICES ASSUME TypeOK, FlagsExact PROVE VerdictOfTranscript
    OBVIOUS
  <2>1. TranscriptVerdict =
          IF machine.violation THEN "violation"
          ELSE IF machine.fallback THEN "plaintext_fallback"
          ELSE IF machine.accepted THEN (IF hello THEN "tls_established" ELSE "accepted")
          ELSE IF machine.requested THEN "requested"
          ELSE IF machine.advertised THEN "advertised" ELSE None
    BY DEF TranscriptVerdict, FlagsExact
  <2>2. machine \in Machine
    BY DEF TypeOK
  <2> QED BY <2>1, <2>2 DEF VerdictOfTranscript, Verdict, None, Machine
<1> QED BY <1>1, MachineTypes, FlagsSayTheTranscript, PTL
=============================================================================

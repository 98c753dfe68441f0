--------------------------- MODULE Sessions_proofs ---------------------------
(***************************************************************************)
(* A session's protocol is the one every source that names a protocol      *)
(* agrees on, for any number of connections, rows and frames.              *)
(***************************************************************************)
EXTENDS Sessions, FiniteSetTheorems, WellFoundedInduction, TLAPS

-----------------------------------------------------------------------------
(* Resolving the identity of a connection.                                 *)

Combined(z, t, alpn) == z \cup t \cup ({alpn} \ {None})

\* A finite set of names has more than one exactly when two of them differ.
LEMMA MoreThanOne ==
  ASSUME NEW S, IsFiniteSet(S)
  PROVE  /\ Cardinality(S) \in Nat
         /\ Cardinality(S) > 1 <=> \E x, y \in S : x # y
         /\ Cardinality(S) = 1 <=> \E x : S = {x}
<1>1. Cardinality(S) \in Nat
  BY FS_CardinalityType
<1>2. Cardinality(S) = 1 <=> \E x : S = {x}
  BY FS_Singleton
<1>3. Cardinality(S) = 0 <=> S = {}
  BY FS_EmptySet
<1>4. Cardinality(S) > 1 <=> \E x, y \in S : x # y
  <2>1. Cardinality(S) > 1 <=> S # {} /\ ~ \E x : S = {x}
    BY <1>1, <1>2, <1>3
  <2>2. (S # {} /\ ~ \E x : S = {x}) <=> \E x, y \in S : x # y
    OBVIOUS
  <2> QED BY <2>1, <2>2
<1> QED BY <1>1, <1>2, <1>4

\* Sources that name different protocols are more than one name together, so the
\* identity is conflicting exactly when there is more than one name, and a protocol
\* exactly when there is one (_resolve_identity).
LEMMA ResolvedByTheNames ==
  ASSUME NEW z, NEW t, NEW alpn, NEW saw,
         IsFiniteSet(z), IsFiniteSet(t), None \notin z, None \notin t
  PROVE  LET names == Combined(z, t, alpn)
             id == resolve_identity(z, saw, t, alpn)
         IN  /\ id.protocol # None <=> names = {id.protocol}
             /\ id.state = "conflicting" <=> Cardinality(names) > 1
             /\ id.state # "observed" => id.protocol = None
             /\ names # {} => id.payload # None
<1> DEFINE names == Combined(z, t, alpn)
           id == resolve_identity(z, saw, t, alpn)
           disagree == t # {} /\ z # {} /\ z # t
<1>1. IsFiniteSet(names) /\ None \notin names
  <2>1. IsFiniteSet({alpn} \ {None})
    BY FS_Singleton, FS_Subset, {alpn} \ {None} \in SUBSET {alpn}
  <2>2. IsFiniteSet(z \cup t)
    BY FS_Union
  <2> QED BY <2>1, <2>2, FS_Union DEF Combined
<1>2. disagree => \E x, y \in names : x # y
  BY DEF Combined
<1>3. /\ Cardinality(names) \in Nat
      /\ Cardinality(names) > 1 <=> \E x, y \in names : x # y
      /\ Cardinality(names) = 1 <=> \E x : names = {x}
  BY <1>1, MoreThanOne
<1>4. CASE Cardinality(names) > 1
  <2>1. id = [protocol |-> None, payload |-> "indeterminate", state |-> "conflicting"]
    BY <1>4 DEF resolve_identity, Combined
  <2> HIDE DEF id, names
  <2>2. names # {None}
    BY <1>1
  <2> QED BY <1>4, <2>1, <2>2 DEF None, id, names
<1>5. CASE Cardinality(names) = 1
  <2>1. PICK p : names = {p}
    BY <1>3, <1>5
  <2>2. id = [protocol |-> p, payload |-> p, state |-> "observed"]
    <3>1. ~disagree
      BY <1>2, <2>1
    <3>2. (CHOOSE x \in names : TRUE) = p
      BY <2>1
    <3>3. id = [protocol |-> CHOOSE x \in names : TRUE, payload |-> CHOOSE x \in names : TRUE,
                state |-> "observed"]
      BY <1>5, <3>1 DEF resolve_identity, Combined
    <3> QED BY <3>2, <3>3
  <2>3. p # None
    BY <1>1, <2>1
  <2> HIDE DEF id, names
  <2> QED BY <1>5, <2>1, <2>2, <2>3 DEF id, names
<1>6. CASE Cardinality(names) = 0
  <2>1. names = {}
    BY <1>1, <1>6, FS_EmptySet
  <2>2. ~disagree
    BY <1>2, <2>1
  <2>3. id.protocol = None /\ id.state = "indeterminate"
    BY <1>6, <2>2 DEF resolve_identity, Combined
  <2> HIDE DEF id, names
  <2> QED BY <1>6, <2>1, <2>3 DEF id, names
<1> QED BY <1>3, <1>4, <1>5, <1>6

-----------------------------------------------------------------------------
(* The names of a connection and the events that gave them.                *)

\* The stamped events rows can leave.
ZeekEvent == {Stamped(row.ts, n, row.event) : row \in Rows, n \in Nat}

\* Names are finitely many real protocols, and Zeek names one only with an event.
NamesInv ==
  /\ order \in Nat
  /\ ssl \in Ssl
  /\ zeek \in [Uids -> Seq(ZeekEvent)]
  /\ DOMAIN confirming = Uids /\ DOMAIN tsharkNames = Uids
  /\ \A u \in Uids :
       /\ IsFiniteSet(confirming[u]) /\ None \notin confirming[u]
       /\ IsFiniteSet(tsharkNames[u]) /\ None \notin tsharkNames[u]
       /\ confirming[u] # {} => zeek[u] # << >>

\* The sessions of a finished pass are those of what was read.
FinishedInv == phase = "done" => sessions = normalize_sessions

\* One more name leaves finitely many.
LEMMA OneMoreName ==
  ASSUME NEW S, IsFiniteSet(S), None \notin S, NEW p
  PROVE  /\ IsFiniteSet(S \cup ({p} \ {None}))
         /\ None \notin S \cup ({p} \ {None})
<1>1. IsFiniteSet({p} \ {None})
  BY FS_Singleton, FS_Subset, {p} \ {None} \in SUBSET {p}
<1> QED BY <1>1, FS_Union

\* A row names a protocol together with its event (the first loop of
\* normalize_sessions).
LEMMA RowKeepsNames ==
  ASSUME NamesInv, NEW row \in Rows, ReadRow(row)
  PROVE  NamesInv'
<1> DEFINE u == row.uid
           e == Stamped(row.ts, order, row.event)
<1>1. u \in Uids /\ e \in ZeekEvent
  BY DEF ReadRow, NamesInv, ZeekEvent
<1>2. zeek' = [zeek EXCEPT ![u] = Append(@, e)] /\ order' \in Nat /\ ssl' \in Ssl
  BY DEF ReadRow, NamesInv
<1>3. \/ confirming' = [confirming EXCEPT ![u] = @ \cup ({row.protocol} \ {None})]
      \/ confirming' = [confirming EXCEPT ![u] = @]
  BY DEF ReadRow
<1>4. tsharkNames' = tsharkNames
  BY DEF ReadRow
<1> HIDE DEF e
<1>5. zeek' \in [Uids -> Seq(ZeekEvent)]
  BY <1>1, <1>2 DEF NamesInv
<1>6. \A v \in Uids : zeek'[v] # << >> \/ (v # u /\ zeek'[v] = zeek[v])
  <2> SUFFICES ASSUME NEW v \in Uids, v = u
               PROVE  zeek'[v] # << >>
    BY <1>2 DEF NamesInv
  <2>1. zeek[u] \in Seq(ZeekEvent) /\ zeek'[u] = Append(zeek[u], e)
    BY <1>1, <1>2 DEF NamesInv
  <2>2. Len(Append(zeek[u], e)) = Len(zeek[u]) + 1 /\ Len(zeek[u]) \in Nat
    BY <1>1, <2>1
  <2> QED BY <2>1, <2>2
<1>7. DOMAIN confirming' = Uids
  BY <1>1, <1>3 DEF NamesInv
<1>8. \A v \in Uids :
        /\ IsFiniteSet(confirming'[v]) /\ None \notin confirming'[v]
        /\ confirming'[v] # {} => zeek'[v] # << >>
  <2> TAKE v \in Uids
  <2>1. CASE v = u
    <3>1. \/ confirming'[v] = confirming[v] \cup ({row.protocol} \ {None})
          \/ confirming'[v] = confirming[v]
      BY <1>1, <1>3, <2>1 DEF NamesInv
    <3>2. IsFiniteSet(confirming[v]) /\ None \notin confirming[v]
      BY DEF NamesInv
    <3>3. /\ IsFiniteSet(confirming[v] \cup ({row.protocol} \ {None}))
          /\ None \notin confirming[v] \cup ({row.protocol} \ {None})
      BY <3>2, OneMoreName
    <3>4. zeek'[v] # << >>
      BY <1>6, <2>1
    <3> QED BY <3>1, <3>2, <3>3, <3>4
  <2>2. CASE v # u
    <3>1. confirming'[v] = confirming[v]
      BY <1>3, <2>2 DEF NamesInv
    <3> QED BY <1>6, <2>2, <3>1 DEF NamesInv
  <2> QED BY <2>1, <2>2
<1> QED BY <1>2, <1>4, <1>5, <1>7, <1>8 DEF NamesInv

\* A frame adds the protocol TShark names to the connection it belongs to (the second
\* loop of normalize_sessions).
LEMMA FrameKeepsNames ==
  ASSUME NamesInv, NEW frame \in FrameShapes, ReadFrame(frame)
  PROVE  NamesInv'
<1>1. PICK u \in Uids :
        /\ \E p : tsharkNames' = [tsharkNames EXCEPT ![u] = @ \cup ({p} \ {None})]
        /\ order' \in {order, order + 1}
  BY DEF ReadFrame, match_frame_uid
<1>2. UNCHANGED <<ssl, zeek, confirming>>
  BY DEF ReadFrame
<1>3. DOMAIN tsharkNames' = Uids /\ order' \in Nat
  BY <1>1 DEF NamesInv
<1>4. \A v \in Uids : IsFiniteSet(tsharkNames'[v]) /\ None \notin tsharkNames'[v]
  <2> TAKE v \in Uids
  <2> PICK p : tsharkNames' = [tsharkNames EXCEPT ![u] = @ \cup ({p} \ {None})]
    BY <1>1
  <2>1. tsharkNames'[v] \in {tsharkNames[v], tsharkNames[v] \cup ({p} \ {None})}
    BY DEF NamesInv
  <2>2. IsFiniteSet(tsharkNames[v]) /\ None \notin tsharkNames[v]
    BY DEF NamesInv
  <2>3. /\ IsFiniteSet(tsharkNames[v] \cup ({p} \ {None}))
        /\ None \notin tsharkNames[v] \cup ({p} \ {None})
    BY <2>2, OneMoreName
  <2> QED BY <2>1, <2>2, <2>3
<1> QED BY <1>2, <1>3, <1>4 DEF NamesInv

\* Every step keeps the names.
LEMMA NamesStep == NamesInv /\ [Next]_vars => NamesInv'
<1> SUFFICES ASSUME NamesInv, [Next]_vars PROVE NamesInv'
  OBVIOUS
<1>1. CASE \E row \in Rows : ReadRow(row)
  BY <1>1, RowKeepsNames
<1>2. CASE \E frame \in FrameShapes : ReadFrame(frame)
  BY <1>2, FrameKeepsNames
<1>3. CASE UNCHANGED <<ssl, zeek, confirming, tsharkNames, order>>
  BY <1>3 DEF NamesInv
<1>4. CASE FirstPass
  BY <1>3, <1>4 DEF FirstPass, Unread
<1>5. CASE \E frame \in FrameShapes : SkipFrame(frame)
  BY <1>3, <1>5 DEF SkipFrame
<1>6. CASE SecondPass
  BY <1>3, <1>6 DEF SecondPass, Unread
<1>7. CASE TSharkFails
  BY <1>3, <1>7 DEF TSharkFails, Unread
<1>8. CASE UNCHANGED vars
  BY <1>3, <1>8 DEF vars
<1> QED BY <1>1, <1>2, <1>4, <1>5, <1>6, <1>7, <1>8 DEF Next

\* Nothing is read once a pass is final: what the sessions were made of stays.
LEMMA FinishedStep == FinishedInv /\ [Next]_vars => FinishedInv'
<1> SUFFICES ASSUME FinishedInv, [Next]_vars, phase' = "done"
             PROVE  sessions' = normalize_sessions'
  BY DEF FinishedInv
<1> DEFINE Inputs == <<ssl, zeek, tshark, confirming, tsharkNames, ambiguous, helloFrames>>
<1>1. Inputs' = Inputs => normalize_sessions' = normalize_sessions
  BY DEF normalize_sessions, SessionOf, assess_session, ClientHello
<1> HIDE DEF Inputs
<1>2. CASE FirstPass \/ SecondPass
  BY <1>1, <1>2 DEF FirstPass, SecondPass, Unread, Inputs
<1>3. CASE UNCHANGED vars
  BY <1>1, <1>3 DEF vars, Inputs, FinishedInv
<1>4. ~ \E row \in Rows : ReadRow(row)
  BY DEF ReadRow
<1>5. ~ \E frame \in FrameShapes : SkipFrame(frame) \/ ReadFrame(frame)
  BY DEF SkipFrame, ReadFrame
<1>6. ~ TSharkFails
  BY DEF TSharkFails
<1> QED BY <1>2, <1>3, <1>4, <1>5, <1>6 DEF Next

\* What the session of a connection says about its protocol (_assess_session).
LEMMA SessionSays ==
  ASSUME NEW u \in Uids
  PROVE  LET id == resolve_identity(confirming[u], u \in ambiguous, tsharkNames[u], ssl[u].alpn)
         IN  /\ \A s \in SessionOf(u) :
                  /\ s.uid = u /\ s.protocol = id.protocol /\ s.state = id.state
                  /\ s.protocol = None => s.assessment.explicit.state = None
             /\ id.payload # None /\ (zeek[u] # << >> \/ tsharkNames[u] # {} \/ ssl[u].present)
                  => SessionOf(u) # {}
<1> DEFINE id == resolve_identity(confirming[u], u \in ambiguous, tsharkNames[u], ssl[u].alpn)
           events == Bounded(merge_events(zeek[u], tshark[u]))
           assessment == assess_session(u, id.protocol, events)
<1>1. id.protocol = None => assessment.explicit.state = None
  BY DEF assess_session, UpgradeOf
<1>2. \A s \in SessionOf(u) :
        /\ s.uid = u /\ s.protocol = id.protocol /\ s.state = id.state
        /\ s.assessment = assessment
  <2> HIDE DEF id, assessment
  <2> QED BY DEF SessionOf, id, assessment
<1>3. id.payload # None /\ (zeek[u] # << >> \/ tsharkNames[u] # {} \/ ssl[u].present)
        => SessionOf(u) # {}
  BY DEF SessionOf
<1> QED BY <1>1, <1>2, <1>3

\* IdentityIsUnanimous for every input: a session has a protocol exactly when the
\* sources naming one agree, disagreement is reported as a conflict without a verdict,
\* and no connection whose protocol is named is left out (normalize_sessions).
THEOREM ProtocolsAreUnanimous == Spec => []IdentityIsUnanimous
<1>1. Init => NamesInv /\ FinishedInv
  BY FS_EmptySet DEF Init, NamesInv, FinishedInv
<1>2. NamesInv /\ FinishedInv => IdentityIsUnanimous
  <2> SUFFICES ASSUME NamesInv, phase = "done", sessions = normalize_sessions
               PROVE  IdentityIsUnanimous
    BY DEF FinishedInv, IdentityIsUnanimous, Finished
  <2> DEFINE id(u) == resolve_identity(confirming[u], u \in ambiguous, tsharkNames[u], ssl[u].alpn)
  <2>1. \A u \in Uids :
          /\ id(u).protocol # None <=> Named(u) = {id(u).protocol}
          /\ id(u).state = "conflicting" <=> Cardinality(Named(u)) > 1
          /\ id(u).state # "observed" => id(u).protocol = None
          /\ Named(u) # {} => id(u).payload # None
    <3> TAKE u \in Uids
    <3>1. /\ IsFiniteSet(confirming[u]) /\ None \notin confirming[u]
          /\ IsFiniteSet(tsharkNames[u]) /\ None \notin tsharkNames[u]
      BY DEF NamesInv
    <3>2. Named(u) = Combined(confirming[u], tsharkNames[u], ssl[u].alpn)
      BY DEF Named, Combined
    <3> QED BY <3>1, <3>2, ResolvedByTheNames
  <2>2. \A u \in Uids : Named(u) # {} => zeek[u] # << >> \/ tsharkNames[u] # {} \/ ssl[u].present
    BY SslAssumption DEF Named, NamesInv
  <2>3. \A u \in Uids :
          /\ \A s \in SessionOf(u) :
               /\ s.uid = u /\ s.protocol = id(u).protocol /\ s.state = id(u).state
               /\ s.protocol = None => s.assessment.explicit.state = None
          /\ id(u).payload # None /\ (zeek[u] # << >> \/ tsharkNames[u] # {} \/ ssl[u].present)
               => SessionOf(u) # {}
    BY SessionSays
  <2> HIDE DEF id
  <2>4. \A u \in Uids : Named(u) # {} => \E s \in sessions : s.uid = u
    BY <2>1, <2>2, <2>3 DEF normalize_sessions
  <2>5. ASSUME NEW s \in sessions
        PROVE  /\ s.protocol # None <=> Named(s.uid) = {s.protocol}
               /\ s.state = "conflicting" <=> Cardinality(Named(s.uid)) > 1
               /\ s.state # "observed" => s.assessment.explicit.state = None
    <3>1. PICK u \in Uids : s \in SessionOf(u)
      BY DEF normalize_sessions
    <3>2. s.uid = u
      BY <2>3, <3>1
    <3> QED BY <2>1, <2>3, <3>1, <3>2
  <2> QED BY <2>4, <2>5 DEF IdentityIsUnanimous
<1> QED BY <1>1, <1>2, NamesStep, FinishedStep, PTL DEF Spec

-----------------------------------------------------------------------------
(***************************************************************************)
(* What one event of a transcript does to a machine whose tags are in T    *)
(* and whose frames are in F.  The flags after the event follow from the   *)
(* flags before it: frames never matter, a tag only while a request waits. *)
(***************************************************************************)

Over(T, F) ==
  [advertised : BOOLEAN, requested : BOOLEAN, accepted : BOOLEAN, sawCapability : BOOLEAN,
   violation : BOOLEAN, fallback : BOOLEAN, awaiting : BOOLEAN, tag : T, frames : SUBSET F]

EventOver(e, T, F) == NoTag \in T /\ e.tag \in T /\ e.frame \in F /\ e.token \in BOOLEAN

IsRequest(e) == e.kind = "request" /\ e.command = "starttls"
IsCredential(e) == e.kind = "request" /\ e.command = "credential"
Forbidden(e) ==
  e.kind = "unexpected" \/ (e.kind = "request" /\ e.command \in {None, "other", "credential"})

AdvertisesIn(p, e) ==
  CASE p = "smtp" -> SmtpAdvertisement(e)
    [] p = "imap" -> ImapAdvertisement(e)
    [] p = "pop3" -> Pop3Advertisement(e)

\* The reply e settles a request made under the tag.
SettlesFor(p, tag, e) ==
  /\ e.kind = "reply"
  /\ p = "imap" => /\ Succeeds(e) \/ e.reply = "refuse"
                   /\ tag = NoTag \/ e.tag = NoTag \/ e.tag = tag

\* What an event does once its advertisement is noted.
Step(p, m, n, e, h) ==
  /\ n.requested <=> m.requested \/ IsRequest(e)
  /\ n.accepted <=>
       \/ m.accepted
       \/ e.kind = "starttls"
       \/ m.awaiting /\ SettlesFor(p, m.tag, e) /\ Succeeds(e)
  /\ n.fallback <=> m.fallback \/ (IsCredential(e) /\ ~m.accepted)
  /\ n.violation <=> m.violation \/ (Forbidden(e) /\ m.accepted /\ ~h)
  /\ n.awaiting <=> IsRequest(e) \/ (m.awaiting /\ ~SettlesFor(p, m.tag, e))
  /\ IsRequest(e) => n.tag = e.tag
  /\ n.awaiting /\ ~IsRequest(e) => n.tag = m.tag

Turn(p, m, n, e, h) ==
  (n.advertised <=> m.advertised \/ AdvertisesIn(p, e)) /\ Step(p, m, n, e, h)

Answered(p, m, n, e) ==
  /\ n.advertised = m.advertised /\ n.requested = m.requested
  /\ n.fallback = m.fallback /\ n.violation = m.violation
  /\ n.accepted <=> m.accepted \/ (SettlesFor(p, m.tag, e) /\ Succeeds(e))
  /\ n.awaiting <=> m.awaiting /\ ~SettlesFor(p, m.tag, e)
  /\ n.awaiting => n.tag = m.tag

\* A frame is noted and nothing else changes.
LEMMA FrameNoted ==
  ASSUME NEW T, NEW F, NEW m \in Over(T, F), NEW e, EventOver(e, T, F)
  PROVE  LET n == add_frame(m, e)
         IN  /\ n \in Over(T, F)
             /\ n.requested = m.requested /\ n.accepted = m.accepted
             /\ n.advertised = m.advertised /\ n.awaiting = m.awaiting /\ n.tag = m.tag
             /\ n.fallback = m.fallback /\ n.violation = m.violation
<1>1. m.frames \cup ({e.frame} \ {NoFrame}) \in SUBSET F
  BY DEF Over, EventOver
<1> QED BY <1>1 DEF add_frame, Over

\* The next reply is the answer (SMTP, POP3).
LEMMA NextReplyAnswers ==
  ASSUME NEW T, NEW F, NEW m \in Over(T, F), NEW e, EventOver(e, T, F),
         NEW p \in {"smtp", "pop3"}, e.kind = "reply"
  PROVE  NextReply(m, e) \in Over(T, F) /\ Answered(p, m, NextReply(m, e), e)
<1> DEFINE done == [m EXCEPT !.awaiting = FALSE, !.accepted = @ \/ Succeeds(e)]
           n == NextReply(m, e)
<1>1. done \in Over(T, F)
  BY DEF Over, Succeeds
<1>2. n = add_frame(done, e) \/ n = done
  BY DEF NextReply
<1>3. /\ done.advertised = m.advertised /\ done.requested = m.requested
      /\ done.fallback = m.fallback /\ done.violation = m.violation
      /\ done.accepted <=> m.accepted \/ Succeeds(e)
      /\ ~done.awaiting
  BY DEF Over
<1> HIDE DEF done, n
<1>4. /\ n \in Over(T, F)
      /\ n.advertised = m.advertised /\ n.requested = m.requested
      /\ n.fallback = m.fallback /\ n.violation = m.violation
      /\ n.accepted = done.accepted /\ n.awaiting = done.awaiting
  BY <1>1, <1>2, <1>3, FrameNoted
<1>5. SettlesFor(p, m.tag, e)
  BY DEF SettlesFor
<1> QED BY <1>3, <1>4, <1>5 DEF Answered, n

\* Only OK, NO or BAD under the tag of the request is the answer (IMAP).
LEMMA TaggedReplyAnswers ==
  ASSUME NEW T, NEW F, NEW m \in Over(T, F), NEW e, EventOver(e, T, F), e.kind = "reply"
  PROVE  /\ TaggedReply(m, e) \in Over(T, F)
         /\ m.awaiting => Answered("imap", m, TaggedReply(m, e), e)
<1> DEFINE done == [m EXCEPT !.awaiting = FALSE, !.tag = NoTag, !.accepted = @ \/ Succeeds(e)]
           n == TaggedReply(m, e)
<1>1. done \in Over(T, F)
  BY DEF Over, Succeeds, EventOver
<1>2. n = IF SettlesFor("imap", m.tag, e) THEN add_frame(done, e) ELSE m
  BY DEF TaggedReply, SettlesFor
<1>3. /\ done.advertised = m.advertised /\ done.requested = m.requested
      /\ done.fallback = m.fallback /\ done.violation = m.violation
      /\ done.accepted <=> m.accepted \/ Succeeds(e)
      /\ ~done.awaiting
  BY DEF Over
<1> HIDE DEF done, n
<1>4. CASE SettlesFor("imap", m.tag, e)
  <2>1. /\ n \in Over(T, F)
        /\ n.advertised = done.advertised /\ n.requested = done.requested
        /\ n.fallback = done.fallback /\ n.violation = done.violation
        /\ n.accepted = done.accepted /\ n.awaiting = done.awaiting
    BY <1>1, <1>2, <1>4, FrameNoted
  <2> QED BY <1>3, <1>4, <2>1 DEF Answered, n
<1>5. CASE ~SettlesFor("imap", m.tag, e)
  <2>1. n = m
    BY <1>2, <1>5
  <2> QED BY <1>5, <2>1 DEF Answered, n, Over
<1> QED BY <1>4, <1>5

\* The chain of tests every machine ends its loop body with.
LEMMA InterpretedSteps ==
  ASSUME NEW T, NEW F, NEW m \in Over(T, F), NEW e, EventOver(e, T, F), NEW h \in BOOLEAN,
         NEW a, NEW p,
         e.kind = "reply" /\ m.awaiting => a \in Over(T, F) /\ Answered(p, m, a, e)
  PROVE  LET n == Interpreted(m, e, h, a)
         IN  n \in Over(T, F) /\ n.advertised = m.advertised /\ Step(p, m, n, e, h)
<1> DEFINE seen == add_frame(m, e)
           naked == m.accepted /\ ~h
           n == Interpreted(m, e, h, a)
<1> SUFFICES n \in Over(T, F) /\ n.advertised = m.advertised /\ Step(p, m, n, e, h)
  OBVIOUS
<1>0. /\ seen \in Over(T, F)
      /\ seen.requested = m.requested /\ seen.accepted = m.accepted
      /\ seen.advertised = m.advertised /\ seen.awaiting = m.awaiting /\ seen.tag = m.tag
      /\ seen.fallback = m.fallback /\ seen.violation = m.violation
  BY FrameNoted
<1>b. e.kind # "reply" => ~SettlesFor(p, m.tag, e)
  BY DEF SettlesFor
<1>c. /\ m.requested \in BOOLEAN /\ m.accepted \in BOOLEAN /\ m.advertised \in BOOLEAN
      /\ m.awaiting \in BOOLEAN /\ m.fallback \in BOOLEAN /\ m.violation \in BOOLEAN
  BY DEF Over
<1> HIDE DEF seen
<1>1. CASE e.kind = "request" /\ e.command = "starttls"
  <2>1. n = [seen EXCEPT !.requested = TRUE, !.awaiting = TRUE, !.tag = e.tag]
    BY <1>1 DEF Interpreted, seen, None
  <2>2. /\ n.requested /\ n.awaiting /\ n.tag = e.tag /\ n.accepted = m.accepted
        /\ n.advertised = m.advertised /\ n.fallback = m.fallback
        /\ n.violation = m.violation /\ n \in Over(T, F)
    BY <2>1, <1>0 DEF Over, EventOver
  <2>3. IsRequest(e) /\ ~IsCredential(e) /\ ~Forbidden(e)
    BY <1>1 DEF IsRequest, IsCredential, Forbidden, None
  <2> HIDE DEF n
  <2> QED BY <2>2, <2>3, <1>1, <1>b, <1>c DEF Step
<1>2. CASE e.kind = "reply"
  <2>1. n = IF m.awaiting THEN a ELSE m
    BY <1>2, <1>c DEF Interpreted
  <2>2. ~IsRequest(e) /\ ~IsCredential(e) /\ ~Forbidden(e)
    BY <1>2 DEF IsRequest, IsCredential, Forbidden
  <2> HIDE DEF n
  <2>3. CASE m.awaiting
    BY <2>1, <2>2, <2>3, <1>2, <1>c DEF Answered, Step
  <2>4. CASE ~m.awaiting
    BY <2>1, <2>2, <2>4, <1>2, <1>c DEF Step
  <2> QED BY <2>3, <2>4
<1>3. CASE e.kind = "starttls"
  <2>1. n = [seen EXCEPT !.accepted = TRUE]
    BY <1>3 DEF Interpreted, seen
  <2>2. /\ n.accepted /\ n.requested = m.requested /\ n.awaiting = m.awaiting
        /\ n.tag = m.tag /\ n.advertised = m.advertised /\ n.fallback = m.fallback
        /\ n.violation = m.violation /\ n \in Over(T, F)
    BY <2>1, <1>0 DEF Over
  <2>3. ~IsRequest(e) /\ ~IsCredential(e) /\ ~Forbidden(e)
    BY <1>3 DEF IsRequest, IsCredential, Forbidden
  <2> HIDE DEF n
  <2> QED BY <2>2, <2>3, <1>3, <1>b, <1>c DEF Step
<1>4. CASE e.kind # "reply" /\ e.kind # "starttls" /\ ~IsRequest(e)
  <2>1. n = IF IsCredential(e)
            THEN [seen EXCEPT !.violation = @ \/ naked, !.fallback = @ \/ ~m.accepted]
            ELSE IF Forbidden(e) /\ naked THEN [seen EXCEPT !.violation = TRUE] ELSE m
    <3>1. CASE IsCredential(e)
      <4>1. e.kind = "request" /\ e.command = "credential"
        BY <3>1 DEF IsCredential
      <4>2. n = [seen EXCEPT !.violation = @ \/ naked, !.fallback = @ \/ ~m.accepted]
        BY <4>1, Zenon DEF Interpreted, seen, None
      <4> QED BY <3>1, <4>2
    <3>2. CASE ~IsCredential(e) /\ Forbidden(e)
      BY <3>2, <1>4 DEF Interpreted, seen, IsCredential, IsRequest, Forbidden, None
    <3>3. CASE ~IsCredential(e) /\ ~Forbidden(e)
      BY <3>3, <1>4 DEF Interpreted, seen, IsCredential, IsRequest, Forbidden
    <3> QED BY <3>1, <3>2, <3>3
  <2>2. IsCredential(e) => Forbidden(e)
    BY DEF IsCredential, Forbidden
  <2> HIDE DEF n
  <2>3. CASE IsCredential(e)
    <3>1. /\ n.accepted = m.accepted /\ n.requested = m.requested
          /\ n.awaiting = m.awaiting /\ n.tag = m.tag /\ n.advertised = m.advertised
          /\ n.violation <=> (m.violation \/ naked)
          /\ n.fallback <=> (m.fallback \/ ~m.accepted)
      BY <2>1, <2>3, <1>0 DEF Over
    <3>2. n \in Over(T, F)
      BY <2>1, <2>3, <1>0 DEF Over
    <3> QED BY <3>1, <3>2, <2>2, <2>3, <1>4, <1>b, <1>c DEF Step
  <2>4. CASE ~IsCredential(e) /\ Forbidden(e) /\ naked
    <3>1. n = [seen EXCEPT !.violation = TRUE]
      BY <2>1, <2>4
    <3>2. /\ n.accepted = m.accepted /\ n.requested = m.requested /\ n.violation
          /\ n.awaiting = m.awaiting /\ n.tag = m.tag /\ n.advertised = m.advertised
          /\ n.fallback = m.fallback /\ n \in Over(T, F)
      BY <3>1, <1>0 DEF Over
    <3> QED BY <3>2, <2>4, <1>4, <1>b, <1>c DEF Step
  <2>5. CASE ~IsCredential(e) /\ ~(Forbidden(e) /\ naked)
    <3>1. n = m
      BY <2>1, <2>5
    <3> QED BY <3>1, <2>5, <1>4, <1>b, <1>c DEF Step
  <2> QED BY <2>3, <2>4, <2>5
<1> QED BY <1>1, <1>2, <1>3, <1>4 DEF IsRequest

\* One event, whatever the protocol (smtp_upgrade, imap_upgrade, pop3_upgrade).
LEMMA UpgradeTurns ==
  ASSUME NEW T, NEW F, NEW m \in Over(T, F), NEW e, EventOver(e, T, F), NEW h \in BOOLEAN,
         NEW p \in MailProtocol
  PROVE  Upgrade(p, m, e, h) \in Over(T, F) /\ Turn(p, m, Upgrade(p, m, e, h), e, h)
<1>0. ASSUME NEW saw \in BOOLEAN, NEW adv \in BOOLEAN
      PROVE  LET k == Noted(m, e, saw, adv)
             IN  /\ k \in Over(T, F)
                 /\ k.requested = m.requested /\ k.accepted = m.accepted
                 /\ k.fallback = m.fallback /\ k.violation = m.violation
                 /\ k.awaiting = m.awaiting /\ k.tag = m.tag
                 /\ k.advertised <=> m.advertised \/ adv
  <2> DEFINE kept == IF adv THEN add_frame(m, e) ELSE m
  <2>1. /\ kept \in Over(T, F)
        /\ kept.requested = m.requested /\ kept.accepted = m.accepted
        /\ kept.advertised = m.advertised /\ kept.awaiting = m.awaiting /\ kept.tag = m.tag
        /\ kept.fallback = m.fallback /\ kept.violation = m.violation
    BY FrameNoted
  <2>2. Noted(m, e, saw, adv) =
          [kept EXCEPT !.sawCapability = @ \/ saw, !.advertised = @ \/ adv]
    BY DEF Noted
  <2> HIDE DEF kept
  <2>3. (kept.sawCapability \/ saw) \in BOOLEAN /\ (kept.advertised \/ adv) \in BOOLEAN
    OBVIOUS
  <2> QED BY <2>1, <2>2, <2>3 DEF Over
<1>1. ASSUME NEW saw \in BOOLEAN, NEW adv \in BOOLEAN, NEW a, adv = AdvertisesIn(p, e),
             e.kind = "reply" /\ Noted(m, e, saw, adv).awaiting
               => a \in Over(T, F) /\ Answered(p, Noted(m, e, saw, adv), a, e)
      PROVE  LET n == Interpreted(Noted(m, e, saw, adv), e, h, a)
             IN  n \in Over(T, F) /\ Turn(p, m, n, e, h)
  <2> DEFINE k == Noted(m, e, saw, adv)
             n == Interpreted(k, e, h, a)
  <2>1. /\ k \in Over(T, F)
        /\ k.requested = m.requested /\ k.accepted = m.accepted
        /\ k.fallback = m.fallback /\ k.violation = m.violation
        /\ k.awaiting = m.awaiting /\ k.tag = m.tag
        /\ k.advertised <=> m.advertised \/ adv
    BY <1>0
  <2> HIDE DEF k
  <2>a. e.kind = "reply" /\ k.awaiting => a \in Over(T, F) /\ Answered(p, k, a, e)
    BY <1>1 DEF k
  <2>2. n \in Over(T, F) /\ n.advertised = k.advertised /\ Step(p, k, n, e, h)
    BY <2>1, <2>a, InterpretedSteps
  <2> HIDE DEF n
  <2>3. Step(p, m, n, e, h)
    BY <2>1, <2>2 DEF Step
  <2>4. n.advertised <=> m.advertised \/ AdvertisesIn(p, e)
    BY <2>1, <2>2, <1>1
  <2> QED BY <2>2, <2>3, <2>4 DEF Turn, n, k
<1>2. /\ SmtpCapabilityReply(e) \in BOOLEAN /\ SmtpAdvertisement(e) \in BOOLEAN
      /\ ImapCapability(e) \in BOOLEAN /\ ImapAdvertisement(e) \in BOOLEAN
      /\ Pop3Advertisement(e) \in BOOLEAN
  BY DEF SmtpCapabilityReply, SmtpAdvertisement, ImapCapability, ImapAdvertisement,
         Pop3Advertisement, EventOver
<1>4. CASE p = "smtp"
  <2> DEFINE k == Noted(m, e, SmtpCapabilityReply(e), SmtpAdvertisement(e))
  <2>1. k \in Over(T, F)
    BY <1>0, <1>2
  <2>2. AdvertisesIn(p, e) = SmtpAdvertisement(e)
    BY <1>4 DEF AdvertisesIn
  <2>3. Upgrade(p, m, e, h) = Interpreted(k, e, h, NextReply(k, e))
    BY <1>4 DEF Upgrade, smtp_upgrade
  <2> QED BY <1>1, <1>2, <1>4, <2>1, <2>2, <2>3, NextReplyAnswers
<1>5. CASE p = "imap"
  <2> DEFINE k == Noted(m, e, ImapCapability(e), ImapAdvertisement(e))
  <2>1. k \in Over(T, F)
    BY <1>0, <1>2
  <2>2. AdvertisesIn(p, e) = ImapAdvertisement(e)
    BY <1>5 DEF AdvertisesIn
  <2>3. Upgrade(p, m, e, h) = Interpreted(k, e, h, TaggedReply(k, e))
    BY <1>5 DEF Upgrade, imap_upgrade
  <2> QED BY <1>1, <1>2, <1>5, <2>1, <2>2, <2>3, TaggedReplyAnswers
<1>6. CASE p = "pop3"
  <2> DEFINE k == Noted(m, e, ImapCapability(e), Pop3Advertisement(e))
  <2>1. k \in Over(T, F)
    BY <1>0, <1>2
  <2>2. AdvertisesIn(p, e) = Pop3Advertisement(e)
    BY <1>6 DEF AdvertisesIn
  <2>3. Upgrade(p, m, e, h) = Interpreted(k, e, h, NextReply(k, e))
    BY <1>6 DEF Upgrade, pop3_upgrade
  <2> QED BY <1>1, <1>2, <1>6, <2>1, <2>2, <2>3, NextReplyAnswers
<1> QED BY <1>4, <1>5, <1>6 DEF MailProtocol

-----------------------------------------------------------------------------
(* The loops over a transcript: each is the last of its turns.             *)

LEMMA LeastExists ==
  ASSUME NEW S \in SUBSET Nat, S # {}
  PROVE  \E m \in S : \A x \in S : m <= x
<1>1. PICK m \in S : \A x \in S : ~(<<x, m>> \in OpToRel(<, Nat))
  BY NatLessThanWellFounded, WFMin
<1>2. \A x \in S : ~(x < m)
  BY <1>1 DEF OpToRel
<1> QED BY <1>2

\* The machine reads the events one by one.
LEMMA MachineLoop ==
  ASSUME NEW p, NEW ev, NEW h, Len(ev) \in Nat
  PROVE  \E g : /\ g[0] = Start
                /\ \A n \in 1..Len(ev) : g[n] = Upgrade(p, g[n - 1], ev[n], h)
                /\ MachineAfter(p, ev, h) = g[Len(ev)]
<1> DEFINE N == Len(ev)
           Is(a, n) == /\ DOMAIN a = 0..n /\ a[0] = Start
                       /\ \A m \in 1..n : a[m] = Upgrade(p, a[m - 1], ev[m], h)
           Loop(a) == a = [n \in 0..N |-> IF n = 0 THEN Start
                                          ELSE Upgrade(p, a[n - 1], ev[n], h)]
           chosen == CHOOSE a : Loop(a)
<1>1. N \in Nat
  OBVIOUS
<1>2. MachineAfter(p, ev, h) = chosen[N]
  BY DEF MachineAfter, N
<1> HIDE DEF N
<1>3. \A n \in 0..N : \E a : Is(a, n)
  <2> DEFINE bad == {n \in 0..N : ~\E a : Is(a, n)}
  <2> SUFFICES ASSUME bad # {} PROVE FALSE
    OBVIOUS
  <2>1. bad \in SUBSET Nat
    BY <1>1
  <2>2. PICK n \in bad : \A x \in bad : n <= x
    <3> HIDE DEF bad
    <3> QED BY <2>1, LeastExists
  <2>3. n # 0
    <3> DEFINE a == [k \in 0..0 |-> Start]
    <3>1. 0 \in 0..0 /\ DOMAIN a = 0..0 /\ a[0] = Start
      OBVIOUS
    <3>2. \A m \in 1..0 : FALSE
      OBVIOUS
    <3> HIDE DEF a
    <3>3. Is(a, 0)
      BY <3>1, <3>2
    <3> QED BY <2>2, <3>3
  <2>4. n \in 0..N /\ n - 1 \in 0..N /\ ~(n <= n - 1)
    BY <1>1, <2>2, <2>3
  <2>5. PICK a : Is(a, n - 1)
    BY <2>2, <2>4
  <2> DEFINE y == Upgrade(p, a[n - 1], ev[n], h)
             c == [k \in 0..n |-> IF k = n THEN y ELSE a[k]]
  <2>6. Is(c, n)
    <3> HIDE DEF y
    <3>1. DOMAIN c = 0..n /\ c[0] = Start
      BY <2>3, <2>4, <2>5
    <3>2. ASSUME NEW m \in 1..n PROVE c[m] = Upgrade(p, c[m - 1], ev[m], h)
      <4>1. m \in 0..n /\ m - 1 \in 0..n /\ m - 1 # n
        BY <2>4
      <4>2. c[m - 1] = a[m - 1] /\ c[m] = IF m = n THEN y ELSE a[m]
        BY <4>1
      <4> HIDE DEF c
      <4>3. CASE m = n
        BY <4>2, <4>3 DEF y
      <4>4. CASE m # n
        <5>1. m \in 1..(n - 1)
          BY <2>4, <4>4
        <5>2. a[m] = Upgrade(p, a[m - 1], ev[m], h)
          BY <2>5, <5>1
        <5> QED BY <4>2, <4>4, <5>2
      <4> QED BY <4>3, <4>4
    <3> HIDE DEF c
    <3> QED BY <3>1, <3>2
  <2> QED BY <2>2, <2>6
<1>4. PICK b : Is(b, N)
  <2>1. N \in 0..N
    BY <1>1
  <2> HIDE DEF Is
  <2> QED BY <1>3, <2>1
<1> DEFINE d == [n \in 0..N |-> b[n]]
<1>5. Loop(d)
  <2>1. ASSUME NEW n \in 0..N
        PROVE  d[n] = IF n = 0 THEN Start ELSE Upgrade(p, d[n - 1], ev[n], h)
    <3>1. CASE n = 0
      BY <1>4, <3>1
    <3>2. CASE n # 0
      <4>1. n \in 1..N /\ n - 1 \in 0..N
        BY <1>1, <3>2
      <4>2. d[n] = b[n] /\ d[n - 1] = b[n - 1]
        BY <4>1
      <4> HIDE DEF d
      <4>3. b[n] = Upgrade(p, b[n - 1], ev[n], h)
        BY <1>4, <4>1
      <4> QED BY <3>2, <4>2, <4>3
    <3> QED BY <3>1, <3>2
  <2> QED BY <2>1
<1>6. Loop(chosen)
  <2> HIDE DEF Loop
  <2> QED BY <1>5
<1> HIDE DEF chosen
<1>7. chosen[0] = Start
  BY <1>1, <1>6
<1>8. ASSUME NEW n \in 1..N PROVE chosen[n] = Upgrade(p, chosen[n - 1], ev[n], h)
  <2>1. n \in 0..N /\ n # 0
    BY <1>1
  <2> QED BY <1>6, <2>1
<1> QED BY <1>2, <1>7, <1>8 DEF N

\* The transcript is kept event by event.
LEMMA BoundedLoop ==
  ASSUME NEW merged, Len(merged) \in Nat
  PROVE  \E g : /\ g[0] = << >>
                /\ \A n \in 1..Len(merged) : g[n] = KeepEvent(g[n - 1], merged[n])
                /\ Bounded(merged) = g[Len(merged)]
<1> DEFINE N == Len(merged)
           Is(a, n) == /\ DOMAIN a = 0..n /\ a[0] = << >>
                       /\ \A m \in 1..n : a[m] = KeepEvent(a[m - 1], merged[m])
           Loop(a) == a = [n \in 0..N |-> IF n = 0 THEN << >>
                                          ELSE KeepEvent(a[n - 1], merged[n])]
           chosen == CHOOSE a : Loop(a)
<1>1. N \in Nat
  OBVIOUS
<1>2. Bounded(merged) = chosen[N]
  BY DEF Bounded, N
<1> HIDE DEF N
<1>3. \A n \in 0..N : \E a : Is(a, n)
  <2> DEFINE bad == {n \in 0..N : ~\E a : Is(a, n)}
  <2> SUFFICES ASSUME bad # {} PROVE FALSE
    OBVIOUS
  <2>1. bad \in SUBSET Nat
    BY <1>1
  <2>2. PICK n \in bad : \A x \in bad : n <= x
    <3> HIDE DEF bad
    <3> QED BY <2>1, LeastExists
  <2>3. n # 0
    <3> DEFINE a == [k \in 0..0 |-> << >>]
    <3>1. 0 \in 0..0 /\ DOMAIN a = 0..0 /\ a[0] = << >>
      OBVIOUS
    <3>2. \A m \in 1..0 : FALSE
      OBVIOUS
    <3> HIDE DEF a
    <3>3. Is(a, 0)
      BY <3>1, <3>2
    <3> QED BY <2>2, <3>3
  <2>4. n \in 0..N /\ n - 1 \in 0..N /\ ~(n <= n - 1)
    BY <1>1, <2>2, <2>3
  <2>5. PICK a : Is(a, n - 1)
    BY <2>2, <2>4
  <2> DEFINE y == KeepEvent(a[n - 1], merged[n])
             c == [k \in 0..n |-> IF k = n THEN y ELSE a[k]]
  <2>6. Is(c, n)
    <3> HIDE DEF y
    <3>1. DOMAIN c = 0..n /\ c[0] = << >>
      BY <2>3, <2>4, <2>5
    <3>2. ASSUME NEW m \in 1..n PROVE c[m] = KeepEvent(c[m - 1], merged[m])
      <4>1. m \in 0..n /\ m - 1 \in 0..n /\ m - 1 # n
        BY <2>4
      <4>2. c[m - 1] = a[m - 1] /\ c[m] = IF m = n THEN y ELSE a[m]
        BY <4>1
      <4> HIDE DEF c
      <4>3. CASE m = n
        BY <4>2, <4>3 DEF y
      <4>4. CASE m # n
        <5>1. m \in 1..(n - 1)
          BY <2>4, <4>4
        <5>2. a[m] = KeepEvent(a[m - 1], merged[m])
          BY <2>5, <5>1
        <5> QED BY <4>2, <4>4, <5>2
      <4> QED BY <4>3, <4>4
    <3> HIDE DEF c
    <3> QED BY <3>1, <3>2
  <2> QED BY <2>2, <2>6
<1>4. PICK b : Is(b, N)
  <2>1. N \in 0..N
    BY <1>1
  <2> HIDE DEF Is
  <2> QED BY <1>3, <2>1
<1> DEFINE d == [n \in 0..N |-> b[n]]
<1>5. Loop(d)
  <2>1. ASSUME NEW n \in 0..N
        PROVE  d[n] = IF n = 0 THEN << >> ELSE KeepEvent(d[n - 1], merged[n])
    <3>1. CASE n = 0
      BY <1>4, <3>1
    <3>2. CASE n # 0
      <4>1. n \in 1..N /\ n - 1 \in 0..N
        BY <1>1, <3>2
      <4>2. d[n] = b[n] /\ d[n - 1] = b[n - 1]
        BY <4>1
      <4> HIDE DEF d
      <4>3. b[n] = KeepEvent(b[n - 1], merged[n])
        BY <1>4, <4>1
      <4> QED BY <3>2, <4>2, <4>3
    <3> QED BY <3>1, <3>2
  <2> QED BY <2>1
<1>6. Loop(chosen)
  <2> HIDE DEF Loop
  <2> QED BY <1>5
<1> HIDE DEF chosen
<1>7. chosen[0] = << >>
  BY <1>1, <1>6
<1>8. ASSUME NEW n \in 1..N PROVE chosen[n] = KeepEvent(chosen[n - 1], merged[n])
  <2>1. n \in 0..N /\ n # 0
    BY <1>1
  <2> QED BY <1>6, <2>1
<1> QED BY <1>2, <1>7, <1>8 DEF N

\* The TShark events are merged one by one.
LEMMA MergedLoop ==
  ASSUME NEW zs, NEW ts, Len(ts) \in Nat
  PROVE  \E g : /\ g[0] = [zeek |-> zs, extra |-> << >>]
                /\ \A n \in 1..Len(ts) : g[n] = MergeOne(g[n - 1], ts[n])
                /\ Merged(zs, ts) = g[Len(ts)]
<1> DEFINE N == Len(ts)
           Is(a, n) == /\ DOMAIN a = 0..n /\ a[0] = [zeek |-> zs, extra |-> << >>]
                       /\ \A m \in 1..n : a[m] = MergeOne(a[m - 1], ts[m])
           Loop(a) == a = [n \in 0..N |-> IF n = 0 THEN [zeek |-> zs, extra |-> << >>]
                                          ELSE MergeOne(a[n - 1], ts[n])]
           chosen == CHOOSE a : Loop(a)
<1>1. N \in Nat
  OBVIOUS
<1>2. Merged(zs, ts) = chosen[N]
  BY DEF Merged, N
<1> HIDE DEF N
<1>3. \A n \in 0..N : \E a : Is(a, n)
  <2> DEFINE bad == {n \in 0..N : ~\E a : Is(a, n)}
  <2> SUFFICES ASSUME bad # {} PROVE FALSE
    OBVIOUS
  <2>1. bad \in SUBSET Nat
    BY <1>1
  <2>2. PICK n \in bad : \A x \in bad : n <= x
    <3> HIDE DEF bad
    <3> QED BY <2>1, LeastExists
  <2>3. n # 0
    <3> DEFINE a == [k \in 0..0 |-> [zeek |-> zs, extra |-> << >>]]
    <3>1. 0 \in 0..0 /\ DOMAIN a = 0..0 /\ a[0] = [zeek |-> zs, extra |-> << >>]
      OBVIOUS
    <3>2. \A m \in 1..0 : FALSE
      OBVIOUS
    <3> HIDE DEF a
    <3>3. Is(a, 0)
      BY <3>1, <3>2
    <3> QED BY <2>2, <3>3
  <2>4. n \in 0..N /\ n - 1 \in 0..N /\ ~(n <= n - 1)
    BY <1>1, <2>2, <2>3
  <2>5. PICK a : Is(a, n - 1)
    BY <2>2, <2>4
  <2> DEFINE y == MergeOne(a[n - 1], ts[n])
             c == [k \in 0..n |-> IF k = n THEN y ELSE a[k]]
  <2>6. Is(c, n)
    <3> HIDE DEF y
    <3>1. DOMAIN c = 0..n /\ c[0] = [zeek |-> zs, extra |-> << >>]
      BY <2>3, <2>4, <2>5
    <3>2. ASSUME NEW m \in 1..n PROVE c[m] = MergeOne(c[m - 1], ts[m])
      <4>1. m \in 0..n /\ m - 1 \in 0..n /\ m - 1 # n
        BY <2>4
      <4>2. c[m - 1] = a[m - 1] /\ c[m] = IF m = n THEN y ELSE a[m]
        BY <4>1
      <4> HIDE DEF c
      <4>3. CASE m = n
        BY <4>2, <4>3 DEF y
      <4>4. CASE m # n
        <5>1. m \in 1..(n - 1)
          BY <2>4, <4>4
        <5>2. a[m] = MergeOne(a[m - 1], ts[m])
          BY <2>5, <5>1
        <5> QED BY <4>2, <4>4, <5>2
      <4> QED BY <4>3, <4>4
    <3> HIDE DEF c
    <3> QED BY <3>1, <3>2
  <2> QED BY <2>2, <2>6
<1>4. PICK b : Is(b, N)
  <2>1. N \in 0..N
    BY <1>1
  <2> HIDE DEF Is
  <2> QED BY <1>3, <2>1
<1> DEFINE d == [n \in 0..N |-> b[n]]
<1>5. Loop(d)
  <2>1. ASSUME NEW n \in 0..N
        PROVE  d[n] = IF n = 0 THEN [zeek |-> zs, extra |-> << >>] ELSE MergeOne(d[n - 1], ts[n])
    <3>1. CASE n = 0
      BY <1>4, <3>1
    <3>2. CASE n # 0
      <4>1. n \in 1..N /\ n - 1 \in 0..N
        BY <1>1, <3>2
      <4>2. d[n] = b[n] /\ d[n - 1] = b[n - 1]
        BY <4>1
      <4> HIDE DEF d
      <4>3. b[n] = MergeOne(b[n - 1], ts[n])
        BY <1>4, <4>1
      <4> QED BY <3>2, <4>2, <4>3
    <3> QED BY <3>1, <3>2
  <2> QED BY <2>1
<1>6. Loop(chosen)
  <2> HIDE DEF Loop
  <2> QED BY <1>5
<1> HIDE DEF chosen
<1>7. chosen[0] = [zeek |-> zs, extra |-> << >>]
  BY <1>1, <1>6
<1>8. ASSUME NEW n \in 1..N PROVE chosen[n] = MergeOne(chosen[n - 1], ts[n])
  <2>1. n \in 0..N /\ n # 0
    BY <1>1
  <2> QED BY <1>6, <2>1
<1> QED BY <1>2, <1>7, <1>8 DEF N

-----------------------------------------------------------------------------
(* A transcript that was cut.                                              *)

\* The flags of m are flags of n.
Below(m, n) ==
  /\ m.advertised => n.advertised
  /\ m.requested => n.requested
  /\ m.accepted => n.accepted
  /\ m.fallback => n.fallback
  /\ m.violation => n.violation

\* n is m, or m with an advertisement added.
Alike(m, n) ==
  /\ m.advertised => n.advertised
  /\ (m.requested <=> n.requested) /\ (m.accepted <=> n.accepted)
  /\ (m.fallback <=> n.fallback) /\ (m.violation <=> n.violation)
  /\ (m.awaiting <=> n.awaiting) /\ (m.awaiting => m.tag = n.tag)

\* The events say the same, in whatever frame.
SameEvent(e, f) ==
  /\ e.kind = f.kind /\ e.command = f.command /\ e.reply = f.reply
  /\ e.token = f.token /\ e.tag = f.tag

\* Machines that are alike stay alike when they read the same.
LEMMA TurnsAlike ==
  ASSUME NEW T, NEW F, NEW m \in Over(T, F), NEW n \in Over(T, F), Alike(m, n),
         NEW e, EventOver(e, T, F), NEW f, EventOver(f, T, F), SameEvent(e, f),
         NEW h \in BOOLEAN, NEW p \in MailProtocol
  PROVE  Alike(Upgrade(p, m, e, h), Upgrade(p, n, f, h))
<1> DEFINE a == Upgrade(p, m, e, h)
           b == Upgrade(p, n, f, h)
<1>1. Turn(p, m, a, e, h) /\ Turn(p, n, b, f, h)
  BY UpgradeTurns
<1> HIDE DEF a, b
<1>2. /\ IsRequest(e) <=> IsRequest(f)
      /\ IsCredential(e) <=> IsCredential(f)
      /\ Forbidden(e) <=> Forbidden(f)
      /\ Succeeds(e) <=> Succeeds(f)
      /\ e.kind = f.kind /\ e.tag = f.tag
  BY DEF SameEvent, IsRequest, IsCredential, Forbidden, Succeeds
<1>3. AdvertisesIn(p, e) => AdvertisesIn(p, f)
  BY DEF SameEvent, AdvertisesIn, SmtpAdvertisement, ImapAdvertisement, Pop3Advertisement,
         MailProtocol
<1>4. m.awaiting => (SettlesFor(p, m.tag, e) <=> SettlesFor(p, n.tag, f))
  BY <1>2 DEF Alike, SettlesFor, SameEvent
<1>5. a.advertised => b.advertised
  BY <1>1, <1>3 DEF Turn, Alike
<1>6. /\ a.requested <=> b.requested
      /\ a.accepted <=> b.accepted
      /\ a.fallback <=> b.fallback
      /\ a.violation <=> b.violation
      /\ a.awaiting <=> b.awaiting
  BY <1>1, <1>2, <1>4 DEF Turn, Step, Alike
<1>7. a.awaiting => a.tag = b.tag
  <2>1. CASE IsRequest(e)
    BY <1>1, <1>2, <2>1 DEF Turn, Step
  <2>2. CASE ~IsRequest(e)
    BY <1>1, <1>2, <1>6, <2>2 DEF Turn, Step, Alike
  <2> QED BY <2>1, <2>2
<1> QED BY <1>5, <1>6, <1>7 DEF Alike, a, b

\* A capability line only adds an advertisement.
LEMMA CapabilityAlike ==
  ASSUME NEW T, NEW F, NEW m, NEW n \in Over(T, F), Alike(m, n),
         NEW e, EventOver(e, T, F), e.kind = "capability",
         NEW h \in BOOLEAN, NEW p \in MailProtocol
  PROVE  Alike(m, Upgrade(p, n, e, h))
<1> DEFINE b == Upgrade(p, n, e, h)
<1>1. Turn(p, n, b, e, h)
  BY UpgradeTurns
<1> HIDE DEF b
<1>2. ~IsRequest(e) /\ ~IsCredential(e) /\ ~Forbidden(e) /\ ~SettlesFor(p, n.tag, e)
  BY DEF IsRequest, IsCredential, Forbidden, SettlesFor
<1>3. /\ n.advertised => b.advertised
      /\ b.requested <=> n.requested
      /\ b.accepted <=> n.accepted
      /\ b.fallback <=> n.fallback
      /\ b.violation <=> n.violation
      /\ b.awaiting <=> n.awaiting
      /\ b.awaiting => b.tag = n.tag
  BY <1>1, <1>2 DEF Turn, Step
<1> QED BY <1>3 DEF Alike, b

\* Reading on takes no flag back.
LEMMA FlagsRise ==
  ASSUME NEW T, NEW F, NEW m, NEW n \in Over(T, F), Below(m, n), NEW e, EventOver(e, T, F),
         NEW h \in BOOLEAN, NEW p \in MailProtocol
  PROVE  Below(m, Upgrade(p, n, e, h))
<1> DEFINE b == Upgrade(p, n, e, h)
<1>1. Turn(p, n, b, e, h)
  BY UpgradeTurns
<1> HIDE DEF b
<1> QED BY <1>1 DEF Turn, Step, Below, b

LEMMA AlikeIsBelow ==
  ASSUME NEW m, NEW n, Alike(m, n)
  PROVE  Below(m, n)
BY DEF Alike, Below

\* The more flags, the worse the verdict.
LEMMA BelowRanksLower ==
  ASSUME NEW T, NEW F, NEW m \in Over(T, F), NEW n \in Over(T, F), Below(m, n), NEW h
  PROVE  Rank(Verdict(m, h)) <= Rank(Verdict(n, h))
<1>1. ASSUME NEW k \in Over(T, F)
      PROVE  Rank(Verdict(k, h)) =
               IF k.violation THEN 5 ELSE IF k.fallback THEN 4 ELSE IF k.accepted THEN 3
               ELSE IF k.requested THEN 2 ELSE IF k.advertised THEN 1 ELSE 0
  BY DEF Rank, Verdict, None, Over
<1>2. /\ m.advertised => n.advertised
      /\ m.requested => n.requested
      /\ m.accepted => n.accepted
      /\ m.fallback => n.fallback
      /\ m.violation => n.violation
  BY DEF Below
<1> QED BY <1>1, <1>2

\* Reading a longer transcript is reading the shorter one and then the last event.
LEMMA MachineAppend ==
  ASSUME NEW E, NEW k \in Seq(E), NEW e \in E, NEW p, NEW h
  PROVE  MachineAfter(p, Append(k, e), h) = Upgrade(p, MachineAfter(p, k, h), e, h)
<1> DEFINE N == Len(k)
           l == Append(k, e)
<1>1. N \in Nat /\ Len(l) = N + 1 /\ l[N + 1] = e /\ \A n \in 1..N : l[n] = k[n]
  OBVIOUS
<1>2. PICK g : /\ g[0] = Start
               /\ \A n \in 1..Len(k) : g[n] = Upgrade(p, g[n - 1], k[n], h)
               /\ MachineAfter(p, k, h) = g[Len(k)]
  BY <1>1, MachineLoop
<1>3. PICK a : /\ a[0] = Start
               /\ \A n \in 1..Len(l) : a[n] = Upgrade(p, a[n - 1], l[n], h)
               /\ MachineAfter(p, l, h) = a[Len(l)]
  <2> HIDE DEF l
  <2> QED BY <1>1, MachineLoop
<1> HIDE DEF l
<1>4. ASSUME NEW j \in 0..N PROVE a[j] = g[j]
  <2> DEFINE bad == {n \in 0..N : a[n] # g[n]}
  <2> SUFFICES ASSUME bad # {} PROVE FALSE
    OBVIOUS
  <2>1. PICK n \in bad : \A x \in bad : n <= x
    <3>1. bad \in SUBSET Nat
      BY <1>1
    <3> HIDE DEF bad
    <3> QED BY <3>1, LeastExists
  <2>2. n \in 0..N /\ a[n] # g[n] /\ n # 0
    BY <1>2, <1>3, <2>1
  <2>3. n \in 1..N /\ n \in 1..Len(l) /\ n - 1 \in 0..N /\ ~(n <= n - 1)
    BY <1>1, <2>2
  <2>4. a[n - 1] = g[n - 1]
    BY <2>1, <2>3
  <2>5. a[n] = Upgrade(p, a[n - 1], l[n], h) /\ l[n] = k[n]
    BY <1>1, <1>3, <2>3
  <2>6. g[n] = Upgrade(p, g[n - 1], k[n], h)
    BY <1>2, <2>3
  <2> QED BY <2>2, <2>4, <2>5, <2>6
<1>5. a[N + 1] = Upgrade(p, a[N], e, h)
  <2>1. N + 1 \in 1..Len(l) /\ (N + 1) - 1 = N
    BY <1>1
  <2>2. a[N + 1] = Upgrade(p, a[(N + 1) - 1], l[N + 1], h)
    BY <1>3, <2>1
  <2> QED BY <1>1, <2>1, <2>2
<1>6. a[N] = g[N]
  BY <1>1, <1>4
<1> QED BY <1>1, <1>2, <1>3, <1>5, <1>6 DEF l

\* The machine of the kept events shows no flag that the machine of all of them does not:
\* what was dropped is a repeated capability line or stands behind the cut (the loop over
\* merged events in normalize_sessions).
LEMMA CutIsBelow ==
  ASSUME NEW E, NEW merged, Len(merged) \in Nat, NEW T, NEW F,
         \A k \in 1..Len(merged) : merged[k].event \in E,
         \A e \in E : EventOver(e, T, F),
         NEW whole, Len(whole) = Len(merged),
         \A k \in 1..Len(merged) : whole[k] = merged[k].event,
         NEW h \in BOOLEAN, NEW p \in MailProtocol, NoTag \in T
  PROVE  /\ MachineAfter(p, Bounded(merged), h) \in Over(T, F)
         /\ MachineAfter(p, whole, h) \in Over(T, F)
         /\ Below(MachineAfter(p, Bounded(merged), h), MachineAfter(p, whole, h))
<1> DEFINE N == Len(merged)
           M(k) == MachineAfter(p, k, h)
<1>1. N \in Nat /\ N \in 0..N
  OBVIOUS
<1>2. PICK k : /\ k[0] = << >>
               /\ \A n \in 1..N : k[n] = KeepEvent(k[n - 1], merged[n])
               /\ Bounded(merged) = k[N]
  BY BoundedLoop
<1>3. PICK w : /\ w[0] = Start
               /\ \A n \in 1..N : w[n] = Upgrade(p, w[n - 1], whole[n], h)
               /\ M(whole) = w[N]
  BY MachineLoop
<1> DEFINE J(n) == /\ k[n] \in Seq(E) /\ M(k[n]) \in Over(T, F) /\ w[n] \in Over(T, F)
                   /\ Below(M(k[n]), w[n])
                   /\ Len(k[n]) < SessionBound => Alike(M(k[n]), w[n])
<1>4. J(0)
  <2>1. M(<< >>) = Start
    <3>1. Len(<< >>) = 0 /\ Len(<< >>) \in Nat
      OBVIOUS
    <3>2. PICK g : g[0] = Start /\ M(<< >>) = g[Len(<< >>)]
      BY <3>1, MachineLoop
    <3> QED BY <3>1, <3>2
  <2>2. Start \in Over(T, F)
    BY DEF Start, Over
  <2>3. Alike(Start, Start) /\ Below(Start, Start)
    BY DEF Alike, Below
  <2>4. << >> \in Seq(E)
    OBVIOUS
  <2> HIDE DEF M
  <2> QED BY <1>2, <1>3, <2>1, <2>2, <2>3, <2>4
<1>5. ASSUME NEW n \in 1..N, J(n - 1) PROVE J(n)
  <2> DEFINE a == k[n - 1]
             v == w[n - 1]
             e == merged[n].event
             b == Upgrade(p, v, e, h)
  <2>1. /\ a \in Seq(E) /\ M(a) \in Over(T, F) /\ v \in Over(T, F) /\ Below(M(a), v)
        /\ Len(a) < SessionBound => Alike(M(a), v)
    BY <1>5
  <2>2. e \in E /\ EventOver(e, T, F) /\ w[n] = b /\ k[n] = KeepEvent(a, merged[n])
    BY <1>2, <1>3
  <2> HIDE DEF M, a, v, e
  <2>3. b \in Over(T, F) /\ Below(M(a), b)
    BY <2>1, <2>2, UpgradeTurns, FlagsRise
  <2> HIDE DEF b
  <2>4. \/ k[n] = a /\ e.kind = "capability"
        \/ k[n] = a /\ Len(a) >= SessionBound
        \/ k[n] = Append(a, e) /\ ~(Len(a) >= SessionBound)
    BY <2>2 DEF KeepEvent, is_duplicate_capability, e
  <2>5. CASE k[n] = a /\ e.kind = "capability"
    <3>1. Alike(M(a), v) => Alike(M(a), b)
      BY <2>1, <2>2, <2>5, CapabilityAlike DEF b
    <3> QED BY <2>1, <2>2, <2>3, <2>5, <3>1
  <2>6. CASE k[n] = a /\ Len(a) >= SessionBound
    <3>1. ~(Len(a) < SessionBound)
      <4>1. Len(a) \in Nat
        BY <2>1
      <4> QED BY <2>6, <4>1, LimitAssumption
    <3> QED BY <2>1, <2>2, <2>3, <2>6, <3>1
  <2>7. CASE k[n] = Append(a, e) /\ ~(Len(a) >= SessionBound)
    <3>1. Alike(M(a), v)
      <4>1. Len(a) \in Nat
        BY <2>1
      <4> QED BY <2>1, <2>7, <4>1, LimitAssumption
    <3>2. M(k[n]) = Upgrade(p, M(a), e, h)
      BY <2>1, <2>2, <2>7, MachineAppend DEF M
    <3>3. M(k[n]) \in Over(T, F)
      BY <2>1, <2>2, <3>2, UpgradeTurns
    <3>4. SameEvent(e, e)
      BY DEF SameEvent
    <3>5. Alike(M(k[n]), b)
      BY <2>1, <2>2, <3>1, <3>2, <3>4, TurnsAlike DEF b
    <3>6. k[n] \in Seq(E)
      BY <2>1, <2>2, <2>7
    <3> QED BY <2>2, <2>3, <3>3, <3>5, <3>6, AlikeIsBelow
  <2> QED BY <2>4, <2>5, <2>6, <2>7
<1>6. ASSUME NEW j \in 0..N PROVE J(j)
  <2> DEFINE bad == {n \in 0..N : ~J(n)}
  <2> HIDE DEF J
  <2> SUFFICES ASSUME bad # {} PROVE FALSE
    OBVIOUS
  <2>1. PICK n \in bad : \A x \in bad : n <= x
    <3>1. bad \in SUBSET Nat
      BY <1>1
    <3> HIDE DEF bad
    <3> QED BY <3>1, LeastExists
  <2>2. n \in 0..N /\ ~J(n) /\ n # 0
    BY <1>4, <2>1
  <2>3. n \in 1..N /\ n - 1 \in 0..N /\ ~(n <= n - 1)
    BY <1>1, <2>2
  <2>4. J(n - 1)
    BY <2>1, <2>3
  <2> QED BY <1>5, <2>2, <2>3, <2>4
<1>7. J(N)
  BY <1>1, <1>6
<1> QED BY <1>2, <1>3, <1>7

-----------------------------------------------------------------------------
(* Sorting a transcript.                                                   *)

\* p[k] is the place in s of the item that comes k-th.
Arranges(p, s) ==
  /\ p \in [DOMAIN s -> DOMAIN s]
  /\ \A k, l \in DOMAIN s : p[k] = p[l] => k = l
  /\ \A i \in DOMAIN s : \E k \in DOMAIN s : p[k] = i
  /\ \A k, l \in DOMAIN s : k < l => s[p[k]].ts <= s[p[l]].ts

Arrangement(s) == [k \in DOMAIN s |-> CHOOSE i \in DOMAIN s : Place(s, i) = k]

\* An item that comes before another has fewer items before it, so that every item has
\* a place of its own and every place its item: sorting by time and order loses nothing.
LEMMA SortArranges ==
  ASSUME NEW N \in Nat, NEW s, DOMAIN s = 1..N,
         \A i \in 1..N : s[i].ts \in Int /\ s[i].order \in Int
  PROVE  /\ Arranges(Arrangement(s), s)
         /\ DOMAIN Sorted(s) = 1..N
         /\ \A k \in 1..N : Sorted(s)[k] = s[Arrangement(s)[k]]
<1> DEFINE D == 1..N
           below(i) == {j \in D : Before(s, j, i)}
           c(i) == Cardinality(below(i))
           f == [i \in D |-> Place(s, i)]
           p == Arrangement(s)
<1>1. /\ \A i \in D : ~Before(s, i, i)
      /\ \A i, j \in D : i # j => Before(s, i, j) \/ Before(s, j, i)
      /\ \A i, j, k \in D : Before(s, i, j) /\ Before(s, j, k) => Before(s, i, k)
      /\ \A i, j \in D : ~Before(s, i, j) => s[j].ts <= s[i].ts
  BY DEF Before
<1>2. IsFiniteSet(D) /\ Cardinality(D) = N
  BY FS_Interval
<1>3. ASSUME NEW i \in D PROVE Place(s, i) \in D /\ Place(s, i) = c(i) + 1 /\ c(i) \in Nat
  <2>1. below(i) \in SUBSET (D \ {i}) /\ D \ {i} \in SUBSET D
    BY <1>1
  <2> HIDE DEF below
  <2>2. IsFiniteSet(D \ {i}) /\ Cardinality(D \ {i}) = N - 1
    BY <1>2, FS_RemoveElement
  <2>3. IsFiniteSet(below(i)) /\ c(i) <= N - 1
    BY <2>1, <2>2, FS_Subset
  <2>4. c(i) \in Nat
    BY <2>3, FS_CardinalityType
  <2>5. Place(s, i) = c(i) + 1
    BY DEF Place, below
  <2> HIDE DEF c
  <2> QED BY <2>3, <2>4, <2>5
<1>4. ASSUME NEW i \in D, NEW j \in D, Before(s, i, j) PROVE Place(s, i) < Place(s, j)
  <2>1. below(i) \in SUBSET below(j) /\ below(i) # below(j) /\ below(j) \in SUBSET D
    BY <1>1, <1>4
  <2>2. c(i) \in Nat /\ c(j) \in Nat /\ Place(s, i) = c(i) + 1 /\ Place(s, j) = c(j) + 1
    BY <1>3
  <2> HIDE DEF below
  <2>3. IsFiniteSet(below(j))
    BY <1>2, <2>1, FS_Subset
  <2>4. c(i) <= c(j) /\ c(i) # c(j)
    BY <2>1, <2>3, FS_Subset
  <2> HIDE DEF c
  <2> QED BY <2>2, <2>4
<1>5. f \in Injection(D, D)
  <2>1. f \in [D -> D]
    BY <1>3
  <2>2. ASSUME NEW i \in D, NEW j \in D, f[i] = f[j] PROVE i = j
    <3>1. Place(s, i) = Place(s, j) /\ Place(s, i) \in D
      BY <1>3, <2>2
    <3>2. ~Before(s, i, j) /\ ~Before(s, j, i)
      BY <1>4, <3>1
    <3> QED BY <1>1, <3>2
  <2> HIDE DEF f
  <2> QED BY <2>1, <2>2 DEF Injection, IsInjective
<1>6. f \in Surjection(D, D)
  <2> HIDE DEF f, D
  <2> QED BY <1>2, <1>5, FS_Injection
<1>7. ASSUME NEW k \in D PROVE \E i \in D : Place(s, i) = k
  <2>1. \E i \in D : f[i] = k
    <3> HIDE DEF f, D
    <3> QED BY <1>6, <1>7 DEF Surjection
  <2> QED BY <2>1
<1>8. ASSUME NEW k \in D PROVE p[k] \in D /\ Place(s, p[k]) = k
  <2>1. p[k] = CHOOSE i \in D : Place(s, i) = k
    BY DEF Arrangement
  <2> HIDE DEF p
  <2> QED BY <1>7, <2>1
<1>9. p \in [D -> D]
  <2>1. DOMAIN p = D /\ p = [k \in D |-> p[k]]
    BY DEF Arrangement
  <2> HIDE DEF p
  <2> QED BY <1>8, <2>1
<1>10. /\ DOMAIN Sorted(s) = D
       /\ \A k \in D : Sorted(s)[k] = s[p[k]]
  BY DEF Sorted, Arrangement
<1> HIDE DEF p
<1>11. \A k, l \in D : p[k] = p[l] => k = l
  <2> SUFFICES ASSUME NEW k \in D, NEW l \in D, p[k] = p[l] PROVE k = l
    OBVIOUS
  <2>1. k = Place(s, p[k]) /\ l = Place(s, p[l])
    BY <1>8
  <2> QED BY <2>1
<1>12. ASSUME NEW i \in D PROVE \E k \in D : p[k] = i
  <2> DEFINE k == Place(s, i)
  <2>1. k \in D
    BY <1>3
  <2>2. Place(s, p[k]) = Place(s, i) /\ p[k] \in D
    BY <1>8, <2>1
  <2>3. p[k] = i
    <3>1. f[p[k]] = f[i]
      BY <2>2
    <3> HIDE DEF f, k
    <3> QED BY <1>5, <2>2, <3>1 DEF Injection, IsInjective
  <2> QED BY <2>1, <2>3
<1>13. ASSUME NEW k \in D, NEW l \in D, k < l PROVE s[p[k]].ts <= s[p[l]].ts
  <2>1. Place(s, p[k]) = k /\ Place(s, p[l]) = l /\ p[k] \in D /\ p[l] \in D
    BY <1>8
  <2>2. ~Before(s, p[l], p[k])
    BY <1>4, <1>13, <2>1
  <2> QED BY <1>1, <2>1, <2>2
<1>14. Arranges(p, s)
  BY <1>9, <1>11, <1>12, <1>13 DEF Arranges
<1> QED BY <1>10, <1>14 DEF p

-----------------------------------------------------------------------------
(* What the two sources leave for a connection.                            *)

SessionEvent ==
  [kind : SessionEventKind, command : Commands, reply : Replies, token : BOOLEAN,
   dir : {"orig", "resp"}, tag : Tags \cup {NoTag}, frame : Nat]

StampedEvent == [ts : Int, order : Nat, event : SessionEvent, matched : BOOLEAN]

FromZeek(x) == ~x.matched /\ x.event.frame = NoFrame /\ x.event.tag = NoTag

FromTShark(x) ==
  /\ ~x.matched /\ x.event.kind \in {"request", "reply"}
  /\ x.event.kind = "request" => x.event.command # None

DistinctOrders(s) == \A i, j \in DOMAIN s : s[i].order = s[j].order => i = j

DistinctFrames(s) ==
  \A i, j \in DOMAIN s : s[i].event.frame = s[j].event.frame => i = j \/ s[i].event.frame = NoFrame

\* The stamps of a connection: zs from Zeek's rows, ts from TShark's frames.
StampsFit(zs, ts) ==
  /\ zs \in Seq(StampedEvent) /\ ts \in Seq(StampedEvent)
  /\ \A i \in DOMAIN zs : FromZeek(zs[i])
  /\ \A i \in DOMAIN ts : FromTShark(ts[i])
  /\ DistinctOrders(zs) /\ DistinctOrders(ts) /\ DistinctFrames(ts)
  /\ \A i \in DOMAIN zs, j \in DOMAIN ts : zs[i].order # ts[j].order

Earlier(zs, ts, n, f) ==
  /\ \A i \in DOMAIN zs : zs[i].order < n
  /\ \A i \in DOMAIN ts : ts[i].order < n /\ ts[i].event.frame <= f

\* Every event has a stamp and every numbered frame a number of its own, below the next.
StampInv ==
  /\ order \in Nat /\ frameCount \in Nat
  /\ DOMAIN zeek = Uids /\ DOMAIN tshark = Uids
  /\ \A u \in Uids : StampsFit(zeek[u], tshark[u]) /\ Earlier(zeek[u], tshark[u], order, frameCount)

LEMMA StampTypes ==
  ASSUME NEW s \in Seq(StampedEvent), NEW i \in DOMAIN s
  PROVE  /\ s[i] \in StampedEvent /\ s[i].ts \in Int /\ s[i].order \in Nat
         /\ s[i].event \in SessionEvent /\ s[i].event.frame \in Nat
<1>1. s[i] \in StampedEvent
  OBVIOUS
<1> QED BY <1>1 DEF StampedEvent, SessionEvent

\* One more row, with the next stamp.
LEMMA OneMoreRow ==
  ASSUME StampInv, NEW zs, NEW ts, StampsFit(zs, ts), Earlier(zs, ts, order, frameCount),
         NEW x \in StampedEvent, FromZeek(x), x.order = order
  PROVE  /\ StampsFit(Append(zs, x), ts)
         /\ \A i \in DOMAIN Append(zs, x) : Append(zs, x)[i].order < order + 1
<1>1. zs \in Seq(StampedEvent) /\ order \in Nat
  BY DEF StampsFit, StampInv
<1> DEFINE l == Append(zs, x)
           N == Len(zs)
<1>2. /\ l \in Seq(StampedEvent) /\ DOMAIN l = 1..(N + 1) /\ DOMAIN zs = 1..N /\ N \in Nat
      /\ l[N + 1] = x /\ \A i \in 1..N : l[i] = zs[i]
  BY <1>1
<1>3. \A i \in 1..N : zs[i].order \in Nat /\ zs[i].order < order
  BY <1>1, <1>2, StampTypes DEF Earlier
<1>4. \A j \in DOMAIN ts : ts[j].order < order
  BY DEF Earlier
<1> HIDE DEF l, N
<1>5. \A i \in DOMAIN l : i = N + 1 \/ i \in 1..N
  BY <1>2
<1>6. \A i \in DOMAIN l : FromZeek(l[i]) /\ l[i].order < order + 1
  BY <1>1, <1>2, <1>3, <1>5 DEF StampsFit
<1>7. DistinctOrders(l)
  BY <1>1, <1>2, <1>3, <1>5 DEF StampsFit, DistinctOrders
<1>8. \A i \in DOMAIN l, j \in DOMAIN ts : l[i].order # ts[j].order
  BY <1>1, <1>2, <1>4, <1>5 DEF StampsFit
<1> QED BY <1>2, <1>6, <1>7, <1>8 DEF StampsFit, l

\* One more frame, with the next stamp and the next number or none.
LEMMA OneMoreFrame ==
  ASSUME StampInv, NEW zs, NEW ts, StampsFit(zs, ts), Earlier(zs, ts, order, frameCount),
         NEW x \in StampedEvent, FromTShark(x), x.order = order,
         x.event.frame \in {NoFrame, frameCount + 1}
  PROVE  /\ StampsFit(zs, Append(ts, x))
         /\ \A i \in DOMAIN Append(ts, x) :
              Append(ts, x)[i].order < order + 1 /\ Append(ts, x)[i].event.frame <= frameCount + 1
<1>1. ts \in Seq(StampedEvent) /\ order \in Nat /\ frameCount \in Nat
  BY DEF StampsFit, StampInv
<1> DEFINE l == Append(ts, x)
           N == Len(ts)
<1>2. /\ l \in Seq(StampedEvent) /\ DOMAIN l = 1..(N + 1) /\ DOMAIN ts = 1..N /\ N \in Nat
      /\ l[N + 1] = x /\ \A i \in 1..N : l[i] = ts[i]
  BY <1>1
<1>3. \A i \in 1..N : /\ ts[i].order \in Nat /\ ts[i].order < order
                      /\ ts[i].event.frame \in Nat /\ ts[i].event.frame <= frameCount
  BY <1>1, <1>2, StampTypes DEF Earlier
<1>4. \A j \in DOMAIN zs : zs[j].order < order
  BY DEF Earlier
<1> HIDE DEF l, N
<1>5. \A i \in DOMAIN l : i = N + 1 \/ i \in 1..N
  BY <1>2
<1>6. \A i \in DOMAIN l : FromTShark(l[i]) /\ l[i].order < order + 1
  BY <1>1, <1>2, <1>3, <1>5 DEF StampsFit
<1>7. \A i \in DOMAIN l : l[i].event.frame <= frameCount + 1
  BY <1>1, <1>2, <1>3, <1>5 DEF NoFrame
<1>8. DistinctOrders(l)
  BY <1>1, <1>2, <1>3, <1>5 DEF StampsFit, DistinctOrders
<1>9. DistinctFrames(l)
  BY <1>1, <1>2, <1>3, <1>5 DEF StampsFit, DistinctFrames
<1>10. \A i \in DOMAIN zs, j \in DOMAIN l : zs[i].order # l[j].order
  BY <1>1, <1>2, <1>4, <1>5 DEF StampsFit
<1> QED BY <1>2, <1>6, <1>7, <1>8, <1>9, <1>10 DEF StampsFit, l

\* A row is stamped and kept with its connection (the first loop of normalize_sessions).
LEMMA RowKeepsStamps ==
  ASSUME StampInv, NEW row \in Rows, ReadRow(row)
  PROVE  StampInv'
<1> DEFINE u == row.uid
           x == Stamped(row.ts, order, row.event)
<1>1. /\ u \in Uids /\ zeek' = [zeek EXCEPT ![u] = Append(@, x)] /\ order' = order + 1
      /\ tshark' = tshark /\ frameCount' = frameCount
  BY DEF ReadRow
<1>2. x \in StampedEvent /\ FromZeek(x) /\ x.order = order
  <2>1. row.ts \in Int /\ row.event.frame = NoFrame /\ row.event.tag = NoTag
    BY RowAssumption
  <2>2. row.event \in SessionEvent
    <3>1. NoFrame \in Nat
      BY DEF NoFrame
    <3> QED BY <3>1, RowAssumption DEF SessionEvent
  <2>3. order \in Nat
    BY DEF StampInv
  <2> QED BY <2>1, <2>2, <2>3 DEF Stamped, StampedEvent, FromZeek
<1> HIDE DEF x
<1>3. order \in Nat /\ frameCount \in Nat /\ DOMAIN zeek = Uids /\ DOMAIN tshark = Uids
  BY DEF StampInv
<1>4. DOMAIN zeek' = Uids /\ zeek'[u] = Append(zeek[u], x) /\ \A v \in Uids : v # u => zeek'[v] = zeek[v]
  BY <1>1, <1>3
<1>5. ASSUME NEW v \in Uids
      PROVE  StampsFit(zeek'[v], tshark[v]) /\ Earlier(zeek'[v], tshark[v], order', frameCount')
  <2>1. StampsFit(zeek[v], tshark[v]) /\ Earlier(zeek[v], tshark[v], order, frameCount)
    BY DEF StampInv
  <2>2. /\ \A i \in DOMAIN zeek[v] : zeek[v][i].order \in Nat
        /\ \A i \in DOMAIN tshark[v] : tshark[v][i].order \in Nat
    BY <2>1, StampTypes DEF StampsFit
  <2>3. \A i \in DOMAIN tshark[v] : tshark[v][i].order < order' /\ tshark[v][i].event.frame <= frameCount'
    BY <1>1, <1>3, <2>1, <2>2 DEF Earlier
  <2>4. CASE v = u
    <3>1. /\ StampsFit(zeek'[v], tshark[v])
          /\ \A i \in DOMAIN zeek'[v] : zeek'[v][i].order < order'
      BY <1>1, <1>2, <1>4, <2>1, <2>4, OneMoreRow
    <3> QED BY <1>1, <2>3, <3>1 DEF Earlier
  <2>5. CASE v # u
    <3>1. \A i \in DOMAIN zeek[v] : zeek[v][i].order < order'
      BY <1>1, <1>3, <2>1, <2>2 DEF Earlier
    <3> QED BY <1>1, <1>4, <2>1, <2>3, <2>5, <3>1 DEF Earlier
  <2> QED BY <2>4, <2>5
<1> QED BY <1>1, <1>3, <1>4, <1>5 DEF StampInv

\* A decoded frame is a request or a reply; a request has its command
\* (_protocol_event_from_tshark).
LEMMA DecodedFrame ==
  ASSUME NEW frame \in FrameShapes, NEW n \in Nat,
         NEW p, p = tshark_protocol(frame), tshark_event(frame, p, n) # NoEvent
  PROVE  LET e == tshark_event(frame, p, n)
         IN  /\ e \in SessionEvent /\ e.frame = n /\ e.kind \in {"request", "reply"}
             /\ e.kind = "request" => e.command # None
<1>1. p \in MailProtocol
  <2>1. p \in MailProtocol \/ p = None
    BY DEF tshark_protocol, MailProtocol
  <2>2. p = None => tshark_event(frame, p, n) = NoEvent
    BY DEF tshark_event
  <2> QED BY <2>1, <2>2
<1>2. p # None
  BY <1>1 DEF MailProtocol, None
<1> DEFINE tag == IF p = "imap" THEN frame.tag ELSE NoTag
           command == IF p = "smtp" /\ frame.request[p] = "star" THEN "starttls" ELSE frame.request[p]
<1>3. tag \in Tags \cup {NoTag}
  BY FrameAssumption
<1>4. /\ frame.request[p] \in Commands \cup (IF p = "smtp" THEN {"star"} ELSE {})
      /\ frame.reply[p] \in Replies \cup (IF p = "smtp" THEN {"not_a_code"} ELSE {})
  BY <1>1, FrameAssumption
<1>5. CASE frame.request[p] # None
  <2>1. tshark_event(frame, p, n) =
          [kind |-> "request", command |-> command, reply |-> None, token |-> FALSE,
           dir |-> "orig", tag |-> tag, frame |-> n]
    BY <1>2, <1>5 DEF tshark_event
  <2>2. command \in Commands /\ command # None
    BY <1>4, <1>5 DEF Commands, None
  <2>3. None \in Replies /\ "request" \in SessionEventKind
    BY DEF Replies, SessionEventKind
  <2> HIDE DEF tag, command
  <2> QED BY <1>3, <2>1, <2>2, <2>3 DEF SessionEvent
<1>6. CASE frame.request[p] = None
  <2>1. frame.reply[p] # "not_a_code"
    BY <1>2, <1>6 DEF tshark_event
  <2>2. tshark_event(frame, p, n) =
          [kind |-> "reply", command |-> None, reply |-> frame.reply[p], token |-> FALSE,
           dir |-> "resp", tag |-> tag, frame |-> n]
    BY <1>2, <1>6, <2>1 DEF tshark_event
  <2>3. frame.reply[p] \in Replies
    BY <1>4, <2>1
  <2>4. None \in Commands /\ "reply" \in SessionEventKind
    BY DEF Commands, SessionEventKind
  <2> HIDE DEF tag
  <2> QED BY <1>3, <2>2, <2>3, <2>4 DEF SessionEvent
<1> QED BY <1>5, <1>6

\* A frame is numbered, and stamped if it has a mail event (the second loop of
\* normalize_sessions).
LEMMA FrameKeepsStamps ==
  ASSUME StampInv, NEW frame \in FrameShapes, ReadFrame(frame)
  PROVE  StampInv'
<1> DEFINE n == IF frame.numbered THEN frameCount + 1 ELSE NoFrame
           p == tshark_protocol(frame)
           e == tshark_event(frame, p, n)
           x == Stamped(frame.ts, order, e)
<1>1. order \in Nat /\ frameCount \in Nat /\ DOMAIN zeek = Uids /\ DOMAIN tshark = Uids
  BY DEF StampInv
<1>2. n \in Nat /\ n \in {NoFrame, frameCount + 1}
  BY <1>1 DEF NoFrame
<1>3. PICK u \in Uids :
        /\ tshark' = IF e = NoEvent THEN tshark ELSE [tshark EXCEPT ![u] = Append(@, x)]
        /\ order' = IF e = NoEvent THEN order ELSE order + 1
  BY DEF ReadFrame, match_frame_uid
<1>4. zeek' = zeek /\ frameCount' = frameCount + 1
  BY DEF ReadFrame
<1>5. ASSUME e # NoEvent
      PROVE  /\ x \in StampedEvent /\ FromTShark(x) /\ x.order = order
             /\ x.event.frame \in {NoFrame, frameCount + 1}
  <2>1. /\ e \in SessionEvent /\ e.frame = n /\ e.kind \in {"request", "reply"}
        /\ e.kind = "request" => e.command # None
    <3> HIDE DEF n
    <3> QED BY <1>2, <1>5, DecodedFrame
  <2>2. frame.ts \in Int
    BY FrameAssumption
  <2> HIDE DEF e, n
  <2> QED BY <1>1, <1>2, <2>1, <2>2 DEF Stamped, StampedEvent, FromTShark
<1> HIDE DEF e, x, n
<1>6. order' \in Nat /\ order <= order' /\ frameCount' \in Nat
  BY <1>1, <1>3, <1>4
<1>7. DOMAIN tshark' = Uids
  BY <1>1, <1>3
<1>8. ASSUME NEW v \in Uids
      PROVE  StampsFit(zeek[v], tshark'[v]) /\ Earlier(zeek[v], tshark'[v], order', frameCount')
  <2>1. StampsFit(zeek[v], tshark[v]) /\ Earlier(zeek[v], tshark[v], order, frameCount)
    BY DEF StampInv
  <2>2. /\ \A i \in DOMAIN zeek[v] : zeek[v][i].order \in Nat
        /\ \A i \in DOMAIN tshark[v] : tshark[v][i].order \in Nat /\ tshark[v][i].event.frame \in Nat
    BY <2>1, StampTypes DEF StampsFit
  <2>3. /\ \A i \in DOMAIN zeek[v] : zeek[v][i].order < order'
        /\ \A i \in DOMAIN tshark[v] : tshark[v][i].order < order' /\ tshark[v][i].event.frame <= frameCount'
    BY <1>1, <1>4, <1>6, <2>1, <2>2 DEF Earlier
  <2>4. CASE e # NoEvent /\ v = u
    <3>1. tshark'[v] = Append(tshark[v], x) /\ order' = order + 1
      BY <1>1, <1>3, <2>4
    <3>2. /\ StampsFit(zeek[v], Append(tshark[v], x))
          /\ \A i \in DOMAIN Append(tshark[v], x) :
               /\ Append(tshark[v], x)[i].order < order + 1
               /\ Append(tshark[v], x)[i].event.frame <= frameCount + 1
      BY <1>5, <2>1, <2>4, OneMoreFrame
    <3> QED BY <1>4, <2>3, <3>1, <3>2 DEF Earlier
  <2>5. CASE e = NoEvent \/ v # u
    <3>1. tshark'[v] = tshark[v]
      BY <1>1, <1>3, <2>5
    <3> QED BY <1>4, <2>1, <2>3, <3>1 DEF Earlier
  <2> QED BY <2>4, <2>5
<1> QED BY <1>1, <1>4, <1>6, <1>7, <1>8 DEF StampInv

\* Every step keeps the stamps.
LEMMA StampStep == StampInv /\ [Next]_vars => StampInv'
<1> SUFFICES ASSUME StampInv, [Next]_vars PROVE StampInv'
  OBVIOUS
<1>1. CASE \E row \in Rows : ReadRow(row)
  BY <1>1, RowKeepsStamps
<1>2. CASE \E frame \in FrameShapes : ReadFrame(frame)
  BY <1>2, FrameKeepsStamps
<1>3. CASE UNCHANGED <<zeek, tshark, order, frameCount>>
  BY <1>3 DEF StampInv, Earlier
<1>4. CASE FirstPass
  BY <1>3, <1>4 DEF FirstPass, Unread
<1>5. CASE \E frame \in FrameShapes : SkipFrame(frame)
  <2>1. UNCHANGED <<zeek, tshark, order>> /\ frameCount' = frameCount + 1
    BY <1>5 DEF SkipFrame
  <2>2. \A u \in Uids : StampsFit(zeek[u], tshark[u]) /\ Earlier(zeek[u], tshark[u], order, frameCount)
    BY DEF StampInv
  <2>3. \A u \in Uids : \A i \in DOMAIN tshark[u] : tshark[u][i].event.frame \in Nat
    BY <2>2, StampTypes DEF StampsFit
  <2>4. \A u \in Uids : \A i \in DOMAIN tshark[u] : tshark[u][i].event.frame <= frameCount'
    BY <2>1, <2>2, <2>3 DEF Earlier, StampInv
  <2> QED BY <2>1, <2>2, <2>4 DEF StampInv, Earlier
<1>6. CASE SecondPass
  BY <1>3, <1>6 DEF SecondPass, Unread
<1>7. CASE TSharkFails
  BY <1>3, <1>7 DEF TSharkFails, Unread
<1>8. CASE UNCHANGED vars
  BY <1>3, <1>8 DEF vars
<1> QED BY <1>1, <1>2, <1>4, <1>5, <1>6, <1>7, <1>8 DEF Next

LEMMA StampInit == Init => StampInv
<1> SUFFICES ASSUME Init PROVE StampInv
  OBVIOUS
<1>1. << >> \in Seq(StampedEvent) /\ DOMAIN << >> = {}
  OBVIOUS
<1>2. StampsFit(<< >>, << >>) /\ Earlier(<< >>, << >>, 0, 0)
  BY <1>1 DEF StampsFit, Earlier, DistinctOrders, DistinctFrames
<1> QED BY <1>2 DEF Init, StampInv

-----------------------------------------------------------------------------
(* Merging the two transcripts of a connection.                            *)

\* A nonempty set of positions has a last one.
LEMMA GreatestExists ==
  ASSUME NEW N \in Nat, NEW S \in SUBSET (1..N), S # {}
  PROVE  Max(S) \in S
<1> DEFINE R == {r \in 0..N : N - r \in S}
<1>1. R \in SUBSET Nat
  OBVIOUS
<1>2. R # {}
  <2>1. PICK x \in S : TRUE
    OBVIOUS
  <2>2. N - x \in 0..N /\ N - (N - x) = x
    BY <2>1
  <2>3. N - x \in R
    BY <2>1, <2>2
  <2> QED BY <2>3
<1>3. PICK r \in R : \A q \in R : r <= q
  <2> HIDE DEF R
  <2> QED BY <1>1, <1>2, LeastExists
<1>4. N - r \in S /\ r \in 0..N
  BY <1>3
<1>5. ASSUME NEW x \in S PROVE N - r >= x
  <2>1. N - x \in 0..N /\ N - (N - x) = x
    OBVIOUS
  <2>2. N - x \in R
    BY <2>1
  <2>3. r <= N - x
    BY <1>3, <2>2
  <2> QED BY <1>4, <2>3
<1>6. \E y \in S : \A x \in S : y >= x
  BY <1>4, <1>5
<1> QED BY <1>6 DEF Max

\* What stays of a Zeek event that a frame was merged into.
Corroborated(z, x) ==
  /\ x.ts = z.ts /\ x.order = z.order
  /\ x.event.kind = z.event.kind /\ x.event.command = z.event.command
  /\ x.event.reply = z.event.reply /\ x.event.token = z.event.token
  /\ x.event.dir = z.event.dir
  /\ ~x.matched => x = z

Frame(x) == x.event.frame

\* The merge of zs with the first n events of ts.
MergeFits(zs, ts, n, acc) ==
  /\ acc \in [zeek : Seq(StampedEvent), extra : Seq(StampedEvent)]
  /\ DOMAIN acc.zeek = DOMAIN zs
  /\ \A i \in DOMAIN zs : Corroborated(zs[i], acc.zeek[i])
  /\ \A k \in DOMAIN acc.extra : \E a \in 1..n : acc.extra[k] = ts[a]
  /\ \A i \in DOMAIN zs : Frame(acc.zeek[i]) = NoFrame \/ \E a \in 1..n : Frame(acc.zeek[i]) = Frame(ts[a])

\* Each frame is in one place of the merge.
FramesPlaced(ts, n, acc) ==
  /\ DistinctOrders(acc.extra) /\ DistinctFrames(acc.zeek) /\ DistinctFrames(acc.extra)
  /\ \A i \in DOMAIN acc.zeek, k \in DOMAIN acc.extra :
       Frame(acc.zeek[i]) = Frame(acc.extra[k]) => Frame(acc.zeek[i]) = NoFrame
  /\ \A a \in 1..n : \/ Frame(ts[a]) = NoFrame
                     \/ \E i \in DOMAIN acc.zeek : Frame(acc.zeek[i]) = Frame(ts[a])
                     \/ \E k \in DOMAIN acc.extra : Frame(acc.extra[k]) = Frame(ts[a])

\* One TShark event either becomes an event of its own or is lent to an unmatched Zeek
\* event that is compatible with it (_merge_events).
LEMMA MergeOneDoes ==
  ASSUME NEW acc \in [zeek : Seq(StampedEvent), extra : Seq(StampedEvent)],
         NEW x \in StampedEvent, FromTShark(x)
  PROVE  \/ /\ Closest(acc.zeek, x) = {}
            /\ MergeOne(acc, x) = [zeek |-> acc.zeek, extra |-> Append(acc.extra, x)]
         \/ \E b \in Closest(acc.zeek, x) :
              /\ b \in DOMAIN acc.zeek /\ ~acc.zeek[b].matched
              /\ compatible(acc.zeek[b].event, x.event)
              /\ MergeOne(acc, x) = [zeek |-> [acc.zeek EXCEPT ![b] = Lent(acc.zeek[b], x)],
                                     extra |-> acc.extra]
<1> DEFINE zs == acc.zeek
           es == acc.extra
           C == Closest(zs, x)
           b == Max(C)
<1>1. zs \in Seq(StampedEvent) /\ acc = [zeek |-> zs, extra |-> es]
  OBVIOUS
<1>2. ~(x.event.kind = "request" /\ x.event.command = None)
  BY DEF FromTShark
<1>3. /\ C \in SUBSET DOMAIN zs
      /\ \A i \in C : ~zs[i].matched /\ compatible(zs[i].event, x.event)
  BY DEF Closest
<1>4. CASE C = {}
  BY <1>1, <1>2, <1>4 DEF MergeOne
<1>5. CASE C # {}
  <2>1. b \in C
    <3>1. DOMAIN zs = 1..Len(zs) /\ Len(zs) \in Nat
      BY <1>1
    <3> HIDE DEF C, zs
    <3> QED BY <1>3, <1>5, <3>1, GreatestExists
  <2>2. MergeOne(acc, x) = [acc EXCEPT !.zeek = [acc.zeek EXCEPT ![b] = Lent(@, x)]]
    BY <1>2, <1>5 DEF MergeOne
  <2> HIDE DEF b, C
  <2>3. MergeOne(acc, x) = [zeek |-> [zs EXCEPT ![b] = Lent(zs[b], x)], extra |-> es]
    <3> DEFINE y == [zs EXCEPT ![b] = Lent(zs[b], x)]
    <3>1. MergeOne(acc, x) = [acc EXCEPT !.zeek = y]
      BY <2>2
    <3> HIDE DEF y, zs, es
    <3>2. [[zeek |-> zs, extra |-> es] EXCEPT !.zeek = y] = [zeek |-> y, extra |-> es]
      OBVIOUS
    <3> QED BY <1>1, <3>1, <3>2 DEF y
  <2> QED BY <1>3, <2>1, <2>3 DEF C
<1> QED BY <1>4, <1>5

\* What an unmatched Zeek event becomes when a frame is lent to it.
LEMMA LentCorroborates ==
  ASSUME NEW z \in StampedEvent, NEW x \in StampedEvent
  PROVE  /\ Lent(z, x) \in StampedEvent /\ Corroborated(z, Lent(z, x))
         /\ Lent(z, x).matched
         /\ Frame(Lent(z, x)) = IF Frame(x) # NoFrame THEN Frame(x) ELSE Frame(z)
         /\ Lent(z, x).event.tag = IF x.event.tag # NoTag THEN x.event.tag ELSE z.event.tag
<1> DEFINE e == with_tshark_evidence(z.event, x.event)
<1>1. z.event \in SessionEvent /\ x.event \in SessionEvent
  BY DEF StampedEvent
<1>2. /\ e \in SessionEvent
      /\ e.kind = z.event.kind /\ e.command = z.event.command /\ e.reply = z.event.reply
      /\ e.token = z.event.token /\ e.dir = z.event.dir
      /\ e.frame = IF x.event.frame # NoFrame THEN x.event.frame ELSE z.event.frame
      /\ e.tag = IF x.event.tag # NoTag THEN x.event.tag ELSE z.event.tag
  BY <1>1 DEF with_tshark_evidence, SessionEvent
<1>3. Lent(z, x) = [z EXCEPT !.event = e, !.matched = TRUE]
  BY DEF Lent
<1> HIDE DEF e
<1>4. /\ Lent(z, x).event = e /\ Lent(z, x).ts = z.ts /\ Lent(z, x).order = z.order
      /\ Lent(z, x).matched = TRUE /\ Lent(z, x) \in StampedEvent
  BY <1>2, <1>3 DEF StampedEvent
<1> QED BY <1>2, <1>4 DEF Corroborated, Frame

\* A TShark event without a partner is kept as it is.
LEMMA ExtraFits ==
  ASSUME NEW zs, NEW ts, StampsFit(zs, ts), NEW n \in 1..Len(ts), NEW acc,
         MergeFits(zs, ts, n - 1, acc), FramesPlaced(ts, n - 1, acc),
         NEW new, new = [zeek |-> acc.zeek, extra |-> Append(acc.extra, ts[n])]
  PROVE  MergeFits(zs, ts, n, new) /\ FramesPlaced(ts, n, new)
<1> DEFINE x == ts[n]
           es == acc.extra
           l == Append(es, x)
           M == Len(es)
<1>1. /\ acc.zeek \in Seq(StampedEvent) /\ es \in Seq(StampedEvent)
      /\ ts \in Seq(StampedEvent) /\ n \in DOMAIN ts /\ Len(ts) \in Nat /\ DOMAIN ts = 1..Len(ts)
  BY DEF MergeFits, StampsFit
<1>2. x \in StampedEvent
  BY <1>1, StampTypes
<1>3. /\ l \in Seq(StampedEvent) /\ DOMAIN l = 1..(M + 1) /\ DOMAIN es = 1..M /\ M \in Nat
      /\ l[M + 1] = x /\ \A i \in 1..M : l[i] = es[i]
  BY <1>1, <1>2
<1>4. new.zeek = acc.zeek /\ new.extra = l
  OBVIOUS
<1>5. n \in 1..n /\ \A a \in 1..(n - 1) : a \in 1..n /\ a # n /\ a \in DOMAIN ts
  BY <1>1
<1>6. \A a \in 1..n : a = n \/ a \in 1..(n - 1)
  OBVIOUS
<1>7. /\ \A k \in DOMAIN es : \E a \in 1..(n - 1) : es[k] = ts[a]
      /\ \A i \in DOMAIN zs : Corroborated(zs[i], acc.zeek[i])
      /\ DOMAIN acc.zeek = DOMAIN zs
      /\ \A i \in DOMAIN acc.zeek : \/ Frame(acc.zeek[i]) = NoFrame
                                    \/ \E a \in 1..(n - 1) : Frame(acc.zeek[i]) = Frame(ts[a])
  BY DEF MergeFits
<1>8. \A a \in 1..(n - 1) : ts[a].order # x.order /\ (Frame(ts[a]) = Frame(x) => Frame(x) = NoFrame)
  BY <1>1, <1>5 DEF StampsFit, DistinctOrders, DistinctFrames, Frame
<1>9. /\ DistinctOrders(es) /\ DistinctFrames(acc.zeek) /\ DistinctFrames(es)
      /\ \A i \in DOMAIN acc.zeek, k \in DOMAIN es :
           Frame(acc.zeek[i]) = Frame(es[k]) => Frame(acc.zeek[i]) = NoFrame
  BY DEF FramesPlaced
<1> HIDE DEF x, l, M, es
<1>10. \A k \in DOMAIN l : k = M + 1 \/ k \in DOMAIN es
  BY <1>3
<1>11. /\ \A k \in DOMAIN es : k \in DOMAIN l /\ l[k] = es[k]
       /\ M + 1 \in DOMAIN l
  BY <1>3
<1>12. MergeFits(zs, ts, n, new)
  <2>1. new \in [zeek : Seq(StampedEvent), extra : Seq(StampedEvent)]
    BY <1>1, <1>3 DEF l, es, x
  <2>2. \A k \in DOMAIN l : \E a \in 1..n : l[k] = ts[a]
    BY <1>3, <1>5, <1>7, <1>10 DEF x
  <2>3. \A i \in DOMAIN zs : \/ Frame(acc.zeek[i]) = NoFrame
                             \/ \E a \in 1..n : Frame(acc.zeek[i]) = Frame(ts[a])
    BY <1>5, <1>7
  <2> QED BY <1>4, <1>7, <2>1, <2>2, <2>3 DEF MergeFits
<1>13. \A k \in DOMAIN es : es[k].order # x.order /\ (Frame(es[k]) = Frame(x) => Frame(x) = NoFrame)
  BY <1>7, <1>8
<1>14. DistinctOrders(l)
  BY <1>3, <1>9, <1>10, <1>11, <1>13 DEF DistinctOrders
<1>15. DistinctFrames(l)
  BY <1>3, <1>9, <1>10, <1>11, <1>13 DEF DistinctFrames, Frame
<1>16. \A i \in DOMAIN acc.zeek, k \in DOMAIN l :
         Frame(acc.zeek[i]) = Frame(l[k]) => Frame(acc.zeek[i]) = NoFrame
  BY <1>3, <1>7, <1>8, <1>9, <1>10, <1>11
<1>17. \A a \in 1..n : \/ Frame(ts[a]) = NoFrame
                       \/ \E i \in DOMAIN acc.zeek : Frame(acc.zeek[i]) = Frame(ts[a])
                       \/ \E k \in DOMAIN l : Frame(l[k]) = Frame(ts[a])
  <2> TAKE a \in 1..n
  <2>1. CASE a = n
    BY <1>3, <1>11, <2>1 DEF x
  <2>2. CASE a \in 1..(n - 1)
    <3>1. \/ Frame(ts[a]) = NoFrame
          \/ \E i \in DOMAIN acc.zeek : Frame(acc.zeek[i]) = Frame(ts[a])
          \/ \E k \in DOMAIN es : Frame(es[k]) = Frame(ts[a])
      BY <2>2 DEF FramesPlaced, es
    <3> QED BY <1>11, <3>1
  <2> QED BY <1>6, <2>1, <2>2
<1> QED BY <1>4, <1>9, <1>12, <1>14, <1>15, <1>16, <1>17 DEF FramesPlaced

\* A TShark event with a partner lends it its frame; an unmatched event has none yet.
LEMMA LentFits ==
  ASSUME NEW zs, NEW ts, StampsFit(zs, ts), NEW n \in 1..Len(ts), NEW acc,
         MergeFits(zs, ts, n - 1, acc), FramesPlaced(ts, n - 1, acc),
         NEW b \in DOMAIN acc.zeek, ~acc.zeek[b].matched,
         NEW new, new = [zeek |-> [acc.zeek EXCEPT ![b] = Lent(acc.zeek[b], ts[n])],
                         extra |-> acc.extra]
  PROVE  MergeFits(zs, ts, n, new) /\ FramesPlaced(ts, n, new)
<1> DEFINE x == ts[n]
           os == acc.zeek
           y == Lent(os[b], x)
           l == [os EXCEPT ![b] = y]
<1>1. /\ os \in Seq(StampedEvent) /\ acc.extra \in Seq(StampedEvent)
      /\ ts \in Seq(StampedEvent) /\ n \in DOMAIN ts /\ Len(ts) \in Nat /\ DOMAIN ts = 1..Len(ts)
  BY DEF MergeFits, StampsFit
<1>2. x \in StampedEvent /\ os[b] \in StampedEvent
  BY <1>1, StampTypes
<1>3. /\ y \in StampedEvent /\ Corroborated(os[b], y) /\ y.matched
      /\ Frame(y) = IF Frame(x) # NoFrame THEN Frame(x) ELSE Frame(os[b])
  BY <1>2, LentCorroborates
<1>4. new.zeek = l /\ new.extra = acc.extra
  OBVIOUS
<1>5. n \in 1..n /\ \A a \in 1..(n - 1) : a \in 1..n /\ a # n /\ a \in DOMAIN ts
  BY <1>1
<1>6. \A a \in 1..n : a = n \/ a \in 1..(n - 1)
  OBVIOUS
<1>7. /\ \A k \in DOMAIN acc.extra : \E a \in 1..(n - 1) : acc.extra[k] = ts[a]
      /\ \A i \in DOMAIN zs : Corroborated(zs[i], os[i])
      /\ DOMAIN os = DOMAIN zs
      /\ \A i \in DOMAIN os : \/ Frame(os[i]) = NoFrame
                              \/ \E a \in 1..(n - 1) : Frame(os[i]) = Frame(ts[a])
  BY DEF MergeFits
<1>8. \A a \in 1..(n - 1) : Frame(ts[a]) = Frame(x) => Frame(x) = NoFrame
  BY <1>1, <1>5 DEF StampsFit, DistinctFrames, Frame
<1>9. /\ DistinctOrders(acc.extra) /\ DistinctFrames(os) /\ DistinctFrames(acc.extra)
      /\ \A i \in DOMAIN os, k \in DOMAIN acc.extra :
           Frame(os[i]) = Frame(acc.extra[k]) => Frame(os[i]) = NoFrame
  BY DEF FramesPlaced
<1>10. os[b] = zs[b] /\ Frame(os[b]) = NoFrame
  <2>1. os[b] = zs[b]
    BY <1>7 DEF Corroborated
  <2>2. FromZeek(zs[b])
    BY <1>7 DEF StampsFit
  <2> QED BY <2>1, <2>2 DEF FromZeek, Frame
<1>11. /\ DOMAIN l = DOMAIN os /\ l[b] = y /\ \A i \in DOMAIN os : i # b => l[i] = os[i]
       /\ l \in Seq(StampedEvent)
  <2> HIDE DEF y, os
  <2> QED BY <1>1, <1>3 DEF os
<1>12. Frame(y) = Frame(x)
  BY <1>3, <1>10
<1> HIDE DEF x, y, l, os
<1>13. MergeFits(zs, ts, n, new)
  <2>1. new \in [zeek : Seq(StampedEvent), extra : Seq(StampedEvent)]
    BY <1>1, <1>4, <1>11 DEF l, os, x, y
  <2>2. ASSUME NEW i \in DOMAIN zs PROVE Corroborated(zs[i], l[i])
    <3>1. CASE i = b
      BY <1>3, <1>10, <1>11, <3>1
    <3>2. CASE i # b
      BY <1>7, <1>11, <3>2
    <3> QED BY <3>1, <3>2
  <2>3. \A k \in DOMAIN acc.extra : \E a \in 1..n : acc.extra[k] = ts[a]
    BY <1>5, <1>7
  <2>4. ASSUME NEW i \in DOMAIN zs
        PROVE  Frame(l[i]) = NoFrame \/ \E a \in 1..n : Frame(l[i]) = Frame(ts[a])
    <3>1. CASE i = b
      BY <1>5, <1>11, <1>12, <3>1 DEF x
    <3>2. CASE i # b
      BY <1>5, <1>7, <1>11, <3>2
    <3> QED BY <3>1, <3>2
  <2> QED BY <1>4, <1>7, <1>11, <2>1, <2>2, <2>3, <2>4 DEF MergeFits
<1>14. \A i \in DOMAIN os : Frame(os[i]) = Frame(x) => Frame(x) = NoFrame
  BY <1>7, <1>8
<1>15. \A k \in DOMAIN acc.extra : Frame(acc.extra[k]) = Frame(x) => Frame(x) = NoFrame
  BY <1>7, <1>8
<1>16. DistinctFrames(l)
  BY <1>9, <1>11, <1>12, <1>14 DEF DistinctFrames, Frame
<1>17. \A i \in DOMAIN l, k \in DOMAIN acc.extra :
         Frame(l[i]) = Frame(acc.extra[k]) => Frame(l[i]) = NoFrame
  BY <1>9, <1>11, <1>12, <1>15
<1>18. \A a \in 1..n : \/ Frame(ts[a]) = NoFrame
                       \/ \E i \in DOMAIN l : Frame(l[i]) = Frame(ts[a])
                       \/ \E k \in DOMAIN acc.extra : Frame(acc.extra[k]) = Frame(ts[a])
  <2> TAKE a \in 1..n
  <2>1. CASE a = n
    BY <1>11, <1>12, <2>1 DEF x, os
  <2>2. CASE a \in 1..(n - 1)
    <3>1. \/ Frame(ts[a]) = NoFrame
          \/ \E i \in DOMAIN os : Frame(os[i]) = Frame(ts[a])
          \/ \E k \in DOMAIN acc.extra : Frame(acc.extra[k]) = Frame(ts[a])
      BY <2>2 DEF FramesPlaced, os
    <3>2. \A i \in DOMAIN os : Frame(os[i]) = Frame(ts[a]) => i # b \/ Frame(ts[a]) = NoFrame
      BY <1>10
    <3> QED BY <1>11, <3>1, <3>2
  <2> QED BY <1>6, <2>1, <2>2
<1> QED BY <1>4, <1>9, <1>13, <1>16, <1>17, <1>18 DEF FramesPlaced

\* The merge of every prefix of ts.
LEMMA MergeTurns ==
  ASSUME NEW zs, NEW ts, StampsFit(zs, ts), NEW g, g[0] = [zeek |-> zs, extra |-> << >>],
         \A n \in 1..Len(ts) : g[n] = MergeOne(g[n - 1], ts[n]), NEW n \in 0..Len(ts)
  PROVE  MergeFits(zs, ts, n, g[n]) /\ FramesPlaced(ts, n, g[n])
<1> DEFINE N == Len(ts)
           J(m) == MergeFits(zs, ts, m, g[m]) /\ FramesPlaced(ts, m, g[m])
<1>1. /\ zs \in Seq(StampedEvent) /\ ts \in Seq(StampedEvent) /\ N \in Nat /\ DOMAIN ts = 1..N
  BY DEF StampsFit
<1>2. /\ g[0] = [zeek |-> zs, extra |-> << >>]
      /\ \A m \in 1..N : g[m] = MergeOne(g[m - 1], ts[m])
  OBVIOUS
<1>3. J(0)
  <2> DEFINE a == g[0]
  <2>1. a = [zeek |-> zs, extra |-> << >>] /\ a.zeek = zs /\ a.extra = << >>
    BY <1>2
  <2>2. a \in [zeek : Seq(StampedEvent), extra : Seq(StampedEvent)] /\ DOMAIN a.extra = {}
    BY <1>1, <2>1
  <2>3. \A i \in DOMAIN zs : Frame(a.zeek[i]) = NoFrame
    BY <2>1 DEF StampsFit, FromZeek, Frame
  <2>4. \A i \in DOMAIN zs : Corroborated(zs[i], a.zeek[i])
    BY <2>1 DEF Corroborated
  <2> HIDE DEF a
  <2>5. DistinctFrames(a.zeek) /\ DistinctFrames(a.extra) /\ DistinctOrders(a.extra)
    BY <2>1, <2>2, <2>3 DEF DistinctFrames, DistinctOrders, Frame
  <2>6. MergeFits(zs, ts, 0, a)
    BY <2>1, <2>2, <2>3, <2>4 DEF MergeFits
  <2>7. 1..0 = {}
    OBVIOUS
  <2>8. FramesPlaced(ts, 0, a)
    BY <2>2, <2>5, <2>7 DEF FramesPlaced
  <2> QED BY <2>6, <2>8 DEF a
<1>4. ASSUME NEW m \in 1..N, J(m - 1) PROVE J(m)
  <2> DEFINE a == g[m - 1]
  <2>1. MergeFits(zs, ts, m - 1, a) /\ FramesPlaced(ts, m - 1, a)
    BY <1>4
  <2>2. g[m] = MergeOne(a, ts[m])
    BY <1>2
  <2> HIDE DEF a
  <2>3. a \in [zeek : Seq(StampedEvent), extra : Seq(StampedEvent)]
    BY <2>1 DEF MergeFits
  <2>4. ts[m] \in StampedEvent /\ FromTShark(ts[m])
    BY <1>1, StampTypes DEF StampsFit
  <2>5. \/ MergeOne(a, ts[m]) = [zeek |-> a.zeek, extra |-> Append(a.extra, ts[m])]
        \/ \E b \in DOMAIN a.zeek :
             /\ ~a.zeek[b].matched
             /\ MergeOne(a, ts[m]) = [zeek |-> [a.zeek EXCEPT ![b] = Lent(a.zeek[b], ts[m])],
                                      extra |-> a.extra]
    BY <2>3, <2>4, MergeOneDoes
  <2>6. CASE g[m] = [zeek |-> a.zeek, extra |-> Append(a.extra, ts[m])]
    BY <2>1, <2>6, ExtraFits
  <2>7. ASSUME NEW b \in DOMAIN a.zeek, ~a.zeek[b].matched,
               g[m] = [zeek |-> [a.zeek EXCEPT ![b] = Lent(a.zeek[b], ts[m])], extra |-> a.extra]
        PROVE  J(m)
    BY <2>1, <2>7, LentFits
  <2> QED BY <2>2, <2>5, <2>6, <2>7
<1>5. ASSUME NEW j \in 0..N PROVE J(j)
  <2> DEFINE bad == {m \in 0..N : ~J(m)}
  <2> HIDE DEF J
  <2> SUFFICES ASSUME bad # {} PROVE FALSE
    OBVIOUS
  <2>1. PICK m \in bad : \A x \in bad : m <= x
    <3>1. bad \in SUBSET Nat
      BY <1>1
    <3> HIDE DEF bad
    <3> QED BY <3>1, LeastExists
  <2>2. m \in 0..N /\ ~J(m) /\ m # 0
    BY <1>3, <2>1
  <2>3. m \in 1..N /\ m - 1 \in 0..N /\ ~(m <= m - 1)
    BY <1>1, <2>2
  <2>4. J(m - 1)
    BY <2>1, <2>3
  <2> QED BY <1>4, <2>2, <2>3, <2>4
<1> QED BY <1>5

\* Merging places every frame once and leaves of every Zeek event what Zeek said of it
\* (_merge_events).
LEMMA MergePlaces ==
  ASSUME NEW zs, NEW ts, StampsFit(zs, ts)
  PROVE  /\ MergeFits(zs, ts, Len(ts), Merged(zs, ts))
         /\ FramesPlaced(ts, Len(ts), Merged(zs, ts))
<1>1. Len(ts) \in Nat /\ Len(ts) \in 0..Len(ts)
  BY DEF StampsFit
<1>2. PICK g : /\ g[0] = [zeek |-> zs, extra |-> << >>]
               /\ \A n \in 1..Len(ts) : g[n] = MergeOne(g[n - 1], ts[n])
               /\ Merged(zs, ts) = g[Len(ts)]
  BY <1>1, MergedLoop
<1> QED BY <1>1, <1>2, MergeTurns

\* The merged list before it is sorted.
Joined(zs, ts) == Merged(zs, ts).zeek \o Merged(zs, ts).extra

LEMMA JoinedFits ==
  ASSUME NEW zs, NEW ts, StampsFit(zs, ts), NEW l, l = Joined(zs, ts)
  PROVE  /\ l \in Seq(StampedEvent) /\ DistinctOrders(l) /\ DistinctFrames(l)
         /\ \A i \in DOMAIN zs : i \in DOMAIN l /\ l[i].order = zs[i].order
         /\ \A a \in DOMAIN ts : Frame(ts[a]) # NoFrame => \E i \in DOMAIN l : Frame(l[i]) = Frame(ts[a])
<1> DEFINE z == Merged(zs, ts).zeek
           e == Merged(zs, ts).extra
           A == Len(z)
           B == Len(e)
<1>1. /\ MergeFits(zs, ts, Len(ts), Merged(zs, ts))
      /\ FramesPlaced(ts, Len(ts), Merged(zs, ts))
  BY MergePlaces
<1>2. DOMAIN ts = 1..Len(ts)
  BY DEF StampsFit
<1>3. /\ z \in Seq(StampedEvent) /\ e \in Seq(StampedEvent) /\ DOMAIN z = DOMAIN zs
      /\ \A i \in DOMAIN z : z[i].order = zs[i].order
      /\ \A k \in DOMAIN e : \E a \in DOMAIN ts : e[k] = ts[a]
  BY <1>1, <1>2 DEF MergeFits, Corroborated
<1>4. /\ DistinctOrders(e) /\ DistinctFrames(z) /\ DistinctFrames(e)
      /\ \A i \in DOMAIN z, k \in DOMAIN e : Frame(z[i]) = Frame(e[k]) => Frame(z[i]) = NoFrame
      /\ \A a \in DOMAIN ts : \/ Frame(ts[a]) = NoFrame
                              \/ \E i \in DOMAIN z : Frame(z[i]) = Frame(ts[a])
                              \/ \E k \in DOMAIN e : Frame(e[k]) = Frame(ts[a])
  BY <1>1, <1>2 DEF FramesPlaced
<1>5. l = z \o e
  BY DEF Joined
<1> HIDE DEF z, e
<1>6. /\ l \in Seq(StampedEvent) /\ DOMAIN l = 1..(A + B) /\ A \in Nat /\ B \in Nat
      /\ DOMAIN z = 1..A /\ DOMAIN e = 1..B
      /\ \A i \in 1..A : l[i] = z[i]
      /\ \A k \in 1..B : l[A + k] = e[k]
  BY <1>3, <1>5
<1> HIDE DEF A, B
<1>7. /\ \A i \in DOMAIN l : i \in 1..A \/ \E k \in 1..B : i = A + k
      /\ \A i \in 1..A : i \in DOMAIN l
      /\ \A k \in 1..B : A + k \in DOMAIN l
  <2>1. ASSUME NEW i \in DOMAIN l, i \notin 1..A PROVE \E k \in 1..B : i = A + k
    <3>1. i - A \in 1..B /\ i = A + (i - A)
      BY <1>6, <2>1
    <3> QED BY <3>1
  <2> QED BY <1>6, <2>1
<1>8. DistinctOrders(zs) /\ DistinctOrders(ts) /\ \A i \in DOMAIN zs, j \in DOMAIN ts : zs[i].order # ts[j].order
  BY DEF StampsFit
<1>9. /\ \A i, j \in 1..A : z[i].order = z[j].order => i = j
      /\ \A i \in 1..A, k \in 1..B : z[i].order # e[k].order
  <2>1. \A i, j \in DOMAIN zs : zs[i].order = zs[j].order => i = j
    BY <1>8 DEF DistinctOrders
  <2>2. DOMAIN zs = 1..A /\ \A i \in 1..A : z[i].order = zs[i].order
    BY <1>3, <1>6
  <2>3. \A k \in 1..B : \E a \in DOMAIN ts : e[k] = ts[a]
    BY <1>3, <1>6
  <2>4. \A i \in 1..A, k \in 1..B : z[i].order # e[k].order
    BY <1>8, <2>2, <2>3
  <2> QED BY <2>1, <2>2, <2>4
<1>10. \A k, j \in 1..B : e[k].order = e[j].order => k = j
  BY <1>4, <1>6 DEF DistinctOrders
<1>11. ASSUME NEW i \in DOMAIN l, NEW j \in DOMAIN l, l[i].order = l[j].order PROVE i = j
  <2>1. CASE i \in 1..A
    <3>1. j \in 1..A
      BY <1>6, <1>7, <1>9, <1>11, <2>1
    <3> QED BY <1>6, <1>9, <1>11, <2>1, <3>1
  <2>2. CASE i \notin 1..A
    <3>1. PICK k \in 1..B : i = A + k
      BY <1>7, <2>2
    <3>2. j \notin 1..A
      BY <1>6, <1>9, <1>11, <3>1
    <3>3. PICK m \in 1..B : j = A + m
      BY <1>7, <3>2
    <3> QED BY <1>6, <1>10, <1>11, <3>1, <3>3
  <2> QED BY <2>1, <2>2
<1>12. ASSUME NEW i \in DOMAIN l, NEW j \in DOMAIN l, Frame(l[i]) = Frame(l[j]), Frame(l[i]) # NoFrame
       PROVE  i = j
  <2>1. CASE i \in 1..A
    <3>1. j \in 1..A
      <4> SUFFICES ASSUME NEW k \in 1..B, j = A + k PROVE FALSE
        BY <1>7
      <4>1. l[i] = z[i] /\ l[j] = e[k] /\ i \in DOMAIN z /\ k \in DOMAIN e
        BY <1>6, <2>1
      <4> QED BY <1>4, <1>12, <4>1
    <3> QED BY <1>4, <1>6, <1>12, <2>1, <3>1 DEF DistinctFrames, Frame
  <2>2. CASE i \notin 1..A
    <3>1. PICK k \in 1..B : i = A + k
      BY <1>7, <2>2
    <3>2. j \notin 1..A
      BY <1>4, <1>6, <1>12, <3>1
    <3>3. PICK m \in 1..B : j = A + m
      BY <1>7, <3>2
    <3>4. e[k].event.frame = e[m].event.frame /\ e[k].event.frame # NoFrame
      BY <1>6, <1>12, <3>1, <3>3 DEF Frame
    <3> QED BY <1>4, <1>6, <3>1, <3>3, <3>4 DEF DistinctFrames
  <2> QED BY <2>1, <2>2
<1>13. DistinctOrders(l) /\ DistinctFrames(l)
  BY <1>11, <1>12 DEF DistinctOrders, DistinctFrames, Frame
<1>14. \A i \in DOMAIN zs : i \in DOMAIN l /\ l[i].order = zs[i].order
  BY <1>3, <1>6, <1>7
<1>15. ASSUME NEW a \in DOMAIN ts, Frame(ts[a]) # NoFrame
       PROVE  \E i \in DOMAIN l : Frame(l[i]) = Frame(ts[a])
  BY <1>4, <1>6, <1>7, <1>15
<1> QED BY <1>6, <1>13, <1>14, <1>15

\* The transcript of a connection is the merged list, rearranged.
LEMMA TranscriptArranged ==
  ASSUME NEW zs, NEW ts, StampsFit(zs, ts), NEW l, l = Joined(zs, ts), NEW t, t = merge_events(zs, ts)
  PROVE  /\ t \in Seq(StampedEvent) /\ DOMAIN t = DOMAIN l
         /\ Arranges(Arrangement(l), l)
         /\ \A k \in DOMAIN t : t[k] = l[Arrangement(l)[k]]
<1> DEFINE N == Len(l)
           p == Arrangement(l)
<1>1. l \in Seq(StampedEvent)
  BY JoinedFits
<1>2. N \in Nat /\ DOMAIN l = 1..N
  BY <1>1
<1>3. \A i \in 1..N : l[i] \in StampedEvent /\ l[i].ts \in Int /\ l[i].order \in Int
  BY <1>1, <1>2, StampTypes
<1>4. t = Sorted(l)
  BY DEF merge_events, Joined
<1> HIDE DEF N
<1>5. /\ Arranges(p, l) /\ DOMAIN Sorted(l) = 1..N
      /\ \A k \in 1..N : Sorted(l)[k] = l[p[k]]
  BY <1>2, <1>3, SortArranges
<1>6. \A k \in 1..N : p[k] \in 1..N
  BY <1>2, <1>5 DEF Arranges
<1>7. t \in Seq(StampedEvent)
  <2>1. t = [k \in 1..N |-> t[k]]
    BY <1>2, <1>4 DEF Sorted
  <2>2. \A k \in 1..N : t[k] \in StampedEvent
    BY <1>3, <1>4, <1>5, <1>6
  <2> QED BY <1>2, <2>1, <2>2
<1> QED BY <1>2, <1>4, <1>5, <1>7

\* MergeKeepsEvents for one connection.
LEMMA TranscriptKeepsEvents ==
  ASSUME NEW zs, NEW ts, StampsFit(zs, ts), NEW t, t = merge_events(zs, ts)
  PROVE  /\ \A z \in DOMAIN zs : Cardinality({i \in DOMAIN t : t[i].order = zs[z].order}) = 1
         /\ \A x \in DOMAIN ts : ts[x].event.frame # NoFrame
              => Cardinality({i \in DOMAIN t : t[i].event.frame = ts[x].event.frame}) = 1
         /\ \A i, j \in DOMAIN t : i < j => t[i].ts <= t[j].ts
<1> DEFINE l == Joined(zs, ts)
           p == Arrangement(l)
<1>1. /\ DistinctOrders(l) /\ DistinctFrames(l)
      /\ \A i \in DOMAIN zs : i \in DOMAIN l /\ l[i].order = zs[i].order
      /\ \A a \in DOMAIN ts : Frame(ts[a]) # NoFrame => \E i \in DOMAIN l : Frame(l[i]) = Frame(ts[a])
  BY JoinedFits
<1>2. /\ DOMAIN t = DOMAIN l /\ Arranges(p, l)
      /\ \A k \in DOMAIN t : t[k] = l[p[k]]
  BY TranscriptArranged
<1> HIDE DEF l, p
<1>3. /\ \A k \in DOMAIN t : p[k] \in DOMAIN l
      /\ \A k, m \in DOMAIN t : p[k] = p[m] => k = m
      /\ \A i \in DOMAIN l : \E k \in DOMAIN t : p[k] = i
      /\ \A k, m \in DOMAIN t : k < m => l[p[k]].ts <= l[p[m]].ts
  BY <1>2 DEF Arranges
<1>4. ASSUME NEW z \in DOMAIN zs
      PROVE  Cardinality({i \in DOMAIN t : t[i].order = zs[z].order}) = 1
  <2>1. PICK k \in DOMAIN t : p[k] = z
    BY <1>1, <1>3
  <2>2. \A i \in DOMAIN t : t[i].order = zs[z].order <=> i = k
    <3> TAKE i \in DOMAIN t
    <3>1. t[i] = l[p[i]] /\ t[k] = l[z] /\ p[i] \in DOMAIN l /\ z \in DOMAIN l
      BY <1>1, <1>2, <1>3, <2>1
    <3>2. l[p[i]].order = l[z].order <=> p[i] = z
      BY <1>1, <3>1 DEF DistinctOrders
    <3>3. p[i] = z <=> i = k
      BY <1>3, <2>1
    <3> QED BY <1>1, <3>1, <3>2, <3>3
  <2>3. {i \in DOMAIN t : t[i].order = zs[z].order} = {k}
    BY <2>2
  <2> QED BY <2>3, FS_Singleton
<1>5. ASSUME NEW x \in DOMAIN ts, ts[x].event.frame # NoFrame
      PROVE  Cardinality({i \in DOMAIN t : t[i].event.frame = ts[x].event.frame}) = 1
  <2> DEFINE f == ts[x].event.frame
  <2>1. PICK j \in DOMAIN l : l[j].event.frame = f
    BY <1>1, <1>5 DEF Frame
  <2>2. PICK k \in DOMAIN t : p[k] = j
    BY <1>3
  <2> HIDE DEF f
  <2>3. \A i \in DOMAIN t : t[i].event.frame = f <=> i = k
    <3> TAKE i \in DOMAIN t
    <3>1. t[i] = l[p[i]] /\ p[i] \in DOMAIN l
      BY <1>2, <1>3
    <3>2. l[p[i]].event.frame = f <=> p[i] = j
      BY <1>1, <1>5, <2>1, <3>1 DEF DistinctFrames, f
    <3>3. p[i] = j <=> i = k
      BY <1>3, <2>2
    <3> QED BY <3>1, <3>2, <3>3
  <2>4. {i \in DOMAIN t : t[i].event.frame = f} = {k}
    BY <2>3
  <2> QED BY <2>4, FS_Singleton DEF f
<1>6. ASSUME NEW i \in DOMAIN t, NEW j \in DOMAIN t, i < j PROVE t[i].ts <= t[j].ts
  <2>1. t[i] = l[p[i]] /\ t[j] = l[p[j]]
    BY <1>2
  <2>2. l[p[i]].ts <= l[p[j]].ts
    BY <1>3, <1>6
  <2> QED BY <2>1, <2>2
<1> QED BY <1>4, <1>5, <1>6

\* MergeKeepsEvents for every capture: whatever the rows, the frames and the window, the
\* greedy matching of _merge_events and the sort behind it keep every Zeek event and every
\* numbered frame exactly once, in the order of time.
THEOREM MergingLosesNothing == Spec => []MergeKeepsEvents
<1>1. StampInv => MergeKeepsEvents
  <2> SUFFICES ASSUME StampInv, NEW u \in Uids
               PROVE  LET t == Transcript(u)
                          in(n) == {i \in DOMAIN t : t[i].event.frame = n}
                      IN  /\ \A z \in DOMAIN zeek[u] :
                               Cardinality({i \in DOMAIN t : t[i].order = zeek[u][z].order}) = 1
                          /\ \A x \in DOMAIN tshark[u] :
                               tshark[u][x].event.frame # NoFrame
                                 => Cardinality(in(tshark[u][x].event.frame)) = 1
                          /\ \A i, j \in DOMAIN t : i < j => t[i].ts <= t[j].ts
    BY DEF MergeKeepsEvents
  <2>1. StampsFit(zeek[u], tshark[u])
    BY DEF StampInv
  <2> DEFINE t == Transcript(u)
  <2>2. t = merge_events(zeek[u], tshark[u])
    BY DEF Transcript
  <2> HIDE DEF t
  <2>3. /\ \A z \in DOMAIN zeek[u] : Cardinality({i \in DOMAIN t : t[i].order = zeek[u][z].order}) = 1
        /\ \A x \in DOMAIN tshark[u] : tshark[u][x].event.frame # NoFrame
             => Cardinality({i \in DOMAIN t : t[i].event.frame = tshark[u][x].event.frame}) = 1
        /\ \A i, j \in DOMAIN t : i < j => t[i].ts <= t[j].ts
    BY <2>1, <2>2, TranscriptKeepsEvents
  <2> QED BY <2>3 DEF t
<1> QED BY <1>1, StampInit, StampStep, PTL DEF Spec

-----------------------------------------------------------------------------
(* The verdict of a transcript that was cut.                               *)

\* Only mail protocols are ever named.
MailNamesInv ==
  /\ DOMAIN confirming = Uids /\ DOMAIN tsharkNames = Uids
  /\ \A u \in Uids : confirming[u] \subseteq MailProtocol /\ tsharkNames[u] \subseteq MailProtocol

LEMMA MailNamesStep == MailNamesInv /\ [Next]_vars => MailNamesInv'
<1> SUFFICES ASSUME MailNamesInv, [Next]_vars PROVE MailNamesInv'
  OBVIOUS
<1>1. ASSUME NEW row \in Rows, ReadRow(row) PROVE MailNamesInv'
  <2>1. {row.protocol} \ {None} \subseteq MailProtocol
    BY RowAssumption
  <2>2. /\ row.uid \in Uids /\ tsharkNames' = tsharkNames
        /\ \/ confirming' = [confirming EXCEPT ![row.uid] = @ \cup ({row.protocol} \ {None})]
           \/ confirming' = [confirming EXCEPT ![row.uid] = @]
    BY <1>1 DEF ReadRow
  <2>3. DOMAIN confirming' = Uids
    BY <2>2 DEF MailNamesInv
  <2>4. \A u \in Uids : confirming'[u] \subseteq confirming[u] \cup ({row.protocol} \ {None})
    BY <2>2 DEF MailNamesInv
  <2> QED BY <2>1, <2>2, <2>3, <2>4 DEF MailNamesInv
<1>2. ASSUME NEW frame \in FrameShapes, ReadFrame(frame) PROVE MailNamesInv'
  <2> DEFINE p == tshark_protocol(frame)
  <2>1. {p} \ {None} \subseteq MailProtocol
    BY DEF tshark_protocol, MailProtocol
  <2>2. PICK u \in Uids : tsharkNames' = [tsharkNames EXCEPT ![u] = @ \cup ({p} \ {None})]
    BY <1>2 DEF ReadFrame, match_frame_uid
  <2>3. confirming' = confirming
    BY <1>2 DEF ReadFrame
  <2> HIDE DEF p
  <2>4. DOMAIN tsharkNames' = Uids
    BY <2>2 DEF MailNamesInv
  <2>5. \A v \in Uids : tsharkNames'[v] \subseteq tsharkNames[v] \cup ({p} \ {None})
    BY <2>2 DEF MailNamesInv
  <2> QED BY <2>1, <2>3, <2>4, <2>5 DEF MailNamesInv
<1>3. CASE UNCHANGED <<confirming, tsharkNames>>
  BY <1>3 DEF MailNamesInv
<1>4. CASE FirstPass \/ SecondPass \/ TSharkFails
  BY <1>3, <1>4 DEF FirstPass, SecondPass, TSharkFails, Unread
<1>5. CASE \E frame \in FrameShapes : SkipFrame(frame)
  BY <1>3, <1>5 DEF SkipFrame
<1>6. CASE UNCHANGED vars
  BY <1>3, <1>6 DEF vars
<1> QED BY <1>1, <1>2, <1>4, <1>5, <1>6 DEF Next

\* What the verdicts of the sessions are made of.
VerdictInv == NamesInv /\ MailNamesInv /\ FinishedInv /\ StampInv

LEMMA VerdictInvariant == Spec => []VerdictInv
<1>1. Init => NamesInv /\ MailNamesInv /\ FinishedInv
  BY FS_EmptySet DEF Init, NamesInv, MailNamesInv, FinishedInv
<1> QED BY <1>1, StampInit, NamesStep, MailNamesStep, FinishedStep, StampStep, PTL
        DEF Spec, VerdictInv

\* The verdict of a session is that of the machine of its protocol after the events that
\* were kept (_assess_session).
LEMMA SessionVerdict ==
  ASSUME VerdictInv, phase = "done", NEW s \in sessions
  PROVE  /\ s.uid \in Uids
         /\ s.protocol \in MailProtocol \cup {None}
         /\ s.assessment.explicit.state =
              IF s.protocol = None THEN None
              ELSE Verdict(MachineAfter(s.protocol, Bounded(Transcript(s.uid)), ClientHello(s.uid)),
                           ClientHello(s.uid))
<1>1. PICK u \in Uids : s \in SessionOf(u)
  BY DEF VerdictInv, FinishedInv, normalize_sessions
<1> DEFINE id == resolve_identity(confirming[u], u \in ambiguous, tsharkNames[u], ssl[u].alpn)
           events == Bounded(merge_events(zeek[u], tshark[u]))
           names == Combined(confirming[u], tsharkNames[u], ssl[u].alpn)
<1>2. /\ s.uid = u /\ s.protocol = id.protocol
      /\ s.assessment = assess_session(u, id.protocol, events)
  <2> HIDE DEF id, events
  <2> QED BY <1>1 DEF SessionOf, id, events
<1>3. s.assessment.explicit = UpgradeOf(s.protocol, events, ClientHello(u), helloFrames[u])
  <2> HIDE DEF id, events
  <2> QED BY <1>2 DEF assess_session
<1>4. /\ IsFiniteSet(confirming[u]) /\ None \notin confirming[u]
      /\ IsFiniteSet(tsharkNames[u]) /\ None \notin tsharkNames[u]
  BY DEF VerdictInv, NamesInv
<1>5. id.protocol # None => names = {id.protocol}
  BY <1>4, ResolvedByTheNames
<1>6. names \subseteq MailProtocol
  <2>1. ssl[u].alpn \in MailProtocol \cup {None}
    BY SslAssumption DEF VerdictInv, NamesInv
  <2>2. confirming[u] \subseteq MailProtocol /\ tsharkNames[u] \subseteq MailProtocol
    BY DEF VerdictInv, MailNamesInv
  <2> QED BY <2>1, <2>2 DEF Combined
<1>7. s.protocol \in MailProtocol \cup {None}
  <2> HIDE DEF id, names
  <2> QED BY <1>2, <1>5, <1>6
<1>8. events = Bounded(Transcript(u))
  BY DEF Transcript
<1> HIDE DEF id, events, names
<1>9. UpgradeOf(s.protocol, events, ClientHello(u), helloFrames[u]).state =
        IF s.protocol = None THEN None
        ELSE Verdict(MachineAfter(s.protocol, events, ClientHello(u)), ClientHello(u))
  BY DEF UpgradeOf, ExplicitUpgrade
<1> QED BY <1>2, <1>3, <1>7, <1>8, <1>9

LEMMA SessionEventOver ==
  ASSUME NEW e \in SessionEvent
  PROVE  EventOver(e, Tags \cup {NoTag}, Nat)
BY DEF SessionEvent, EventOver

\* TruncationNeverAccuses for every capture and every bound: the cut transcript shows no
\* flag that the whole one does not (_MAX_EVENTS_PER_SESSION in normalize_sessions).
THEOREM CutNeverAccuses == Spec => []TruncationNeverAccuses
<1>1. VerdictInv => TruncationNeverAccuses
  <2> SUFFICES ASSUME VerdictInv, phase = "done", NEW s \in sessions
               PROVE  LET whole == [i \in DOMAIN Transcript(s.uid) |-> Transcript(s.uid)[i].event]
                      IN  Rank(s.assessment.explicit.state)
                            <= Rank(UpgradeOf(s.protocol, whole, ClientHello(s.uid), {}).state)
    BY DEF TruncationNeverAccuses, Finished
  <2> DEFINE u == s.uid
             t == Transcript(u)
             h == ClientHello(u)
             p == s.protocol
             whole == [i \in DOMAIN t |-> t[i].event]
             T == Tags \cup {NoTag}
             m == MachineAfter(p, Bounded(t), h)
             n == MachineAfter(p, whole, h)
  <2>1. u \in Uids /\ p \in MailProtocol \cup {None}
    BY SessionVerdict
  <2>2. s.assessment.explicit.state = IF p = None THEN None ELSE Verdict(m, h)
    BY SessionVerdict
  <2>3. UpgradeOf(p, whole, h, {}).state = IF p = None THEN None ELSE Verdict(n, h)
    <3> HIDE DEF p, whole, h
    <3> QED BY DEF UpgradeOf, ExplicitUpgrade, n
  <2>4. h \in BOOLEAN
    BY DEF ClientHello
  <2>5. t \in Seq(StampedEvent)
    <3>1. StampsFit(zeek[u], tshark[u])
      BY <2>1 DEF VerdictInv, StampInv
    <3> QED BY <3>1, TranscriptArranged DEF Transcript
  <2> HIDE DEF t, u, h, p
  <2>6. /\ Len(t) \in Nat /\ DOMAIN t = 1..Len(t)
        /\ \A k \in 1..Len(t) : t[k].event \in SessionEvent
    BY <2>5, StampTypes
  <2>7. Len(whole) = Len(t) /\ \A k \in 1..Len(t) : whole[k] = t[k].event
    BY <2>6
  <2>8. CASE p = None
    <3>1. Rank(None) <= Rank(None)
      BY DEF Rank
    <3> HIDE DEF m, n, whole
    <3> QED BY <2>2, <2>3, <2>8, <3>1 DEF whole, h, p, t, u
  <2>9. CASE p # None
    <3>1. p \in MailProtocol /\ NoTag \in T
      BY <2>1, <2>9
    <3>2. \A e \in SessionEvent : EventOver(e, T, Nat)
      BY SessionEventOver
    <3> HIDE DEF whole, T
    <3>3. m \in Over(T, Nat) /\ n \in Over(T, Nat) /\ Below(m, n)
      BY <2>4, <2>6, <2>7, <3>1, <3>2, CutIsBelow
    <3> HIDE DEF m, n
    <3>4. Rank(Verdict(m, h)) <= Rank(Verdict(n, h))
      BY <3>3, BelowRanksLower
    <3> QED BY <2>2, <2>3, <2>9, <3>4 DEF whole, h, p, t, u
  <2> QED BY <2>8, <2>9
<1> QED BY <1>1, VerdictInvariant, PTL

-----------------------------------------------------------------------------
(* Frames that repeat what Zeek logged.                                    *)

\* Each event of ts behind the n-th has an unmatched partner of its own in zs, at the
\* same time.
Partners(zs, ts, n, acc, f) ==
  /\ f \in [(n + 1)..Len(ts) -> DOMAIN zs]
  /\ \A a, b \in (n + 1)..Len(ts) : f[a] = f[b] => a = b
  /\ \A a \in (n + 1)..Len(ts) :
       /\ ~acc.zeek[f[a]].matched /\ zs[f[a]].ts = ts[a].ts
       /\ compatible(zs[f[a]].event, ts[a].event)

\* Without tags, two events that could both be merged with z are merged alike.
LEMMA CompatibleAcross ==
  ASSUME NEW y, NEW z, NEW x, NEW t, compatible(z, x), compatible(y, x), compatible(z, t),
         y.tag = NoTag
  PROVE  compatible(y, t)
BY DEF compatible

\* If the next event's partner loses its place to a closer one, the two swap partners
\* (_merge_events takes the closest unmatched event).
LEMMA PartnersLast ==
  ASSUME NEW zs, NEW ts, StampsFit(zs, ts), NEW n \in 1..Len(ts), NEW acc,
         MergeFits(zs, ts, n - 1, acc), NEW f, Partners(zs, ts, n - 1, acc, f)
  PROVE  \E b \in DOMAIN zs :
           /\ ~acc.zeek[b].matched
           /\ MergeOne(acc, ts[n]) = [zeek |-> [acc.zeek EXCEPT ![b] = Lent(acc.zeek[b], ts[n])],
                                      extra |-> acc.extra]
           /\ \E g : Partners(zs, ts, n, MergeOne(acc, ts[n]), g)
<1> DEFINE x == ts[n]
           os == acc.zeek
           c == f[n]
           N == Len(ts)
<1>1. /\ acc \in [zeek : Seq(StampedEvent), extra : Seq(StampedEvent)]
      /\ zs \in Seq(StampedEvent) /\ ts \in Seq(StampedEvent)
      /\ N \in Nat /\ DOMAIN ts = 1..N /\ DOMAIN os = DOMAIN zs
      /\ \A i \in DOMAIN zs : Corroborated(zs[i], os[i])
      /\ \A i \in DOMAIN zs : zs[i].event.tag = NoTag
  BY DEF MergeFits, StampsFit, FromZeek
<1>2. x \in StampedEvent /\ FromTShark(x) /\ x.ts \in Int
  BY <1>1, StampTypes DEF StampsFit
<1>3. \A i \in DOMAIN zs : zs[i].ts \in Int /\ os[i].ts = zs[i].ts /\ (~os[i].matched => os[i] = zs[i])
  BY <1>1, StampTypes DEF Corroborated
<1>4. (n - 1) + 1 = n /\ n \in n..N /\ \A a \in (n + 1)..N : a \in n..N /\ a # n
  BY <1>1
<1>5. /\ f \in [n..N -> DOMAIN zs]
      /\ \A a, b \in n..N : f[a] = f[b] => a = b
      /\ \A a \in n..N : /\ ~os[f[a]].matched /\ zs[f[a]].ts = ts[a].ts
                         /\ compatible(zs[f[a]].event, ts[a].event)
  BY <1>4 DEF Partners
<1>6. /\ c \in DOMAIN zs /\ ~os[c].matched /\ zs[c].ts = x.ts
      /\ compatible(zs[c].event, x.event) /\ os[c] = zs[c]
  BY <1>3, <1>4, <1>5
<1> HIDE DEF x, os, c
<1>7. \A i \in DOMAIN zs : Distance(os[i].ts, x.ts) \in Nat
  BY <1>2, <1>3 DEF Distance
<1>8. Distance(os[c].ts, x.ts) = 0
  BY <1>2, <1>6 DEF Distance
<1>9. c \in Closest(os, x)
  <2>1. 0 <= MergeWindow
    BY LimitAssumption
  <2>2. \A i \in DOMAIN zs : 0 <= Distance(os[i].ts, x.ts)
    BY <1>7
  <2> QED BY <1>1, <1>6, <1>8, <2>1, <2>2 DEF Closest, os
<1>10. PICK b \in Closest(os, x) :
         /\ b \in DOMAIN zs /\ ~os[b].matched
         /\ compatible(os[b].event, x.event)
         /\ MergeOne(acc, x) = [zeek |-> [os EXCEPT ![b] = Lent(os[b], x)], extra |-> acc.extra]
  BY <1>1, <1>2, <1>9, MergeOneDoes DEF os
<1>11. os[b] = zs[b] /\ zs[b].ts = x.ts
  <2>1. os[b] = zs[b] /\ zs[b].ts \in Int
    BY <1>3, <1>10
  <2>2. Distance(os[b].ts, x.ts) <= Distance(os[c].ts, x.ts)
    BY <1>9, <1>10 DEF Closest
  <2>3. Distance(os[b].ts, x.ts) = 0
    BY <1>7, <1>8, <1>10, <2>2
  <2> QED BY <1>2, <2>1, <2>3 DEF Distance
<1> DEFINE g == [a \in (n + 1)..N |-> IF f[a] = b THEN c ELSE f[a]]
           new == MergeOne(acc, x)
<1>12. \A a \in (n + 1)..N : g[a] = IF f[a] = b THEN c ELSE f[a]
  OBVIOUS
<1>13. g \in [(n + 1)..N -> DOMAIN zs]
  BY <1>4, <1>5, <1>6
<1>14. new.zeek = [os EXCEPT ![b] = Lent(os[b], x)]
  BY <1>10
<1> HIDE DEF g, new
<1>15. \A a \in (n + 1)..N : f[a] # c /\ a \in n..N /\ f[a] \in DOMAIN zs
  BY <1>4, <1>5 DEF c
<1>16. ASSUME NEW a \in (n + 1)..N, NEW d \in (n + 1)..N, g[a] = g[d] PROVE a = d
  BY <1>5, <1>12, <1>15, <1>16
<1>17. ASSUME NEW a \in (n + 1)..N
       PROVE  /\ ~new.zeek[g[a]].matched /\ zs[g[a]].ts = ts[a].ts
              /\ compatible(zs[g[a]].event, ts[a].event)
  <2>1. g[a] \in DOMAIN zs /\ g[a] # b
    BY <1>6, <1>12, <1>15
  <2>2. new.zeek[g[a]] = os[g[a]]
    BY <1>1, <1>14, <2>1
  <2>3. CASE f[a] # b
    <3>1. g[a] = f[a]
      BY <1>12, <2>3
    <3> QED BY <1>5, <1>15, <2>2, <3>1
  <2>4. CASE f[a] = b
    <3>1. g[a] = c
      BY <1>12, <2>4
    <3>2. zs[b].ts = ts[a].ts /\ compatible(zs[b].event, ts[a].event)
      BY <1>5, <1>15, <2>4
    <3>3. compatible(zs[b].event, x.event) /\ zs[c].event.tag = NoTag
      BY <1>1, <1>6, <1>10, <1>11
    <3>4. compatible(zs[c].event, ts[a].event)
      BY <1>6, <3>2, <3>3, CompatibleAcross
    <3> QED BY <1>6, <1>11, <2>2, <3>1, <3>2, <3>4
  <2> QED BY <2>3, <2>4
<1>18. Partners(zs, ts, n, new, g)
  BY <1>13, <1>16, <1>17 DEF Partners
<1> QED BY <1>10, <1>18 DEF new, x, os

\* Frames that repeat what Zeek logged all find their partners, and change no tag.
LEMMA EchoFindsPartners ==
  ASSUME NEW zs, NEW ts, StampsFit(zs, ts), \A a \in DOMAIN ts : ts[a].event.tag = NoTag,
         NEW f \in [DOMAIN ts -> DOMAIN zs],
         \A a, b \in DOMAIN ts : f[a] = f[b] => a = b,
         \A a \in DOMAIN ts : /\ zs[f[a]].ts = ts[a].ts
                              /\ compatible(zs[f[a]].event, ts[a].event)
  PROVE  /\ Merged(zs, ts).extra = << >>
         /\ \A i \in DOMAIN zs : Merged(zs, ts).zeek[i].event.tag = NoTag
<1> DEFINE N == Len(ts)
<1>1. /\ zs \in Seq(StampedEvent) /\ ts \in Seq(StampedEvent) /\ N \in Nat /\ DOMAIN ts = 1..N
      /\ N \in 0..N
  BY DEF StampsFit
<1>2. PICK g : /\ g[0] = [zeek |-> zs, extra |-> << >>]
               /\ \A n \in 1..N : g[n] = MergeOne(g[n - 1], ts[n])
               /\ Merged(zs, ts) = g[N]
  BY <1>1, MergedLoop
<1>3. \A n \in 0..N : MergeFits(zs, ts, n, g[n])
  BY <1>2, MergeTurns
<1> DEFINE J(n) == /\ g[n].extra = << >>
                   /\ \A i \in DOMAIN zs : g[n].zeek[i].event.tag = NoTag
                   /\ \E e : Partners(zs, ts, n, g[n], e)
<1>4. J(0)
  <2>1. g[0].extra = << >> /\ g[0].zeek = zs
    BY <1>2
  <2>2. \A i \in DOMAIN zs : ~zs[i].matched /\ zs[i].event.tag = NoTag
    BY DEF StampsFit, FromZeek
  <2>3. (0 + 1)..N = DOMAIN ts
    BY <1>1
  <2>4. Partners(zs, ts, 0, g[0], f)
    BY <2>1, <2>2, <2>3 DEF Partners
  <2> QED BY <2>1, <2>2, <2>4
<1>5. ASSUME NEW n \in 1..N, J(n - 1) PROVE J(n)
  <2> DEFINE a == g[n - 1]
  <2>1. /\ MergeFits(zs, ts, n - 1, a) /\ a.extra = << >>
        /\ \A i \in DOMAIN zs : a.zeek[i].event.tag = NoTag
    <3>1. n - 1 \in 0..N
      BY <1>1
    <3> QED BY <1>3, <1>5, <3>1
  <2>2. PICK e : Partners(zs, ts, n - 1, a, e)
    BY <1>5
  <2>3. g[n] = MergeOne(a, ts[n])
    BY <1>2
  <2> HIDE DEF a
  <2>4. PICK b \in DOMAIN zs :
          /\ g[n] = [zeek |-> [a.zeek EXCEPT ![b] = Lent(a.zeek[b], ts[n])], extra |-> a.extra]
          /\ \E d : Partners(zs, ts, n, g[n], d)
    <3>1. \E b \in DOMAIN zs :
            /\ ~a.zeek[b].matched
            /\ MergeOne(a, ts[n]) = [zeek |-> [a.zeek EXCEPT ![b] = Lent(a.zeek[b], ts[n])],
                                     extra |-> a.extra]
            /\ \E d : Partners(zs, ts, n, MergeOne(a, ts[n]), d)
      <4>1. n \in 1..Len(ts) /\ MergeFits(zs, ts, n - 1, a)
        BY <2>1
      <4> HIDE DEF J, N
      <4> QED BY ONLY StampsFit(zs, ts), <4>1, <2>2, PartnersLast
    <3> QED BY <2>3, <3>1
  <2>5. g[n].extra = << >> /\ g[n].zeek = [a.zeek EXCEPT ![b] = Lent(a.zeek[b], ts[n])]
    BY <2>1, <2>4
  <2>6. ts[n].event.tag = NoTag /\ ts[n] \in StampedEvent
    BY <1>1, StampTypes
  <2>7. a.zeek \in Seq(StampedEvent) /\ DOMAIN a.zeek = DOMAIN zs
    BY <2>1 DEF MergeFits
  <2>8. Lent(a.zeek[b], ts[n]).event.tag = NoTag
    <3>1. a.zeek[b] \in StampedEvent
      BY <2>7, StampTypes
    <3> QED BY <2>1, <2>6, <3>1, LentCorroborates
  <2>9. ASSUME NEW i \in DOMAIN zs PROVE g[n].zeek[i].event.tag = NoTag
    <3>1. CASE i = b
      BY <2>5, <2>7, <2>8, <3>1
    <3>2. CASE i # b
      BY <2>1, <2>5, <2>7, <3>2
    <3> QED BY <3>1, <3>2
  <2> QED BY <2>4, <2>5, <2>9
<1>6. ASSUME NEW j \in 0..N PROVE J(j)
  <2> DEFINE bad == {n \in 0..N : ~J(n)}
  <2> HIDE DEF J
  <2> SUFFICES ASSUME bad # {} PROVE FALSE
    OBVIOUS
  <2>1. PICK n \in bad : \A x \in bad : n <= x
    <3>1. bad \in SUBSET Nat
      BY <1>1
    <3> HIDE DEF bad
    <3> QED BY <3>1, LeastExists
  <2>2. n \in 0..N /\ ~J(n) /\ n # 0
    BY <1>4, <2>1
  <2>3. n \in 1..N /\ n - 1 \in 0..N /\ ~(n <= n - 1)
    BY <1>1, <2>2
  <2>4. J(n - 1)
    BY <2>1, <2>3
  <2> QED BY <1>5, <2>2, <2>3, <2>4
<1>7. J(N)
  BY <1>1, <1>6
<1> QED BY <1>2, <1>7

\* The events say the same, in the same direction.
Repeats(e, f) == SameEvent(e, f) /\ e.dir = f.dir

\* Two transcripts that say the same are cut at the same place and leave machines that
\* are alike both ways (the loop over merged events in normalize_sessions).
LEMMA KeptAlike ==
  ASSUME NEW t \in Seq(StampedEvent), NEW r \in Seq(StampedEvent), Len(t) = Len(r),
         \A k \in 1..Len(t) : Repeats(t[k].event, r[k].event),
         NEW h \in BOOLEAN, NEW p \in MailProtocol
  PROVE  LET m == MachineAfter(p, Bounded(t), h)
             n == MachineAfter(p, Bounded(r), h)
         IN  /\ m \in Over(Tags \cup {NoTag}, Nat) /\ n \in Over(Tags \cup {NoTag}, Nat)
             /\ Alike(m, n) /\ Alike(n, m)
<1> DEFINE N == Len(t)
           T == Tags \cup {NoTag}
           O == Over(T, Nat)
           M(k) == MachineAfter(p, k, h)
<1>1. /\ N \in Nat /\ N \in 0..N /\ Len(r) = N /\ Len(r) \in Nat
      /\ \A k \in 1..N : /\ t[k].event \in SessionEvent /\ r[k].event \in SessionEvent
                         /\ Repeats(t[k].event, r[k].event)
  BY StampTypes
<1>2. PICK a : /\ a[0] = << >>
               /\ \A n \in 1..N : a[n] = KeepEvent(a[n - 1], t[n])
               /\ Bounded(t) = a[N]
  BY <1>1, BoundedLoop
<1>3. PICK b : /\ b[0] = << >>
               /\ \A n \in 1..N : b[n] = KeepEvent(b[n - 1], r[n])
               /\ Bounded(r) = b[N]
  BY <1>1, BoundedLoop
<1> DEFINE J(n) == /\ a[n] \in Seq(SessionEvent) /\ b[n] \in Seq(SessionEvent)
                   /\ Len(a[n]) = Len(b[n])
                   /\ Len(a[n]) > 0 => Repeats(a[n][Len(a[n])], b[n][Len(a[n])])
                   /\ M(a[n]) \in O /\ M(b[n]) \in O
                   /\ Alike(M(a[n]), M(b[n])) /\ Alike(M(b[n]), M(a[n]))
<1>4. J(0)
  <2>1. M(<< >>) = Start
    <3>1. Len(<< >>) = 0 /\ Len(<< >>) \in Nat
      OBVIOUS
    <3>2. PICK g : g[0] = Start /\ M(<< >>) = g[Len(<< >>)]
      BY <3>1, MachineLoop
    <3> QED BY <3>1, <3>2
  <2>2. Start \in O
    BY DEF Start, Over
  <2>3. Alike(Start, Start)
    BY DEF Alike
  <2>4. << >> \in Seq(SessionEvent) /\ Len(<< >>) = 0
    OBVIOUS
  <2> HIDE DEF M, O
  <2> QED BY <1>2, <1>3, <2>1, <2>2, <2>3, <2>4
<1>5. ASSUME NEW n \in 1..N, J(n - 1) PROVE J(n)
  <2> DEFINE v == a[n - 1]
             w == b[n - 1]
             e == t[n].event
             f == r[n].event
             L == Len(v)
  <2>1. /\ v \in Seq(SessionEvent) /\ w \in Seq(SessionEvent) /\ L = Len(w)
        /\ L > 0 => Repeats(v[L], w[L])
        /\ M(v) \in O /\ M(w) \in O /\ Alike(M(v), M(w)) /\ Alike(M(w), M(v))
    BY <1>5
  <2>2. /\ e \in SessionEvent /\ f \in SessionEvent /\ Repeats(e, f)
        /\ a[n] = KeepEvent(v, t[n]) /\ b[n] = KeepEvent(w, r[n])
    BY <1>1, <1>2, <1>3
  <2> HIDE DEF M, v, w, e, f, J
  <2>3. L \in Nat /\ (v # << >> <=> L > 0) /\ (w # << >> <=> L > 0)
    BY <2>1
  <2>4. L > 0 => (is_duplicate_capability(Last(v), e) <=> is_duplicate_capability(Last(w), f))
    <3>1. Last(v) = v[L] /\ Last(w) = w[L]
      BY <2>1 DEF Last
    <3> QED BY <2>1, <2>2, <3>1 DEF Repeats, SameEvent, is_duplicate_capability
  <2>5. \/ a[n] = v /\ b[n] = w
        \/ a[n] = Append(v, e) /\ b[n] = Append(w, f)
    <3>1. a[n] = IF (L > 0 /\ is_duplicate_capability(Last(v), e)) \/ L >= SessionBound
                 THEN v ELSE Append(v, e)
      BY <2>2, <2>3 DEF KeepEvent, e
    <3>2. b[n] = IF (L > 0 /\ is_duplicate_capability(Last(w), f)) \/ L >= SessionBound
                 THEN w ELSE Append(w, f)
      BY <2>1, <2>2, <2>3 DEF KeepEvent, f
    <3> HIDE DEF L
    <3> QED BY <2>4, <3>1, <3>2
  <2>6. CASE a[n] = v /\ b[n] = w
    BY <2>1, <2>6 DEF J
  <2>7. CASE a[n] = Append(v, e) /\ b[n] = Append(w, f)
    <3>1. M(a[n]) = Upgrade(p, M(v), e, h) /\ M(b[n]) = Upgrade(p, M(w), f, h)
      BY <2>1, <2>2, <2>7, MachineAppend DEF M
    <3>2. EventOver(e, T, Nat) /\ EventOver(f, T, Nat)
      BY <2>2, SessionEventOver
    <3>3. SameEvent(e, f) /\ SameEvent(f, e)
      BY <2>2 DEF Repeats, SameEvent
    <3>4. M(a[n]) \in O /\ M(b[n]) \in O
      BY <2>1, <3>1, <3>2, UpgradeTurns
    <3>5. Alike(M(a[n]), M(b[n])) /\ Alike(M(b[n]), M(a[n]))
      BY <2>1, <3>1, <3>2, <3>3, TurnsAlike
    <3>6. /\ Append(v, e) \in Seq(SessionEvent) /\ Append(w, f) \in Seq(SessionEvent)
          /\ Len(Append(v, e)) = L + 1 /\ Len(Append(w, f)) = L + 1
          /\ Append(v, e)[L + 1] = e /\ Append(w, f)[L + 1] = f
      BY <2>1, <2>2
    <3> HIDE DEF L, O
    <3> QED BY <2>2, <2>7, <3>4, <3>5, <3>6 DEF J
  <2> QED BY <2>5, <2>6, <2>7
<1>6. ASSUME NEW j \in 0..N PROVE J(j)
  <2> DEFINE bad == {n \in 0..N : ~J(n)}
  <2> HIDE DEF J
  <2> SUFFICES ASSUME bad # {} PROVE FALSE
    OBVIOUS
  <2>1. PICK n \in bad : \A x \in bad : n <= x
    <3>1. bad \in SUBSET Nat
      BY <1>1
    <3> HIDE DEF bad
    <3> QED BY <3>1, LeastExists
  <2>2. n \in 0..N /\ ~J(n) /\ n # 0
    BY <1>4, <2>1
  <2>3. n \in 1..N /\ n - 1 \in 0..N /\ ~(n <= n - 1)
    BY <1>1, <2>2
  <2>4. J(n - 1)
    BY <2>1, <2>3
  <2> QED BY <1>5, <2>2, <2>3, <2>4
<1>7. J(N)
  BY <1>1, <1>6
<1> QED BY <1>2, <1>3, <1>7

\* Machines that are alike both ways have the same verdict.
LEMMA AlikeVerdicts ==
  ASSUME NEW T, NEW F, NEW m \in Over(T, F), NEW n \in Over(T, F), Alike(m, n), Alike(n, m), NEW h
  PROVE  Verdict(m, h) = Verdict(n, h)
<1>1. /\ m.advertised <=> n.advertised
      /\ m.requested <=> n.requested
      /\ m.accepted <=> n.accepted
      /\ m.fallback <=> n.fallback
      /\ m.violation <=> n.violation
  BY DEF Alike
<1> QED BY <1>1 DEF Verdict

\* The transcript with the frames says what the transcript without them says.
LEMMA EchoRepeats ==
  ASSUME NEW zs, NEW ts, StampsFit(zs, ts), NEW z, z = Merged(zs, ts).zeek,
         Merged(zs, ts).extra = << >>, \A i \in DOMAIN zs : z[i].event.tag = NoTag,
         NEW t, t = merge_events(zs, ts), NEW r, r = merge_events(zs, << >>)
  PROVE  /\ t \in Seq(StampedEvent) /\ r \in Seq(StampedEvent) /\ Len(t) = Len(r)
         /\ \A k \in 1..Len(t) : Repeats(t[k].event, r[k].event)
<1>1. /\ MergeFits(zs, ts, Len(ts), Merged(zs, ts))
      /\ zs \in Seq(StampedEvent) /\ \A i \in DOMAIN zs : zs[i].event.tag = NoTag
  BY MergePlaces DEF StampsFit, FromZeek
<1>2. z \in Seq(StampedEvent) /\ DOMAIN z = DOMAIN zs /\ \A i \in DOMAIN zs : Corroborated(zs[i], z[i])
  BY <1>1 DEF MergeFits
<1>3. StampsFit(zs, << >>)
  <2>1. << >> \in Seq(StampedEvent) /\ DOMAIN << >> = {}
    OBVIOUS
  <2> QED BY <2>1 DEF StampsFit, DistinctOrders, DistinctFrames
<1>4. Merged(zs, << >>) = [zeek |-> zs, extra |-> << >>]
  <2>1. Len(<< >>) = 0 /\ Len(<< >>) \in Nat
    OBVIOUS
  <2>2. PICK g : /\ g[0] = [zeek |-> zs, extra |-> << >>]
                 /\ Merged(zs, << >>) = g[Len(<< >>)]
    BY <2>1, MergedLoop
  <2> QED BY <2>1, <2>2
<1>5. Joined(zs, ts) = z /\ Joined(zs, << >>) = zs
  <2>1. z \o << >> = z /\ zs \o << >> = zs
    BY <1>1, <1>2
  <2>2. Merged(zs, << >>).zeek = zs /\ Merged(zs, << >>).extra = << >>
    BY <1>4
  <2> QED BY <2>1, <2>2 DEF Joined
<1>6. \A i \in DOMAIN zs : z[i].ts = zs[i].ts /\ z[i].order = zs[i].order
  BY <1>2 DEF Corroborated
<1>7. Arrangement(z) = Arrangement(zs)
  <2>1. \A i, j \in DOMAIN zs : Before(z, j, i) <=> Before(zs, j, i)
    BY <1>6 DEF Before
  <2>2. ASSUME NEW i \in DOMAIN zs PROVE Place(z, i) = Place(zs, i)
    <3>1. {j \in DOMAIN z : Before(z, j, i)} = {j \in DOMAIN zs : Before(zs, j, i)}
      BY <1>2, <2>1
    <3> QED BY <3>1 DEF Place
  <2>3. ASSUME NEW k \in DOMAIN zs
        PROVE  (CHOOSE i \in DOMAIN z : Place(z, i) = k) = CHOOSE i \in DOMAIN zs : Place(zs, i) = k
    BY <1>2, <2>2
  <2> QED BY <1>2, <2>3 DEF Arrangement
<1> DEFINE p == Arrangement(zs)
<1>8. /\ t \in Seq(StampedEvent) /\ DOMAIN t = DOMAIN zs /\ \A k \in DOMAIN t : t[k] = z[p[k]]
  BY <1>2, <1>5, <1>7, TranscriptArranged
<1>9. /\ r \in Seq(StampedEvent) /\ DOMAIN r = DOMAIN zs /\ \A k \in DOMAIN r : r[k] = zs[p[k]]
      /\ Arranges(p, zs)
  BY <1>3, <1>5, TranscriptArranged
<1> HIDE DEF p
<1>10. DOMAIN t = 1..Len(t) /\ DOMAIN r = 1..Len(r) /\ Len(t) \in Nat /\ Len(r) \in Nat
  BY <1>8, <1>9
<1>11. Len(t) = Len(r)
  BY <1>8, <1>9, <1>10
<1>12. ASSUME NEW k \in 1..Len(t) PROVE Repeats(t[k].event, r[k].event)
  <2>1. p[k] \in DOMAIN zs /\ t[k] = z[p[k]] /\ r[k] = zs[p[k]]
    BY <1>8, <1>9, <1>10 DEF Arranges
  <2> QED BY <1>1, <1>2, <2>1 DEF Corroborated, Repeats, SameEvent
<1> QED BY <1>8, <1>9, <1>11, <1>12

\* CorroborationKeepsVerdict for every capture: frames that repeat what Zeek logged are
\* all merged into Zeek's events, and the verdict is the one Zeek's events alone give
\* (normalize_sessions).
THEOREM EchoesChangeNoVerdict == Spec => []CorroborationKeepsVerdict
<1>1. VerdictInv => CorroborationKeepsVerdict
  <2> SUFFICES ASSUME VerdictInv, phase = "done", NEW s \in sessions, Echo(s.uid)
               PROVE  s.assessment.explicit.state =
                        UpgradeOf(s.protocol, Bounded(merge_events(zeek[s.uid], << >>)),
                                  ClientHello(s.uid), {}).state
    BY DEF CorroborationKeepsVerdict, Finished
  <2> DEFINE u == s.uid
             t == Transcript(u)
             r == merge_events(zeek[u], << >>)
             h == ClientHello(u)
             p == s.protocol
             m == MachineAfter(p, Bounded(t), h)
             n == MachineAfter(p, Bounded(r), h)
  <2>1. u \in Uids /\ p \in MailProtocol \cup {None}
    BY SessionVerdict
  <2>2. s.assessment.explicit.state = IF p = None THEN None ELSE Verdict(m, h)
    BY SessionVerdict
  <2>3. UpgradeOf(p, Bounded(r), h, {}).state = IF p = None THEN None ELSE Verdict(n, h)
    <3> HIDE DEF p, r, h
    <3> QED BY DEF UpgradeOf, ExplicitUpgrade, n
  <2>4. h \in BOOLEAN
    BY DEF ClientHello
  <2>5. StampsFit(zeek[u], tshark[u])
    BY <2>1 DEF VerdictInv, StampInv
  <2>6. t = merge_events(zeek[u], tshark[u])
    BY DEF Transcript
  <2>7. /\ Merged(zeek[u], tshark[u]).extra = << >>
        /\ \A i \in DOMAIN zeek[u] : Merged(zeek[u], tshark[u]).zeek[i].event.tag = NoTag
    <3>1. PICK f \in [DOMAIN tshark[u] -> DOMAIN zeek[u]] :
            /\ \A a, b \in DOMAIN tshark[u] : f[a] = f[b] => a = b
            /\ \A a \in DOMAIN tshark[u] :
                 /\ tshark[u][a].event.tag = NoTag
                 /\ zeek[u][f[a]].ts = tshark[u][a].ts
                 /\ compatible(zeek[u][f[a]].event, tshark[u][a].event)
      BY DEF Echo
    <3> HIDE DEF u
    <3> QED BY <2>5, <3>1, EchoFindsPartners
  <2> HIDE DEF u, t, r, h, p
  <2>8. /\ t \in Seq(StampedEvent) /\ r \in Seq(StampedEvent) /\ Len(t) = Len(r)
        /\ \A k \in 1..Len(t) : Repeats(t[k].event, r[k].event)
    BY <2>5, <2>6, <2>7, EchoRepeats DEF r
  <2>9. p # None => Verdict(m, h) = Verdict(n, h)
    <3> SUFFICES ASSUME p \in MailProtocol PROVE Verdict(m, h) = Verdict(n, h)
      BY <2>1
    <3>1. /\ m \in Over(Tags \cup {NoTag}, Nat) /\ n \in Over(Tags \cup {NoTag}, Nat)
          /\ Alike(m, n) /\ Alike(n, m)
      BY <2>4, <2>8, KeptAlike
    <3> HIDE DEF m, n
    <3> QED BY <3>1, AlikeVerdicts
  <2> HIDE DEF m, n
  <2> QED BY <2>2, <2>3, <2>9 DEF u, r, h, p
<1> QED BY <1>1, VerdictInvariant, PTL

=============================================================================

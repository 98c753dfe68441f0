------------------------------ MODULE Sessions ------------------------------
(***************************************************************************)
(* normalize_sessions: the rows Zeek logged about mail protocols and, in a *)
(* second pass, the frames TShark decoded, joined per connection into one  *)
(* session: its protocol, its transcript and its upgrade verdict.          *)
(* run_analysis makes the first pass without frames and asks for TShark    *)
(* only if needs_tshark_corroboration says so.                             *)
(*                                                                         *)
(* Times are whole ticks.  Two texts are the same text when the events     *)
(* agree on "reply" and "token".  The list of sessions is sorted by a key  *)
(* that ends in the uid, so it is modelled as a set.                       *)
(***************************************************************************)
EXTENDS UpgradeMachine, SequencesExt

CONSTANTS
    Flows,        \* Flows[u]: the address pair and the ports of connection u
    Rows,         \* the sm_email.log rows a capture is made of
    FrameShapes,  \* the TShark frames, without their number
    Ssl,          \* the possible ssl.log contents: uid -> facts or NoSsl
    MaxRows, MaxFrames,  \* bounds on the input
    MergeWindow,  \* _MERGE_WINDOW_SECONDS, in ticks
    SessionBound  \* _MAX_EVENTS_PER_SESSION

VARIABLES
    phase,        \* "rows", "frames", "done" or "failed"
    ssl,          \* _ssl_facts(logs)
    zeek, tshark, \* stamped events of each connection
    confirming, tsharkNames,  \* protocols each source names for a connection
    ambiguous,    \* connections with an ambiguous banner
    helloFrames,  \* frames of ClientHello messages
    order,        \* events stamped so far
    frameCount,   \* frames read so far
    sessions

vars == <<phase, ssl, zeek, tshark, confirming, tsharkNames, ambiguous, helloFrames,
          order, frameCount, sessions>>

Uids == DOMAIN Flows
NoSsl == [present |-> FALSE, hello |-> FALSE, alpn |-> None]
NoEvent == [kind |-> None]

\* _ssl_facts reads a protocol only from a row of ssl.log.
ASSUME SslAssumption ==
  \A s \in Ssl, u \in Uids : /\ s[u].alpn # None => s[u].present
                             /\ s[u].alpn \in MailProtocol \cup {None}

ASSUME LimitAssumption == MergeWindow \in Nat /\ SessionBound \in Nat

\* Zeek's rows carry neither frame numbers nor tags (_event_from_email_row).
ASSUME RowAssumption ==
  \A row \in Rows :
    /\ row.ts \in Int /\ row.protocol \in MailProtocol \cup {None}
    /\ row.event \in [kind : SessionEventKind, command : Commands, reply : Replies,
                      token : BOOLEAN, dir : {"orig", "resp"}, tag : {NoTag}, frame : {NoFrame}]

\* TShark cuts SMTP commands to four letters, and may give an SMTP reply no number.
ASSUME FrameAssumption ==
  \A frame \in FrameShapes :
    /\ frame.ts \in Int /\ frame.tag \in Tags \cup {NoTag}
    /\ \A p \in MailProtocol :
         /\ frame.request[p] \in Commands \cup (IF p = "smtp" THEN {"star"} ELSE {})
         /\ frame.reply[p] \in Replies \cup (IF p = "smtp" THEN {"not_a_code"} ELSE {})

SMTP_PORTS == {25, 465, 587}
IMAP_PORTS == {143, 993}
POP3_PORTS == {110, 995}
IMPLICIT_TLS_PORTS == {465, 993, 995}

port_hint_for_flow(f) ==
  LET hint(p) == CASE p \in SMTP_PORTS -> "smtp" [] p \in IMAP_PORTS -> "imap"
                   [] p \in POP3_PORTS -> "pop3" [] OTHER -> None
  IN  IF hint(f.resp) # None THEN hint(f.resp) ELSE hint(f.orig)

-----------------------------------------------------------------------------
(* Reading sm_email.log.                                                   *)

ConfirmingKinds == SessionEventKind \ {"ambiguous_banner"}

is_duplicate_capability(previous, current) ==
  /\ previous.kind = "capability" /\ current.kind = "capability"
  /\ previous.reply = current.reply /\ previous.token = current.token
  /\ previous.dir = current.dir

LastEvent(stamped) == IF stamped = << >> THEN NoEvent ELSE Last(stamped).event

Stamped(ts, n, e) == [ts |-> ts, order |-> n, event |-> e, matched |-> FALSE]

\* A row of an unknown connection and a repeated capability line leave no trace.
ReadRow(row) ==
  /\ phase = "rows" /\ order < MaxRows
  /\ row.uid \in Uids
  /\ ~is_duplicate_capability(LastEvent(zeek[row.uid]), row.event)
  /\ zeek' = [zeek EXCEPT ![row.uid] = Append(@, Stamped(row.ts, order, row.event))]
  /\ order' = order + 1
  /\ ambiguous' = IF row.event.kind = "ambiguous_banner" THEN ambiguous \cup {row.uid}
                  ELSE ambiguous
  /\ confirming' = [confirming EXCEPT ![row.uid] =
                      IF row.event.kind \in ConfirmingKinds THEN @ \cup ({row.protocol} \ {None})
                      ELSE @]
  /\ UNCHANGED <<phase, ssl, tshark, tsharkNames, helloFrames, frameCount, sessions>>

-----------------------------------------------------------------------------
(* Reading TShark's frames.                                                *)

\* A frame holds what TShark's dissectors of the three protocols made of it.
tshark_protocol(frame) ==
  LET named == {p \in MailProtocol : frame.request[p] # None \/ frame.reply[p] # None}
  IN  IF "imap" \in named THEN "imap"
      ELSE IF "pop3" \in named THEN "pop3"
      ELSE IF "smtp" \in named THEN "smtp" ELSE None

\* The event of frame number n.  A request hides a reply in the same frame; TShark cuts
\* SMTP commands to four letters; an SMTP reply code that is no number gives no event.
tshark_event(frame, p, n) ==
  LET event(kind, command, reply, dir) ==
        [kind |-> kind, command |-> command, reply |-> reply, token |-> FALSE, dir |-> dir,
         tag |-> IF p = "imap" THEN frame.tag ELSE NoTag, frame |-> n]
  IN  CASE p = None -> NoEvent
        [] p # None /\ frame.request[p] # None ->
             event("request", IF p = "smtp" /\ frame.request[p] = "star" THEN "starttls"
                              ELSE frame.request[p], None, "orig")
        [] p # None /\ frame.request[p] = None /\ frame.reply[p] = "not_a_code" -> NoEvent
        [] OTHER -> event("reply", None, frame.reply[p], "resp")

\* The only connection between the frame's two addresses, or none.
match_frame_uid(frame) ==
  LET matches == {u \in Uids : Flows[u].conn = frame.conn}
  IN  IF Cardinality(matches) = 1 THEN matches ELSE {}

SkipFrame(frame) ==
  /\ phase = "frames" /\ frameCount < MaxFrames
  /\ match_frame_uid(frame) = {}
  /\ frameCount' = frameCount + 1
  /\ UNCHANGED <<phase, ssl, zeek, tshark, confirming, tsharkNames, ambiguous, helloFrames,
                 order, sessions>>

\* A frame may carry a ClientHello, a mail command or reply, both or neither; only
\* a mail event is stamped.  A ClientHello without a frame number is not kept.
ReadFrame(frame) ==
  /\ phase = "frames" /\ frameCount < MaxFrames
  /\ frameCount' = frameCount + 1
  /\ \E u \in match_frame_uid(frame) :
       LET n == IF frame.numbered THEN frameCount + 1 ELSE NoFrame
           protocol == tshark_protocol(frame)
           event == tshark_event(frame, protocol, n)
       IN  /\ helloFrames' = [helloFrames EXCEPT ![u] =
                                IF frame.hello THEN @ \cup ({n} \ {NoFrame}) ELSE @]
           /\ tsharkNames' = [tsharkNames EXCEPT ![u] = @ \cup ({protocol} \ {None})]
           /\ tshark' = IF event = NoEvent THEN tshark
                        ELSE [tshark EXCEPT ![u] = Append(@, Stamped(frame.ts, order, event))]
           /\ order' = IF event = NoEvent THEN order ELSE order + 1
  /\ UNCHANGED <<phase, ssl, zeek, confirming, ambiguous, sessions>>

-----------------------------------------------------------------------------
(* Merging the two transcripts of a connection.                            *)

compatible(z, t) ==
  /\ z.dir = t.dir
  /\ z.tag = NoTag \/ t.tag = NoTag \/ z.tag = t.tag
  /\ z.kind = t.kind
  /\ \/ z.kind = "request" /\ z.command = t.command
     \/ z.kind = "reply" /\ z.reply # None /\ z.reply = t.reply

with_tshark_evidence(z, t) ==
  [z EXCEPT !.frame = IF t.frame # NoFrame THEN t.frame ELSE @,
            !.tag = IF t.tag # NoTag THEN t.tag ELSE @]

Distance(a, b) == IF a >= b THEN a - b ELSE b - a

\* The unmatched compatible Zeek events in the window that are closest in time.
Closest(zs, x) ==
  LET near == {i \in DOMAIN zs : /\ ~zs[i].matched /\ compatible(zs[i].event, x.event)
                                 /\ Distance(zs[i].ts, x.ts) <= MergeWindow}
  IN  {i \in near : \A j \in near : Distance(zs[i].ts, x.ts) <= Distance(zs[j].ts, x.ts)}

\* Mutants: a Zeek event may be matched again; no frame is ever matched.
MergeTwice(acc, x) ==
  IF Closest(acc.zeek, x) = {} THEN [acc EXCEPT !.extra = Append(@, x)]
  ELSE [acc EXCEPT !.zeek[Max(Closest(acc.zeek, x))].event = with_tshark_evidence(@, x.event)]

MergeNever(acc, x) == [acc EXCEPT !.extra = Append(@, x)]

Lent(z, x) == [z EXCEPT !.event = with_tshark_evidence(@, x.event), !.matched = TRUE]

\* One TShark event: it lends its frame and tag to the closest Zeek event (the last
\* of several), or stays an event of its own.  A request without a command is dropped.
MergeOne(acc, x) ==
  IF x.event.kind = "request" /\ x.event.command = None THEN acc
  ELSE IF Closest(acc.zeek, x) = {} THEN [acc EXCEPT !.extra = Append(@, x)]
  ELSE LET best == Max(Closest(acc.zeek, x))
       IN  [acc EXCEPT !.zeek = [acc.zeek EXCEPT ![best] = Lent(@, x)]]

Merged(zs, ts) ==
  LET acc[n \in 0..Len(ts)] ==
        IF n = 0 THEN [zeek |-> zs, extra |-> << >>] ELSE MergeOne(acc[n - 1], ts[n])
  IN  acc[Len(ts)]

\* Whether item j of a list comes before item i once the list is sorted by time and
\* order; the sort is stable.
Before(s, j, i) ==
  \/ s[j].ts < s[i].ts
  \/ s[j].ts = s[i].ts /\ s[j].order < s[i].order
  \/ s[j].ts = s[i].ts /\ s[j].order = s[i].order /\ j < i

Place(s, i) == Cardinality({j \in DOMAIN s : Before(s, j, i)}) + 1

Sorted(s) == [k \in DOMAIN s |-> s[CHOOSE i \in DOMAIN s : Place(s, i) = k]]

merge_events(zs, ts) == Sorted(Merged(zs, ts).zeek \o Merged(zs, ts).extra)

\* Mutant: the newest events are kept, not the first.
KeepNewest(kept, x) ==
  IF kept # << >> /\ is_duplicate_capability(Last(kept), x.event) THEN kept
  ELSE IF Len(kept) >= SessionBound THEN Append(Tail(kept), x.event)
  ELSE Append(kept, x.event)

KeepEvent(kept, x) ==
  IF \/ kept # << >> /\ is_duplicate_capability(Last(kept), x.event)
     \/ Len(kept) >= SessionBound
  THEN kept ELSE Append(kept, x.event)

Bounded(merged) ==
  LET kept[n \in 0..Len(merged)] ==
        IF n = 0 THEN << >> ELSE KeepEvent(kept[n - 1], merged[n])
  IN  kept[Len(merged)]

-----------------------------------------------------------------------------
(* The session of a connection.                                            *)

\* Mutant: the sources are only compared when Zeek names a protocol.
ZeekFirst(zeekNames, sawAmbiguous, tsharkSet, alpn) ==
  LET names == IF zeekNames # {} THEN zeekNames ELSE tsharkSet \cup ({alpn} \ {None})
  IN  CASE Cardinality(names) > 1 ->
             [protocol |-> None, payload |-> "indeterminate", state |-> "conflicting"]
        [] Cardinality(names) = 1 ->
             LET p == CHOOSE p \in names : TRUE
             IN  [protocol |-> p, payload |-> p, state |-> "observed"]
        [] OTHER -> [protocol |-> None, state |-> "indeterminate",
                     payload |-> IF sawAmbiguous THEN "indeterminate" ELSE None]

resolve_identity(zeekNames, sawAmbiguous, tsharkSet, alpn) ==
  LET combined == zeekNames \cup tsharkSet \cup ({alpn} \ {None})
      disagree == tsharkSet # {} /\ zeekNames # {} /\ zeekNames # tsharkSet
  IN  CASE disagree \/ Cardinality(combined) > 1 ->
             [protocol |-> None, payload |-> "indeterminate", state |-> "conflicting"]
        [] ~disagree /\ Cardinality(combined) = 1 ->
             LET p == CHOOSE p \in combined : TRUE
             IN  [protocol |-> p, payload |-> p, state |-> "observed"]
        [] OTHER -> [protocol |-> None, state |-> "indeterminate",
                     payload |-> IF sawAmbiguous THEN "indeterminate" ELSE None]

\* The machine of the protocol after the last event of a transcript.
MachineAfter(protocol, events, hello) ==
  LET m[n \in 0..Len(events)] ==
        IF n = 0 THEN Start ELSE Upgrade(protocol, m[n - 1], events[n], hello)
  IN  m[Len(events)]

UpgradeOf(protocol, events, hello, frames) ==
  IF protocol = None
  THEN [state |-> None, evidence_state |-> "not_observable", frames |-> {}, downgrade |-> FALSE]
  ELSE ExplicitUpgrade(MachineAfter(protocol, events, hello), hello, frames)

ClientHello(u) == helloFrames[u] # {} \/ ssl[u].hello

assess_session(u, protocol, events) ==
  [explicit |-> UpgradeOf(protocol, events, ClientHello(u), helloFrames[u]),
   implicit |-> correlate_implicit_tls(Flows[u].resp \in IMPLICIT_TLS_PORTS,
                  ssl[u].present \/ helloFrames[u] # {}, ssl[u].alpn,
                  IF ssl[u].alpn # None THEN helloFrames[u] ELSE {})]

\* The sessions of the events read so far: a connection with no payload evidence is
\* left out, unless its banner was ambiguous or it speaks TLS on an implicit-TLS port.
SessionOf(u) ==
  LET id == resolve_identity(confirming[u], u \in ambiguous, tsharkNames[u], ssl[u].alpn)
      implicitCandidate == Flows[u].resp \in IMPLICIT_TLS_PORTS /\ ssl[u].present
      events == Bounded(merge_events(zeek[u], tshark[u]))
      seen == zeek[u] # << >> \/ tshark[u] # << >> \/ tsharkNames[u] # {} \/ ssl[u].present
  IN  IF ~seen \/ (id.payload = None /\ u \notin ambiguous /\ ~implicitCandidate) THEN {}
      ELSE {[uid |-> u, protocol |-> id.protocol, state |-> id.state,
             payload |-> IF id.payload = None THEN "indeterminate" ELSE id.payload,
             port_hint |-> port_hint_for_flow(Flows[u]),
             corroborated |-> tsharkNames[u] # {} \/ helloFrames[u] # {},
             events |-> events,
             assessment |-> assess_session(u, id.protocol, events)]}

normalize_sessions == UNION {SessionOf(u) : u \in Uids}

\* True when a TShark pass can add frame-level evidence.
needs_tshark_corroboration(found) ==
  \/ \E s \in found : s.protocol \in MailProtocol \/ s.payload \in MailProtocol
  \/ \E u \in Uids : ssl[u].present
  \/ \E u \in Uids : Flows[u].resp \in IMPLICIT_TLS_PORTS

-----------------------------------------------------------------------------

Init ==
  /\ phase = "rows"
  /\ ssl \in Ssl
  /\ zeek = [u \in Uids |-> << >>] /\ tshark = [u \in Uids |-> << >>]
  /\ confirming = [u \in Uids |-> {}] /\ tsharkNames = [u \in Uids |-> {}]
  /\ ambiguous = {} /\ helloFrames = [u \in Uids |-> {}]
  /\ order = 0 /\ frameCount = 0 /\ sessions = {}

Unread == UNCHANGED <<ssl, zeek, tshark, confirming, tsharkNames, ambiguous, helloFrames,
                      order, frameCount>>

\* The first pass, without frames; a second one follows if it can add evidence.
FirstPass ==
  /\ phase = "rows"
  /\ sessions' = normalize_sessions
  /\ phase' = IF needs_tshark_corroboration(sessions') THEN "frames" ELSE "done"
  /\ Unread

TSharkFails ==
  /\ phase = "frames" /\ frameCount = 0
  /\ phase' = "failed" /\ sessions' = {}
  /\ Unread

SecondPass ==
  /\ phase = "frames"
  /\ sessions' = normalize_sessions
  /\ phase' = "done"
  /\ Unread

Next ==
  \/ \E row \in Rows : ReadRow(row)
  \/ FirstPass
  \/ \E frame \in FrameShapes : SkipFrame(frame) \/ ReadFrame(frame)
  \/ SecondPass
  \/ TSharkFails

Spec == Init /\ [][Next]_vars

-----------------------------------------------------------------------------
(* Properties.                                                             *)

Finished == phase = "done"

\* Every protocol some source names for a connection.
Named(u) == confirming[u] \cup tsharkNames[u] \cup ({ssl[u].alpn} \ {None})

\* A session has a protocol exactly when the sources that name one agree, whatever
\* the port; sources that disagree are reported as conflicting and leave no verdict.
\* A connection whose protocol is known always has its session.
IdentityIsUnanimous ==
  Finished =>
    /\ \A u \in Uids : Named(u) # {} => \E s \in sessions : s.uid = u
    /\ \A s \in sessions :
         /\ s.protocol # None <=> Named(s.uid) = {s.protocol}
         /\ s.state = "conflicting" <=> Cardinality(Named(s.uid)) > 1
         /\ s.state # "observed" => s.assessment.explicit.state = None

Transcript(u) == merge_events(zeek[u], tshark[u])

\* Merging loses and invents nothing: every Zeek event and every decoded frame is in
\* the transcript once, and the transcript is in the order of time.
MergeKeepsEvents ==
  Finished => \A u \in Uids :
    LET t == Transcript(u)
        in(n) == {i \in DOMAIN t : t[i].event.frame = n}
    IN  /\ \A z \in DOMAIN zeek[u] :
             Cardinality({i \in DOMAIN t : t[i].order = zeek[u][z].order}) = 1
        /\ \A x \in DOMAIN tshark[u] :
             tshark[u][x].event.frame # NoFrame
               => Cardinality(in(tshark[u][x].event.frame)) = 1
        /\ \A i, j \in DOMAIN t : i < j => t[i].ts <= t[j].ts

\* The frames repeat what Zeek logged, each at the time Zeek logged it, and bring no
\* IMAP tags: a tag is evidence Zeek never logs, and may well change the verdict.
Echo(u) ==
  \E f \in [DOMAIN tshark[u] -> DOMAIN zeek[u]] :
    /\ \A a, b \in DOMAIN tshark[u] : f[a] = f[b] => a = b
    /\ \A a \in DOMAIN tshark[u] :
         /\ tshark[u][a].event.tag = NoTag
         /\ zeek[u][f[a]].ts = tshark[u][a].ts
         /\ compatible(zeek[u][f[a]].event, tshark[u][a].event)

\* Corroboration adds frames, never another verdict: when TShark decoded what Zeek
\* had logged, the verdict is the one Zeek's events alone give.
CorroborationKeepsVerdict ==
  Finished => \A s \in sessions :
    Echo(s.uid) =>
      s.assessment.explicit.state =
        UpgradeOf(s.protocol, Bounded(merge_events(zeek[s.uid], << >>)), ClientHello(s.uid), {}).state

Rank(v) == CASE v = None -> 0 [] v = "advertised" -> 1 [] v = "requested" -> 2
             [] v \in {"accepted", "tls_established"} -> 3
             [] v = "plaintext_fallback" -> 4 [] v = "violation" -> 5

\* A transcript longer than the bound is cut: the verdict of what is kept is never
\* worse than the verdict of the whole transcript.
TruncationNeverAccuses ==
  Finished => \A s \in sessions :
    LET whole == [i \in DOMAIN Transcript(s.uid) |-> Transcript(s.uid)[i].event]
    IN  Rank(s.assessment.explicit.state)
          <= Rank(UpgradeOf(s.protocol, whole, ClientHello(s.uid), {}).state)

=============================================================================

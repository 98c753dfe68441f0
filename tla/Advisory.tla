------------------------------ MODULE Advisory ------------------------------
(***************************************************************************)
(* The advisory stage of a capture run.  The sessions of the capture are   *)
(* summed up in one window per responder, the windows are scored against   *)
(* the windows of earlier runs (ml_history/windows.jsonl), the advisory    *)
(* section of the report is written from the scores, and the windows are   *)
(* appended to the history.                                                *)
(*                                                                         *)
(* Scores are not computed.  A window's rare categories are; otherwise a   *)
(* detector may report any window whose inputs let it.  The order of the   *)
(* items, which is that of the scores, is left out.  A window's site is    *)
(* always "local" and it is never in maintenance: both are left out.       *)
(***************************************************************************)
EXTENDS Integers, FiniteSets, SequencesExt

CONSTANTS
    Captures,    \* the captures: sequences of sessions, joined with their evidence
    MaxRuns,     \* bound: runs of the worker
    MaxDeletions,\* bound: times the operator deletes the history
    MaxWindows,  \* MAX_ML_WINDOWS
    MinHistory,  \* MIN_HISTORY_WINDOWS
    MinTrain,    \* ISOLATION_FOREST_MIN_TRAIN_WINDOWS
    MinSessions, \* MIN_SESSION_COUNT
    Gate,        \* INCOMPLETE_RATE_GATE, in units of 1/RateUnit
    RarityRatio, \* exp(Z_THRESHOLD)
    MaxItems     \* the items a section may hold

ASSUME LimitsAssumption ==
  /\ {MinHistory, MinTrain, MaxWindows, MaxItems} \subseteq Nat \ {0}
  /\ MinHistory <= MinTrain /\ MinTrain <= MaxWindows /\ MinSessions \in Nat

\* A capture is a list of sessions, and responders are numbered in their order.
ASSUME CaptureAssumption ==
  \A c \in Captures : c \in Seq(ToSet(c)) /\ \A i \in DOMAIN c : c[i].endpoint \in Nat

VARIABLES
    pc,         \* "idle", "loaded", "advised", "opened", "written" or "appended"
    capture,    \* the capture of the run
    loaded,     \* the history the run scores against
    current,    \* the windows of the run
    section,    \* the advisory section of the run's report
    retained,   \* the windows append_windows is writing
    tmp, file,  \* .windows.jsonl.tmp and windows.jsonl
    published,  \* the section of the last report published
    appended,   \* every window appended since the history was last deleted
    epoch,      \* how often it was deleted
    runs

run == <<capture, loaded, current, section, retained>>
AdvisoryVars == <<pc, run, tmp, file, published, appended, epoch, runs>>

None == "none"
NoSection == [notice |-> None, anomalies |-> {}, epoch |-> -1]

-----------------------------------------------------------------------------
(* One window per responder.                                               *)

RateUnit == 2520    \* rates are exact for up to ten sessions

Where(rows, P(_)) == Cardinality({i \in DOMAIN rows : P(rows[i])})

\* The share of the rows with P that have Q; 0 when no row has P.
Rate(rows, P(_), Q(_)) ==
  LET of == Where(rows, P)
  IN  IF of = 0 THEN 0 ELSE (RateUnit * Where(rows, LAMBDA s : P(s) /\ Q(s))) \div of

role_for(s) ==
  CASE s.port = 25 -> "smtp_mx"
    [] s.port \in {465, 587} -> "smtp_submission"
    [] s.port \in {143, 993} -> "imap_access"
    [] s.port \in {110, 995} -> "pop3_access"
    [] OTHER -> CASE s.protocol = "imap" -> "imap_access"
                  [] s.protocol = "pop3" -> "pop3_access"
                  [] OTHER -> "smtp_mx"

Flow(s) == s.port # 0
Tls(s) == s.handshake
Versioned(s) == s.handshake /\ s.version # None
Old(s) == s.version \in {"TLSv10", "TLSv11", "SSLv3"}
Upgrading(s) == s.upgrade # None

\* The version of a window without any version is TLSv13, and a tie goes to the oldest.
dominant_tls_version(rows) ==
  LET n(v) == Where(rows, LAMBDA s : Versioned(s) /\ s.version = v)
      old == Where(rows, LAMBDA s : Versioned(s) /\ Old(s))
  IN  CASE Where(rows, Versioned) = 0 -> "TLSv13"
        [] OTHER -> IF old >= n("TLSv13") /\ old >= n("TLSv12") THEN "TLSv10"
                    ELSE IF n("TLSv12") > n("TLSv13") THEN "TLSv12" ELSE "TLSv13"

\* The window of the sessions of one responder: those of rows, in the order of its domain.
Window(e, rows) ==
  LET share(v) == Rate(rows, Versioned, LAMBDA s : s.version = v)
      issuers == {i \in DOMAIN rows : rows[i].handshake /\ rows[i].issuer # None}
      incomplete == Rate(rows, Flow, LAMBDA s : s.incomplete)
  IN  [endpoint |-> e, day |-> 0, role |-> role_for(rows[Max(DOMAIN rows)]),
       sessions |-> Cardinality(DOMAIN rows),
       rates |-> [tls13 |-> share("TLSv13"), tls12 |-> share("TLSv12"),
                  tls10 |-> Rate(rows, Versioned, Old),
                  failure |-> Rate(rows, Tls, LAMBDA s : ~s.established),
                  alert |-> Rate(rows, Tls, LAMBDA s : s.alert),
                  success |-> Rate(rows, Upgrading,
                                   LAMBDA s : s.upgrade \in {"tls_established", "accepted"}),
                  fallback |-> Rate(rows, Upgrading,
                                    LAMBDA s : s.upgrade = "plaintext_fallback"),
                  secrecy |-> Rate(rows, Tls, LAMBDA s : s.secrecy = "present")],
       hidden |-> Rate(rows, Tls, LAMBDA s : s.hidden),
       churn |-> Cardinality({rows[i].issuer : i \in issuers}) > 1,
       category |-> [version |-> dominant_tls_version(rows),
                     issuer |-> IF issuers = {} THEN "iss_unknown" ELSE rows[Min(issuers)].issuer],
       incomplete |-> incomplete, quality |-> incomplete <= Gate]

\* The k-th member of a set of numbers.
Member(S, k) == CHOOSE e \in S : Cardinality({d \in S : d < e}) = k - 1

\* One window for each responder, in their order.  A session without a flow is a
\* responder of its own.
extract_endpoint_windows(ss) ==
  LET endpoints == {ss[i].endpoint : i \in DOMAIN ss}
      rows(e) == Restrict(ss, {i \in DOMAIN ss : ss[i].endpoint = e})
  IN  [k \in 1..Cardinality(endpoints) |-> Window(Member(endpoints, k), rows(Member(endpoints, k)))]

assign_day_index(ws, day) == [k \in DOMAIN ws |-> [ws[k] EXCEPT !.day = day]]

-----------------------------------------------------------------------------
(* The history store.                                                      *)

Newest(ws, n) == IF Len(ws) <= n THEN ws ELSE SubSeq(ws, Len(ws) - n + 1, Len(ws))

Older(a, b) == a.day < b.day \/ (a.day = b.day /\ a.endpoint < b.endpoint)

\* The place of window i once the windows are sorted by day and endpoint; the sort is stable.
Place(ws, i) ==
  Cardinality({j \in DOMAIN ws : Older(ws[j], ws[i]) \/ (~Older(ws[i], ws[j]) /\ j < i)}) + 1

\* Mutant: the windows of a responder are kept together.
LoadByEndpoint(lines) ==
  Newest(SortSeq(lines, LAMBDA a, b : \/ a.endpoint < b.endpoint
                                      \/ a.endpoint = b.endpoint /\ a.day < b.day), MaxWindows)

load_windows(lines) ==
  Newest([k \in DOMAIN lines |-> lines[CHOOSE i \in DOMAIN lines : Place(lines, i) = k]], MaxWindows)

-----------------------------------------------------------------------------
(* Scoring.                                                                *)

\* The windows a window is compared with, by their places in the history ws.
Earlier(ws, w) == {i \in DOMAIN ws : ws[i].day < w.day}
History(ws, w) == {i \in Earlier(ws, w) : ws[i].endpoint = w.endpoint}
peer_history(ws, w) == {i \in Earlier(ws, w) : ws[i].role = w.role}

\* Mutant: windows of any responder count as history.
AnyHistory(ws, w) ==
  CASE w.sessions < MinSessions -> "insufficient_support"
    [] w.sessions >= MinSessions /\ Cardinality(Earlier(ws, w)) < MinHistory -> "insufficient_history"
    [] OTHER -> IF w.quality THEN None ELSE "capture_quality"

skip_reason(ws, w) ==
  CASE w.sessions < MinSessions -> "insufficient_support"
    [] w.sessions >= MinSessions /\ Cardinality(History(ws, w)) < MinHistory -> "insufficient_history"
    [] OTHER -> IF w.quality /\ w.incomplete <= Gate THEN None ELSE "capture_quality"

\* -ln((count + 1/2) / (n + 1/2)) reaches the threshold.
categorical_rarity(value, ws, past, c) ==
  2 * Cardinality(past) + 1
    >= RarityRatio * (2 * Cardinality({i \in past : ws[i].category[c] = value}) + 1)

\* Some category of the window is rare among its peers, or in its own past if it has none.
Rare(ws, w) ==
  LET peers == peer_history(ws, w)
      catalog == IF peers = {} THEN History(ws, w) ELSE peers
  IN  \E c \in DOMAIN w.category : categorical_rarity(w.category[c], ws, catalog, c)

\* Only a rate its history does not always show can be far from its median or drift.
Drifts(ws, w) ==
  \E r \in DOMAIN w.rates : \E i \in History(ws, w) : ws[i].rates[r] # w.rates[r]

\* A forest is fitted on the windows of earlier days that are not skipped themselves.  The
\* fit of an earlier day is used again for a week; it had the windows this one needs.
Fitted(ws, w) ==
  Cardinality({i \in Earlier(ws, w) : skip_reason(ws, ws[i]) = None}) >= MinTrain

\* The scores of the windows of day d that must, and that may, be above the threshold.
Alert(w, detector) == [endpoint |-> w.endpoint, day |-> w.day, detector |-> detector]
ScoredOn(ws, d) == {w \in ToSet(ws) : w.day = d /\ skip_reason(ws, w) = None}
CertainAlerts(ws, d) == {Alert(w, "baseline") : w \in {x \in ScoredOn(ws, d) : Rare(ws, x)}}
PossibleAlerts(ws, d) ==
  CertainAlerts(ws, d)
  \cup {Alert(w, "baseline") : w \in {x \in ScoredOn(ws, d) : Drifts(ws, x)}}
  \cup {Alert(w, "isolation_forest") : w \in {x \in ScoredOn(ws, d) : Fitted(ws, x)}}

-----------------------------------------------------------------------------
(* The advisory section.                                                   *)

NoticeOf(count) ==
  CASE count < MinHistory -> "insufficient_history"
    [] count >= MinHistory /\ count < MinTrain -> "forest_warming"
    [] OTHER -> None

\* One anomaly for each responder and detector, that of the highest score: which one
\* that is, is open.
anomalies_from_scores(alerts) ==
  LET same(a, b) == a.endpoint = b.endpoint /\ a.detector = b.detector
  IN  {s \in SUBSET alerts : \A a \in alerts : Cardinality({b \in s : same(a, b)}) = 1}

\* The sections for the alerts of a run: the notice comes first, a report with too
\* little history carries nothing else, and the list is cut.
advisory_section_for_history(count, alerts) ==
  LET notice == NoticeOf(count)
      room == IF notice = None THEN MaxItems ELSE MaxItems - 1
      cut(s) == kSubset(Min({room, Cardinality(s)}), s)
      shown == IF notice = "insufficient_history" THEN {{}}
               ELSE UNION {cut(s) : s \in anomalies_from_scores(alerts)}
  IN  {[notice |-> notice, anomalies |-> s] : s \in shown}

-----------------------------------------------------------------------------

AdvisoryInit ==
  /\ pc = "idle"
  /\ capture = << >> /\ loaded = << >> /\ current = << >>
  /\ section = NoSection /\ retained = << >>
  /\ tmp = << >> /\ file = << >>
  /\ published = NoSection /\ appended = << >>
  /\ epoch = 0 /\ runs = 0

\* The worker forgets the run.
EndRun ==
  /\ pc' = "idle"
  /\ capture' = << >> /\ loaded' = << >> /\ current' = << >>
  /\ section' = NoSection /\ retained' = << >>

\* The deterministic report of a capture is ready: the history is read.
Load(c) ==
  /\ pc = "idle" /\ runs < MaxRuns
  /\ pc' = "loaded" /\ runs' = runs + 1
  /\ capture' = c /\ loaded' = load_windows(file)
  /\ section' = [NoSection EXCEPT !.epoch = epoch]
  /\ UNCHANGED <<current, retained, tmp, file, published, appended, epoch>>

next_day(history) ==
  IF history = << >> THEN 0 ELSE Max({history[i].day : i \in DOMAIN history}) + 1

attach_advisories_with_history ==
  /\ pc = "loaded" /\ pc' = "advised"
  /\ current' = assign_day_index(extract_endpoint_windows(capture), next_day(loaded))
  /\ LET combined == loaded \o current'
         day == next_day(loaded)
     IN  \E others \in SUBSET (PossibleAlerts(combined, day) \ CertainAlerts(combined, day)) :
         \E s \in advisory_section_for_history(Len(loaded), CertainAlerts(combined, day) \cup others) :
           section' = [notice |-> s.notice, anomalies |-> s.anomalies, epoch |-> section.epoch]
  /\ UNCHANGED <<capture, loaded, retained, tmp, file, published, appended, epoch, runs>>

\* Mutant: the history is written in place.
OpenInPlace ==
  /\ pc = "advised" /\ pc' = "opened"
  /\ retained' = Newest(load_windows(file) \o current, MaxWindows)
  /\ tmp' = << >> /\ file' = << >>
  /\ UNCHANGED <<capture, loaded, current, section, published, appended, epoch, runs>>

\* append_windows: the history is read again, and the temporary file opened, written
\* and renamed.
OpenTmp ==
  /\ pc = "advised" /\ pc' = "opened"
  /\ retained' = Newest(load_windows(file) \o current, MaxWindows)
  /\ tmp' = << >>
  /\ UNCHANGED <<capture, loaded, current, section, file, published, appended, epoch, runs>>

WriteTmp ==
  /\ pc = "opened" /\ pc' = "written"
  /\ tmp' = retained
  /\ UNCHANGED <<run, file, published, appended, epoch, runs>>

ReplaceFile ==
  /\ pc = "written" /\ pc' = "appended"
  /\ file' = tmp /\ tmp' = << >>
  /\ appended' = appended \o current
  /\ UNCHANGED <<run, published, epoch, runs>>

\* The report is rendered and published with its section.
Publish ==
  /\ pc = "appended"
  /\ published' = section
  /\ EndRun
  /\ UNCHANGED <<tmp, file, appended, epoch, runs>>

\* The run is cancelled, fails or dies with its process.  What it appended stays.
Abort ==
  /\ pc # "idle"
  /\ EndRun
  /\ UNCHANGED <<tmp, file, published, appended, epoch, runs>>

\* The operator deletes windows.jsonl, at any time but inside append_windows, which
\* would write back what it has read.
HistoryDeleted ==
  /\ pc \notin {"opened", "written"}
  /\ file # << >> /\ epoch < MaxDeletions
  /\ file' = << >> /\ appended' = << >> /\ epoch' = epoch + 1
  /\ UNCHANGED <<pc, run, tmp, published, runs>>

AdvisoryNext ==
  \/ \E c \in Captures : Load(c)
  \/ attach_advisories_with_history
  \/ OpenTmp \/ WriteTmp \/ ReplaceFile
  \/ Publish
  \/ Abort
  \/ HistoryDeleted

AdvisorySpec == AdvisoryInit /\ [][AdvisoryNext]_AdvisoryVars

-----------------------------------------------------------------------------
(* Properties.                                                             *)

\* Reading, sorting, appending and truncating again, with runs that die at any step,
\* lose and repeat nothing: windows.jsonl holds the newest of the windows appended
\* since it was deleted, oldest first, at most MAX_ML_WINDOWS of them.
HistoryIsTheNewest == file = Newest(appended, MaxWindows)

\* The windows a run may rely on: the newest that were appended before it.
Known(w) == Earlier(Newest(appended, MaxWindows), w)
KnownOf(w) == History(Newest(appended, MaxWindows), w)

\* An anomaly is about a responder of this capture with enough sessions and a
\* reconstruction good enough, which was seen often enough in earlier runs; a forest
\* had enough windows to learn from.  Other responders' history is no substitute.
AnomaliesHaveHistory ==
  pc = "advised" /\ section.epoch = epoch =>
    /\ Cardinality(section.anomalies) <= MaxItems
    /\ \A a \in section.anomalies : \E w \in ToSet(current) :
         /\ w.endpoint = a.endpoint /\ w.day = a.day
         /\ w.sessions >= MinSessions /\ w.incomplete <= Gate
         /\ Cardinality(KnownOf(w)) >= MinHistory
         /\ a.detector = "isolation_forest" => Cardinality(Known(w)) >= MinTrain + MinHistory

Maturity(s) == CASE s.notice = "insufficient_history" -> 0 [] s.notice = "forest_warming" -> 1
                 [] s.notice = None -> 2

\* The history only warms up: as long as nobody deletes it, no published report calls
\* it shorter than an earlier one did, although runs die while they append to it.
WarmupNeverRegresses ==
  [][published' # published /\ published'.epoch = published.epoch
       => Maturity(published') >= Maturity(published)]_AdvisoryVars

=============================================================================

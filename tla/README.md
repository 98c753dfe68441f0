# A TLA+ model of SecureMail

SecureMail analyses captures of mail traffic on one workstation. An analyst
uploads a PCAP or PCAPNG through the dashboard; the API stores it as a job; a
worker process reconstructs flows, mail sessions, TLS handshakes and
certificates from it, judges them with a policy pack, compares them with earlier
captures and publishes a report into a catalog; the dashboard reads the catalog.
There is no database, no broker and no lock: **the control plane is a directory
tree**, shared by the threads of the API process and by the worker. **The data
plane is a chain of pure functions** over logs that may be incomplete, out of
order or contradictory, and its first duty is never to turn "not observed" into
"absent".

This directory models both planes. Source paths below are relative to
`src/src/securemail/`, documentation paths to `src/docs/`.

## 1. Inventory

| Component | State | Operations | Interacts with |
|---|---|---|---|
| Job record, `domain/jobs/models.py` | `AnalysisJob`: status, stage, `cancel_requested`, artifact flags | `is_terminal` | everything below |
| Job store, `adapters/persistence/job_store.py` | `jobs/{run_id}/` (`status.json`, `.status.json.tmp`, `cancel.flag`, capture, `artifacts/`), `quarantine/*.part` | stage, commit, abort, find duplicate, list, claim, update, request cancel, is cancel requested, artifacts | API threads and worker |
| Capture intake, `application/capture_intake.py` | none of its own | `ingest_capture` | job store |
| Worker, `application/analysis_workflow.py`, `bootstrap.py`, `worker.py` | program counter, claimed job, stage | claim, six stages with five cancel checks, fail | job store, ML history, catalog |
| Supervision, `api/main.py` | worker subprocess | start with the API, terminate with it, no restart while it runs | worker |
| Catalog publisher and repository, `adapters/persistence/writable_catalog.py`, `report_repository.py` | `catalog.json`, `{case_id}.report.json` | publish, list, get | worker writes, API reads |
| Queries, `application/*_queries.py`, `api/routers/*` | none | status, cases, findings, artifacts, cancel | job store, repository |
| Analysis pipeline, `application/run_analysis.py` | values of one run | passes in order, TShark on demand, evaluation clock, scoring | all of the following |
| Flows, `application/normalize_flows.py`, `domain/evidence/flow.py` | conditions and byte ranges of a connection | one event at a time; classify | handshakes, rules |
| Sessions, `application/normalize_sessions.py` | stamped events per connection | read rows, read frames, merge, bound, identify | upgrade machines |
| STARTTLS machines, `domain/policies/starttls/` | flags of one session | one step per protocol event | sessions |
| Handshakes, `application/normalize_handshakes.py`, `domain/policies/tls` | messages of a connection | decode history, attach frames, version, key exchange, forward secrecy | rules |
| Certificates, `application/normalize_certificates.py`, `domain/policies/pki` | certificate records, artifact store | match, parse, add, validate path and identity | rules |
| Rule engine, `domain/policies/rule_engine.py` | none | three-valued predicates, coverage, findings | findings |
| Findings, `domain/findings/` | none | deduplicate, score, posture and coverage | report |
| Advisory, `application/advisory_pipeline.py`, `adapters/ml`, `domain/ml`, `adapters/persistence/ml_history_store.py` | `ml_history/windows.jsonl` (newest 512) | derive windows, load, score, append | worker |
| Reports, `application/assemble_report.py`, `render_report.py`, `adapters/reports` | none | canonical JSON, HTML, PDF | worker |
| Analyzer runners, `adapters/analyzers` | Docker subprocess | capinfos, Zeek, TShark with timeouts | pipeline |
| CLI, front end, Zeek scripts, tools | - | - | - |

**What is hard here.** *Control:* `update_job` is a read-modify-write over two
files by processes that do not know of each other; all writers of a job share one
temporary file name; cancelling races every stage of the worker; exceptions of
the error handler itself leave the worker loop; the worker may die between any
two file operations, and nothing reclaims its job; uploads check quotas and
duplicates first and commit later; readers of the catalog hold no lock.
*Data:* the verdict on an upgrade depends on the order of commands, replies and
the handshake, and two sources report them, each with its own gaps; limits cut
transcripts, event lists, chains and histories in the middle; every rule must say
what it does when a fact was lost; findings of many connections are folded into
one headline. `PROJECT.json` lists each of these hazards at its line with the
properties that cover it.

**What makes each component correct.**

- *Worker and store*: a job ends exactly once; a record that says completed is
  true; an acknowledged cancel is honoured; the queue drains; a job runs once.
- *Intake*: a visible job has its whole capture; a refused upload leaves nothing
  behind; the quotas hold; one identity has one live job.
- *Catalog*: every entry names a complete report; readers never fail; what was
  published is served, also after a crash.
- *Upgrade machines, sessions*: the verdict is the one the whole transcript
  deserves; TLS is never invented; a second source and a limit never worsen it.
- *Flows, handshakes, certificates*: complete means that no kept event says otherwise;
  every verdict has its grounds in what was seen, whatever the order of the logs.
- *Rules, findings, posture*: losing evidence never flips a verdict; checks and
  findings agree; the headline claims no more than the checks behind it.
- *Advisory*: the history is the newest windows and survives a crash; an anomaly
  needs a history of the responder it is about.

## 2. Modules

| Module | Models | Composes |
|---|---|---|
| `JobRecords` | the job record, the contents a status file can have (none, empty, mixed bytes, a record), and what each call site of `update_job` changes | |
| `JobControl` | job store, worker, cancel requests, crashes, restarts, the documented operator retry | `JobRecords` |
| `JobLifecycle` | abstract specification: the life cycle the documentation describes, and when a report becomes visible | implemented by `JobControl` |
| `CaptureIntake` | overlapping uploads: quarantine, checks, quotas, commit, clean-up, death of the API | |
| `ReportCatalog` | `publish_report` against lock-free readers, with crashes and power losses | |
| `EvidenceStates` | the evidence states, which are unusable, and their rank | |
| `UpgradeMachine` | the SMTP, IMAP and POP3 upgrade machines and the implicit-TLS correlation, as operators on a machine | |
| `StartTls` | a transcript fed to a machine event by event | `UpgradeMachine` |
| `Sessions` | `normalize_sessions` in two passes, with TShark in between | `UpgradeMachine` |
| `FlowQuality` | reconstruction events, byte ranges, `classify_reconstruction` | `EvidenceStates` |
| `Handshakes` | from lost segments through `ssl.log` and frames to forward secrecy | `FlowQuality` |
| `Certificates` | which certificate stands where; path and identity verdicts | |
| `RuleEngine` | predicates, contexts, activation, findings and checks of a policy pack | `EvidenceStates` |
| `Posture` | deduplication, scores, coverage, headline | |
| `Policy` | the judging half of `run_analysis` | `RuleEngine`, `Posture` |
| `Advisory` | windows, history store, skip rules, advisory section | |
| `MC*` | instances for TLC | |
| `*_proofs` | theorems and their proofs; `Stores_proofs` has those of `ReportCatalog` and of `Advisory` | |

Operators whose comment begins with "Mutant" are deliberately wrong variants of
the definition that follows them; they show that the property can fail.

### JobControl

`status`, `tmp`, `cancel_flag` and `artifacts` are the files of a job directory;
`published` and `appended` are what the job has put into the catalog and the ML
history. Processes are workers and clients (one client is one
`POST /analyses/{run_id}/cancel`, run by an API thread). `update_job` is written
once, as the steps `ReadCurrent`, `WriteFlag`, `OpenTmp`, `WriteTmp` and
`Replace` with their failures, and `site[p]` says which call of it a process is in.
An open file is followed through renames: a process that still has the temporary
file open when another one renames it is writing into `status.json` (`fd`).
Two overlapping writes leave either text or a mixture (`Written`).
`WriteRaises` is an OSError (a full disk, a permission) at any of these writes, up to
`MaxFaults` of them: bytes already written and the temporary file stay. Reads fail
only on what they find (`Unreadable`), and reading the flag never does.

`ListQueued`, `PickOldest`, `PickNone` and `ListCancelled` are `claim_next`;
`StartExecution`, `StopCancelled`, `EnterStage`, `Analyze`, `AppendWindows`,
`WriteArtifacts`, `Publish` and `WorkRaises` are `execute_capture_job`. An
exception inside `_execute_stages` leads to `_fail`, which is one more
`update_job`; one in `claim_next`, in the `get_job` before the `try`, or in `_fail`
itself leaves the loop (`"escaped"`). `faulty` remembers the workers that a failing
write, and nothing else, has ended in this way. What a stage computes is abstracted to
success or an exception; the other modules say what it is. `list_jobs` is one
step: what it returned is read again before anything is written.

`OperatorRetry` is the recovery of `operations/troubleshooting.md` for a job left
running: service stopped, `status.json` edited back to queued, flag removed.

### CaptureIntake

One name stands for an upload, its `.part` file and its job directory, since both
identifiers are freshly drawn. Sizes are counted in chunks. `_usage_bytes` is two
steps, because it walks `jobs/` and then `quarantine/`; the staged file counts
twice, as in the code. `StepRaises` stands for every exception that is not one of
the named answers. A capture's identity (digest, profile, hostname) is
chosen in `Init`, and so is `threads`, the number of uploads the API serves at once;
`WrongMagic` are the identities whose first bytes do not match their extension.
`JobEnds` is the job's end seen from here, and `JobRewritten` the stale write-back of
`update_job` that `JobControl` models step by step: an ended job may get another
status, and `revived` remembers the jobs that live again because of it. `ApiCrash` loses the requests in
progress and keeps their files. Only captures count for the byte quota: status
files and artifacts are left out.

### ReportCatalog

A report is identified by the number of the publication that wrote it, so that
"this one or a later one" can be said. There is one publisher (the worker runs
one job at a time; `decisions/0002-filesystem-catalog.md` excludes a second).
Its temporary files are read by nobody. `StopPublish` is any exception and
also the death of the worker: nothing is rolled back in either case. `disk` is
what has reached stable storage; after a `PowerLoss` a file that was replaced and
not yet written back is the old one, the new one or empty. Catalogs edited by
hand (paths that leave the root, symbolic links) are only "invalid" here.

### UpgradeMachine, StartTls

A machine is a record of the flags the three loops carry from event to event.
An event keeps its kind, the class of its command or reply (the texts the machines
compare with), whether it names the upgrade token, its IMAP tag and its frame.
`Upgrade` is one turn of a loop: what is advertised is noted first, then the event
is interpreted; SMTP and POP3 take the next reply for the answer (`NextReply`), IMAP
a tagged one (`TaggedReply`). `ExplicitUpgrade` is the assessment at the end.
`TranscriptVerdict` says without any machine what a transcript shows, by the code's
rule. That rule departs from the documentation in one place, which has a property and
a run of its own (`ClearTextIsViolation`, `late_hello`).

### Sessions

`ReadRow` is the loop over `sm_email.log`, `ReadFrame` and `SkipFrame` the loop
over TShark's frames, which can only be told apart by the address pair. `FirstPass`
and `SecondPass` are the two calls of `normalize_sessions` in `run_analysis`; the
second happens only if `needs_tshark_corroboration`. A row's text is reduced to the
class of its command or reply. `merge_events` gives a frame to the closest
compatible Zeek event, the last of several. The loops over one connection's events
(`Merged`, `Bounded`, `MachineAfter`) are recursive functions over the length read so
far; the stable sort by time and order puts each event at its rank (`Place`). `Echo`
says when TShark only repeats Zeek: its frames pair off with Zeek's events, and they
bring no IMAP tags, which Zeek never logs.

### FlowQuality, Handshakes

One connection is followed from its `sm_tcp_recon.log` events (`LogRecon`,
`NormalizeFlow`) through the join with `ssl.log` (`JoinFlow`, `ReadSslRow`) and the
handshake frames (`ReadFrame`) to its `TlsHandshake` (`NormalizeHandshake`). The two
loops that carry a result from turn to turn are steps of the model: `facts` is what
the loop over the log has kept so far, `attach` the messages with the frames
`AttachNext` has given them, `queue` the frames still to come. Suites
are named by their key exchange, groups by their family; the registry snapshot is
the constants `KnownSuites` and `GroupNames`. After the join the model forgets what
`normalize_handshakes` does not read.

### Certificates

Rows of `ssl.log` arrive in any order (`ReadRow`); each offers the certificates its
fingerprints name or, without any, those of the connection's files (`Offers`), and
`AddOffers` adds them one by one, up to the limit. A name is a
sequence of labels and `Lower` folds case; the subject alternative names are a list of
which the first `MaxSanEntries` usable ones count. Parsing DER and the X.509 path verifier are libraries: a
certificate says how its parse ends, and `Verifier` lets the verifier
answer anything, except that it never accepts an expired leaf. The library decodes
lazily, so a certificate that loaded may raise when its facts or its extensions are
read, outside any `try`: `RowRaises` and `LeafRaises` end the call (`"failed"`), which
for the worker is an exception of the stage.
`validate_server_leaf` judges capture and analysis time separately.

### RuleEngine, Posture, Policy

A context maps paths to a set with one value, or to none; `eval_predicate` is pass,
fail or unusable. `evaluate_rule` follows `_evaluate_rule_with_coverage` with its
early returns (inactive, wrong role, where clause). The rules of the model are
checked by `PackIsValid`, which restates the validation of a pack. `Policy` collects
records (`AddRecord`), evaluates them at the pack's clock (`Evaluate`,
`ClockUnavailable`) and scores them (`score_findings`, `RequestRefused`).
`aggregate_coverage` is the code's loop: `CountCheck` is one turn of it, with its four
parallel increments, folded over the checks in an arbitrary order.

### Advisory

One run is `Load`, `attach_advisories_with_history`, `OpenTmp`, `WriteTmp`,
`ReplaceFile`, `Publish`; `Abort` is a cancel, an exception or the death of the
process at any of these points. Rates are exact fractions of 2520. Rare categories
are computed; robust z-scores, drift and the Isolation Forest are not: a window whose inputs let
them report it may be reported (`PossibleAlerts`). `HistoryDeleted` is the reset of
the history by its operator; inside `append_windows` it would be undone by the
rename, so it is left out there. Sorting is stated by rank: `Place` is where the stable sort by
day and endpoint puts a window. The windows a window is compared with are
sets of places in the history, so that equal windows count separately. `AdvisorySpec` and its parts
carry the component's name because `Stores_proofs` extends `ReportCatalog` as well.

## 3. Runs

| Run | Instance | Properties and what they show |
|---|---|---|
| `control` | 2 jobs, 1 worker, 1 cancel, 1 failing write, 1 retry per job | `TypeOK`; `AckedCancelHonoured`: a cancel answered 200 before the worker's last check keeps the report out of the catalog, although the worker overwrites the `cancel_requested` field; `CompletedIsPublished`; `AppendedOnce`: windows are appended once per execution, retries counted |
| `lifecycle` | 2 jobs, 1 worker, 2 crashes, 2 failing writes, no cancels, fair | `WorkerSurvives`: the loop ends only by a status write that fails inside `claim_next` or `_fail`, and by no other failure; `Drained`: every job is eventually run; `ImplementsLifecycle`: the detailed system implements `JobLifecycle`, and so never shows an unreadable status |
| `intake` | 4 uploads, 1 or 2 at a time, 5 captures, limit of 2 jobs and 4 chunks | `RefusalLeavesNothing`, `JobHasCapture`; `JobOverrunBounded`: the job quota is overrun by at most the other requests in progress; `SerialByteLimit`: without overlap the byte quota is exact, also after crashes; `DuplicatesBounded`: one capture has at most as many live jobs as uploads overlap, those revived by a stale write-back aside |
| `catalog` | 4 publications, 3 cases, limit 2, 1 reader, 1 power loss | up to the power loss `CatalogIsReadable`, `ReadersNeverFail`, `PublishedIsServed`; through it `DamageIsNeverHidden`: an invalid catalog is never replaced by one that lost cases |
| `starttls` | every transcript of up to 4 of 19 observations, 3 protocols | `VerdictOfTranscript`: the flags give the verdict the code's rule gives the whole transcript; `NeverInventTls`; `BadVerdictShowsItsFrame`; `VerdictOnlyRises` |
| `sessions` | 3 connections, 3 rows, 2 frames, transcripts cut at 2 | `IdentityIsUnanimous`: a protocol is named exactly when all sources agree; `MergeKeepsEvents`; `CorroborationKeepsVerdict`: TShark repeating Zeek changes no verdict; `TruncationNeverAccuses` |
| `handshakes` | 1 connection, 3 recon events of which 2 are kept, 2 frames | `CompleteMeansWhole`, `VerdictIgnoresEventOrder`, `FramesFollowMessages`, `SecrecyIsGrounded` |
| `certificates` | 2 connections, 8 certificates (one without a file, two that raise when read), limits of 3 records and 3 names | `OneCertificatePerPlace`, `VerdictsHaveReasons`, `PathVerdictsAreGrounded`, `IdentityNeedsItsParentDomain` |
| `policy` | 2 connections, 7 rules, up to 4 records, a pack that uses the capture's clock | `LossNeverFlipsAVerdict`, `ChecksAgreeWithFindings`, `HeadlineIsHonest`: state and risk score claim no more than the checks; `BreakdownsAddUp`: the four tables the loop increments agree in every counter; `ClustersKeepTheWorst` |
| `advisory` | 5 runs over 4 kinds of capture, a history of 7, 1 deletion | `HistoryIsTheNewest`, `AnomaliesHaveHistory`, `WarmupNeverRegresses` |

Two runs show a disagreement between the code and what is said of it (details
under "findings" in `PROJECT.json`):

| Run | What happens |
|---|---|
| `worker_killed` | a cancel racing the worker makes an exception leave the worker loop, where the documentation says that the job fails |
| `late_hello` | a command in the clear after the accepted upgrade is no violation once the connection shows a ClientHello; `forensics/starttls-and-stls.md` calls it one, and puts that row before `tls_established` |

`lifecycle` shows that worker and store are right as long as no cancel interferes,
`control` what survives interference, `worker_killed` what does not.
`status/known-limitations.md` excludes two workers on one job store and says that a
crash can lose the last publication (nothing is synced), so a second worker executing
the same job, or an acknowledged report lost with the power, is no disagreement and
no run claims otherwise.

**Bounds.** One cancel against one worker gives every overlap of two `update_job`
calls, which is where the code can go wrong. Two jobs are enough for a call to
meet the wrong job and for the order of the queue. In `control` the worker stops
when an exception leaves its loop, and the retry follows; stopping it by a crash
too gives more than ten times the states and is covered by `lifecycle` for the
crashes and by the proofs for both together. Two crashes allow one per job, and two
failing writes one in a stage and one in the `_fail` that follows it. In
`intake` the third upload meets what the first two have filled, and the fourth makes
one more upload than both bounds (three jobs, two of one capture) allow. In `catalog` the
third case does not fit, and four publications allow a republication after that.
A transcript of four events has room for a request, its answer, a credential and
one event out of place; the proofs have no such bound. In `sessions` one more
event than the limit keeps can be merged. In `handshakes` the third event is the one that is cut. In
`certificates` the limit falls inside the second connection's chain. In `policy`
two connections of one server make a cluster with a negative and an indeterminate
member. In `certificates` the leaf has five names, one of them unusable, so that the
last falls outside the limit. In `advisory` the limits keep their order (history < training < stored), and
the fifth run is the first to lose windows to the limit and to be scored after it.
`MaxCrashes`, `MaxFaults`, `MaxRetries`, `MaxPublishes`, `MaxPowerLosses`, `MaxEvents` of
`StartTls` and `Handshakes`, `MaxRows`, `MaxFrames`, `MaxEvidence`, `MaxRuns` and
`MaxDeletions` are bounds of the model; all other limits are those of the code, made
small enough to be met.

**Deadlock** is checked in the JobControl runs: the worker polls for ever. In the
other modules requests, publications, transcripts and captures come to an end, and
so may the system.

**Fairness** (`lifecycle`): a worker that can take a step eventually takes one. The
operating system gives that much to a live process, and the 120-second analyzer
timeout makes every stage end. Uploads, cancels, crashes, restarts and retries are
never promised. The data plane has no liveness property: its functions terminate.

## 4. Proofs

Proved for every value of the constants (any jobs, workers, requests, limits,
transcripts):

| Theorem | Statement |
|---|---|
| `JobControl_proofs!Typing` | `Spec => []TypeOK` |
| `JobControl_proofs!CancelsHonoured` | `Spec => []AckedCancelHonoured` |
| `JobControl_proofs!CompletionIsTruthful` | `Spec => []CompletedIsPublished` |
| `JobControl_proofs!WindowsAppendedOnce` | `OneWorker => (Spec => []AppendedOnce)` |
| `JobControl_proofs!LoneWorkerSurvives` | `Alone => (Spec => [](WorkerSurvives /\ StatusReadable))` |
| `JobControl_proofs!WorkerImplementsLifecycle` | `Unretried => (Spec => ImplementsLifecycle)` |
| `CaptureIntake_proofs!JobsAreComplete` | `Spec => []JobHasCapture` |
| `CaptureIntake_proofs!RefusalsLeaveNothing` | `Spec => []RefusalLeavesNothing` |
| `CaptureIntake_proofs!JobQuotaOverrun` | `Spec => []JobOverrunBounded` |
| `CaptureIntake_proofs!DuplicateJobsBounded` | `Spec => []DuplicatesBounded` |
| `CaptureIntake_proofs!SerialUploadsFit` | `Spec => []SerialByteLimit` |
| `Stores_proofs!CatalogAlwaysReadable`, `ReadsSucceed`, `ReadsSeePublications` | `CatalogIsReadable`, `ReadersNeverFail`, `PublishedIsServed`: each holds until the first power loss |
| `Stores_proofs!DamageStaysVisible` | `Spec => DamageIsNeverHidden`, with any number of power losses |
| `StartTls_proofs!MachineTypes` | `Spec => []TypeOK` |
| `StartTls_proofs!TlsIsNeverInvented` | `Spec => []NeverInventTls` |
| `StartTls_proofs!BadVerdictsShowFrames` | `Spec => []BadVerdictShowsItsFrame` |
| `StartTls_proofs!VerdictsOnlyRise` | `Spec => VerdictOnlyRises` |
| `StartTls_proofs!FlagsSayTheTranscript`, `VerdictsFollowTheTranscript` | `Spec => []FlagsExact`, `Spec => []VerdictOfTranscript` |
| `Sessions_proofs!ProtocolsAreUnanimous` | `Spec => []IdentityIsUnanimous` |
| `Sessions_proofs!MergingLosesNothing` | `Spec => []MergeKeepsEvents` |
| `Sessions_proofs!CutNeverAccuses` | `Spec => []TruncationNeverAccuses` |
| `Sessions_proofs!EchoesChangeNoVerdict` | `Spec => []CorroborationKeepsVerdict` |
| `Handshakes_proofs!CompleteStreamsAreWhole` | `Spec => []CompleteMeansWhole` |
| `Handshakes_proofs!VerdictsIgnoreOrder` | `Spec => []VerdictIgnoresEventOrder` |
| `Handshakes_proofs!SecrecyHasGrounds` | `Spec => []SecrecyIsGrounded` |
| `Handshakes_proofs!FramesAreInOrder` | `Spec => []FramesFollowMessages` |
| `Certificates_proofs!NoBareVerdicts` | `Spec => []VerdictsHaveReasons` |
| `Certificates_proofs!IdentityIsNeverStretched` | `Spec => []IdentityNeedsItsParentDomain` |
| `Certificates_proofs!PlacesAreNeverShared` | `Spec => []OneCertificatePerPlace` |
| `Certificates_proofs!PathVerdictsHaveGrounds` | `Spec => []PathVerdictsAreGrounded` |
| `Policy_proofs!LossIsNeverHeldAgainst` | `AssertsValues => (Spec => []LossNeverFlipsAVerdict)` |
| `Policy_proofs!ChecksAndFindingsAgree` | `Spec => []ChecksAgreeWithFindings` |
| `Policy_proofs!ClustersAreHonest` | `Spec => []ClustersKeepTheWorst` |
| `Policy_proofs!HeadlineHoldsUp` | `Spec => []HeadlineIsHonest` |
| `Policy_proofs!BreakdownsCountEveryCheck` | `Spec => []BreakdownsAddUp` |
| `Stores_proofs!HistoryKeepsTheNewest` | `AdvisorySpec => []HistoryIsTheNewest` |
| `Stores_proofs!AnomaliesAreGrounded` | `AdvisorySpec => []AnomaliesHaveHistory` |
| `Stores_proofs!WarmupIsMonotone` | `AdvisorySpec => WarmupNeverRegresses` |

**Loops and sums.** Several results are about what a loop over a whole list leaves
behind: a merge, a cut, a sum, the machine after a transcript. Such a loop is a
recursive function here, and its invariant is proved by least counterexample: if some
turn breaks it there is a first one (`LeastExists`, from the well-foundedness of the
natural numbers), and that one is refuted by what a single turn does. A sum over a finite set
is the function on its subsets that adds one element at a time (`AddsUp`, `SumIs`).

*JobControl.* Neither safety property is inductive. `ControlOK` ties call site,
job and stage to the control point; with `TypeOK` it is kept by every action
(`TypeInv`). `CancelInv` adds what makes a cancel stick: the flag of an
acknowledged cancel is on disk, a request that has passed `WriteFlag` has its
flag on disk, and no worker in the last stage works on such a job. The argument
never mentions the `cancel_requested` field, which stale writes do destroy.
`RecordInv` extends `CompletedIsPublished` from `status.json` to every copy of a
record: the temporary file and the record each process is about to write. That
is why a stale copy cannot make a false claim. Both hold for
any number of workers, hence also in the unsupported setup of two on one store.
Assumptions: run ids are positive numbers, workers and clients are
different processes, the bounds are numbers.

Three results need a hypothesis on the setup. `OneWorker` is the supported one: the
API supervisor starts a single worker, and `status/known-limitations.md` excludes a
second. `OnceInv` then says that a job that waits, or whose worker is before its
append, has an append to spare, and that no writer holds a record that would put a
claimed job back in the queue; two workers on one job do append twice. `Alone` adds
that no cancel request is made; `worker_killed` shows that one is enough to
refute `WorkerSurvives`, also when no write fails. `AloneInv` says that the lone worker
finds on disk a record it wrote itself, through any crashes and failing writes: a torn text
is only ever in the temporary file, which the next `update_job` truncates.
`Unretried` adds that no operator edits a status
file, since a retry leads out of a terminal status, which the life cycle does not
know. The refinement maps each `update_job` to the life-cycle step at its `Replace`;
`UnpublishedInv` (a job that waits or is before its publication is not in the
catalog) is what the publishing step needs.

*CaptureIntake.* `IntakeInv` says which files exist at each step; `status.json` is
written last, and only after the capture was moved. `QuotaInv` counts the directories
that are there together with those of the uploads that have passed the quota check:
never more than the limit and the other threads. `ReuseInv` counts in the same way for one
identity: its live jobs together with the uploads between their lookup and their commit are no more than the
threads, because an upload that passes its lookup found no such job and the others are
in flight. `ByteInv` is for one thread: what the only upload has counted is still what
`jobs/` holds, and from the check to the move its own bytes fit on top of it; that is
not true for two threads.

*ReportCatalog.* `PublisherInv` says that from the replaced report on,
`publish_report` holds the newest report of its case and the items of the current
catalog; `ReaderInv` that what a reader loaded is still in the catalog and that
the report it is about to open is no older than the one promised. Catalog
entries are only added and reports only replaced by newer ones, so both are kept
by the other side's steps. With a second publisher the first fails.
`DamageStaysVisible` rests on one fact, `LoadedWasValid`: the items
`publish_report` holds came from a catalog that parsed, so an invalid catalog is
only ever left alone.

*StartTls.* Everything rests on what one event may do to a machine (`Turn`, lemma
`UpgradeTurns`): flags only go up, and each for a reason that the event itself
shows. The verdict alone is not inductive, since it depends on several flags; `FlagsBacked`
says for each flag which events of the transcript stand behind it (an acceptance,
a credential with nothing before it that could accept, a forbidden command after an
acceptance, and its frame). `FlagsExact` is the converse as well: each flag is up
exactly when the transcript holds what it stands for. The verdict of the flags and
the verdict of the transcript are then the same by definition. Assumptions: frames are
positive numbers, the bound is a number, observations are events.

*Sessions.* `NamesInv` says that the sets of names the passes collect are those of the
rows and frames read, `FinishedInv` that the sessions of the last pass were made from
them; `resolve_identity` is then judged on one connection.

The other three results are about the transcript. `StampInv` says that every event has a
stamp of its own and every numbered frame a number of its own. The invariant of the
merge is `MergeFits` (Zeek's events keep everything but frame and tag) with
`FramesPlaced` (each frame read so far is in exactly one place). The ranks of a sort are
a permutation (`SortArranges`), so that sorting neither drops nor repeats what the merge left.
For the cut, two machines are followed side by side: as long as both read, they are
`Alike` up to a repeated advertisement (the duplicates the cut leaves out); after the
limit the one on the whole transcript reads on and only rises (`Below`), and a lower
machine has a verdict of lower rank. For corroboration the pairing that `Echo` gives is
carried through the merge (`Partners`): each event still to come has an unmatched
partner at its own time. If the code prefers another event, the two swap partners, which
compatibility allows as long as no tag is involved. So nothing is left over, the sorted
transcripts agree event by event up to their frames, and the machines stay `Alike`.
Assumptions: only a connection with a row in `ssl.log` has a protocol negotiated by ALPN;
rows and frames have the fields the readers put there, and Zeek's rows neither frame
numbers nor tags; the limits are numbers.

*Handshakes.* `FlowInv` says what the facts kept of a log show about each event that
was read, so that a verdict of `classify_reconstruction` speaks about the log up to the
limit, and about nothing beyond it;
`HandshakeInv` that the handshake was made from the row and the flow it was joined
with. `FramesInv` is the invariant of the loop that attaches frames: messages
keep their kinds, an attached frame comes from the queue and carries that kind,
messages of one kind have been served in their order, and no frame has been
attached more often than it has types. `DescribedInv` is for the order of the
events: whatever the classifier asks of the facts (is there a gap, does one begin at the
start, are all exact, how many bytes, is there a conflict, a duplicate, something out of
order) is said by the *set* of events read and by a sum over it, both of which a
permutation leaves alone (`SameFacts`). Assumptions: the fields of a row have their
types, the event limit is a number.

*Certificates.* `NoBareVerdicts` and `IdentityIsNeverStretched` are about the two functions
that judge a leaf, for any certificate and any answer of the path verifier; the invariant says that
every verdict stored was theirs. `Recorded` is about the records: each is the evidence of
an offer of its own row, the offers of one row have different places (fingerprints and
files are never offered together), and an offer with a file is missing only from a full
list. The last part is what a `missing_intermediate` rests on: a usable certificate
above the leaf that was not recorded means that the limit cut the chain. What raises
ends the call before anything is recorded or judged. `Judged` says
that verdicts come after the last row, so the records they saw do not change any more.
Assumptions: a parse ends in one of the ways the parser has, logs and
chains are lists, the limit is a number.

*Policy.* `JudgedInv`: records of a kind are told apart by their keys and are
finitely many, the evaluation is the pack's on this evidence, and the posture that of
the evaluation. Everything else is about one evaluation. A rule id and a
record's key name one judgement (`OneJudgement`), so a finding meets exactly one
check. Every state a predicate rests on is an evidence state (`ContextIsTyped`,
`PredicateStateTyped`), so the weakest exists and is of lowest rank; that is why
`not_observable` cannot cover up a worse state. Findings of a cluster share code and
endpoint, so their keys differ and occurrences are counted right. The headline
follows from the counts (`CountsAddUp`, `CompleteIsDecided`) and from every score
being at least 1. For the breakdowns, the invariant of the loop (`Tabulated`,
`LoopTabulates`) says that after any part of the checks each table has a row exactly for
the keys met so far, and in it the count of the checks of that key; it is proved for
whatever check the fold takes next. The sums follow because each check is of one
protocol and one category (`ClassesAddUp`, `RowsAddUp`).
Assumptions: `PackIsValid`, which restates the validators of a
pack, and `EvidenceAssumption`, the enumerations and types the evidence
models enforce. `AssertsValues` asks that no rule *asserts* an evidence state: the
schema admits such a rule, losing the state would flip it, and no shipped pack has
one (they ask for states in where clauses only).

*Advisory.* `StoreInv`: the windows appended so far rise strictly by day and endpoint, the file
holds the newest of them, a run scores against that file unless it was deleted since, and the
windows it is about to append are of a later day than all of those. This is what makes the
sort harmless (`SortedAlready`: of a rising list every window is at its place) and the double
cut too (`NewestAgain`: the newest of the newest and some more are the newest of all). That
today is a new day is `DayIsNew`; that the windows of one capture rise is `MembersRise`. An
anomaly is about a window of today, and since that day is new, its history is all
of the loaded file (`EarlierIsLoaded`). The stronger claim about the forest,
`MinTrain + MinHistory` windows and not `MinTrain`, is a counting argument
(`FittedHistory`): the earliest window it is fitted on was itself not skipped, so it has
`MinHistory` windows before it, and these are too early to be among the fitted.
`WarmInv` compares three maturities, of the last published report, of
the run in progress and of the file; only a deletion, which starts a new epoch,
shrinks the file. Assumptions: the limits are positive and in the code's order, captures are lists
of sessions, responders are numbers.

**Only model-checked.** `Drained`: liveness under fairness is outside the prover.

## 5. What the models brought to light

Behaviour that follows from the code and that no run claims to be wrong; most of it
shows in how the properties above had to be worded.

*Control plane.*

- A claim overwrites a cancelled status written since it read the job, so a terminal
  status may be undone; a cancel may in the same way put a running record over the
  terminal one, and the job then reads running for ever.
- A status write that fails (a full disk) inside `claim_next` or `_fail` ends the worker
  loop without any cancel; only a restart of the API starts it again.
- Because a terminal status may be undone, a failed or cancelled job can come back to life
  beside a later upload of its capture: hence the exception for revived jobs in
  `DuplicatesBounded`.
- A cancel after the publication and before the completed status is accepted.
- Overlapping uploads overrun either quota, or become two jobs for one capture.

*Flows and sessions.*

- The precedence the docstring of `classify_reconstruction` lists (`flow.py:196`)
  is not the order of the code; `forensics/tcp-reconstruction.md` promises observed
  conditions that are left out of conflicting streams.
- Reconstruction events after the 256th of a flow are dropped (`normalize_flows.py:161`); a
  gap among them leaves the stream "complete".
- A TShark frame that fits two events goes to the later one.
- Only TShark reports IMAP tags. A frame that repeats a Zeek event and adds its tag may
  change the verdict: an answer that Zeek's events alone leave open to a pending request is no
  answer once the two tags differ. Hence the condition on tags in `Echo`.

*Handshakes and certificates.*

- `parse_certificate_der` says "Never raises for malformed input", but the reads after its
  `try` (key, names, dates; lines 296-317) may; so may `certificate.extensions` in
  `extract_san_entries` (`identity.py:39`), where only `ExtensionNotFound` is caught. One such
  certificate fails the whole analysis.
- `if truncated and syntax_valid` (`normalize_certificates.py:441`) follows a line that makes
  `syntax_valid` false when truncated: `certificate_extract_truncated` is never reported.
- `_as_str_list` folds `conn_uids` to lower case; a uid with capitals never matches.
- Without server fingerprints all files of a connection count as the server's, the
  client's certificate too; fingerprints without a file leave holes in the chain.
- The limit of 256 records can cut a chain after its leaf, which then fails with
  `missing_intermediate`: hence the exception in `PathVerdictsAreGrounded`.
- Of two `ssl.log` rows with one uid the last one supplies the reference identity.
  The model has one row per uid.

*Policy.*

- A rule whose where clause asks for an evidence state drops a connection whose evidence was
  lost: it is in no count of that rule (`rule_engine.py:645`; `TLS_CIPHER_NULL` in
  `ietf_current.yaml:152` is such a rule). `forensics/policy-evaluation.md:73` documents the
  omission; `development/policy-development.md:39` says that missing evidence is never a
  silent pass.
- `transport_tls_established` is false when the handshake was lost, so rules over it
  do flip: `LossNeverFlipsAVerdict` leaves them out.
- The headline score is not monotone in the findings: more occurrences raise a
  cluster, while a weaker one may lower its basis.

*Advisory.*

- The notices count all stored windows, the skip rule the windows of one responder: a
  report may carry no notice although every window of the capture was skipped.
- The Isolation Forest needs 40 windows that are not skipped; the notice disappears
  at 40 stored ones.
- With more than 36 responders per capture, 512 windows never hold the 14 per responder that
  scoring needs.
- Windows of failed, cancelled and retried runs stay in the history. A window without
  any TLS version counts as TLS 1.3.

## 6. Not modelled

- Assembly, rendering, HTML and PDF: formatting.
- scikit-learn, floating-point statistics, calibration and the offline evaluation
  (`domain/ml/evaluation.py`): numeric code without state.
- Docker command lines and parsing of analyzer output; a timeout is an exception.
- ASN.1 parsing, openssl, the X.509 verifier, reading of reference snapshots.
- HTTP routing, headers, static files; queries (projections of files that are
  modelled); the front end; the CLI; tools.
- Zeek scripts: they run inside Zeek, and their logs are the inputs here.
- Redaction, text limits and wording of findings, merging of reference lists.
- Deleting jobs or reports by hand while the service runs, hand-edited histories.
- Two publishers on one report root, and two workers sharing the ML history.

## 7. What could follow

`JobControl` composed with `ReportCatalog` and `Advisory` in place of the sets
`published` and `appended`.

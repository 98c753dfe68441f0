---------------------------- MODULE CaptureIntake ----------------------------
(***************************************************************************)
(* ingest_capture and the part of FilesystemJobStore it uses: quarantine,  *)
(* duplicate lookup, quota checks and the commit into jobs/{run_id}.       *)
(*                                                                         *)
(* Every upload runs in a thread of the API process, up to threads at a    *)
(* time; no lock is held between its steps.  An upload's run id and upload *)
(* id are freshly drawn, so one name u stands for the request, its .part   *)
(* file and its job directory.  Sizes are in units of one chunk; files     *)
(* other than captures are not counted.                                    *)
(***************************************************************************)
EXTENDS Naturals, FiniteSets, FiniteSetsExt

CONSTANTS
    Uploads,      \* upload requests
    Identities,   \* (capture_sha256, policy_profile, expected_hostname), and the extension
    WrongMagic,   \* those whose first four bytes do not match the file extension
    SizeOf,       \* chunks of each identity's capture
    MaxCapture,   \* request.max_capture_bytes
    MaxJobs,      \* max_jobs of the store
    MaxBytes,     \* max_data_bytes of the store
    ThreadCounts  \* how many uploads the API process may serve at a time

ASSUME SizeAssumption == SizeOf \in [Identities -> Nat]
ASSUME LimitAssumption == /\ MaxCapture \in Nat \ {0} /\ MaxJobs \in Nat \ {0}
                          /\ MaxBytes \in Nat \ {0} /\ ThreadCounts \in SUBSET (Nat \ {0})
ASSUME UploadsAssumption == IsFiniteSet(Uploads)

VARIABLES
    parts,    \* uploads with a file in quarantine/
    bytes,    \* bytes[u]: chunks written to u's capture, in quarantine or in its job
    dirs,     \* job directories
    captures, \* jobs whose capture file is in place
    status,   \* status[u]: what u's status.json says, "absent" without one
    ident,    \* the identity of each upload
    threads,  \* uploads this API process serves at a time
    revived,  \* jobs that were failed or cancelled and are not any more
    pc,       \* control point of each upload
    used,     \* what _usage_bytes has added up so far
    answer    \* how each request was answered

vars == <<parts, bytes, dirs, captures, status, ident, threads, revived, pc, used, answer>>
request == <<ident, threads, revived>>

Active == {"streaming", "validate", "lookup", "count", "usage_jobs", "usage_parts",
           "mkdir", "move", "save"}

InFlight == {u \in Uploads : pc[u] \in Active}

Live == {"queued", "completed"}      \* what find_duplicate may return

Ended == {"completed", "failed"}        \* failed stands for cancelled too: neither is reused

Answers == {"none", "accepted", "duplicate", "too_large", "invalid", "quota", "error"}

Init ==
    /\ parts = {} /\ dirs = {} /\ captures = {}
    /\ bytes = [u \in Uploads |-> 0]
    /\ status = [u \in Uploads |-> "absent"]
    /\ ident \in [Uploads -> Identities]
    /\ threads \in ThreadCounts
    /\ revived = {}
    /\ pc = [u \in Uploads |-> "idle"]
    /\ used = [u \in Uploads |-> 0]
    /\ answer = [u \in Uploads |-> "none"]

-----------------------------------------------------------------------------
Goto(u, label) == pc' = [pc EXCEPT ![u] = label]

(* The request ends: the finally clause has unlinked the .part file. *)
Finish(u, a) ==
    /\ Goto(u, "done")
    /\ answer' = [answer EXCEPT ![u] = a]

abort_staged(u) == parts' = parts \ {u}

(* Mutant: the .part file is left to a sweep that does not exist. *)
RejectNoCleanup(u, a) ==
    /\ Finish(u, a)
    /\ UNCHANGED <<parts, bytes, dirs, captures, status, request, used>>

Reject(u, a) ==
    /\ abort_staged(u)
    /\ Finish(u, a)
    /\ UNCHANGED <<bytes, dirs, captures, status, request, used>>

(* The file name or its extension is refused, or no .part file can be made. *)
NeverStaged(u) ==
    /\ pc[u] = "idle"
    /\ Reject(u, "invalid")

(* stage_capture creates the .part file... *)
OpenPart(u) ==
    /\ pc[u] = "idle"
    /\ Cardinality(InFlight) < threads
    /\ parts' = parts \cup {u}
    /\ Goto(u, "streaming")
    /\ UNCHANGED <<bytes, dirs, captures, status, request, used, answer>>

(* ...and appends chunk after chunk, up to the cap _BoundedChunks enforces. *)
WriteChunk(u) ==
    /\ pc[u] = "streaming"
    /\ bytes[u] < SizeOf[ident[u]]
    /\ bytes[u] < MaxCapture
    /\ bytes' = [bytes EXCEPT ![u] = @ + 1]
    /\ UNCHANGED <<parts, dirs, captures, status, request, pc, used, answer>>

TooLarge(u) ==
    /\ pc[u] = "streaming"
    /\ bytes[u] = MaxCapture
    /\ SizeOf[ident[u]] > MaxCapture
    /\ Reject(u, "too_large")

EmptyCapture(u) ==
    /\ pc[u] = "streaming"
    /\ SizeOf[ident[u]] = 0
    /\ Reject(u, "invalid")

Staged(u) ==
    /\ pc[u] = "streaming"
    /\ bytes[u] = SizeOf[ident[u]]
    /\ bytes[u] > 0
    /\ Goto(u, "validate")
    /\ UNCHANGED <<parts, bytes, dirs, captures, status, request, used, answer>>

validate_magic(u) ==
    /\ pc[u] = "validate"
    /\ \/ ident[u] \in WrongMagic /\ Reject(u, "invalid")
       \/ /\ ident[u] \notin WrongMagic
          /\ Goto(u, "lookup")
          /\ UNCHANGED <<parts, bytes, dirs, captures, status, request, used, answer>>

(* Mutant: completed jobs count as terminal and are not reused. *)
MatchesUnfinished(u) == {v \in Uploads : status[v] = "queued" /\ ident[v] = ident[u]}

(* find_duplicate: jobs with the same identity that are not failed or cancelled. *)
Matches(u) == {v \in Uploads : status[v] \in Live /\ ident[v] = ident[u]}

ReuseJob(u) ==
    /\ pc[u] = "lookup"
    /\ Matches(u) # {}
    /\ Reject(u, "duplicate")

NoDuplicate(u) ==
    /\ pc[u] = "lookup"
    /\ Matches(u) = {}
    /\ Goto(u, "count")
    /\ UNCHANGED <<parts, bytes, dirs, captures, status, request, used, answer>>

(* Mutant: one directory too many passes. *)
CountJobsOffByOne(u) ==
    /\ pc[u] = "count"
    /\ \/ Cardinality(dirs) > MaxJobs /\ Reject(u, "quota")
       \/ /\ Cardinality(dirs) <= MaxJobs
          /\ Goto(u, "usage_jobs")
          /\ UNCHANGED <<parts, bytes, dirs, captures, status, request, used, answer>>

(* commit_staged, first quota: the number of job directories. *)
CountJobs(u) ==
    /\ pc[u] = "count"
    /\ \/ Cardinality(dirs) >= MaxJobs /\ Reject(u, "quota")
       \/ /\ Cardinality(dirs) < MaxJobs
          /\ Goto(u, "usage_jobs")
          /\ UNCHANGED <<parts, bytes, dirs, captures, status, request, used, answer>>

(* Second quota: _usage_bytes walks jobs/, then quarantine/; the staged file *)
(* is added once more.                                                       *)
Total(S) == SumFunctionOnSet(bytes, S)

UsageOfJobs(u) ==
    /\ pc[u] = "usage_jobs"
    /\ used' = [used EXCEPT ![u] = Total(captures)]
    /\ Goto(u, "usage_parts")
    /\ UNCHANGED <<parts, bytes, dirs, captures, status, request, answer>>

(* Mutant: only what is already committed is compared with the quota. *)
UsageOfPartsCommittedOnly(u) ==
    /\ pc[u] = "usage_parts"
    /\ \/ used[u] > MaxBytes /\ Reject(u, "quota")
       \/ /\ used[u] <= MaxBytes
          /\ Goto(u, "mkdir")
          /\ UNCHANGED <<parts, bytes, dirs, captures, status, request, used, answer>>

UsageOfParts(u) ==
    LET total == used[u] + Total(parts) + bytes[u]
    IN  /\ pc[u] = "usage_parts"
        /\ \/ total > MaxBytes /\ Reject(u, "quota")
           \/ /\ total <= MaxBytes
              /\ Goto(u, "mkdir")
              /\ UNCHANGED <<parts, bytes, dirs, captures, status, request, used, answer>>

(* Mutant: status.json is written with the directory, before the capture. *)
MakeJobDirWithStatus(u) ==
    /\ pc[u] = "mkdir"
    /\ dirs' = dirs \cup {u}
    /\ status' = [status EXCEPT ![u] = "queued"]
    /\ Goto(u, "move")
    /\ UNCHANGED <<parts, bytes, captures, request, used, answer>>

MakeJobDir(u) ==
    /\ pc[u] = "mkdir"
    /\ dirs' = dirs \cup {u}
    /\ Goto(u, "move")
    /\ UNCHANGED <<parts, bytes, captures, status, request, used, answer>>

MoveCapture(u) ==
    /\ pc[u] = "move"
    /\ parts' = parts \ {u}
    /\ captures' = captures \cup {u}
    /\ Goto(u, "save")
    /\ UNCHANGED <<bytes, dirs, status, request, used, answer>>

(* os.replace or chmod fails: the job directory is removed with all it holds. *)
MoveFails(u) ==
    /\ pc[u] = "move"
    /\ dirs' = dirs \ {u}
    /\ abort_staged(u)
    /\ Finish(u, "error")
    /\ UNCHANGED <<bytes, captures, status, request, used>>

SaveStatus(u) ==
    /\ pc[u] = "save"
    /\ status' = [status EXCEPT ![u] = "queued"]
    /\ Finish(u, "accepted")
    /\ UNCHANGED <<parts, bytes, dirs, captures, request, used>>

(* Anything else that raises: a chunk cannot be read or written, list_jobs    *)
(* meets an unreadable status.json, the case id is refused, a file vanishes   *)
(* under _usage_bytes, or the directory or status.json cannot be written.     *)
(* In the last case nothing removes the job directory.                        *)
StepRaises(u) ==
    /\ pc[u] \in Active \ {"validate", "move"}
    /\ Reject(u, "error")

ingest_capture(u) ==
    \/ NeverStaged(u) \/ OpenPart(u) \/ WriteChunk(u) \/ TooLarge(u) \/ EmptyCapture(u)
    \/ Staged(u) \/ validate_magic(u) \/ ReuseJob(u) \/ NoDuplicate(u) \/ CountJobs(u)
    \/ UsageOfJobs(u) \/ UsageOfParts(u) \/ MakeJobDir(u) \/ MoveCapture(u) \/ MoveFails(u)
    \/ SaveStatus(u) \/ StepRaises(u)

(* The worker or a cancel request ends a job (JobControl has the details). *)
JobEnds(u) ==
    /\ status[u] = "queued"
    /\ \E s \in Ended : status' = [status EXCEPT ![u] = s]
    /\ UNCHANGED <<parts, bytes, dirs, captures, request, pc, used, answer>>

(* An update_job that read the record before it ended writes that record back, *)
(* or a stale cancel or claim its own status: update_job holds no lock between *)
(* its read and its replace, so an ended job may live again.                   *)
JobRewritten(u) ==
    /\ status[u] \in Ended
    /\ \E s \in ({"queued"} \cup Ended) \ {status[u]} :
          /\ status' = [status EXCEPT ![u] = s]
          /\ revived' = revived \cup {v \in {u} : status[v] \notin Live /\ s \in Live}
    /\ UNCHANGED <<parts, bytes, dirs, captures, ident, threads, pc, used, answer>>

(* The API process dies: requests in progress are lost, their files stay. *)
ApiCrash ==
    /\ InFlight # {}
    /\ pc' = [u \in Uploads |-> IF u \in InFlight THEN "lost" ELSE pc[u]]
    /\ UNCHANGED <<parts, bytes, dirs, captures, status, request, used, answer>>

Next ==
    \/ \E u \in Uploads : ingest_capture(u) \/ JobEnds(u) \/ JobRewritten(u)
    \/ ApiCrash

Spec == Init /\ [][Next]_vars

-----------------------------------------------------------------------------
(* Whatever way ingest_capture answers, its .part file is gone, and an upload *)
(* refused for its content, as a duplicate or for a quota has no directory:   *)
(* only a request lost with the process leaves something in quarantine/.      *)
RefusalLeavesNothing ==
    \A u \in Uploads : answer[u] # "none" =>
        /\ u \notin parts
        /\ answer[u] \in {"duplicate", "too_large", "invalid", "quota"} => u \notin dirs

(* A job the worker can see has its complete capture in its directory, even *)
(* if the API process dies during the commit.                               *)
JobHasCapture ==
    \A u \in Uploads : status[u] # "absent" =>
        /\ u \in dirs /\ u \in captures
        /\ bytes[u] = SizeOf[ident[u]] /\ ident[u] \notin WrongMagic

(* What makes the two hold at every step of ingest_capture: how far an upload *)
(* is says which of its files exist, and status.json comes last.              *)
Checked == {"lookup", "count", "usage_jobs", "usage_parts", "mkdir", "move", "save"}

StepInv(u) ==
    /\ answer[u] # "none" => pc[u] = "done"
    /\ pc[u] \in {"save", "done"} => u \notin parts
    /\ pc[u] # "done" => status[u] = "absent"
    /\ pc[u] \in {"idle"} \cup (Active \ {"move", "save"}) => u \notin dirs
    /\ pc[u] \in {"move", "save"} => u \in dirs
    /\ pc[u] = "save" => u \in captures
    /\ pc[u] \in {"validate"} \cup Checked => bytes[u] = SizeOf[ident[u]]
    /\ pc[u] \in Checked => ident[u] \notin WrongMagic

IntakeInv == \A u \in Uploads : StepInv(u)

(* The job quota is overrun by no more than the other requests in progress:   *)
(* not at all while uploads come one at a time.                               *)
JobOverrunBounded == Cardinality(dirs) <= MaxJobs + threads - 1

(* While uploads come one at a time, stored captures stay within the data-root *)
(* quota, also after crashes that left files in quarantine/ or half a job.     *)
SerialByteLimit == threads = 1 => Total(captures) <= MaxBytes

(* The jobs of identity i a later upload may be given, those that came back from *)
(* a terminal status aside.                                                      *)
Reusable(i) == {u \in Uploads : status[u] \in Live /\ ident[u] = i /\ u \notin revived}

(* Uploads of one capture become at most as many jobs as overlap between lookup  *)
(* and commit: one when they come one at a time, whatever ends, is written back  *)
(* or crashes meanwhile.                                                         *)
DuplicatesBounded == \A i \in Identities : Cardinality(Reusable(i)) <= threads
==============================================================================

----------------------------- MODULE JobRecords -----------------------------
(***************************************************************************)
(* The durable job record of SecureMail (domain/jobs/models.py) and what   *)
(* each call of FilesystemJobStore.update_job writes into it.              *)
(*                                                                         *)
(* A record keeps the fields the control flow reads or writes.  The fields *)
(* fixed at intake (hash, file name, profile, hostname), the timestamps    *)
(* and the error text are left out: no step of the worker or of a cancel   *)
(* request branches on them.  The three artifact flags are only ever set   *)
(* together, so one Boolean stands for them.                               *)
(***************************************************************************)
EXTENDS Naturals, Sequences

Terminal == {"completed", "failed", "cancelled"}

AnalysisStatus == {"queued", "running"} \cup Terminal

(* The stages in the order the worker enters them; intake is written at upload. *)
StageSeq == <<"deterministic_analysis", "policy_scoring", "ml_advisory",
              "report_rendering", "publication">>

AnalysisStage == {"intake"} \cup {StageSeq[k] : k \in 1..5}

LastStage == 5

AnalysisJob == [status : AnalysisStatus, stage : AnalysisStage,
                cancel_requested : BOOLEAN, artifacts : BOOLEAN]

is_terminal(job) == job.status \in Terminal

Blank(st) == [status |-> st, stage |-> "intake",
              cancel_requested |-> FALSE, artifacts |-> FALSE]

(* The record ingest_capture commits. *)
NewJob == Blank("queued")

(***************************************************************************)
(* What a status file can hold besides a record: nothing at all (no file), *)
(* zero bytes (created or truncated, not yet written), or bytes of two     *)
(* writers mixed in one file.  The last two are not valid JSON.            *)
(***************************************************************************)
NoFile == Blank("absent")
ZeroBytes == Blank("zero_bytes")
MixedBytes == Blank("mixed_bytes")

Contents == AnalysisJob \cup {NoFile, ZeroBytes, MixedBytes}

Unreadable(content) == content \in {ZeroBytes, MixedBytes}

(***************************************************************************)
(* The call sites of update_job, and the fields each of them passes.       *)
(***************************************************************************)
CancelSites == {"cancel_queued", "cancel_running"}

WorkerSites == {"claim", "sweep", "stage", "cancelled", "completed", "failed"}

SetsStatus(site) == site \notin {"stage", "cancel_running"}

StatusSet == [claim |-> "running", sweep |-> "cancelled", cancelled |-> "cancelled",
              completed |-> "completed", failed |-> "failed", cancel_queued |-> "cancelled"]

update_job(site, stage, current) ==
    [status           |-> IF SetsStatus(site) THEN StatusSet[site] ELSE current.status,
     stage            |-> IF site = "stage" THEN StageSeq[stage]
                          ELSE IF site = "completed" THEN "publication" ELSE current.stage,
     cancel_requested |-> current.cancel_requested \/ site \in CancelSites,
     artifacts        |-> current.artifacts \/ site = "completed"]
=============================================================================

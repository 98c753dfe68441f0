----------------------------- MODULE JobControl -----------------------------
(***************************************************************************)
(* The job store, the capture worker and the cancel endpoint of SecureMail *)
(* as processes that share one directory per job.                          *)
(*                                                                         *)
(* A worker is the loop of run_capture_worker_loop: claim the oldest queued*)
(* job, run it through its stages, poll again.  A client is one            *)
(* POST /analyses/{run_id}/cancel, run by a thread of the API process.     *)
(* Both change a job only through update_job, which is not atomic: it reads*)
(* status.json, writes cancel.flag, and writes status.json back through a  *)
(* temporary file whose name all writers of that job share.  update_job is *)
(* modelled once, as the steps Read, WriteFlag, OpenTmp, WriteTmp and      *)
(* Replace, each write of which may fail (WriteRaises); site[p] says which *)
(* call of it process p is in.                                             *)
(*                                                                         *)
(* Every read of one file is one step.  list_jobs reads all status files   *)
(* in one step: each job it returns is read again before it is changed.    *)
(***************************************************************************)
EXTENDS JobRecords, FiniteSets

CONSTANTS
    Runs,        \* run ids, numbered in the order (created_at, run_id) claims use
    Workers,     \* worker processes on the data root
    Clients,     \* cancel requests
    MaxCrashes,  \* bound on worker crashes
    MaxFaults,   \* bound on failing file writes of update_job
    MaxRetries   \* bound on operator retries of one job

ASSUME RunsAssumption == Runs \subseteq Nat \ {0}
ASSUME ProcsAssumption == Workers \cap Clients = {}
ASSUME BoundsAssumption == MaxCrashes \in Nat /\ MaxFaults \in Nat /\ MaxRetries \in Nat

VARIABLES
    status,      \* status[r]: content of jobs/r/status.json
    tmp,         \* tmp[r]: content of jobs/r/.status.json.tmp
    cancel_flag, \* cancel_flag[r]: jobs/r/cancel.flag exists
    artifacts,   \* artifacts[r]: files in jobs/r/artifacts
    published,   \* runs whose report publish_report put in the catalog
    appended,    \* appended[r]: times r's windows were appended to the ML history
    pc,          \* control point of each process
    site,        \* the update_job call a process is in or is about to make
    run,         \* the job a process works on, 0 for none
    stage,       \* last stage a worker has entered for its job, 0 before the first
    todo,        \* jobs claim_next has listed and not yet tried
    new,         \* the record update_job is about to write
    fd,          \* the file a process has open for writing
    reply,       \* the answer to a cancel request
    honoured,    \* runs whose cancel was acknowledged before the worker's last check
    faulty,      \* workers ended by a failing status write that no try surrounds
    crashes,     \* worker crashes so far
    faults,      \* failing writes so far
    retries      \* retries[r]: times an operator has put r back in the queue

store == <<status, tmp, cancel_flag, fd>>
results == <<artifacts, published, appended>>
control == <<pc, site, run, stage, todo, new, reply>>
ghosts == <<honoured, faulty, crashes, faults, retries>>
vars == <<status, tmp, cancel_flag, artifacts, published, appended, pc, site,
          run, stage, todo, new, fd, reply, honoured, faulty, crashes, faults, retries>>

Procs == Workers \cup Clients

ArtifactNames == <<"report.json", "report.html", "report.pdf">>

AllArtifacts == {ArtifactNames[i] : i \in 1..3}

WorkerPCs == {"poll", "pick", "sweep", "execute", "check", "work", "escaped", "dead"}
ClientPCs == {"idle", "done"}
UpdatePCs == {"read", "flag", "open", "write", "replace"}

(* fd[p]: no file, the temporary file, the file that has since become      *)
(* status.json, or one that a later replace has unlinked.                  *)
Files == {"closed", "tmp", "status", "unlinked"}

TypeOK ==
    /\ status \in [Runs -> Contents]
    /\ tmp \in [Runs -> Contents]
    /\ cancel_flag \in [Runs -> BOOLEAN]
    /\ artifacts \in [Runs -> SUBSET AllArtifacts]
    /\ published \in SUBSET Runs
    /\ appended \in [Runs -> Nat]
    /\ pc \in [Procs -> WorkerPCs \cup ClientPCs \cup UpdatePCs]
    /\ site \in [Procs -> WorkerSites \cup CancelSites]
    /\ run \in [Procs -> Runs \cup {0}]
    /\ stage \in [Procs -> 0..LastStage]
    /\ todo \in [Procs -> SUBSET Runs]
    /\ new \in [Procs -> Contents]
    /\ fd \in [Procs -> Files]
    /\ reply \in [Clients -> {"none", "ok", "conflict", "error"}]
    /\ honoured \in SUBSET Runs
    /\ faulty \in SUBSET Workers
    /\ crashes \in 0..MaxCrashes
    /\ faults \in 0..MaxFaults
    /\ retries \in [Runs -> 0..MaxRetries]

Init ==
    /\ status = [r \in Runs |-> NoFile]
    /\ tmp = [r \in Runs |-> NoFile]
    /\ cancel_flag = [r \in Runs |-> FALSE]
    /\ artifacts = [r \in Runs |-> {}]
    /\ published = {}
    /\ appended = [r \in Runs |-> 0]
    /\ pc = [p \in Procs |-> IF p \in Workers THEN "poll" ELSE "idle"]
    /\ site = [p \in Procs |-> IF p \in Workers THEN "claim" ELSE "cancel_queued"]
    /\ run = [p \in Procs |-> 0]
    /\ stage = [p \in Procs |-> 0]
    /\ todo = [p \in Procs |-> {}]
    /\ new = [p \in Procs |-> NoFile]
    /\ fd = [p \in Procs |-> "closed"]
    /\ reply = [c \in Clients |-> "none"]
    /\ honoured = {}
    /\ faulty = {}
    /\ crashes = 0
    /\ faults = 0
    /\ retries = [r \in Runs |-> 0]

-----------------------------------------------------------------------------
(***************************************************************************)
(* How a call ends.  A worker's exceptions inside _execute_stages lead to  *)
(* _fail, which calls update_job again; those of claim_next and of _fail   *)
(* itself leave process_next_job, and nothing in the loop catches them.    *)
(***************************************************************************)
Goto(p, label) == pc' = [pc EXCEPT ![p] = label]

(* Mutant: the completion is written after the try. *)
EscapesWithCompletion(p) == site[p] \in {"claim", "sweep", "failed", "completed"}

Escapes(p) == site[p] \in {"claim", "sweep", "failed"}

Fail(w) ==
    /\ site' = [site EXCEPT ![w] = "failed"]
    /\ Goto(w, "read")

Raise(p) ==
    \/ /\ p \in Clients
       /\ Goto(p, "done")
       /\ reply' = [reply EXCEPT ![p] = "error"]
       /\ UNCHANGED site
    \/ /\ p \in Workers /\ Escapes(p)
       /\ Goto(p, "escaped")
       /\ UNCHANGED <<site, reply>>
    \/ /\ p \in Workers /\ ~Escapes(p)
       /\ Fail(p)
       /\ UNCHANGED reply

(* JobConflictError: claim_next skips the job, the cancel route answers 409. *)
Conflict(p) ==
    \/ /\ p \in Clients
       /\ Goto(p, "done")
       /\ reply' = [reply EXCEPT ![p] = "conflict"]
       /\ UNCHANGED site
    \/ /\ p \in Workers /\ site[p] = "claim"
       /\ Goto(p, "pick")
       /\ UNCHANGED <<site, reply>>
    \/ p \in Workers /\ site[p] # "claim" /\ Raise(p)

AfterUpdate == [claim |-> "execute", sweep |-> "pick", stage |-> "work",
                cancelled |-> "poll", completed |-> "poll", failed |-> "poll",
                cancel_queued |-> "done", cancel_running |-> "done"]

-----------------------------------------------------------------------------
(***************************************************************************)
(* update_job, step by step.                                               *)
(***************************************************************************)
ReadUnreadable(p) ==
    /\ pc[p] = "read"
    /\ Unreadable(status[run[p]])
    /\ Raise(p)
    /\ UNCHANGED <<store, results, run, stage, todo, new, ghosts>>

ReadTerminal(p) ==
    /\ pc[p] = "read"
    /\ is_terminal(status[run[p]])
    /\ SetsStatus(site[p])
    /\ Conflict(p)
    /\ UNCHANGED <<store, results, run, stage, todo, new, ghosts>>

ReadCurrent(p) ==
    LET current == status[run[p]]
    IN  /\ pc[p] = "read"
        /\ current \in AnalysisJob
        /\ ~(is_terminal(current) /\ SetsStatus(site[p]))
        /\ new' = [new EXCEPT ![p] = update_job(site[p], stage[p], current)]
        /\ Goto(p, IF site[p] \in CancelSites THEN "flag" ELSE "open")
        /\ UNCHANGED <<store, results, site, run, stage, todo, reply, ghosts>>

WriteFlag(p) ==
    /\ pc[p] = "flag"
    /\ cancel_flag' = [cancel_flag EXCEPT ![run[p]] = TRUE]
    /\ Goto(p, "open")
    /\ UNCHANGED <<status, tmp, fd, results, site, run, stage, todo, new, reply,
                   ghosts>>

(* write_text opens the shared name: creates the file, or truncates the one *)
(* another writer is using.                                                 *)
OpenTmp(p) ==
    /\ pc[p] = "open"
    /\ tmp' = [tmp EXCEPT ![run[p]] = ZeroBytes]
    /\ fd' = [fd EXCEPT ![p] = "tmp"]
    /\ Goto(p, "write")
    /\ UNCHANGED <<status, cancel_flag, results, site, run, stage, todo, new, reply,
                   ghosts>>

(* What a file holds after one writer's bytes land on it at offset 0: over  *)
(* bytes of another writer, a shorter record leaves a tail that is not JSON.*)
Written(old, rec) == IF old = ZeroBytes THEN {rec} ELSE {rec, MixedBytes}

(* The file p has open, and what becomes of it when p writes c. *)
Held(p) == IF fd[p] = "tmp" THEN tmp[run[p]] ELSE status[run[p]]

Put(p, c) ==
    \/ fd[p] = "tmp" /\ tmp' = [tmp EXCEPT ![run[p]] = c] /\ UNCHANGED status
    \/ fd[p] = "status" /\ status' = [status EXCEPT ![run[p]] = c] /\ UNCHANGED tmp
    \/ fd[p] = "unlinked" /\ UNCHANGED <<status, tmp>>

WriteTmp(p) ==
    /\ pc[p] = "write"
    /\ \E c \in Written(Held(p), new[p]) : Put(p, c)
    /\ fd' = [fd EXCEPT ![p] = "closed"]
    /\ Goto(p, "replace")
    /\ UNCHANGED <<cancel_flag, results, site, run, stage, todo, new, reply,
                   ghosts>>

(* os.replace moves whatever the shared name holds; writers that still have *)
(* that file open now write into status.json.                               *)
Moved(p) ==
    [q \in Procs |-> IF q = p \/ run[q] # run[p] THEN fd[q]
                     ELSE [closed |-> "closed", tmp |-> "status",
                           status |-> "unlinked", unlinked |-> "unlinked"][fd[q]]]

(* No worker has passed its last cancel check for r. *)
BeforeLastCheck(r) ==
    /\ r \notin published
    /\ \A w \in Workers : run[w] = r => stage[w] # LastStage

Replace(p) ==
    /\ pc[p] = "replace"
    /\ tmp[run[p]] # NoFile
    /\ status' = [status EXCEPT ![run[p]] = tmp[run[p]]]
    /\ tmp' = [tmp EXCEPT ![run[p]] = NoFile]
    /\ fd' = Moved(p)
    /\ new' = [new EXCEPT ![p] = NoFile]
    /\ Goto(p, AfterUpdate[site[p]])
    /\ \/ /\ p \in Clients
          /\ reply' = [reply EXCEPT ![p] = "ok"]
          /\ honoured' = IF BeforeLastCheck(run[p]) THEN honoured \cup {run[p]} ELSE honoured
       \/ p \in Workers /\ UNCHANGED <<reply, honoured>>
    /\ UNCHANGED <<cancel_flag, results, site, run, stage, todo, faulty, crashes,
                   faults, retries>>

(* Another writer has already moved the file away: FileNotFoundError. *)
ReplaceMissing(p) ==
    /\ pc[p] = "replace"
    /\ tmp[run[p]] = NoFile
    /\ new' = [new EXCEPT ![p] = NoFile]
    /\ Raise(p)
    /\ UNCHANGED <<store, results, run, stage, todo, ghosts>>

(* Any step of the two writes may raise OSError (a full disk, a permission): *)
(* the bytes that reached the file stay, and so does the temporary file.     *)
WriteRaises(p) ==
    /\ faults < MaxFaults
    /\ faults' = faults + 1
    /\ \/ /\ pc[p] = "flag"
          /\ \E f \in {cancel_flag[run[p]], TRUE} :
                cancel_flag' = [cancel_flag EXCEPT ![run[p]] = f]
          /\ UNCHANGED <<status, tmp>>
       \/ /\ pc[p] = "write"
          /\ \E c \in {Held(p), MixedBytes} : Put(p, c)
          /\ UNCHANGED cancel_flag
       \/ /\ pc[p] = "open" \/ (pc[p] = "replace" /\ tmp[run[p]] # NoFile)
          /\ UNCHANGED <<status, tmp, cancel_flag>>
    /\ fd' = [fd EXCEPT ![p] = "closed"]
    /\ new' = [new EXCEPT ![p] = NoFile]
    /\ Raise(p)
    /\ faulty' = faulty \cup {w \in Workers : w = p /\ site[w] \in {"claim", "sweep", "failed"}}
    /\ UNCHANGED <<results, run, stage, todo, honoured, crashes, retries>>

UpdateStep(p) ==
    \/ ReadUnreadable(p) \/ ReadTerminal(p) \/ ReadCurrent(p) \/ WriteFlag(p)
    \/ OpenTmp(p) \/ WriteTmp(p) \/ Replace(p) \/ ReplaceMissing(p)
    \/ WriteRaises(p)

-----------------------------------------------------------------------------
(***************************************************************************)
(* The worker: claim_next, execute_capture_job, _execute_stages.           *)
(***************************************************************************)
Listable == \A r \in Runs : ~Unreadable(status[r])

(* list_jobs reads every status file and raises on one it cannot parse. *)
ListRaises(w) ==
    /\ pc[w] \in {"poll", "sweep"}
    /\ ~Listable
    /\ Goto(w, "escaped")
    /\ UNCHANGED <<store, results, site, run, stage, todo, new, reply, ghosts>>

List(w, label, which, cancelled) ==
    /\ pc[w] = label
    /\ Listable
    /\ todo' = [todo EXCEPT ![w] = {r \in Runs : /\ status[r].status = "queued"
                                                 /\ status[r].cancel_requested = cancelled}]
    /\ site' = [site EXCEPT ![w] = which]
    /\ stage' = [stage EXCEPT ![w] = 0]
    /\ run' = [run EXCEPT ![w] = 0]
    /\ Goto(w, "pick")
    /\ UNCHANGED <<store, results, new, reply, ghosts>>

ListQueued(w) == List(w, "poll", "claim", FALSE)

ListCancelled(w) == List(w, "sweep", "sweep", TRUE)

PickOldest(w) ==
    /\ pc[w] = "pick"
    /\ \E r \in todo[w] :
          /\ \A q \in todo[w] : r <= q
          /\ run' = [run EXCEPT ![w] = r]
          /\ todo' = [todo EXCEPT ![w] = @ \ {r}]
    /\ Goto(w, "read")
    /\ UNCHANGED <<store, results, site, stage, new, reply, ghosts>>

PickNone(w) ==
    /\ pc[w] = "pick"
    /\ todo[w] = {}
    /\ Goto(w, IF site[w] = "claim" THEN "sweep" ELSE "poll")
    /\ UNCHANGED <<store, results, site, run, stage, todo, new, reply, ghosts>>

(* Mutant: the guard asks for queued, which the claim has just replaced. *)
StartExecutionOfQueued(w) ==
    /\ pc[w] = "execute"
    /\ todo' = [todo EXCEPT ![w] = {}]
    /\ IF status[run[w]].status = "queued"
       THEN Goto(w, "check") /\ site' = [site EXCEPT ![w] = "stage"]
       ELSE Goto(w, "poll") /\ UNCHANGED site
    /\ UNCHANGED <<store, results, run, stage, new, reply, ghosts>>

(* execute_capture_job reads the claimed job again, outside its try. *)
StartExecution(w) ==
    LET job == status[run[w]]
    IN  /\ pc[w] = "execute"
        /\ todo' = [todo EXCEPT ![w] = {}]
        /\ \/ Unreadable(job) /\ Goto(w, "escaped") /\ UNCHANGED site
           \/ /\ job.status = "running"
              /\ Goto(w, "check")
              /\ site' = [site EXCEPT ![w] = "stage"]
           \/ /\ ~Unreadable(job) /\ job.status # "running"
              /\ Goto(w, "poll")
              /\ UNCHANGED site
        /\ UNCHANGED <<store, results, run, stage, new, reply, ghosts>>

(* Mutant: the flag file is not consulted. *)
CancelFieldOnly(r) == status[r].cancel_requested

is_cancel_requested(r) == status[r].cancel_requested \/ cancel_flag[r]

CheckRaises(w) ==
    /\ pc[w] = "check"
    /\ Unreadable(status[run[w]])
    /\ Raise(w)
    /\ UNCHANGED <<store, results, run, stage, todo, new, ghosts>>

StopCancelled(w) ==
    /\ pc[w] = "check"
    /\ ~Unreadable(status[run[w]])
    /\ is_cancel_requested(run[w])
    /\ site' = [site EXCEPT ![w] = "cancelled"]
    /\ Goto(w, "read")
    /\ UNCHANGED <<store, results, run, stage, todo, new, reply, ghosts>>

EnterStage(w) ==
    /\ pc[w] = "check"
    /\ ~Unreadable(status[run[w]])
    /\ ~is_cancel_requested(run[w])
    /\ stage' = [stage EXCEPT ![w] = @ + 1]
    /\ Goto(w, "read")
    /\ UNCHANGED <<store, results, site, run, todo, new, reply, ghosts>>

(* Stages 1 and 2: analyze and assemble_report leave no shared state behind. *)
Analyze(w) ==
    /\ pc[w] = "work"
    /\ stage[w] \in {1, 2}
    /\ stage[w] = 1 => ~Unreadable(status[run[w]])   \* capture_path reads the job
    /\ Goto(w, "check")
    /\ UNCHANGED <<store, results, site, run, stage, todo, new, reply, ghosts>>

(* Stage 3: the windows are appended before the cancel check that follows. *)
AppendWindows(w) ==
    /\ pc[w] = "work"
    /\ stage[w] = 3
    /\ appended' = [appended EXCEPT ![run[w]] = @ + 1]
    /\ Goto(w, "check")
    /\ UNCHANGED <<store, artifacts, published, site, run, stage, todo, new, reply,
                   ghosts>>

(* Mutant: the PDF is rendered but not stored. *)
WriteArtifactsNoPdf(w) ==
    /\ pc[w] = "work"
    /\ stage[w] = 4
    /\ artifacts' = [artifacts EXCEPT ![run[w]] = @ \cup {"report.json", "report.html"}]
    /\ Goto(w, "check")
    /\ UNCHANGED <<store, published, appended, site, run, stage, todo, new, reply, ghosts>>

(* Stage 4: render, then write report.json, report.html and report.pdf. *)
WriteArtifacts(w) ==
    /\ pc[w] = "work"
    /\ stage[w] = 4
    /\ ~Unreadable(status[run[w]])                    \* write_artifact reads the job
    /\ artifacts' = [artifacts EXCEPT ![run[w]] = AllArtifacts]
    /\ Goto(w, "check")
    /\ UNCHANGED <<store, published, appended, site, run, stage, todo, new, reply,
                   ghosts>>

(* Mutants: the worker goes on to another stage; it completes without publishing. *)
PublishThenCheck(w) ==
    /\ pc[w] = "work"
    /\ stage[w] = LastStage
    /\ published' = published \cup {run[w]}
    /\ Goto(w, "check")
    /\ UNCHANGED <<store, artifacts, appended, site, run, stage, todo, new, reply, ghosts>>

SkipPublish(w) ==
    /\ pc[w] = "work"
    /\ stage[w] = LastStage
    /\ site' = [site EXCEPT ![w] = "completed"]
    /\ Goto(w, "read")
    /\ UNCHANGED <<store, results, run, stage, todo, new, reply, ghosts>>

(* Stage 5: publish_report, then the last update_job of the job. *)
Publish(w) ==
    /\ pc[w] = "work"
    /\ stage[w] = LastStage
    /\ published' = published \cup {run[w]}
    /\ site' = [site EXCEPT ![w] = "completed"]
    /\ Goto(w, "read")
    /\ UNCHANGED <<store, artifacts, appended, run, stage, todo, new, reply,
                   ghosts>>

(* Any stage may raise; rendering may do so with some artifacts written. *)
WorkRaises(w) ==
    /\ pc[w] = "work"
    /\ \E n \in 0..3 :
          /\ n > 0 => stage[w] = 4
          /\ artifacts' = [artifacts EXCEPT ![run[w]] = @ \cup {ArtifactNames[i] : i \in 1..n}]
    /\ Fail(w)
    /\ UNCHANGED <<store, published, appended, run, stage, todo, new, reply,
                   ghosts>>

WorkerStep(w) ==
    \/ ListRaises(w) \/ ListQueued(w) \/ ListCancelled(w) \/ PickOldest(w) \/ PickNone(w)
    \/ StartExecution(w) \/ CheckRaises(w) \/ StopCancelled(w) \/ EnterStage(w)
    \/ Analyze(w) \/ AppendWindows(w) \/ WriteArtifacts(w) \/ Publish(w) \/ WorkRaises(w)
    \/ UpdateStep(w)

-----------------------------------------------------------------------------
(***************************************************************************)
(* The environment: uploads, cancel requests, crashes and restarts.        *)
(***************************************************************************)

(* commit_staged: a run id nobody has seen gets its first status file. *)
Enqueue(r) ==
    /\ status[r] = NoFile
    /\ status' = [status EXCEPT ![r] = NewJob]
    /\ UNCHANGED <<tmp, cancel_flag, fd, results, control, ghosts>>

(* request_cancel reads the job, and update_job will read it again. *)
request_cancel(c, r) ==
    LET job == status[r]
    IN  /\ pc[c] = "idle"
        /\ job # NoFile
        /\ run' = [run EXCEPT ![c] = r]
        /\ \/ /\ Unreadable(job) \/ is_terminal(job)
              /\ Goto(c, "done")
              /\ reply' = [reply EXCEPT ![c] = IF is_terminal(job) THEN "conflict" ELSE "error"]
              /\ UNCHANGED site
           \/ /\ job \in AnalysisJob /\ ~is_terminal(job)
              /\ Goto(c, "read")
              /\ site' = [site EXCEPT ![c] = IF job.status = "queued"
                                             THEN "cancel_queued" ELSE "cancel_running"]
              /\ UNCHANGED reply
        /\ UNCHANGED <<store, results, stage, todo, new, ghosts>>

Stopped(w) == pc[w] \in {"escaped", "dead"}

(* What a process forgets when it ends. *)
Forget(w) ==
    /\ site' = [site EXCEPT ![w] = "claim"]
    /\ run' = [run EXCEPT ![w] = 0]
    /\ stage' = [stage EXCEPT ![w] = 0]
    /\ todo' = [todo EXCEPT ![w] = {}]
    /\ new' = [new EXCEPT ![w] = NoFile]

Crash(w) ==
    /\ ~Stopped(w)
    /\ crashes < MaxCrashes
    /\ crashes' = crashes + 1
    /\ Goto(w, "dead")
    /\ fd' = [fd EXCEPT ![w] = "closed"]
    /\ Forget(w)
    /\ UNCHANGED <<status, tmp, cancel_flag, results, reply, honoured, faulty, faults, retries>>

(* Mutant: a new worker puts interrupted and failed jobs back in the queue. *)
RestartRequeues(w) ==
    /\ Stopped(w)
    /\ Goto(w, "poll")
    /\ Forget(w)
    /\ status' = [r \in Runs |-> IF status[r].status \in {"running", "failed"}
                                 THEN NewJob ELSE status[r]]
    /\ UNCHANGED <<tmp, cancel_flag, fd, results, reply, ghosts>>

(* Starting the service again spawns a worker with no memory of the last one. *)
Restart(w) ==
    /\ Stopped(w)
    /\ Goto(w, "poll")
    /\ Forget(w)
    /\ faulty' = faulty \ {w}
    /\ UNCHANGED <<store, results, reply, honoured, crashes, faults, retries>>

(* The documented recovery of a job left running (troubleshooting.md): stop *)
(* the service, edit status.json back to queued, delete cancel.flag.        *)
OperatorRetry(r) ==
    /\ \A w \in Workers : Stopped(w)
    /\ \A c \in Clients : pc[c] \in {"idle", "done"}
    /\ status[r].status = "running"
    /\ retries[r] < MaxRetries
    /\ retries' = [retries EXCEPT ![r] = @ + 1]
    /\ status' = [status EXCEPT ![r].status = "queued", ![r].stage = "intake",
                                ![r].cancel_requested = FALSE]
    /\ cancel_flag' = [cancel_flag EXCEPT ![r] = FALSE]
    /\ honoured' = honoured \ {r}
    /\ UNCHANGED <<tmp, fd, results, control, faulty, crashes, faults>>

Next ==
    \/ \E w \in Workers : WorkerStep(w) \/ Crash(w) \/ Restart(w)
    \/ \E c \in Clients : UpdateStep(c) \/ \E r \in Runs : request_cancel(c, r)
    \/ \E r \in Runs : Enqueue(r) \/ OperatorRetry(r)

(* A live process keeps running: the operating system schedules the worker  *)
(* loop and the API threads.  Uploads, cancels, crashes and restarts are    *)
(* not owed to anyone.                                                      *)
Fairness ==
    /\ \A w \in Workers : WF_vars(WorkerStep(w))
    /\ \A c \in Clients : WF_vars(UpdateStep(c))

Spec == Init /\ [][Next]_vars

LiveSpec == Spec /\ Fairness

-----------------------------------------------------------------------------
(***************************************************************************)
(* What holds whatever the interleaving of workers, cancels and crashes.   *)
(***************************************************************************)

(* A cancel answered 200 before the worker's last check keeps the job out   *)
(* of the catalog, even when the worker's next update_job overwrites the    *)
(* cancel_requested field it carried: cancel.flag survives.                 *)
AckedCancelHonoured == honoured \cap published = {}

(* status.json says completed only when the report is in the catalog and    *)
(* all three artifacts are on disk, so no download of a completed job fails.*)
CompletedIsPublished ==
    \A r \in Runs : status[r].status = "completed" =>
        /\ status[r].artifacts
        /\ r \in published
        /\ artifacts[r] = AllArtifacts

(* One worker feeds a run into the ML history once, and once more for each  *)
(* retry: no race makes it execute a job again.                             *)
AppendedOnce == \A r \in Runs : appended[r] <= 1 + retries[r]

-----------------------------------------------------------------------------
(***************************************************************************)
(* The inductive invariant of JobControl_proofs, in three parts.           *)
(***************************************************************************)

(* Which call, job and stage go with each control point. *)
ControlOK ==
    /\ \A c \in Clients : pc[c] \in ClientPCs \cup UpdatePCs /\ site[c] \in CancelSites
    /\ \A w \in Workers : pc[w] \in WorkerPCs \cup UpdatePCs /\ site[w] \in WorkerSites
    /\ \A p \in Procs :
          /\ pc[p] \in UpdatePCs \cup {"execute", "check", "work"} => run[p] \in Runs
          /\ pc[p] = "flag" => site[p] \in CancelSites
          /\ pc[p] = "check" => site[p] = "stage" /\ stage[p] < LastStage
          /\ pc[p] = "work" => site[p] = "stage"
          /\ pc[p] \in UpdatePCs \cup {"work"} /\ site[p] = "stage" => stage[p] > 0
          /\ pc[p] \in UpdatePCs /\ site[p] \in {"claim", "sweep"} => stage[p] = 0
          /\ pc[p] \in {"pick", "execute"} => stage[p] = 0 /\ site[p] \in {"claim", "sweep"}

(* A cancel that will be acknowledged has its flag on disk, and no worker   *)
(* passes its last check over that flag.                                    *)
CancelInv ==
    /\ AckedCancelHonoured
    /\ \A r \in honoured :
          cancel_flag[r] /\ \A w \in Workers : run[w] = r => stage[w] # LastStage
    /\ \A c \in Clients : pc[c] \in {"open", "write", "replace"} => cancel_flag[run[c]]

(* Every copy of a completed record, on disk or in flight, is backed by a   *)
(* published report and by the artifacts.                                   *)
Backed(r, content) ==
    content.status = "completed" =>
        content.artifacts /\ r \in published /\ artifacts[r] = AllArtifacts

RecordInv ==
    /\ \A r \in Runs : Backed(r, status[r]) /\ Backed(r, tmp[r])
    /\ \A p \in Procs :
          /\ pc[p] \in UpdatePCs \ {"read"} => Backed(run[p], new[p])
          /\ pc[p] = "check" /\ stage[p] = 4 => artifacts[run[p]] = AllArtifacts
          /\ pc[p] \in UpdatePCs \cup {"work"} /\ site[p] = "stage" /\ stage[p] = LastStage
                => artifacts[run[p]] = AllArtifacts
          /\ pc[p] \in UpdatePCs /\ site[p] = "completed"
                => run[p] \in published /\ artifacts[run[p]] = AllArtifacts

(***************************************************************************)
(* The worker, its records and the life cycle they implement.              *)
(***************************************************************************)

(* The loop of run_capture_worker_loop ends only when a status write fails   *)
(* in claim_next or in _fail, where no try surrounds it: a stage that raises,*)
(* a failing write of a stage, of a cancellation or of the completion, and   *)
(* the torn files all of these leave behind are survived.                    *)
WorkerSurvives == \A w \in Workers : pc[w] = "escaped" => w \in faulty

(* status.json is replaced as a whole: no reader finds it empty or mixed.   *)
(* ImplementsLifecycle, which knows no such status, implies it.             *)
StatusReadable == \A r \in Runs : ~Unreadable(status[r])

(* Worker and store implement the life cycle the documentation describes.   *)
Lifecycle == INSTANCE JobLifecycle
                 WITH phase <- [r \in Runs |-> status[r].status], visible <- published

ImplementsLifecycle == Lifecycle!Spec

(* The worker drains the queue: if it never stops, every queued job ends,   *)
(* whatever other jobs fail; if it is always started again, no job waits    *)
(* for ever, whatever an earlier worker left running.                       *)
Drained ==
    \A r \in Runs :
        /\ [](\A w \in Workers : ~Stopped(w)) =>
              (status[r].status = "queued" ~> is_terminal(status[r]))
        /\ <>[](\A w \in Workers : ~Stopped(w)) =>
              (status[r].status = "queued" ~> status[r].status # "queued")
=============================================================================

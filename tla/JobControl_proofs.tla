-------------------------- MODULE JobControl_proofs --------------------------
(***************************************************************************)
(* Proofs about JobControl for any set of jobs, workers and cancel         *)
(* requests, any number of crashes and any number of retries.              *)
(***************************************************************************)
EXTENDS JobControl, TLAPS

(* update_job turns a record into a record: what it writes is always valid. *)
LEMMA UpdateJobType ==
    ASSUME NEW s \in WorkerSites \cup CancelSites,
           NEW k \in 0..LastStage,
           s = "stage" => k > 0,
           NEW job \in AnalysisJob
    PROVE  update_job(s, k, job) \in AnalysisJob
  <1>1. CASE s \in {"stage"}
    <2>1. StageSeq[k] \in AnalysisStage
      BY <1>1 DEF AnalysisStage, LastStage
    <2> QED
      BY <1>1, <2>1 DEF update_job, SetsStatus, AnalysisJob, CancelSites
  <1>2. CASE s \notin {"stage"}
    <2>1. "publication" \in AnalysisStage
      BY DEF AnalysisStage, StageSeq
    <2> QED
      BY <1>2, <2>1 DEF update_job, SetsStatus, StatusSet, AnalysisJob, AnalysisStatus, Terminal, WorkerSites,
            CancelSites
  <1> QED
    BY <1>1, <1>2

(* What a status file can hold, and that a readable one is a job record. *)
LEMMA ContentsFacts ==
    /\ NewJob \in AnalysisJob
    /\ NoFile \in Contents /\ ZeroBytes \in Contents /\ MixedBytes \in Contents
    /\ NoFile.status = "absent" /\ ZeroBytes.status = "zero_bytes"
    /\ MixedBytes.status = "mixed_bytes" /\ NewJob.status = "queued"
    /\ \A c \in Contents : ~Unreadable(c) /\ c # NoFile => c \in AnalysisJob
  BY DEF Blank, NewJob, AnalysisJob, AnalysisStatus, AnalysisStage, NoFile, ZeroBytes, MixedBytes,
         Contents, Unreadable
-----------------------------------------------------------------------------
(***************************************************************************)
(* Types and control points.                                               *)
(***************************************************************************)
TypeInv == TypeOK /\ ControlOK

USE DEF Procs, LastStage

(* The store starts empty and every process at its first control point. *)
LEMMA InitTypeInv == Init => TypeInv
  BY RunsAssumption, ProcsAssumption, BoundsAssumption, ContentsFacts
  DEF Init, TypeInv, TypeOK, ControlOK, WorkerPCs, ClientPCs, UpdatePCs, Files,
      WorkerSites, CancelSites

(* ReadUnreadable keeps types and control points together. *)
LEMMA Type_ReadUnreadable ==
    ASSUME TypeInv, NEW p \in Procs, ReadUnreadable(p)
    PROVE  TypeInv'
  <1>1. CASE p \in Clients
    BY <1>1, ProcsAssumption
    DEF ReadUnreadable, Raise, Goto, TypeInv, TypeOK, ControlOK, WorkerPCs, ClientPCs, UpdatePCs,
          Files, WorkerSites, CancelSites, store, results, ghosts
  <1>2. CASE p \in Workers /\ Escapes(p)
    BY <1>2, ProcsAssumption
    DEF ReadUnreadable, Raise, Goto, TypeInv, TypeOK, ControlOK, WorkerPCs, ClientPCs, UpdatePCs,
          Files, WorkerSites, CancelSites, store, results, ghosts
  <1>3. CASE p \in Workers /\ ~Escapes(p)
    BY <1>3, ProcsAssumption
    DEF ReadUnreadable, Raise, Fail, Escapes, Goto, TypeInv, TypeOK, ControlOK, WorkerPCs, ClientPCs, UpdatePCs,
          Files, WorkerSites, CancelSites, store, results, ghosts
  <1> QED
    BY <1>1, <1>2, <1>3

(* ReadTerminal keeps types and control points together. *)
LEMMA Type_ReadTerminal ==
    ASSUME TypeInv, NEW p \in Procs, ReadTerminal(p)
    PROVE  TypeInv'
  BY RunsAssumption, ProcsAssumption, BoundsAssumption, ContentsFacts, UpdateJobType
  DEF ReadTerminal, Conflict, Raise, Fail, Escapes, Goto, TypeInv, TypeOK, ControlOK, WorkerPCs, ClientPCs, UpdatePCs,
      Files, WorkerSites, CancelSites, store, results, ghosts, Stopped

(* ReadCurrent keeps types and control points together. *)
LEMMA Type_ReadCurrent ==
    ASSUME TypeInv, NEW p \in Procs, ReadCurrent(p)
    PROVE  TypeInv'
  <1> DEFINE rec == update_job(site[p], stage[p], status[run[p]])
  <1>1. rec \in Contents
    BY UpdateJobType DEF ReadCurrent, TypeInv, TypeOK, ControlOK, UpdatePCs, Contents
  <1> HIDE DEF rec
  <1>2. new' = [new EXCEPT ![p] = rec]
    BY DEF ReadCurrent, rec
  <1> QED
    BY <1>1, <1>2, ProcsAssumption
    DEF ReadCurrent, Goto, TypeInv, TypeOK, ControlOK, WorkerPCs, ClientPCs, UpdatePCs,
          Files, WorkerSites, CancelSites, store, results, ghosts

(* WriteFlag keeps types and control points together. *)
LEMMA Type_WriteFlag ==
    ASSUME TypeInv, NEW p \in Procs, WriteFlag(p)
    PROVE  TypeInv'
  BY RunsAssumption, ProcsAssumption, BoundsAssumption, ContentsFacts, UpdateJobType
  DEF WriteFlag, Goto, TypeInv, TypeOK, ControlOK, WorkerPCs, ClientPCs, UpdatePCs,
      Files, WorkerSites, CancelSites, store, results, ghosts, Stopped

(* OpenTmp keeps types and control points together. *)
LEMMA Type_OpenTmp ==
    ASSUME TypeInv, NEW p \in Procs, OpenTmp(p)
    PROVE  TypeInv'
  BY RunsAssumption, ProcsAssumption, BoundsAssumption, ContentsFacts, UpdateJobType
  DEF OpenTmp, Goto, TypeInv, TypeOK, ControlOK, WorkerPCs, ClientPCs, UpdatePCs,
      Files, WorkerSites, CancelSites, store, results, ghosts, Stopped

(* WriteTmp keeps types and control points together. *)
LEMMA Type_WriteTmp ==
    ASSUME TypeInv, NEW p \in Procs, WriteTmp(p)
    PROVE  TypeInv'
  BY RunsAssumption, ProcsAssumption, BoundsAssumption, ContentsFacts, UpdateJobType
  DEF WriteTmp, Put, Held, Written, Goto, TypeInv, TypeOK, ControlOK, WorkerPCs, ClientPCs, UpdatePCs,
      Files, WorkerSites, CancelSites, store, results, ghosts, Stopped

(* Replace keeps types and control points together. *)
LEMMA Type_Replace ==
    ASSUME TypeInv, NEW p \in Procs, Replace(p)
    PROVE  TypeInv'
  <1>1. Moved(p) \in [Procs -> Files]
    BY DEF Moved, TypeInv, TypeOK, Files
  <1>2. AfterUpdate[site[p]] =
          IF p \in Clients THEN "done"
          ELSE IF site[p] = "claim" THEN "execute"
          ELSE IF site[p] = "sweep" THEN "pick"
          ELSE IF site[p] = "stage" THEN "work" ELSE "poll"
    BY ProcsAssumption DEF AfterUpdate, TypeInv, ControlOK, WorkerSites, CancelSites
  <1>3. run[p] \in Runs
    BY DEF Replace, TypeInv, ControlOK, UpdatePCs
  <1>4. TypeOK'
    BY <1>1, <1>2, <1>3, ContentsFacts
    DEF Replace, Goto, TypeInv, TypeOK, WorkerPCs, ClientPCs, results
  <1>5. ControlOK'
    BY <1>2, <1>3, ProcsAssumption
    DEF Replace, Goto, TypeInv, TypeOK, ControlOK, WorkerPCs, ClientPCs, UpdatePCs,
        WorkerSites, CancelSites
  <1> QED
    BY <1>4, <1>5 DEF TypeInv

(* ReplaceMissing keeps types and control points together. *)
LEMMA Type_ReplaceMissing ==
    ASSUME TypeInv, NEW p \in Procs, ReplaceMissing(p)
    PROVE  TypeInv'
  <1>1. TypeOK'
    BY ProcsAssumption, ContentsFacts
    DEF ReplaceMissing, Raise, Fail, Goto, TypeInv, TypeOK, WorkerPCs, ClientPCs, UpdatePCs,
        WorkerSites, store, results, ghosts
  <1>2. ControlOK'
    BY ProcsAssumption
    DEF ReplaceMissing, Raise, Fail, Escapes, Goto, TypeInv, TypeOK, ControlOK, WorkerPCs,
        ClientPCs, UpdatePCs, WorkerSites, CancelSites
  <1> QED
    BY <1>1, <1>2 DEF TypeInv

(* WriteRaises keeps types and control points together. *)
LEMMA Type_WriteRaises ==
    ASSUME TypeInv, NEW p \in Procs, WriteRaises(p)
    PROVE  TypeInv'
  <1>1. run[p] \in Runs /\ pc[p] \in UpdatePCs
    BY DEF WriteRaises, TypeInv, ControlOK, UpdatePCs
  <1>2. /\ status' \in [Runs -> Contents] /\ tmp' \in [Runs -> Contents]
        /\ cancel_flag' \in [Runs -> BOOLEAN]
    <2>1. Held(p) \in Contents /\ MixedBytes \in Contents
      BY <1>1, ContentsFacts DEF Held, TypeInv, TypeOK
    <2> QED
      <3>1. /\ status' = status \/ \E c \in Contents : status' = [status EXCEPT ![run[p]] = c]
            /\ tmp' = tmp \/ \E c \in Contents : tmp' = [tmp EXCEPT ![run[p]] = c]
        BY <2>1 DEF WriteRaises, Put
      <3>2. cancel_flag' \in [Runs -> BOOLEAN]
        BY <1>1 DEF WriteRaises, TypeInv, TypeOK
      <3> QED
        BY <1>1, <3>1, <3>2 DEF TypeInv, TypeOK
  <1>3. /\ faulty' \in SUBSET Workers /\ faults' \in 0..MaxFaults
        /\ fd' \in [Procs -> Files] /\ new' \in [Procs -> Contents]
    BY BoundsAssumption, ContentsFacts DEF WriteRaises, TypeInv, TypeOK, Files
  <1>4. TypeOK'
    BY <1>2, <1>3, ProcsAssumption
    DEF WriteRaises, Raise, Fail, Goto, TypeInv, TypeOK, WorkerPCs, ClientPCs, UpdatePCs,
        WorkerSites, results
  <1>5. ControlOK'
    <2>1. UNCHANGED <<run, stage>>
      BY DEF WriteRaises
    <2> QED
      BY <1>1, <2>1, ProcsAssumption
      DEF WriteRaises, Raise, Fail, Escapes, Goto, TypeInv, TypeOK, ControlOK, WorkerPCs,
          ClientPCs, UpdatePCs, WorkerSites, CancelSites
  <1> QED
    BY <1>4, <1>5 DEF TypeInv

(* ListRaises keeps types and control points together. *)
LEMMA Type_ListRaises ==
    ASSUME TypeInv, NEW w \in Workers, ListRaises(w)
    PROVE  TypeInv'
  BY RunsAssumption, ProcsAssumption, BoundsAssumption, ContentsFacts, UpdateJobType
  DEF ListRaises, Goto, TypeInv, TypeOK, ControlOK, WorkerPCs, ClientPCs, UpdatePCs,
      Files, WorkerSites, CancelSites, store, results, ghosts, Stopped

(* ListQueued keeps types and control points together. *)
LEMMA Type_ListQueued ==
    ASSUME TypeInv, NEW w \in Workers, ListQueued(w)
    PROVE  TypeInv'
  BY RunsAssumption, ProcsAssumption, BoundsAssumption, ContentsFacts, UpdateJobType
  DEF ListQueued, List, Goto, TypeInv, TypeOK, ControlOK, WorkerPCs, ClientPCs, UpdatePCs,
      Files, WorkerSites, CancelSites, store, results, ghosts, Stopped

(* ListCancelled keeps types and control points together. *)
LEMMA Type_ListCancelled ==
    ASSUME TypeInv, NEW w \in Workers, ListCancelled(w)
    PROVE  TypeInv'
  BY RunsAssumption, ProcsAssumption, BoundsAssumption, ContentsFacts, UpdateJobType
  DEF ListCancelled, List, Goto, TypeInv, TypeOK, ControlOK, WorkerPCs, ClientPCs, UpdatePCs,
      Files, WorkerSites, CancelSites, store, results, ghosts, Stopped

(* PickOldest keeps types and control points together. *)
LEMMA Type_PickOldest ==
    ASSUME TypeInv, NEW w \in Workers, PickOldest(w)
    PROVE  TypeInv'
  <1>1. PICK r \in todo[w] : /\ run' = [run EXCEPT ![w] = r]
                            /\ todo' = [todo EXCEPT ![w] = @ \ {r}]
    BY DEF PickOldest
  <1>2. r \in Runs
    BY DEF TypeInv, TypeOK
  <1>3. todo' \in [Procs -> SUBSET Runs]
    BY <1>1 DEF TypeInv, TypeOK
  <1>4. TypeOK'
    BY <1>1, <1>2, <1>3 DEF PickOldest, Goto, TypeInv, TypeOK, UpdatePCs, store, results, ghosts
  <1>5. ControlOK'
    BY <1>1, <1>2, ProcsAssumption
    DEF PickOldest, Goto, TypeInv, TypeOK, ControlOK, WorkerPCs, ClientPCs, UpdatePCs
  <1> QED
    BY <1>4, <1>5 DEF TypeInv

(* PickNone keeps types and control points together. *)
LEMMA Type_PickNone ==
    ASSUME TypeInv, NEW w \in Workers, PickNone(w)
    PROVE  TypeInv'
  BY RunsAssumption, ProcsAssumption, BoundsAssumption, ContentsFacts, UpdateJobType
  DEF PickNone, Goto, TypeInv, TypeOK, ControlOK, WorkerPCs, ClientPCs, UpdatePCs,
      Files, WorkerSites, CancelSites, store, results, ghosts, Stopped

(* StartExecution keeps types and control points together. *)
LEMMA Type_StartExecution ==
    ASSUME TypeInv, NEW w \in Workers, StartExecution(w)
    PROVE  TypeInv'
  BY RunsAssumption, ProcsAssumption, BoundsAssumption, ContentsFacts, UpdateJobType
  DEF StartExecution, Goto, TypeInv, TypeOK, ControlOK, WorkerPCs, ClientPCs, UpdatePCs,
      Files, WorkerSites, CancelSites, store, results, ghosts, Stopped

(* CheckRaises keeps types and control points together. *)
LEMMA Type_CheckRaises ==
    ASSUME TypeInv, NEW w \in Workers, CheckRaises(w)
    PROVE  TypeInv'
  BY RunsAssumption, ProcsAssumption, BoundsAssumption, ContentsFacts, UpdateJobType
  DEF CheckRaises, Raise, Fail, Escapes, Goto, TypeInv, TypeOK, ControlOK, WorkerPCs, ClientPCs, UpdatePCs,
      Files, WorkerSites, CancelSites, store, results, ghosts, Stopped

(* StopCancelled keeps types and control points together. *)
LEMMA Type_StopCancelled ==
    ASSUME TypeInv, NEW w \in Workers, StopCancelled(w)
    PROVE  TypeInv'
  BY RunsAssumption, ProcsAssumption, BoundsAssumption, ContentsFacts, UpdateJobType
  DEF StopCancelled, Goto, TypeInv, TypeOK, ControlOK, WorkerPCs, ClientPCs, UpdatePCs,
      Files, WorkerSites, CancelSites, store, results, ghosts, Stopped

(* EnterStage keeps types and control points together. *)
LEMMA Type_EnterStage ==
    ASSUME TypeInv, NEW w \in Workers, EnterStage(w)
    PROVE  TypeInv'
  BY RunsAssumption, ProcsAssumption, BoundsAssumption, ContentsFacts, UpdateJobType
  DEF EnterStage, Goto, TypeInv, TypeOK, ControlOK, WorkerPCs, ClientPCs, UpdatePCs,
      Files, WorkerSites, CancelSites, store, results, ghosts, Stopped

(* Analyze keeps types and control points together. *)
LEMMA Type_Analyze ==
    ASSUME TypeInv, NEW w \in Workers, Analyze(w)
    PROVE  TypeInv'
  BY RunsAssumption, ProcsAssumption, BoundsAssumption, ContentsFacts, UpdateJobType
  DEF Analyze, Goto, TypeInv, TypeOK, ControlOK, WorkerPCs, ClientPCs, UpdatePCs,
      Files, WorkerSites, CancelSites, store, results, ghosts, Stopped

(* AppendWindows keeps types and control points together. *)
LEMMA Type_AppendWindows ==
    ASSUME TypeInv, NEW w \in Workers, AppendWindows(w)
    PROVE  TypeInv'
  <1>1. run[w] \in Runs
    BY DEF AppendWindows, TypeInv, ControlOK
  <1>2. appended' \in [Runs -> Nat]
    BY <1>1 DEF AppendWindows, TypeInv, TypeOK
  <1>3. TypeOK'
    BY <1>2 DEF AppendWindows, Goto, TypeInv, TypeOK, WorkerPCs, store, ghosts
  <1>4. ControlOK'
    BY ProcsAssumption
    DEF AppendWindows, Goto, TypeInv, TypeOK, ControlOK, WorkerPCs, ClientPCs, UpdatePCs,
          Files, WorkerSites, CancelSites, store, results, ghosts
  <1> QED
    BY <1>3, <1>4 DEF TypeInv

(* WriteArtifacts keeps types and control points together. *)
LEMMA Type_WriteArtifacts ==
    ASSUME TypeInv, NEW w \in Workers, WriteArtifacts(w)
    PROVE  TypeInv'
  BY RunsAssumption, ProcsAssumption, BoundsAssumption, ContentsFacts, UpdateJobType
  DEF WriteArtifacts, Goto, TypeInv, TypeOK, ControlOK, WorkerPCs, ClientPCs, UpdatePCs,
      Files, WorkerSites, CancelSites, store, results, ghosts, Stopped

(* Publish keeps types and control points together. *)
LEMMA Type_Publish ==
    ASSUME TypeInv, NEW w \in Workers, Publish(w)
    PROVE  TypeInv'
  <1>1. run[w] \in Runs
    BY DEF Publish, TypeInv, ControlOK
  <1>2. TypeOK'
    BY <1>1 DEF Publish, Goto, TypeInv, TypeOK, WorkerSites, UpdatePCs, store, ghosts
  <1>3. ControlOK'
    BY <1>1, ProcsAssumption
    DEF Publish, Goto, TypeInv, TypeOK, ControlOK, WorkerPCs, ClientPCs, UpdatePCs,
          Files, WorkerSites, CancelSites, store, results, ghosts
  <1> QED
    BY <1>2, <1>3 DEF TypeInv

(* WorkRaises keeps types and control points together. *)
LEMMA Type_WorkRaises ==
    ASSUME TypeInv, NEW w \in Workers, WorkRaises(w)
    PROVE  TypeInv'
  <1>1. PICK n \in 0..3 :
          artifacts' = [artifacts EXCEPT ![run[w]] = @ \cup {ArtifactNames[i] : i \in 1..n}]
    BY DEF WorkRaises
  <1>2. run[w] \in Runs
    BY DEF WorkRaises, TypeInv, ControlOK
  <1>3. {ArtifactNames[i] : i \in 1..n} \in SUBSET AllArtifacts
    BY DEF AllArtifacts
  <1> DEFINE written == {ArtifactNames[i] : i \in 1..n}
  <1> HIDE DEF written
  <1>4. artifacts' = [artifacts EXCEPT ![run[w]] = @ \cup written]
    BY <1>1 DEF written
  <1>5. written \in SUBSET AllArtifacts
    BY <1>3 DEF written
  <1>6. artifacts' \in [Runs -> SUBSET AllArtifacts]
    BY <1>2, <1>4, <1>5 DEF TypeInv, TypeOK
  <1>7. TypeOK'
    BY <1>6 DEF WorkRaises, Fail, Goto, TypeInv, TypeOK, WorkerSites, UpdatePCs, store, ghosts
  <1>8. ControlOK'
    BY <1>2, ProcsAssumption
    DEF WorkRaises, Fail, Goto, TypeInv, TypeOK, ControlOK, WorkerPCs, ClientPCs, UpdatePCs,
          Files, WorkerSites, CancelSites, store, results, ghosts
  <1> QED
    BY <1>7, <1>8 DEF TypeInv

(* Crash keeps types and control points together. *)
LEMMA Type_Crash ==
    ASSUME TypeInv, NEW w \in Workers, Crash(w)
    PROVE  TypeInv'
  BY RunsAssumption, ProcsAssumption, BoundsAssumption, ContentsFacts, UpdateJobType
  DEF Crash, Forget, Goto, TypeInv, TypeOK, ControlOK, WorkerPCs, ClientPCs, UpdatePCs,
      Files, WorkerSites, CancelSites, store, results, ghosts, Stopped

(* Restart keeps types and control points together. *)
LEMMA Type_Restart ==
    ASSUME TypeInv, NEW w \in Workers, Restart(w)
    PROVE  TypeInv'
  BY RunsAssumption, ProcsAssumption, BoundsAssumption, ContentsFacts, UpdateJobType
  DEF Restart, Forget, Goto, TypeInv, TypeOK, ControlOK, WorkerPCs, ClientPCs, UpdatePCs,
      Files, WorkerSites, CancelSites, store, results, ghosts, Stopped

(* request_cancel keeps types and control points together. *)
LEMMA Type_request_cancel ==
    ASSUME TypeInv, NEW c \in Clients, NEW r \in Runs, request_cancel(c, r)
    PROVE  TypeInv'
  <1>1. TypeOK'
    BY DEF request_cancel, Goto, TypeInv, TypeOK, ClientPCs, UpdatePCs, CancelSites, store, results,
           ghosts
  <1>2. ControlOK'
    BY ProcsAssumption
    DEF request_cancel, Goto, TypeInv, TypeOK, ControlOK, WorkerPCs, ClientPCs, UpdatePCs,
        WorkerSites, CancelSites
  <1> QED
    BY <1>1, <1>2 DEF TypeInv

(* Enqueue keeps types and control points together. *)
LEMMA Type_Enqueue ==
    ASSUME TypeInv, NEW r \in Runs, Enqueue(r)
    PROVE  TypeInv'
  BY ContentsFacts
  DEF Enqueue, TypeInv, TypeOK, ControlOK, Contents, results, control, ghosts

(* OperatorRetry keeps types and control points together. *)
LEMMA Type_OperatorRetry ==
    ASSUME TypeInv, NEW r \in Runs, OperatorRetry(r)
    PROVE  TypeInv'
  <1>1. status[r] \in AnalysisJob
    BY ContentsFacts DEF OperatorRetry, TypeInv, TypeOK, Unreadable
  <1>2. status' \in [Runs -> Contents]
    BY <1>1 DEF OperatorRetry, TypeInv, TypeOK, Contents, AnalysisJob, AnalysisStatus,
                AnalysisStage
  <1>3. TypeOK'
    BY <1>2, BoundsAssumption DEF OperatorRetry, TypeInv, TypeOK, results, control
  <1> QED
    BY <1>3 DEF OperatorRetry, TypeInv, ControlOK, control

(* One case per action of Next, for a predicate each action preserves. *)
LEMMA NextTypeInv ==
    ASSUME TypeInv, [Next]_vars
    PROVE  TypeInv'
  <1>1. CASE \E p \in Procs : UpdateStep(p)
    BY <1>1, Type_ReadUnreadable, Type_ReadTerminal, Type_ReadCurrent, Type_WriteFlag,
       Type_OpenTmp, Type_WriteTmp, Type_Replace, Type_ReplaceMissing, Type_WriteRaises
    DEF UpdateStep
  <1>2. CASE \E w \in Workers : WorkerStep(w) /\ ~UpdateStep(w)
    BY <1>2, Type_ListRaises, Type_ListQueued, Type_ListCancelled, Type_PickOldest,
       Type_PickNone, Type_StartExecution, Type_CheckRaises, Type_StopCancelled,
       Type_EnterStage, Type_Analyze, Type_AppendWindows, Type_WriteArtifacts,
       Type_Publish, Type_WorkRaises DEF WorkerStep
  <1>3. CASE \E w \in Workers : Crash(w) \/ Restart(w)
    BY <1>3, Type_Crash, Type_Restart
  <1>4. CASE \E c \in Clients, r \in Runs : request_cancel(c, r)
    BY <1>4, Type_request_cancel
  <1>5. CASE \E r \in Runs : Enqueue(r) \/ OperatorRetry(r)
    BY <1>5, Type_Enqueue, Type_OperatorRetry
  <1>6. CASE UNCHANGED vars
    BY <1>6 DEF vars, TypeInv, TypeOK, ControlOK
  <1> QED
    BY <1>1, <1>2, <1>3, <1>4, <1>5, <1>6 DEF Next, WorkerStep

(* In every reachable state each file, each local of a worker and each      *)
(* answer is of its type, for any number of jobs, workers and requests.     *)
THEOREM Typing == Spec => []TypeOK
  <1>1. Init => TypeInv
    BY InitTypeInv
  <1>2. TypeInv /\ [Next]_vars => TypeInv'
    BY NextTypeInv
  <1>3. TypeInv => TypeOK
    BY DEF TypeInv
  <1> QED
    BY <1>1, <1>2, <1>3, PTL DEF Spec

-----------------------------------------------------------------------------
(***************************************************************************)
(* Acknowledged cancels.                                                   *)
(***************************************************************************)
LEMMA Cancel_ReadUnreadable ==
    ASSUME TypeInv, CancelInv, NEW p \in Procs, ReadUnreadable(p)
    PROVE  CancelInv'
  BY RunsAssumption, ProcsAssumption
  DEF ReadUnreadable, Raise, Fail, Escapes, Goto, TypeInv, TypeOK, ControlOK, CancelInv, AckedCancelHonoured, UpdatePCs,
      CancelSites, WorkerSites, store, results, ghosts

(* ReadTerminal keeps acknowledged cancels on disk and away from the last stage. *)
LEMMA Cancel_ReadTerminal ==
    ASSUME TypeInv, CancelInv, NEW p \in Procs, ReadTerminal(p)
    PROVE  CancelInv'
  BY RunsAssumption, ProcsAssumption
  DEF ReadTerminal, Conflict, Raise, Fail, Escapes, Goto, TypeInv, TypeOK, ControlOK, CancelInv, AckedCancelHonoured, UpdatePCs,
      CancelSites, WorkerSites, store, results, ghosts

(* ReadCurrent keeps acknowledged cancels on disk and away from the last stage. *)
LEMMA Cancel_ReadCurrent ==
    ASSUME TypeInv, CancelInv, NEW p \in Procs, ReadCurrent(p)
    PROVE  CancelInv'
  BY RunsAssumption, ProcsAssumption
  DEF ReadCurrent, Goto, TypeInv, TypeOK, ControlOK, CancelInv, AckedCancelHonoured, UpdatePCs,
      CancelSites, WorkerSites, store, results, ghosts

(* WriteFlag keeps acknowledged cancels on disk and away from the last stage. *)
LEMMA Cancel_WriteFlag ==
    ASSUME TypeInv, CancelInv, NEW p \in Procs, WriteFlag(p)
    PROVE  CancelInv'
  BY RunsAssumption, ProcsAssumption
  DEF WriteFlag, Goto, TypeInv, TypeOK, ControlOK, CancelInv, AckedCancelHonoured, UpdatePCs,
      CancelSites, WorkerSites, store, results, ghosts

(* OpenTmp keeps acknowledged cancels on disk and away from the last stage. *)
LEMMA Cancel_OpenTmp ==
    ASSUME TypeInv, CancelInv, NEW p \in Procs, OpenTmp(p)
    PROVE  CancelInv'
  BY RunsAssumption, ProcsAssumption
  DEF OpenTmp, Goto, TypeInv, TypeOK, ControlOK, CancelInv, AckedCancelHonoured, UpdatePCs,
      CancelSites, WorkerSites, store, results, ghosts

(* WriteTmp keeps acknowledged cancels on disk and away from the last stage. *)
LEMMA Cancel_WriteTmp ==
    ASSUME TypeInv, CancelInv, NEW p \in Procs, WriteTmp(p)
    PROVE  CancelInv'
  BY RunsAssumption, ProcsAssumption
  DEF WriteTmp, Put, Held, Goto, TypeInv, TypeOK, ControlOK, CancelInv, AckedCancelHonoured, UpdatePCs,
      CancelSites, WorkerSites, store, results, ghosts

(* Replace keeps acknowledged cancels on disk and away from the last stage. *)
LEMMA Cancel_Replace ==
    ASSUME TypeInv, CancelInv, NEW p \in Procs, Replace(p)
    PROVE  CancelInv'
  <1>1. \A c \in Clients : (pc[c] \in {"open", "write", "replace"} => cancel_flag[run[c]])'
    <2>1. AfterUpdate[site[p]] \notin {"open", "write", "replace"}
      BY DEF AfterUpdate, TypeInv, TypeOK, WorkerSites, CancelSites
    <2> QED
      BY <2>1 DEF Replace, Goto, TypeInv, TypeOK, CancelInv
  <1>2. CASE p \in Workers
    BY <1>1, <1>2, ProcsAssumption
    DEF Replace, CancelInv, AckedCancelHonoured, results
  <1>3. CASE p \in Clients
    <2>1. cancel_flag[run[p]]
      BY <1>3 DEF Replace, CancelInv
    <2>2. CASE BeforeLastCheck(run[p])
      <3>1. honoured' = honoured \cup {run[p]}
        BY <1>3, <2>2, ProcsAssumption DEF Replace
      <3> QED
        BY <1>1, <2>1, <2>2, <3>1
        DEF Replace, CancelInv, AckedCancelHonoured, BeforeLastCheck, results
    <2>3. CASE ~BeforeLastCheck(run[p])
      BY <1>1, <1>3, <2>3, ProcsAssumption
      DEF Replace, CancelInv, AckedCancelHonoured, results
    <2> QED
      BY <2>2, <2>3
  <1> QED
    BY <1>2, <1>3

(* ReplaceMissing keeps acknowledged cancels on disk and away from the last stage. *)
LEMMA Cancel_ReplaceMissing ==
    ASSUME TypeInv, CancelInv, NEW p \in Procs, ReplaceMissing(p)
    PROVE  CancelInv'
  BY RunsAssumption, ProcsAssumption
  DEF ReplaceMissing, Raise, Fail, Escapes, Goto, TypeInv, TypeOK, ControlOK, CancelInv, AckedCancelHonoured, UpdatePCs,
      CancelSites, WorkerSites, store, results, ghosts

(* WriteRaises keeps acknowledged cancels on disk and away from the last stage. *)
LEMMA Cancel_WriteRaises ==
    ASSUME TypeInv, CancelInv, NEW p \in Procs, WriteRaises(p)
    PROVE  CancelInv'
  <1>1. run[p] \in Runs
    BY DEF WriteRaises, TypeInv, ControlOK, UpdatePCs
  <1>2. \A r \in Runs : cancel_flag[r] => cancel_flag'[r]
    BY <1>1 DEF WriteRaises, TypeInv, TypeOK
  <1>3. UNCHANGED <<run, stage, published, honoured>>
    BY DEF WriteRaises, results
  <1>4. \A c \in Clients : pc'[c] \in {"open", "write", "replace"} => pc'[c] = pc[c]
    BY ProcsAssumption DEF WriteRaises, Raise, Fail, Goto, TypeInv, TypeOK
  <1>5. \A c \in Clients : pc[c] \in {"open", "write", "replace"} => run[c] \in Runs
    BY DEF TypeInv, ControlOK, UpdatePCs
  <1> QED
    BY <1>2, <1>3, <1>4, <1>5 DEF CancelInv, AckedCancelHonoured, TypeInv, TypeOK

(* ListRaises keeps acknowledged cancels on disk and away from the last stage. *)
LEMMA Cancel_ListRaises ==
    ASSUME TypeInv, CancelInv, NEW w \in Workers, ListRaises(w)
    PROVE  CancelInv'
  BY RunsAssumption, ProcsAssumption
  DEF ListRaises, Goto, TypeInv, TypeOK, ControlOK, CancelInv, AckedCancelHonoured, UpdatePCs,
      CancelSites, WorkerSites, store, results, ghosts

(* ListQueued keeps acknowledged cancels on disk and away from the last stage. *)
LEMMA Cancel_ListQueued ==
    ASSUME TypeInv, CancelInv, NEW w \in Workers, ListQueued(w)
    PROVE  CancelInv'
  BY RunsAssumption, ProcsAssumption
  DEF ListQueued, List, Goto, TypeInv, TypeOK, ControlOK, CancelInv, AckedCancelHonoured, UpdatePCs,
      CancelSites, WorkerSites, store, results, ghosts

(* ListCancelled keeps acknowledged cancels on disk and away from the last stage. *)
LEMMA Cancel_ListCancelled ==
    ASSUME TypeInv, CancelInv, NEW w \in Workers, ListCancelled(w)
    PROVE  CancelInv'
  BY RunsAssumption, ProcsAssumption
  DEF ListCancelled, List, Goto, TypeInv, TypeOK, ControlOK, CancelInv, AckedCancelHonoured, UpdatePCs,
      CancelSites, WorkerSites, store, results, ghosts

(* PickOldest keeps acknowledged cancels on disk and away from the last stage. *)
LEMMA Cancel_PickOldest ==
    ASSUME TypeInv, CancelInv, NEW w \in Workers, PickOldest(w)
    PROVE  CancelInv'
  BY RunsAssumption, ProcsAssumption
  DEF PickOldest, Goto, TypeInv, TypeOK, ControlOK, CancelInv, AckedCancelHonoured, UpdatePCs,
      CancelSites, WorkerSites, store, results, ghosts

(* PickNone keeps acknowledged cancels on disk and away from the last stage. *)
LEMMA Cancel_PickNone ==
    ASSUME TypeInv, CancelInv, NEW w \in Workers, PickNone(w)
    PROVE  CancelInv'
  BY RunsAssumption, ProcsAssumption
  DEF PickNone, Goto, TypeInv, TypeOK, ControlOK, CancelInv, AckedCancelHonoured, UpdatePCs,
      CancelSites, WorkerSites, store, results, ghosts

(* StartExecution keeps acknowledged cancels on disk and away from the last stage. *)
LEMMA Cancel_StartExecution ==
    ASSUME TypeInv, CancelInv, NEW w \in Workers, StartExecution(w)
    PROVE  CancelInv'
  BY RunsAssumption, ProcsAssumption
  DEF StartExecution, Goto, TypeInv, TypeOK, ControlOK, CancelInv, AckedCancelHonoured, UpdatePCs,
      CancelSites, WorkerSites, store, results, ghosts

(* CheckRaises keeps acknowledged cancels on disk and away from the last stage. *)
LEMMA Cancel_CheckRaises ==
    ASSUME TypeInv, CancelInv, NEW w \in Workers, CheckRaises(w)
    PROVE  CancelInv'
  BY RunsAssumption, ProcsAssumption
  DEF CheckRaises, Raise, Fail, Escapes, Goto, TypeInv, TypeOK, ControlOK, CancelInv, AckedCancelHonoured, UpdatePCs,
      CancelSites, WorkerSites, store, results, ghosts

(* StopCancelled keeps acknowledged cancels on disk and away from the last stage. *)
LEMMA Cancel_StopCancelled ==
    ASSUME TypeInv, CancelInv, NEW w \in Workers, StopCancelled(w)
    PROVE  CancelInv'
  BY RunsAssumption, ProcsAssumption
  DEF StopCancelled, Goto, TypeInv, TypeOK, ControlOK, CancelInv, AckedCancelHonoured, UpdatePCs,
      CancelSites, WorkerSites, store, results, ghosts

(* EnterStage keeps acknowledged cancels on disk and away from the last stage. *)
LEMMA Cancel_EnterStage ==
    ASSUME TypeInv, CancelInv, NEW w \in Workers, EnterStage(w)
    PROVE  CancelInv'
  BY RunsAssumption, ProcsAssumption
  DEF EnterStage, is_cancel_requested, Goto, TypeInv, TypeOK, ControlOK, CancelInv, AckedCancelHonoured, UpdatePCs,
      CancelSites, WorkerSites, store, results, ghosts

(* Analyze keeps acknowledged cancels on disk and away from the last stage. *)
LEMMA Cancel_Analyze ==
    ASSUME TypeInv, CancelInv, NEW w \in Workers, Analyze(w)
    PROVE  CancelInv'
  BY RunsAssumption, ProcsAssumption
  DEF Analyze, Goto, TypeInv, TypeOK, ControlOK, CancelInv, AckedCancelHonoured, UpdatePCs,
      CancelSites, WorkerSites, store, results, ghosts

(* AppendWindows keeps acknowledged cancels on disk and away from the last stage. *)
LEMMA Cancel_AppendWindows ==
    ASSUME TypeInv, CancelInv, NEW w \in Workers, AppendWindows(w)
    PROVE  CancelInv'
  BY RunsAssumption, ProcsAssumption
  DEF AppendWindows, Goto, TypeInv, TypeOK, ControlOK, CancelInv, AckedCancelHonoured, UpdatePCs,
      CancelSites, WorkerSites, store, results, ghosts

(* WriteArtifacts keeps acknowledged cancels on disk and away from the last stage. *)
LEMMA Cancel_WriteArtifacts ==
    ASSUME TypeInv, CancelInv, NEW w \in Workers, WriteArtifacts(w)
    PROVE  CancelInv'
  BY RunsAssumption, ProcsAssumption
  DEF WriteArtifacts, Goto, TypeInv, TypeOK, ControlOK, CancelInv, AckedCancelHonoured, UpdatePCs,
      CancelSites, WorkerSites, store, results, ghosts

(* Publish keeps acknowledged cancels on disk and away from the last stage. *)
LEMMA Cancel_Publish ==
    ASSUME TypeInv, CancelInv, NEW w \in Workers, Publish(w)
    PROVE  CancelInv'
  <1>1. run[w] \notin honoured
    BY DEF Publish, CancelInv
  <1>2. AckedCancelHonoured'
    BY <1>1 DEF Publish, CancelInv, AckedCancelHonoured, ghosts
  <1> QED
    BY <1>2, ProcsAssumption DEF Publish, Goto, TypeInv, TypeOK, CancelInv, store, ghosts

(* WorkRaises keeps acknowledged cancels on disk and away from the last stage. *)
LEMMA Cancel_WorkRaises ==
    ASSUME TypeInv, CancelInv, NEW w \in Workers, WorkRaises(w)
    PROVE  CancelInv'
  BY RunsAssumption, ProcsAssumption
  DEF WorkRaises, Fail, Goto, TypeInv, TypeOK, ControlOK, CancelInv, AckedCancelHonoured, UpdatePCs,
      CancelSites, WorkerSites, store, results, ghosts

(* Crash keeps acknowledged cancels on disk and away from the last stage. *)
LEMMA Cancel_Crash ==
    ASSUME TypeInv, CancelInv, NEW w \in Workers, Crash(w)
    PROVE  CancelInv'
  BY RunsAssumption, ProcsAssumption
  DEF Crash, Forget, Goto, TypeInv, TypeOK, ControlOK, CancelInv, AckedCancelHonoured, UpdatePCs,
      CancelSites, WorkerSites, store, results, ghosts

(* Restart keeps acknowledged cancels on disk and away from the last stage. *)
LEMMA Cancel_Restart ==
    ASSUME TypeInv, CancelInv, NEW w \in Workers, Restart(w)
    PROVE  CancelInv'
  BY RunsAssumption, ProcsAssumption
  DEF Restart, Forget, Goto, TypeInv, TypeOK, ControlOK, CancelInv, AckedCancelHonoured, UpdatePCs,
      CancelSites, WorkerSites, store, results, ghosts

(* request_cancel keeps acknowledged cancels on disk and away from the last stage. *)
LEMMA Cancel_request_cancel ==
    ASSUME TypeInv, CancelInv, NEW c \in Clients, NEW r \in Runs, request_cancel(c, r)
    PROVE  CancelInv'
  BY ProcsAssumption
  DEF request_cancel, Goto, TypeInv, TypeOK, CancelInv, AckedCancelHonoured, store, results,
      ghosts

(* Enqueue keeps acknowledged cancels on disk and away from the last stage. *)
LEMMA Cancel_Enqueue ==
    ASSUME CancelInv, NEW r \in Runs, Enqueue(r)
    PROVE  CancelInv'
  BY DEF Enqueue, CancelInv, AckedCancelHonoured, results, control, ghosts

(* OperatorRetry keeps acknowledged cancels on disk and away from the last stage. *)
LEMMA Cancel_OperatorRetry ==
    ASSUME TypeInv, CancelInv, NEW r \in Runs, OperatorRetry(r)
    PROVE  CancelInv'
  BY DEF OperatorRetry, TypeInv, TypeOK, CancelInv, AckedCancelHonoured, results, control

(* Every step keeps acknowledged cancels honoured. *)
LEMMA NextCancelInv ==
    ASSUME TypeInv, CancelInv, [Next]_vars
    PROVE  CancelInv'
  <1>1. CASE \E p \in Procs : UpdateStep(p)
    BY <1>1, Cancel_ReadUnreadable, Cancel_ReadTerminal, Cancel_ReadCurrent, Cancel_WriteFlag,
       Cancel_OpenTmp, Cancel_WriteTmp, Cancel_Replace, Cancel_ReplaceMissing, Cancel_WriteRaises
    DEF UpdateStep
  <1>2. CASE \E w \in Workers : WorkerStep(w) /\ ~UpdateStep(w)
    BY <1>2, Cancel_ListRaises, Cancel_ListQueued, Cancel_ListCancelled, Cancel_PickOldest,
       Cancel_PickNone, Cancel_StartExecution, Cancel_CheckRaises, Cancel_StopCancelled,
       Cancel_EnterStage, Cancel_Analyze, Cancel_AppendWindows, Cancel_WriteArtifacts,
       Cancel_Publish, Cancel_WorkRaises DEF WorkerStep
  <1>3. CASE \E w \in Workers : Crash(w) \/ Restart(w)
    BY <1>3, Cancel_Crash, Cancel_Restart
  <1>4. CASE \E c \in Clients, r \in Runs : request_cancel(c, r)
    BY <1>4, Cancel_request_cancel
  <1>5. CASE \E r \in Runs : Enqueue(r) \/ OperatorRetry(r)
    BY <1>5, Cancel_Enqueue, Cancel_OperatorRetry
  <1>6. CASE UNCHANGED vars
    BY <1>6 DEF vars, CancelInv, AckedCancelHonoured
  <1> QED
    BY <1>1, <1>2, <1>3, <1>4, <1>5, <1>6 DEF Next, WorkerStep

(* A cancel that was acknowledged before a worker's last check is honoured: *)
(* the job's report never reaches the catalog, however the update_job calls *)
(* of workers and requests interleave, and whoever crashes.                 *)
THEOREM CancelsHonoured == Spec => []AckedCancelHonoured
  <1>1. Init => TypeInv /\ CancelInv
    BY InitTypeInv DEF Init, CancelInv, AckedCancelHonoured
  <1>2. TypeInv /\ CancelInv /\ [Next]_vars => (TypeInv /\ CancelInv)'
    BY NextTypeInv, NextCancelInv
  <1>3. CancelInv => AckedCancelHonoured
    BY DEF CancelInv
  <1> QED
    BY <1>1, <1>2, <1>3, PTL DEF Spec

-----------------------------------------------------------------------------
(***************************************************************************)
(* Completed records.                                                      *)
(***************************************************************************)
LEMMA Record_ReadUnreadable ==
    ASSUME TypeInv, RecordInv, NEW p \in Procs, ReadUnreadable(p)
    PROVE  RecordInv'
  BY RunsAssumption, ProcsAssumption, ContentsFacts
  DEF ReadUnreadable, Raise, Fail, Escapes, Goto, TypeInv, TypeOK, ControlOK, RecordInv, Backed, UpdatePCs,
      CancelSites, WorkerSites, store, results, ghosts

(* ReadTerminal keeps every completed record backed by report and artifacts. *)
LEMMA Record_ReadTerminal ==
    ASSUME TypeInv, RecordInv, NEW p \in Procs, ReadTerminal(p)
    PROVE  RecordInv'
  BY RunsAssumption, ProcsAssumption, ContentsFacts
  DEF ReadTerminal, Conflict, Raise, Fail, Escapes, Goto, TypeInv, TypeOK, ControlOK, RecordInv, Backed, UpdatePCs,
      CancelSites, WorkerSites, store, results, ghosts

(* ReadCurrent keeps every completed record backed by report and artifacts. *)
LEMMA Record_ReadCurrent ==
    ASSUME TypeInv, RecordInv, NEW p \in Procs, ReadCurrent(p)
    PROVE  RecordInv'
  <1> DEFINE rec == update_job(site[p], stage[p], status[run[p]])
  <1>1. run[p] \in Runs
    BY DEF ReadCurrent, TypeInv, ControlOK, UpdatePCs
  <1>2. Backed(run[p], rec)
    <2>1. CASE site[p] = "completed"
      BY <1>1, <2>1 DEF ReadCurrent, RecordInv, Backed, UpdatePCs, update_job
    <2>2. CASE site[p] \in {"stage", "cancel_running"}
      BY <1>1, <2>2 DEF ReadCurrent, RecordInv, Backed, update_job, SetsStatus
    <2>3. CASE site[p] \in {"claim", "sweep", "cancelled", "failed", "cancel_queued"}
      BY <2>3 DEF Backed, update_job, SetsStatus, StatusSet
    <2> QED
      BY <2>1, <2>2, <2>3 DEF TypeInv, TypeOK, WorkerSites, CancelSites
  <1>3. new' = [new EXCEPT ![p] = rec]
    BY DEF ReadCurrent
  <1> HIDE DEF rec
  <1> QED
    BY <1>1, <1>2, <1>3, ProcsAssumption
    DEF ReadCurrent, Goto, TypeInv, TypeOK, ControlOK, RecordInv, Backed, UpdatePCs,
        CancelSites, store, results, ghosts

(* WriteFlag keeps every completed record backed by report and artifacts. *)
LEMMA Record_WriteFlag ==
    ASSUME TypeInv, RecordInv, NEW p \in Procs, WriteFlag(p)
    PROVE  RecordInv'
  BY RunsAssumption, ProcsAssumption, ContentsFacts
  DEF WriteFlag, Goto, TypeInv, TypeOK, ControlOK, RecordInv, Backed, UpdatePCs,
      CancelSites, WorkerSites, store, results, ghosts

(* OpenTmp keeps every completed record backed by report and artifacts. *)
LEMMA Record_OpenTmp ==
    ASSUME TypeInv, RecordInv, NEW p \in Procs, OpenTmp(p)
    PROVE  RecordInv'
  BY RunsAssumption, ProcsAssumption, ContentsFacts
  DEF OpenTmp, Goto, TypeInv, TypeOK, ControlOK, RecordInv, Backed, UpdatePCs,
      CancelSites, WorkerSites, store, results, ghosts

(* WriteTmp keeps every completed record backed by report and artifacts. *)
LEMMA Record_WriteTmp ==
    ASSUME TypeInv, RecordInv, NEW p \in Procs, WriteTmp(p)
    PROVE  RecordInv'
  BY RunsAssumption, ProcsAssumption, ContentsFacts
  DEF WriteTmp, Put, Held, Written, Goto, TypeInv, TypeOK, ControlOK, RecordInv, Backed, UpdatePCs,
      CancelSites, WorkerSites, store, results, ghosts

(* Replace keeps every completed record backed by report and artifacts. *)
LEMMA Record_Replace ==
    ASSUME TypeInv, RecordInv, NEW p \in Procs, Replace(p)
    PROVE  RecordInv'
  BY RunsAssumption, ProcsAssumption, ContentsFacts
  DEF Replace, AfterUpdate, Goto, TypeInv, TypeOK, ControlOK, RecordInv, Backed, UpdatePCs,
      CancelSites, WorkerSites, store, results, ghosts

(* ReplaceMissing keeps every completed record backed by report and artifacts. *)
LEMMA Record_ReplaceMissing ==
    ASSUME TypeInv, RecordInv, NEW p \in Procs, ReplaceMissing(p)
    PROVE  RecordInv'
  BY RunsAssumption, ProcsAssumption, ContentsFacts
  DEF ReplaceMissing, Raise, Fail, Escapes, Goto, TypeInv, TypeOK, ControlOK, RecordInv, Backed, UpdatePCs,
      CancelSites, WorkerSites, store, results, ghosts

(* WriteRaises keeps every completed record backed by report and artifacts. *)
LEMMA Record_WriteRaises ==
    ASSUME TypeInv, RecordInv, NEW p \in Procs, WriteRaises(p)
    PROVE  RecordInv'
  <1>1. run[p] \in Runs
    BY DEF WriteRaises, TypeInv, ControlOK, UpdatePCs
  <1>2. UNCHANGED <<run, stage, published, artifacts>>
    BY DEF WriteRaises, results
  <1>3. \A r \in Runs : (Backed(r, status[r]) /\ Backed(r, tmp[r]))'
    <2>1. Backed(run[p], Held(p)) /\ Backed(run[p], MixedBytes)
      BY <1>1, ContentsFacts DEF Held, RecordInv, Backed
    <2>2. /\ status' = status \/ \E c : Backed(run[p], c) /\ status' = [status EXCEPT ![run[p]] = c]
          /\ tmp' = tmp \/ \E c : Backed(run[p], c) /\ tmp' = [tmp EXCEPT ![run[p]] = c]
      BY <2>1 DEF WriteRaises, Put
    <2> QED
      BY <1>2, <2>2 DEF RecordInv, Backed, TypeInv, TypeOK
  <1>4. \A q \in Procs : q # p => pc'[q] = pc[q] /\ site'[q] = site[q] /\ new'[q] = new[q]
    BY DEF WriteRaises, Raise, Fail, Goto, TypeInv, TypeOK
  <1>5. pc'[p] \in {"done", "escaped"} \/ (pc'[p] = "read" /\ site'[p] = "failed")
    BY DEF WriteRaises, Raise, Fail, Goto, TypeInv, TypeOK
  <1> QED
    BY <1>2, <1>3, <1>4, <1>5 DEF RecordInv, Backed, UpdatePCs

(* ListRaises keeps every completed record backed by report and artifacts. *)
LEMMA Record_ListRaises ==
    ASSUME TypeInv, RecordInv, NEW w \in Workers, ListRaises(w)
    PROVE  RecordInv'
  BY RunsAssumption, ProcsAssumption, ContentsFacts
  DEF ListRaises, Goto, TypeInv, TypeOK, ControlOK, RecordInv, Backed, UpdatePCs,
      CancelSites, WorkerSites, store, results, ghosts

(* ListQueued keeps every completed record backed by report and artifacts. *)
LEMMA Record_ListQueued ==
    ASSUME TypeInv, RecordInv, NEW w \in Workers, ListQueued(w)
    PROVE  RecordInv'
  BY RunsAssumption, ProcsAssumption, ContentsFacts
  DEF ListQueued, List, Goto, TypeInv, TypeOK, ControlOK, RecordInv, Backed, UpdatePCs,
      CancelSites, WorkerSites, store, results, ghosts

(* ListCancelled keeps every completed record backed by report and artifacts. *)
LEMMA Record_ListCancelled ==
    ASSUME TypeInv, RecordInv, NEW w \in Workers, ListCancelled(w)
    PROVE  RecordInv'
  BY RunsAssumption, ProcsAssumption, ContentsFacts
  DEF ListCancelled, List, Goto, TypeInv, TypeOK, ControlOK, RecordInv, Backed, UpdatePCs,
      CancelSites, WorkerSites, store, results, ghosts

(* PickOldest keeps every completed record backed by report and artifacts. *)
LEMMA Record_PickOldest ==
    ASSUME TypeInv, RecordInv, NEW w \in Workers, PickOldest(w)
    PROVE  RecordInv'
  BY RunsAssumption, ProcsAssumption, ContentsFacts
  DEF PickOldest, Goto, TypeInv, TypeOK, ControlOK, RecordInv, Backed, UpdatePCs,
      CancelSites, WorkerSites, store, results, ghosts

(* PickNone keeps every completed record backed by report and artifacts. *)
LEMMA Record_PickNone ==
    ASSUME TypeInv, RecordInv, NEW w \in Workers, PickNone(w)
    PROVE  RecordInv'
  BY RunsAssumption, ProcsAssumption, ContentsFacts
  DEF PickNone, Goto, TypeInv, TypeOK, ControlOK, RecordInv, Backed, UpdatePCs,
      CancelSites, WorkerSites, store, results, ghosts

(* StartExecution keeps every completed record backed by report and artifacts. *)
LEMMA Record_StartExecution ==
    ASSUME TypeInv, RecordInv, NEW w \in Workers, StartExecution(w)
    PROVE  RecordInv'
  BY RunsAssumption, ProcsAssumption, ContentsFacts
  DEF StartExecution, Goto, TypeInv, TypeOK, ControlOK, RecordInv, Backed, UpdatePCs,
      CancelSites, WorkerSites, store, results, ghosts

(* CheckRaises keeps every completed record backed by report and artifacts. *)
LEMMA Record_CheckRaises ==
    ASSUME TypeInv, RecordInv, NEW w \in Workers, CheckRaises(w)
    PROVE  RecordInv'
  BY RunsAssumption, ProcsAssumption, ContentsFacts
  DEF CheckRaises, Raise, Fail, Escapes, Goto, TypeInv, TypeOK, ControlOK, RecordInv, Backed, UpdatePCs,
      CancelSites, WorkerSites, store, results, ghosts

(* StopCancelled keeps every completed record backed by report and artifacts. *)
LEMMA Record_StopCancelled ==
    ASSUME TypeInv, RecordInv, NEW w \in Workers, StopCancelled(w)
    PROVE  RecordInv'
  BY RunsAssumption, ProcsAssumption, ContentsFacts
  DEF StopCancelled, Goto, TypeInv, TypeOK, ControlOK, RecordInv, Backed, UpdatePCs,
      CancelSites, WorkerSites, store, results, ghosts

(* EnterStage keeps every completed record backed by report and artifacts. *)
LEMMA Record_EnterStage ==
    ASSUME TypeInv, RecordInv, NEW w \in Workers, EnterStage(w)
    PROVE  RecordInv'
  BY RunsAssumption, ProcsAssumption, ContentsFacts
  DEF EnterStage, Goto, TypeInv, TypeOK, ControlOK, RecordInv, Backed, UpdatePCs,
      CancelSites, WorkerSites, store, results, ghosts

(* Analyze keeps every completed record backed by report and artifacts. *)
LEMMA Record_Analyze ==
    ASSUME TypeInv, RecordInv, NEW w \in Workers, Analyze(w)
    PROVE  RecordInv'
  BY RunsAssumption, ProcsAssumption, ContentsFacts
  DEF Analyze, Goto, TypeInv, TypeOK, ControlOK, RecordInv, Backed, UpdatePCs,
      CancelSites, WorkerSites, store, results, ghosts

(* AppendWindows keeps every completed record backed by report and artifacts. *)
LEMMA Record_AppendWindows ==
    ASSUME TypeInv, RecordInv, NEW w \in Workers, AppendWindows(w)
    PROVE  RecordInv'
  BY RunsAssumption, ProcsAssumption, ContentsFacts
  DEF AppendWindows, Goto, TypeInv, TypeOK, ControlOK, RecordInv, Backed, UpdatePCs,
      CancelSites, WorkerSites, store, results, ghosts

(* WriteArtifacts keeps every completed record backed by report and artifacts. *)
LEMMA Record_WriteArtifacts ==
    ASSUME TypeInv, RecordInv, NEW w \in Workers, WriteArtifacts(w)
    PROVE  RecordInv'
  BY RunsAssumption, ProcsAssumption, ContentsFacts
  DEF WriteArtifacts, Goto, TypeInv, TypeOK, ControlOK, RecordInv, Backed, UpdatePCs,
      CancelSites, WorkerSites, store, results, ghosts

(* Publish keeps every completed record backed by report and artifacts. *)
LEMMA Record_Publish ==
    ASSUME TypeInv, RecordInv, NEW w \in Workers, Publish(w)
    PROVE  RecordInv'
  BY RunsAssumption, ProcsAssumption, ContentsFacts
  DEF Publish, Goto, TypeInv, TypeOK, ControlOK, RecordInv, Backed, UpdatePCs,
      CancelSites, WorkerSites, store, results, ghosts

(* WorkRaises keeps every completed record backed by report and artifacts. *)
LEMMA Record_WorkRaises ==
    ASSUME TypeInv, RecordInv, NEW w \in Workers, WorkRaises(w)
    PROVE  RecordInv'
  <1>1. run[w] \in Runs
    BY DEF WorkRaises, TypeInv, ControlOK
  <1>2. \A r \in Runs : artifacts[r] = AllArtifacts => artifacts'[r] = AllArtifacts
    <2>1. TypeOK'
      BY Type_WorkRaises DEF TypeInv
    <2>2. PICK n \in 0..3 :
            artifacts' = [artifacts EXCEPT ![run[w]] = @ \cup {ArtifactNames[i] : i \in 1..n}]
      BY DEF WorkRaises
    <2>3. artifacts[run[w]] \subseteq artifacts'[run[w]]
      BY <1>1, <2>2 DEF TypeInv, TypeOK
    <2> QED
      BY <1>1, <2>1, <2>2, <2>3 DEF TypeInv, TypeOK
  <1> QED
    BY <1>1, <1>2, ProcsAssumption
    DEF WorkRaises, Fail, Goto, TypeInv, TypeOK, ControlOK, RecordInv, Backed, UpdatePCs,
        store, ghosts

(* Crash keeps every completed record backed by report and artifacts. *)
LEMMA Record_Crash ==
    ASSUME TypeInv, RecordInv, NEW w \in Workers, Crash(w)
    PROVE  RecordInv'
  BY RunsAssumption, ProcsAssumption, ContentsFacts
  DEF Crash, Forget, Goto, TypeInv, TypeOK, ControlOK, RecordInv, Backed, UpdatePCs,
      CancelSites, WorkerSites, store, results, ghosts

(* Restart keeps every completed record backed by report and artifacts. *)
LEMMA Record_Restart ==
    ASSUME TypeInv, RecordInv, NEW w \in Workers, Restart(w)
    PROVE  RecordInv'
  BY RunsAssumption, ProcsAssumption, ContentsFacts
  DEF Restart, Forget, Goto, TypeInv, TypeOK, ControlOK, RecordInv, Backed, UpdatePCs,
      CancelSites, WorkerSites, store, results, ghosts

(* request_cancel keeps every completed record backed by report and artifacts. *)
LEMMA Record_request_cancel ==
    ASSUME TypeInv, RecordInv, NEW c \in Clients, NEW r \in Runs, request_cancel(c, r)
    PROVE  RecordInv'
  BY ProcsAssumption
  DEF request_cancel, Goto, TypeInv, TypeOK, ControlOK, RecordInv, Backed, UpdatePCs,
      CancelSites, WorkerSites, store, results, ghosts

(* Enqueue keeps every completed record backed by report and artifacts. *)
LEMMA Record_Enqueue ==
    ASSUME TypeInv, RecordInv, NEW r \in Runs, Enqueue(r)
    PROVE  RecordInv'
  BY ContentsFacts DEF Enqueue, TypeInv, TypeOK, RecordInv, Backed, results, control, ghosts

(* OperatorRetry keeps every completed record backed by report and artifacts. *)
LEMMA Record_OperatorRetry ==
    ASSUME TypeInv, RecordInv, NEW r \in Runs, OperatorRetry(r)
    PROVE  RecordInv'
  BY ContentsFacts
  DEF OperatorRetry, TypeInv, TypeOK, RecordInv, Backed, Contents, AnalysisJob, results, control

(* Every step keeps completed records truthful. *)
LEMMA NextRecordInv ==
    ASSUME TypeInv, RecordInv, [Next]_vars
    PROVE  RecordInv'
  <1>1. CASE \E p \in Procs : UpdateStep(p)
    BY <1>1, Record_ReadUnreadable, Record_ReadTerminal, Record_ReadCurrent, Record_WriteFlag,
       Record_OpenTmp, Record_WriteTmp, Record_Replace, Record_ReplaceMissing, Record_WriteRaises
    DEF UpdateStep
  <1>2. CASE \E w \in Workers : WorkerStep(w) /\ ~UpdateStep(w)
    BY <1>2, Record_ListRaises, Record_ListQueued, Record_ListCancelled, Record_PickOldest,
       Record_PickNone, Record_StartExecution, Record_CheckRaises, Record_StopCancelled,
       Record_EnterStage, Record_Analyze, Record_AppendWindows, Record_WriteArtifacts,
       Record_Publish, Record_WorkRaises DEF WorkerStep
  <1>3. CASE \E w \in Workers : Crash(w) \/ Restart(w)
    BY <1>3, Record_Crash, Record_Restart
  <1>4. CASE \E c \in Clients, r \in Runs : request_cancel(c, r)
    BY <1>4, Record_request_cancel
  <1>5. CASE \E r \in Runs : Enqueue(r) \/ OperatorRetry(r)
    BY <1>5, Record_Enqueue, Record_OperatorRetry
  <1>6. CASE UNCHANGED vars
    BY <1>6 DEF vars, RecordInv, Backed
  <1> QED
    BY <1>1, <1>2, <1>3, <1>4, <1>5, <1>6 DEF Next, WorkerStep

(* status.json never claims completion that did not happen: the report is   *)
(* in the catalog and the three artifacts are on disk, whichever copy of    *)
(* the record the last writer wrote.                                        *)
THEOREM CompletionIsTruthful == Spec => []CompletedIsPublished
  <1>1. Init => TypeInv /\ RecordInv
    BY InitTypeInv, ContentsFacts DEF Init, RecordInv, Backed, UpdatePCs
  <1>2. TypeInv /\ RecordInv /\ [Next]_vars => (TypeInv /\ RecordInv)'
    BY NextTypeInv, NextRecordInv
  <1>3. RecordInv => CompletedIsPublished
    BY DEF RecordInv, Backed, CompletedIsPublished
  <1> QED
    BY <1>1, <1>2, <1>3, PTL DEF Spec

-----------------------------------------------------------------------------
(***************************************************************************)
(* One worker appends a run's windows once.                                *)
(***************************************************************************)
OneWorker == \A v, w \in Workers : v = w

(* The job has not been claimed since its upload or its last retry. *)
Waiting(r) == status[r].status \in {"absent", "queued"}

Updating(p) == pc[p] \in UpdatePCs

(* The worker has claimed its job and has not ended it. *)
Executing(w) ==
    \/ pc[w] \in {"execute", "check", "work"}
    \/ Updating(w) /\ site[w] \in {"stage", "cancelled", "completed", "failed"}

(* The worker may still reach the append of its job. *)
BeforeAppend(w) ==
    \/ pc[w] = "execute"
    \/ Updating(w) /\ site[w] = "claim"
    \/ pc[w] = "check" /\ stage[w] < 3
    \/ (pc[w] = "work" \/ Updating(w)) /\ site[w] = "stage" /\ stage[w] <= 3

(* A job that waits, is listed or is before its append has an append to spare, and no    *)
(* writer holds a record that would put a claimed job back in the queue.                 *)
OnceInv ==
    /\ AppendedOnce
    /\ \A r \in Runs : Waiting(r) => appended[r] <= retries[r]
    /\ \A r \in Runs : tmp[r].status # "queued"
    /\ \A p \in Procs : Updating(p) /\ pc[p] # "read" => new[p].status \notin {"absent", "queued"}
    /\ \A c \in Clients : Updating(c) /\ site[c] = "cancel_running" => ~Waiting(run[c])
    /\ \A w \in Workers :
          /\ \A r \in todo[w] : appended[r] <= retries[r]
          /\ BeforeAppend(w) => appended[run[w]] <= retries[run[w]]
          /\ Executing(w) => ~Waiting(run[w]) /\ (pc[w] # "execute" => todo[w] = {})

(* Only a missing file counts as absent. *)
LEMMA AbsentIsNoFile == \A c \in Contents : c.status = "absent" => c = NoFile
  BY ContentsFacts DEF Contents, AnalysisJob, AnalysisStatus, Terminal

(* A record read for an update never puts its job back in the queue: the sites that keep *)
(* the status are those of jobs already claimed.                                         *)
LEMMA Once_ReadCurrent ==
    ASSUME OneWorker, TypeInv, OnceInv, NEW p \in Procs, ReadCurrent(p)
    PROVE  OnceInv'
  <1> DEFINE rec == update_job(site[p], stage[p], status[run[p]])
  <1>1. run[p] \in Runs /\ pc[p] = "read" /\ Updating(p)
    BY DEF ReadCurrent, TypeInv, ControlOK, UpdatePCs, Updating
  <1>2. rec.status \notin {"absent", "queued"}
    <2>1. CASE site[p] \in {"stage", "cancel_running"}
      <3>1. ~Waiting(run[p])
        BY <1>1, <2>1, ProcsAssumption
        DEF OnceInv, Executing, TypeInv, ControlOK, WorkerSites, CancelSites
      <3>2. rec.status = status[run[p]].status
        BY <2>1 DEF update_job, SetsStatus
      <3> QED
        BY <3>1, <3>2 DEF Waiting
    <2>2. CASE site[p] \in {"claim", "sweep", "cancelled", "completed", "failed", "cancel_queued"}
      BY <2>2 DEF update_job, SetsStatus, StatusSet
    <2> QED
      BY <2>1, <2>2 DEF TypeInv, TypeOK, WorkerSites, CancelSites
  <1>3. new' = [new EXCEPT ![p] = rec]
    BY DEF ReadCurrent
  <1> HIDE DEF rec
  <1> QED
    BY <1>1, <1>2, <1>3, ProcsAssumption
    DEF ReadCurrent, Goto, OneWorker, TypeInv, TypeOK, ControlOK, OnceInv, AppendedOnce,
        Waiting, Updating, Executing, BeforeAppend, UpdatePCs, CancelSites, WorkerSites,
        store, results, ghosts

(* Neither the temporary file nor a status file another writer moved becomes queued. *)
LEMMA Once_WriteTmp ==
    ASSUME OneWorker, TypeInv, OnceInv, NEW p \in Procs, WriteTmp(p)
    PROVE  OnceInv'
  <1>1. run[p] \in Runs /\ Updating(p) /\ pc[p] # "read"
    BY DEF WriteTmp, Put, Held, TypeInv, ControlOK, UpdatePCs, Updating
  <1>2. new[p].status \notin {"absent", "queued"}
    BY <1>1 DEF OnceInv
  <1>3. \A old : \A c \in Written(old, new[p]) : c.status \notin {"absent", "queued"}
    BY <1>2, ContentsFacts DEF Written
  <1>4. /\ \A r \in Runs : Waiting(r)' => Waiting(r)
        /\ \A r \in Runs : Waiting(r) /\ ~Waiting(r)' => r = run[p]
        /\ \A r \in Runs : tmp'[r].status # "queued"
    <2>1. /\ status' = status \/ \E c \in Written(Held(p), new[p]) : status' = [status EXCEPT ![run[p]] = c]
          /\ tmp' = tmp \/ \E c \in Written(Held(p), new[p]) : tmp' = [tmp EXCEPT ![run[p]] = c]
      BY DEF WriteTmp, Put
    <2> QED
      BY <1>1, <1>3, <2>1 DEF Waiting, OnceInv, TypeInv, TypeOK
  <1> QED
    BY <1>1, <1>4, ProcsAssumption
    DEF WriteTmp, Put, Held, Goto, OneWorker, TypeInv, TypeOK, ControlOK, OnceInv, AppendedOnce,
        Updating, Executing, BeforeAppend, UpdatePCs, CancelSites, WorkerSites,
        results, ghosts

(* A failing write leaves no record behind that would put a job back in the queue. *)
LEMMA Once_WriteRaises ==
    ASSUME OneWorker, TypeInv, OnceInv, NEW p \in Procs, WriteRaises(p)
    PROVE  OnceInv'
  <1>1. run[p] \in Runs /\ Updating(p)
    BY DEF WriteRaises, TypeInv, ControlOK, UpdatePCs, Updating
  <1>2. UNCHANGED <<run, stage, todo, appended, retries>>
    BY DEF WriteRaises, results
  <1>3. /\ \A r \in Runs : Waiting(r)' => Waiting(r)
        /\ \A r \in Runs : tmp'[r].status # "queued"
    BY <1>1, ContentsFacts DEF WriteRaises, Put, Held, Waiting, OnceInv, TypeInv, TypeOK
  <1>4. \A q \in Procs : q # p => pc'[q] = pc[q] /\ site'[q] = site[q] /\ new'[q] = new[q]
    BY DEF WriteRaises, Raise, Fail, Goto, TypeInv, TypeOK
  <1>5. \/ pc'[p] \in {"done", "escaped"} /\ site'[p] = site[p]
        \/ /\ p \in Workers /\ pc'[p] = "read" /\ site'[p] = "failed"
           /\ site[p] \notin {"claim", "sweep", "failed"}
    BY DEF WriteRaises, Raise, Fail, Goto, Escapes, TypeInv, TypeOK
  <1>6. p \in Workers /\ site[p] \notin {"claim", "sweep", "failed"} => Executing(p) /\ pc[p] # "execute"
    BY <1>1 DEF Executing, Updating, UpdatePCs, TypeInv, ControlOK, WorkerSites
  <1> QED
    <2>1. \A q \in Procs : q # p => /\ Updating(q)' <=> Updating(q)
                                    /\ Executing(q)' <=> Executing(q)
                                    /\ BeforeAppend(q)' <=> BeforeAppend(q)
      BY <1>2, <1>4 DEF Updating, Executing, BeforeAppend
    <2>2. ~BeforeAppend(p)' /\ (Updating(p)' => pc'[p] = "read" /\ p \in Workers)
      BY <1>5 DEF Updating, BeforeAppend, UpdatePCs
    <2>3. p \in Workers /\ Executing(p)' => ~Waiting(run[p])' /\ todo'[p] = {}
      BY <1>1, <1>2, <1>3, <1>5, <1>6 DEF Executing, Updating, UpdatePCs, OnceInv
    <2>4. /\ \A q \in Procs : (Updating(q) /\ pc[q] # "read")' => q # p
          /\ \A c \in Clients : Updating(c)' => c # p
      BY <2>2, ProcsAssumption
    <2>5. \A q \in Procs : Updating(q) \/ Executing(q) => run[q] \in Runs
      BY DEF Updating, Executing, TypeInv, ControlOK
    <2> QED
      BY <1>2, <1>3, <1>4, <2>1, <2>2, <2>3, <2>4, <2>5 DEF OnceInv, AppendedOnce

(* The replace of a claim takes its job out of the queue for good. *)
LEMMA Once_Replace ==
    ASSUME OneWorker, TypeInv, OnceInv, NEW p \in Procs, Replace(p)
    PROVE  OnceInv'
  <1>1. run[p] \in Runs
    BY DEF Replace, TypeInv, ControlOK, UpdatePCs
  <1>2. tmp[run[p]].status \notin {"absent", "queued"}
    BY <1>1, AbsentIsNoFile DEF Replace, OnceInv, TypeInv, TypeOK
  <1>3. /\ \A r \in Runs : Waiting(r)' => Waiting(r)
        /\ ~Waiting(run[p])'
        /\ \A r \in Runs : tmp'[r].status # "queued"
    BY <1>1, <1>2, ContentsFacts DEF Replace, Waiting, OnceInv, TypeInv, TypeOK
  <1>4. AfterUpdate[site[p]] =
          IF p \in Clients THEN "done"
          ELSE IF site[p] = "claim" THEN "execute"
          ELSE IF site[p] = "sweep" THEN "pick"
          ELSE IF site[p] = "stage" THEN "work" ELSE "poll"
    BY ProcsAssumption DEF AfterUpdate, TypeInv, ControlOK, WorkerSites, CancelSites
  <1> QED
    BY <1>1, <1>3, <1>4, ProcsAssumption
    DEF Replace, Goto, OneWorker, TypeInv, TypeOK, ControlOK, OnceInv, AppendedOnce,
        Updating, Executing, BeforeAppend, UpdatePCs, CancelSites, WorkerSites, results

(* A request that takes the job for running has read it so. *)
LEMMA Once_request_cancel ==
    ASSUME OneWorker, TypeInv, OnceInv, NEW c \in Clients, NEW r \in Runs, request_cancel(c, r)
    PROVE  OnceInv'
  <1>1. \A q \in Runs : Waiting(q)' <=> Waiting(q)
    BY DEF request_cancel, Waiting, store
  <1>2. Updating(c)' /\ site'[c] = "cancel_running" => ~Waiting(r)
    BY ContentsFacts, AbsentIsNoFile
    DEF request_cancel, Goto, Updating, UpdatePCs, Waiting, TypeInv, TypeOK, ControlOK,
        AnalysisJob, AnalysisStatus, Terminal
  <1>3. /\ run' = [run EXCEPT ![c] = r]
        /\ \E label \in {"done", "read"} : pc' = [pc EXCEPT ![c] = label]
        /\ site' = site \/ \E s \in CancelSites : site' = [site EXCEPT ![c] = s]
        /\ UNCHANGED <<tmp, appended, retries, stage, todo, new>>
    BY DEF request_cancel, Goto, CancelSites, store, results, ghosts
  <1> QED
    BY <1>1, <1>2, <1>3, ProcsAssumption
    DEF OneWorker, TypeInv, TypeOK, ControlOK, OnceInv, AppendedOnce,
        Updating, Executing, BeforeAppend, UpdatePCs, CancelSites, WorkerSites

(* A retry gives its job one more append, and finds every process between jobs. *)
LEMMA Once_OperatorRetry ==
    ASSUME TypeInv, OnceInv, NEW r \in Runs, OperatorRetry(r)
    PROVE  OnceInv'
  <1>1. /\ \A w \in Workers : ~Updating(w) /\ ~Executing(w) /\ ~BeforeAppend(w)
        /\ \A c \in Clients : ~Updating(c)
    BY DEF OperatorRetry, Stopped, Updating, Executing, BeforeAppend, UpdatePCs
  <1>2. /\ retries'[r] = retries[r] + 1 /\ \A q \in Runs : q # r => retries'[q] = retries[q]
        /\ \A q \in Runs : q # r => status'[q] = status[q]
        /\ UNCHANGED <<tmp, appended, todo, pc, site, run, stage, new>>
    BY DEF OperatorRetry, TypeInv, TypeOK, results, control
  <1>3. retries[r] \in Nat /\ \A q \in Runs : appended[q] \in Nat
    BY BoundsAssumption DEF TypeInv, TypeOK
  <1>4. \A q \in Runs : appended[q] <= 1 + retries[q] /\ (Waiting(q) => appended[q] <= retries[q])
    BY DEF OnceInv, AppendedOnce
  <1>5. \A q \in Runs : (appended[q] <= 1 + retries[q])' /\ (Waiting(q)' => (appended[q] <= retries[q])')
    BY <1>2, <1>3, <1>4, BoundsAssumption DEF Waiting, TypeInv, TypeOK
  <1>6. \A w \in Workers : \A q \in todo[w] : q \in Runs /\ (appended[q] <= retries[q])'
    BY <1>2, <1>3 DEF OnceInv, TypeInv, TypeOK
  <1>7. /\ \A w \in Workers : ~Updating(w)' /\ ~Executing(w)' /\ ~BeforeAppend(w)'
        /\ \A c \in Clients : ~Updating(c)'
    BY <1>1, <1>2 DEF Updating, Executing, BeforeAppend
  <1> QED
    BY <1>2, <1>5, <1>6, <1>7 DEF OnceInv, AppendedOnce

(* Every step keeps an append to spare for each job that has yet to make one. *)
LEMMA NextOnceInv ==
    ASSUME OneWorker, TypeInv, OnceInv, [Next]_vars
    PROVE  OnceInv'
  <1> USE ProcsAssumption
      DEF Goto, OneWorker, TypeInv, TypeOK, ControlOK, OnceInv, AppendedOnce, Waiting, Updating,
          Executing, BeforeAppend, UpdatePCs, CancelSites, WorkerSites, store, results, ghosts
  <1>1. ASSUME NEW p \in Procs, ReadUnreadable(p) PROVE OnceInv'
    BY <1>1 DEF ReadUnreadable, Raise, Fail, Escapes
  <1>2. ASSUME NEW p \in Procs, ReadTerminal(p) PROVE OnceInv'
    BY <1>2 DEF ReadTerminal, Conflict, Raise, Fail, Escapes
  <1>3. ASSUME NEW p \in Procs, WriteFlag(p) PROVE OnceInv'
    BY <1>3 DEF WriteFlag
  <1>4. ASSUME NEW p \in Procs, OpenTmp(p) PROVE OnceInv'
    BY <1>4, ContentsFacts DEF OpenTmp
  <1>5. ASSUME NEW p \in Procs, ReplaceMissing(p) PROVE OnceInv'
    BY <1>5 DEF ReplaceMissing, Raise, Fail, Escapes
  <1>6. ASSUME NEW w \in Workers, ListRaises(w) PROVE OnceInv'
    BY <1>6 DEF ListRaises
  <1>7. ASSUME NEW w \in Workers, ListQueued(w) PROVE OnceInv'
    BY <1>7 DEF ListQueued, List
  <1>8. ASSUME NEW w \in Workers, ListCancelled(w) PROVE OnceInv'
    BY <1>8 DEF ListCancelled, List
  <1>9. ASSUME NEW w \in Workers, PickOldest(w) PROVE OnceInv'
    BY <1>9 DEF PickOldest
  <1>10. ASSUME NEW w \in Workers, PickNone(w) PROVE OnceInv'
    BY <1>10 DEF PickNone
  <1>11. ASSUME NEW w \in Workers, StartExecution(w) PROVE OnceInv'
    BY <1>11 DEF StartExecution
  <1>12. ASSUME NEW w \in Workers, CheckRaises(w) PROVE OnceInv'
    BY <1>12 DEF CheckRaises, Raise, Fail, Escapes
  <1>13. ASSUME NEW w \in Workers, StopCancelled(w) PROVE OnceInv'
    BY <1>13 DEF StopCancelled
  <1>14. ASSUME NEW w \in Workers, EnterStage(w) PROVE OnceInv'
    BY <1>14 DEF EnterStage
  <1>15. ASSUME NEW w \in Workers, Analyze(w) PROVE OnceInv'
    BY <1>15 DEF Analyze
  <1>16. ASSUME NEW w \in Workers, AppendWindows(w) PROVE OnceInv'
    BY <1>16 DEF AppendWindows
  <1>17. ASSUME NEW w \in Workers, WriteArtifacts(w) PROVE OnceInv'
    BY <1>17 DEF WriteArtifacts
  <1>18. ASSUME NEW w \in Workers, Publish(w) PROVE OnceInv'
    BY <1>18 DEF Publish
  <1>19. ASSUME NEW w \in Workers, WorkRaises(w) PROVE OnceInv'
    BY <1>19 DEF WorkRaises, Fail
  <1>20. ASSUME NEW w \in Workers, Crash(w) PROVE OnceInv'
    BY <1>20 DEF Crash, Forget, Stopped
  <1>21. ASSUME NEW w \in Workers, Restart(w) PROVE OnceInv'
    BY <1>21 DEF Restart, Forget, Stopped
  <1>22. ASSUME NEW r \in Runs, Enqueue(r) PROVE OnceInv'
    BY <1>22, ContentsFacts DEF Enqueue, control
  <1>23. ASSUME NEW r \in Runs, OperatorRetry(r) PROVE OnceInv'
    BY <1>23, Once_OperatorRetry
  <1>24. CASE UNCHANGED vars
    BY <1>24 DEF vars
  <1>25. CASE \E p \in Procs : UpdateStep(p)
    BY <1>25, <1>1, <1>2, Once_ReadCurrent, <1>3, <1>4, Once_WriteTmp, Once_Replace, <1>5,
       Once_WriteRaises
    DEF UpdateStep
  <1>26. CASE \E w \in Workers : (WorkerStep(w) /\ ~UpdateStep(w)) \/ Crash(w) \/ Restart(w)
    BY <1>26, <1>6, <1>7, <1>8, <1>9, <1>10, <1>11, <1>12, <1>13, <1>14, <1>15, <1>16,
       <1>17, <1>18, <1>19, <1>20, <1>21 DEF WorkerStep
  <1> QED
    BY <1>24, <1>25, <1>26, <1>22, <1>23, Once_request_cancel
    DEF Next, WorkerStep

(* With one worker on the data root, no interleaving with cancel requests, crash or restart  *)
(* makes it append a run's windows to the ML history twice: once per upload and once per     *)
(* operator retry.                                                                           *)
THEOREM WindowsAppendedOnce == OneWorker => (Spec => []AppendedOnce)
  <1> SUFFICES ASSUME OneWorker PROVE Spec => []AppendedOnce
    OBVIOUS
  <1>1. Init => TypeInv /\ OnceInv
    <2>1. Init => OnceInv
      BY ProcsAssumption, BoundsAssumption, ContentsFacts
      DEF Init, OnceInv, AppendedOnce, Waiting, Updating, Executing, BeforeAppend, UpdatePCs
    <2> QED
      BY <2>1, InitTypeInv
  <1>2. TypeInv /\ OnceInv /\ [Next]_vars => (TypeInv /\ OnceInv)'
    BY NextTypeInv, NextOnceInv
  <1>3. OnceInv => AppendedOnce
    BY DEF OnceInv
  <1> QED
    BY <1>1, <1>2, <1>3, PTL DEF Spec

-----------------------------------------------------------------------------
(***************************************************************************)
(* The worker alone: its loop survives and its records stay readable.      *)
(***************************************************************************)
Alone == OneWorker /\ Clients = {}

(* What a lone worker knows: the record on disk is the one it read, and the *)
(* temporary file is the one it wrote.                                      *)
AloneInv ==
    /\ \A r \in Runs : status[r] \in AnalysisJob \cup {NoFile}
    /\ \A w \in Workers :
          /\ pc[w] = "escaped" => w \in faulty
          /\ \A r \in todo[w] : status[r].status = "queued"
          /\ Updating(w) \/ Executing(w) => run[w] \notin todo[w]
          /\ Updating(w) /\ site[w] \in {"claim", "sweep"} => status[run[w]].status = "queued"
          /\ Executing(w) => status[run[w]].status = "running"
          /\ Updating(w) /\ pc[w] # "read" =>
                /\ new[w] \in AnalysisJob
                /\ new[w].status = IF site[w] = "stage" THEN "running" ELSE StatusSet[site[w]]
          /\ pc[w] = "write" => fd[w] = "tmp" /\ tmp[run[w]] = ZeroBytes
          /\ pc[w] = "replace" => tmp[run[w]] = new[w]

(* A lone worker finds every record readable, and open until it ends it itself. *)
LEMMA AloneReads ==
    ASSUME Alone, TypeInv, AloneInv
    PROVE  /\ \A r \in Runs : ~Unreadable(status[r])
           /\ \A p \in Procs : p \in Workers
           /\ \A p \in Procs : Updating(p) =>
                 run[p] \in Runs /\ ~is_terminal(status[run[p]]) /\ status[run[p]] \in AnalysisJob
  <1>1. \A c \in AnalysisJob \cup {NoFile} : ~Unreadable(c)
    BY ContentsFacts DEF Unreadable, AnalysisJob, AnalysisStatus, Terminal
  <1>2. \A p \in Procs : p \in Workers
    BY DEF Alone
  <1>3. ASSUME NEW p \in Procs, Updating(p)
        PROVE  run[p] \in Runs /\ status[run[p]].status \in {"queued", "running"}
    BY <1>2, <1>3 DEF Updating, Executing, AloneInv, TypeInv, ControlOK, WorkerSites
  <1> QED
    BY <1>1, <1>2, <1>3, ContentsFacts DEF AloneInv, is_terminal, Terminal

(* The record it is about to write has the status of its call. *)
LEMMA Alone_ReadCurrent ==
    ASSUME Alone, TypeInv, AloneInv, NEW p \in Procs, ReadCurrent(p)
    PROVE  AloneInv'
  <1> DEFINE rec == update_job(site[p], stage[p], status[run[p]])
  <1>1. p \in Workers /\ run[p] \in Runs /\ Updating(p)
    BY AloneReads DEF ReadCurrent, Updating, UpdatePCs
  <1>2. rec \in AnalysisJob
    BY <1>1, UpdateJobType DEF ReadCurrent, TypeInv, TypeOK, ControlOK, UpdatePCs
  <1>3. rec.status = IF site[p] = "stage" THEN "running" ELSE StatusSet[site[p]]
    <2>1. site[p] \in WorkerSites
      BY <1>1 DEF TypeInv, ControlOK
    <2>2. site[p] = "stage" => status[run[p]].status = "running"
      BY <1>1 DEF AloneInv, Executing
    <2> QED
      BY <2>1, <2>2 DEF update_job, SetsStatus, WorkerSites
  <1>4. new' = [new EXCEPT ![p] = rec] /\ pc' = [pc EXCEPT ![p] = "open"]
    BY <1>1 DEF ReadCurrent, Goto, TypeInv, ControlOK, WorkerSites, CancelSites
  <1> HIDE DEF rec
  <1> QED
    BY <1>1, <1>2, <1>3, <1>4
    DEF ReadCurrent, Alone, OneWorker, TypeInv, TypeOK, ControlOK, AloneInv, Updating,
        Executing, UpdatePCs, store, results, ghosts

(* It replaces status.json by the record it wrote itself. *)
LEMMA Alone_Replace ==
    ASSUME Alone, TypeInv, AloneInv, NEW p \in Procs, Replace(p)
    PROVE  AloneInv'
  <1>1. p \in Workers /\ run[p] \in Runs /\ Updating(p) /\ pc[p] = "replace"
    BY AloneReads DEF Replace, Updating, UpdatePCs
  <1>2. /\ tmp[run[p]] = new[p] /\ new[p] \in AnalysisJob /\ run[p] \notin todo[p]
        /\ new[p].status = IF site[p] = "stage" THEN "running" ELSE StatusSet[site[p]]
    BY <1>1 DEF AloneInv
  <1>3. status' = [status EXCEPT ![run[p]] = new[p]]
    BY <1>2 DEF Replace
  <1>4. /\ site[p] = "claim" => AfterUpdate[site[p]] = "execute" /\ StatusSet[site[p]] = "running"
        /\ site[p] = "stage" => AfterUpdate[site[p]] = "work"
        /\ site[p] \notin {"claim", "stage"} => AfterUpdate[site[p]] \in {"pick", "poll"}
    BY <1>1 DEF AfterUpdate, StatusSet, TypeInv, ControlOK, WorkerSites
  <1>5. /\ \A w \in Workers : w = p
        /\ pc' = [pc EXCEPT ![p] = AfterUpdate[site[p]]]
        /\ UNCHANGED <<todo, run, site>>
    BY <1>1 DEF Replace, Goto, Alone, OneWorker
  <1>6. AfterUpdate[site[p]] \notin UpdatePCs \cup {"check", "escaped"}
    BY <1>4 DEF UpdatePCs
  <1> QED
    BY <1>1, <1>2, <1>3, <1>4, <1>5, <1>6
    DEF TypeInv, TypeOK, AloneInv, Updating, Executing, UpdatePCs

(* A failing write ends a lone worker outside the try, or leads it to _fail inside. *)
LEMMA Alone_WriteRaises ==
    ASSUME Alone, TypeInv, AloneInv, NEW p \in Procs, WriteRaises(p)
    PROVE  AloneInv'
  <1>1. p \in Workers /\ run[p] \in Runs /\ Updating(p) /\ \A w \in Workers : w = p
    BY AloneReads DEF WriteRaises, Updating, UpdatePCs, Alone, OneWorker
  <1>2. UNCHANGED <<status, run, todo>>
    BY <1>1 DEF WriteRaises, Put, AloneInv
  <1>3. CASE Escapes(p)
    <2>1. pc'[p] = "escaped" /\ p \in faulty'
      BY <1>1, <1>3, ProcsAssumption DEF WriteRaises, Raise, Escapes, Goto, TypeInv, TypeOK
    <2> QED
      BY <1>1, <1>2, <2>1 DEF AloneInv, Updating, Executing, UpdatePCs
  <1>4. CASE ~Escapes(p)
    <2>1. pc'[p] = "read" /\ site'[p] = "failed"
      BY <1>1, <1>4, ProcsAssumption DEF WriteRaises, Raise, Fail, Goto, Alone, TypeInv, TypeOK
    <2>2. status[run[p]].status = "running" /\ run[p] \notin todo[p]
      BY <1>1, <1>4 DEF AloneInv, Executing, Updating, Escapes, TypeInv, ControlOK, WorkerSites
    <2> QED
      BY <1>1, <1>2, <2>1, <2>2 DEF AloneInv, Updating, Executing, UpdatePCs
  <1> QED
    BY <1>3, <1>4

(* The claimed job is still running when it starts. *)
LEMMA Alone_StartExecution ==
    ASSUME Alone, TypeInv, AloneInv, NEW w \in Workers, StartExecution(w)
    PROVE  AloneInv'
  <1>1. run[w] \in Runs /\ status[run[w]].status = "running"
    BY DEF StartExecution, AloneInv, Executing, TypeInv, ControlOK
  <1>2. ~Unreadable(status[run[w]])
    BY <1>1, AloneReads
  <1> QED
    BY <1>1, <1>2
    DEF StartExecution, Goto, Alone, OneWorker, TypeInv, TypeOK, ControlOK, AloneInv, Updating,
        Executing, UpdatePCs, store, results, ghosts

(* A retry edits a record the stopped worker does not look at. *)
LEMMA Alone_OperatorRetry ==
    ASSUME Alone, TypeInv, AloneInv, NEW r \in Runs, OperatorRetry(r)
    PROVE  AloneInv'
  <1>1. status[r] \in AnalysisJob
    BY ContentsFacts DEF OperatorRetry, AloneInv
  <1>2. \A w \in Workers : ~Updating(w) /\ ~Executing(w) /\ pc[w] \notin {"write", "replace"}
    BY DEF OperatorRetry, Stopped, Updating, Executing, UpdatePCs
  <1>3. /\ status'[r] \in AnalysisJob /\ status'[r].status = "queued"
        /\ \A q \in Runs : q # r => status'[q] = status[q]
    <2>1. /\ "queued" \in AnalysisStatus /\ "intake" \in AnalysisStage
          /\ status' = [status EXCEPT ![r].status = "queued", ![r].stage = "intake",
                                      ![r].cancel_requested = FALSE]
      BY DEF OperatorRetry, AnalysisStatus, AnalysisStage
    <2> QED
      BY <1>1, <2>1 DEF TypeInv, TypeOK, AnalysisJob
  <1> QED
    BY <1>2, <1>3
    DEF OperatorRetry, TypeInv, TypeOK, AloneInv, Updating, Executing, control

(* Every step keeps what a lone worker knows of its files. *)
LEMMA NextAloneInv ==
    ASSUME Alone, TypeInv, AloneInv, [Next]_vars
    PROVE  AloneInv'
  <1> USE ProcsAssumption
      DEF Goto, Alone, OneWorker, TypeInv, TypeOK, ControlOK, AloneInv, Updating, Executing,
          UpdatePCs, CancelSites, WorkerSites, store, results, ghosts
  <1>1. ASSUME NEW p \in Procs, ReadUnreadable(p) PROVE AloneInv'
    BY <1>1, AloneReads DEF ReadUnreadable
  <1>2. ASSUME NEW p \in Procs, ReadTerminal(p) PROVE AloneInv'
    BY <1>2, AloneReads DEF ReadTerminal
  <1>3. ASSUME NEW p \in Procs, WriteFlag(p) PROVE AloneInv'
    BY <1>3 DEF WriteFlag
  <1>4. ASSUME NEW p \in Procs, OpenTmp(p) PROVE AloneInv'
    BY <1>4 DEF OpenTmp
  <1>5. ASSUME NEW p \in Procs, WriteTmp(p) PROVE AloneInv'
    BY <1>5 DEF WriteTmp, Put, Held, Written
  <1>6. ASSUME NEW p \in Procs, ReplaceMissing(p) PROVE AloneInv'
    BY <1>6, AloneReads, ContentsFacts DEF ReplaceMissing, AnalysisJob, AnalysisStatus, Terminal
  <1>7. ASSUME NEW w \in Workers, ListRaises(w) PROVE AloneInv'
    BY <1>7, AloneReads DEF ListRaises, Listable
  <1>8. ASSUME NEW w \in Workers, ListQueued(w) PROVE AloneInv'
    BY <1>8 DEF ListQueued, List
  <1>9. ASSUME NEW w \in Workers, ListCancelled(w) PROVE AloneInv'
    BY <1>9 DEF ListCancelled, List
  <1>10. ASSUME NEW w \in Workers, PickOldest(w) PROVE AloneInv'
    BY <1>10 DEF PickOldest
  <1>11. ASSUME NEW w \in Workers, PickNone(w) PROVE AloneInv'
    BY <1>11 DEF PickNone
  <1>12. ASSUME NEW w \in Workers, CheckRaises(w) PROVE AloneInv'
    BY <1>12 DEF CheckRaises, Raise, Fail, Escapes
  <1>13. ASSUME NEW w \in Workers, StopCancelled(w) PROVE AloneInv'
    BY <1>13 DEF StopCancelled
  <1>14. ASSUME NEW w \in Workers, EnterStage(w) PROVE AloneInv'
    BY <1>14 DEF EnterStage
  <1>15. ASSUME NEW w \in Workers, Analyze(w) PROVE AloneInv'
    BY <1>15 DEF Analyze
  <1>16. ASSUME NEW w \in Workers, AppendWindows(w) PROVE AloneInv'
    BY <1>16 DEF AppendWindows
  <1>17. ASSUME NEW w \in Workers, WriteArtifacts(w) PROVE AloneInv'
    BY <1>17 DEF WriteArtifacts
  <1>18. ASSUME NEW w \in Workers, Publish(w) PROVE AloneInv'
    BY <1>18 DEF Publish
  <1>19. ASSUME NEW w \in Workers, WorkRaises(w) PROVE AloneInv'
    BY <1>19 DEF WorkRaises, Fail
  <1>20. ASSUME NEW w \in Workers, Crash(w) PROVE AloneInv'
    BY <1>20 DEF Crash, Forget, Stopped
  <1>21. ASSUME NEW w \in Workers, Restart(w) PROVE AloneInv'
    BY <1>21 DEF Restart, Forget, Stopped
  <1>22. ASSUME NEW r \in Runs, Enqueue(r) PROVE AloneInv'
    BY <1>22, ContentsFacts DEF Enqueue, control
  <1>23. ASSUME NEW c \in Clients, NEW r \in Runs, request_cancel(c, r) PROVE AloneInv'
    BY <1>23 DEF request_cancel
  <1>24. CASE UNCHANGED vars
    BY <1>24 DEF vars
  <1>25. CASE \E p \in Procs : UpdateStep(p)
    BY <1>25, <1>1, <1>2, Alone_ReadCurrent, <1>3, <1>4, <1>5, Alone_Replace, <1>6,
       Alone_WriteRaises
    DEF UpdateStep
  <1>26. CASE \E w \in Workers : (WorkerStep(w) /\ ~UpdateStep(w)) \/ Crash(w) \/ Restart(w)
    BY <1>26, <1>7, <1>8, <1>9, <1>10, <1>11, Alone_StartExecution, <1>12, <1>13, <1>14,
       <1>15, <1>16, <1>17, <1>18, <1>19, <1>20, <1>21 DEF WorkerStep
  <1> QED
    BY <1>24, <1>25, <1>26, <1>22, Alone_OperatorRetry, <1>23
    DEF Next, WorkerStep

(* With one worker and no cancel request, only a status write that fails in claim_next or in  *)
(* _fail ends the worker's loop, and no reader ever finds a torn status file: whatever the    *)
(* stages raise, whichever other write fails and wherever it stops, whenever the worker dies. *)
THEOREM LoneWorkerSurvives == Alone => (Spec => [](WorkerSurvives /\ StatusReadable))
  <1> SUFFICES ASSUME Alone PROVE Spec => [](WorkerSurvives /\ StatusReadable)
    OBVIOUS
  <1>1. Init => TypeInv /\ AloneInv
    <2>1. Init => AloneInv
      BY ProcsAssumption DEF Init, AloneInv, Updating, Executing, UpdatePCs
    <2> QED
      BY <2>1, InitTypeInv
  <1>2. TypeInv /\ AloneInv /\ [Next]_vars => (TypeInv /\ AloneInv)'
    BY NextTypeInv, NextAloneInv
  <1>3. TypeInv /\ AloneInv => WorkerSurvives /\ StatusReadable
    BY AloneReads DEF AloneInv, WorkerSurvives, StatusReadable
  <1> QED
    BY <1>1, <1>2, <1>3, PTL DEF Spec

-----------------------------------------------------------------------------
(***************************************************************************)
(* The worker alone implements the documented life cycle.                  *)
(***************************************************************************)

(* A report is in the catalog only of a job that ran to its last stage. *)
UnpublishedInv ==
    /\ \A r \in Runs : Waiting(r) => r \notin published
    /\ \A w \in Workers :
          \/ pc[w] \in {"execute", "check", "work"}
          \/ Updating(w) /\ site[w] \in {"claim", "sweep", "stage", "cancelled"}
          => run[w] \notin published

Unretried == Alone /\ MaxRetries = 0

(* The replace of a lone worker changes the status of its own job only. *)
LEMMA Unpublished_Replace ==
    ASSUME Unretried, TypeInv, AloneInv, UnpublishedInv, NEW p \in Procs, Replace(p)
    PROVE  UnpublishedInv'
  <1>1. p \in Workers /\ run[p] \in Runs /\ Updating(p)
    BY AloneReads DEF Unretried, Replace, Updating, UpdatePCs
  <1>2. new[p].status # "queued" /\ new[p].status # "absent" /\ tmp[run[p]] = new[p]
    BY <1>1 DEF Replace, AloneInv, Updating, StatusSet, TypeInv, ControlOK, WorkerSites
  <1>3. \A r \in Runs : Waiting(r)' => Waiting(r)
    BY <1>1, <1>2 DEF Replace, Waiting, TypeInv, TypeOK
  <1>4. /\ site[p] \notin {"claim", "stage"} => AfterUpdate[site[p]] \in {"pick", "poll"}
        /\ site[p] \in {"claim", "stage"} => AfterUpdate[site[p]] \in {"execute", "work"}
    BY <1>1 DEF AfterUpdate, TypeInv, ControlOK, WorkerSites
  <1> QED
    BY <1>1, <1>3, <1>4
    DEF Replace, Goto, Unretried, Alone, OneWorker, TypeInv, TypeOK, UnpublishedInv, Updating,
        UpdatePCs, results

(* A status file is written only through the temporary file. *)
LEMMA Unpublished_WriteTmp ==
    ASSUME Unretried, TypeInv, AloneInv, UnpublishedInv, NEW p \in Procs, WriteTmp(p)
    PROVE  UnpublishedInv'
  <1>1. p \in Workers /\ status' = status
    BY AloneReads DEF Unretried, WriteTmp, Put, AloneInv
  <1> QED
    BY <1>1 DEF WriteTmp, Put, Held, Goto, TypeInv, TypeOK, UnpublishedInv, Waiting, Updating, UpdatePCs,
                results

(* Nor does a failing write of a lone worker touch a status file. *)
LEMMA Unpublished_WriteRaises ==
    ASSUME Unretried, TypeInv, AloneInv, UnpublishedInv, NEW p \in Procs, WriteRaises(p)
    PROVE  UnpublishedInv'
  <1>1. p \in Workers /\ UNCHANGED <<status, published, run>>
    BY AloneReads DEF Unretried, WriteRaises, Put, AloneInv, results
  <1> QED
    BY <1>1 DEF WriteRaises, Raise, Fail, Goto, TypeInv, TypeOK, UnpublishedInv, Waiting, Updating,
                UpdatePCs

(* A job that is read before its claim or its sweep waits, so it is not published. *)
LEMMA Unpublished_PickOldest ==
    ASSUME Unretried, TypeInv, AloneInv, UnpublishedInv, NEW w \in Workers, PickOldest(w)
    PROVE  UnpublishedInv'
  <1>1. PICK r \in todo[w] : run' = [run EXCEPT ![w] = r]
    BY DEF PickOldest
  <1>2. r \in Runs /\ r \notin published
    BY DEF AloneInv, UnpublishedInv, Waiting, TypeInv, TypeOK
  <1> QED
    BY <1>1, <1>2
    DEF PickOldest, Goto, TypeInv, TypeOK, UnpublishedInv, Waiting, Updating, UpdatePCs,
        store, results

(* Every step keeps reports out of the catalog until the last stage. *)
LEMMA NextUnpublishedInv ==
    ASSUME Unretried, TypeInv, AloneInv, UnpublishedInv, [Next]_vars
    PROVE  UnpublishedInv'
  <1> USE ProcsAssumption
      DEF Goto, Unretried, Alone, OneWorker, TypeInv, TypeOK, ControlOK, UnpublishedInv, Waiting,
          Updating, UpdatePCs, CancelSites, WorkerSites, store, results, ghosts
  <1>1. ASSUME NEW p \in Procs, ReadUnreadable(p) PROVE UnpublishedInv'
    BY <1>1 DEF ReadUnreadable, Raise, Fail, Escapes
  <1>2. ASSUME NEW p \in Procs, ReadTerminal(p) PROVE UnpublishedInv'
    BY <1>2 DEF ReadTerminal, Conflict, Raise, Fail, Escapes
  <1>3. ASSUME NEW p \in Procs, ReadCurrent(p) PROVE UnpublishedInv'
    BY <1>3 DEF ReadCurrent
  <1>4. ASSUME NEW p \in Procs, WriteFlag(p) PROVE UnpublishedInv'
    BY <1>4 DEF WriteFlag
  <1>5. ASSUME NEW p \in Procs, OpenTmp(p) PROVE UnpublishedInv'
    BY <1>5 DEF OpenTmp
  <1>6. ASSUME NEW p \in Procs, ReplaceMissing(p) PROVE UnpublishedInv'
    BY <1>6 DEF ReplaceMissing, Raise, Fail, Escapes
  <1>7. ASSUME NEW w \in Workers, ListRaises(w) PROVE UnpublishedInv'
    BY <1>7 DEF ListRaises
  <1>8. ASSUME NEW w \in Workers, ListQueued(w) PROVE UnpublishedInv'
    BY <1>8 DEF ListQueued, List
  <1>9. ASSUME NEW w \in Workers, ListCancelled(w) PROVE UnpublishedInv'
    BY <1>9 DEF ListCancelled, List
  <1>10. ASSUME NEW w \in Workers, PickNone(w) PROVE UnpublishedInv'
    BY <1>10 DEF PickNone
  <1>11. ASSUME NEW w \in Workers, StartExecution(w) PROVE UnpublishedInv'
    BY <1>11 DEF StartExecution
  <1>12. ASSUME NEW w \in Workers, CheckRaises(w) PROVE UnpublishedInv'
    BY <1>12 DEF CheckRaises, Raise, Fail, Escapes
  <1>13. ASSUME NEW w \in Workers, StopCancelled(w) PROVE UnpublishedInv'
    BY <1>13 DEF StopCancelled
  <1>14. ASSUME NEW w \in Workers, EnterStage(w) PROVE UnpublishedInv'
    BY <1>14 DEF EnterStage
  <1>15. ASSUME NEW w \in Workers, Analyze(w) PROVE UnpublishedInv'
    BY <1>15 DEF Analyze
  <1>16. ASSUME NEW w \in Workers, AppendWindows(w) PROVE UnpublishedInv'
    BY <1>16 DEF AppendWindows
  <1>17. ASSUME NEW w \in Workers, WriteArtifacts(w) PROVE UnpublishedInv'
    BY <1>17 DEF WriteArtifacts
  <1>18. ASSUME NEW w \in Workers, Publish(w) PROVE UnpublishedInv'
    BY <1>18 DEF Publish, AloneInv, Executing
  <1>19. ASSUME NEW w \in Workers, WorkRaises(w) PROVE UnpublishedInv'
    BY <1>19 DEF WorkRaises, Fail
  <1>20. ASSUME NEW w \in Workers, Crash(w) PROVE UnpublishedInv'
    BY <1>20 DEF Crash, Forget, Stopped
  <1>21. ASSUME NEW w \in Workers, Restart(w) PROVE UnpublishedInv'
    BY <1>21 DEF Restart, Forget, Stopped
  <1>22. ASSUME NEW r \in Runs, Enqueue(r) PROVE UnpublishedInv'
    BY <1>22, ContentsFacts DEF Enqueue, control
  <1>23. ASSUME NEW r \in Runs, OperatorRetry(r) PROVE UnpublishedInv'
    BY <1>23, ContentsFacts DEF OperatorRetry, Stopped, control
  <1>24. ASSUME NEW c \in Clients, NEW r \in Runs, request_cancel(c, r) PROVE UnpublishedInv'
    BY <1>24 DEF request_cancel
  <1>25. CASE UNCHANGED vars
    BY <1>25 DEF vars
  <1>26. CASE \E p \in Procs : UpdateStep(p)
    BY <1>26, <1>1, <1>2, <1>3, <1>4, <1>5, Unpublished_WriteTmp,
       Unpublished_Replace, <1>6, Unpublished_WriteRaises
    DEF UpdateStep
  <1>27. CASE \E w \in Workers : (WorkerStep(w) /\ ~UpdateStep(w)) \/ Crash(w) \/ Restart(w)
    BY <1>27, <1>7, <1>8, <1>9, Unpublished_PickOldest, <1>10, <1>11, <1>12, <1>13, <1>14,
       <1>15, <1>16, <1>17, <1>18, <1>19, <1>20, <1>21 DEF WorkerStep
  <1> QED
    BY <1>25, <1>26, <1>27, <1>22, <1>23, <1>24
    DEF Next, WorkerStep

(* What the documentation's reader sees of a state. *)
Phase == [r \in Runs |-> status[r].status]

(* Steps that leave status files and catalog alone are invisible. *)
LEMMA InvisibleStep ==
    ASSUME UNCHANGED <<status, published>>
    PROVE  UNCHANGED <<Phase, published>>
  BY DEF Phase

(* A lone worker's replace is a step of the life cycle, or changes only the stage. *)
LEMMA ReplaceImplements ==
    ASSUME Unretried, TypeInv, AloneInv, RecordInv, UnpublishedInv, NEW p \in Procs, Replace(p)
    PROVE  Lifecycle!Next \/ UNCHANGED <<Phase, published>>
  <1>0. p \in Workers /\ run[p] \in Runs /\ Updating(p) /\ pc[p] = "replace"
    BY AloneReads DEF Unretried, Replace, Updating, UpdatePCs
  <1>1. PICK r \in Runs : r = run[p] /\ site[p] \in WorkerSites
    BY <1>0 DEF TypeInv, ControlOK
  <1>2. /\ status' = [status EXCEPT ![r] = new[p]]
        /\ new[p].status = IF site[p] = "stage" THEN "running" ELSE StatusSet[site[p]]
        /\ published' = published
    BY <1>0, <1>1 DEF Replace, AloneInv, results
  <1>3. Phase' = [Phase EXCEPT ![r] = new[p].status] /\ Phase[r] = status[r].status
    BY <1>1, <1>2 DEF Phase, TypeInv, TypeOK
  <1>4. CASE site[p] = "claim"
    <2>1. status[r].status = "queued" /\ new[p].status = "running"
      BY <1>0, <1>1, <1>2, <1>4 DEF AloneInv, StatusSet
    <2>2. Lifecycle!Claim(r)
      BY <1>2, <1>3, <2>1 DEF Lifecycle!Claim, Lifecycle!Move, Phase
    <2> QED
      BY <1>1, <2>2 DEF Lifecycle!Next
  <1>5. CASE site[p] = "sweep"
    <2>1. status[r].status = "queued" /\ new[p].status = "cancelled"
      BY <1>0, <1>1, <1>2, <1>5 DEF AloneInv, StatusSet
    <2>2. Lifecycle!CancelQueued(r)
      BY <1>2, <1>3, <2>1 DEF Lifecycle!CancelQueued, Lifecycle!Move, Phase
    <2> QED
      BY <1>1, <2>2 DEF Lifecycle!Next
  <1>6. CASE site[p] \notin {"claim", "sweep"}
    <2>1. status[r].status = "running"
      BY <1>0, <1>1, <1>6 DEF AloneInv, Executing, WorkerSites
    <2>2. CASE site[p] = "stage"
      BY <1>2, <1>3, <2>1, <2>2 DEF Phase
    <2>3. CASE site[p] = "cancelled"
      <3>1. Lifecycle!CancelRunning(r)
        BY <1>0, <1>1, <1>2, <1>3, <2>1, <2>3
        DEF Lifecycle!CancelRunning, Lifecycle!Move, Phase, StatusSet, UnpublishedInv
      <3> QED
        BY <1>1, <3>1 DEF Lifecycle!Next
    <2>4. CASE site[p] = "completed"
      <3>1. r \in published
        BY <1>0, <1>1, <2>4 DEF RecordInv, Updating
      <3>2. Lifecycle!Complete(r)
        BY <1>2, <1>3, <2>1, <2>4, <3>1
        DEF Lifecycle!Complete, Lifecycle!Move, Phase, StatusSet
      <3> QED
        BY <1>1, <3>2 DEF Lifecycle!Next
    <2>5. CASE site[p] = "failed"
      <3>1. Lifecycle!Abort(r)
        BY <1>2, <1>3, <2>1, <2>5 DEF Lifecycle!Abort, Lifecycle!Move, Phase, StatusSet
      <3> QED
        BY <1>1, <3>1 DEF Lifecycle!Next
    <2> QED
      BY <1>1, <1>6, <2>2, <2>3, <2>4, <2>5 DEF WorkerSites
  <1> QED
    BY <1>4, <1>5, <1>6

(* publish_report happens while the job's status says running. *)
LEMMA PublishImplements ==
    ASSUME TypeInv, AloneInv, NEW w \in Workers, Publish(w)
    PROVE  Lifecycle!Next
  <1>1. run[w] \in Runs /\ status[run[w]].status = "running"
    BY DEF Publish, AloneInv, Executing, TypeInv, ControlOK
  <1>2. Lifecycle!PublishReport(run[w])
    BY <1>1 DEF Publish, Lifecycle!PublishReport, store
  <1> QED
    BY <1>1, <1>2 DEF Lifecycle!Next

(* An upload submits its job. *)
LEMMA EnqueueImplements ==
    ASSUME TypeInv, NEW r \in Runs, Enqueue(r)
    PROVE  Lifecycle!Next
  <1>1. Phase' = [Phase EXCEPT ![r] = "queued"] /\ Phase[r] = "absent"
    BY ContentsFacts DEF Enqueue, Phase, TypeInv, TypeOK
  <1>2. Lifecycle!Submit(r)
    BY <1>1 DEF Enqueue, Lifecycle!Submit, Lifecycle!Move, Phase, results
  <1> QED
    BY <1>2 DEF Lifecycle!Next

(* Each step of a lone worker and of its environment is a step of the life cycle or none. *)
LEMMA NextImplements ==
    ASSUME Unretried, TypeInv, AloneInv, RecordInv, UnpublishedInv, [Next]_vars
    PROVE  [Lifecycle!Next]_<<Phase, published>>
  <1>1. CASE \E p \in Procs : UpdateStep(p)
    <2>1. PICK p \in Procs : UpdateStep(p)
      BY <1>1
    <2>2. CASE WriteTmp(p) \/ WriteRaises(p)
      <3>1. p \in Workers
        BY AloneReads DEF Unretried
      <3> QED
        BY <2>2, <3>1, InvisibleStep DEF WriteTmp, WriteRaises, Put, AloneInv, results
    <2>3. CASE ~Replace(p) /\ ~WriteTmp(p) /\ ~WriteRaises(p)
      BY <2>1, <2>3, InvisibleStep
      DEF UpdateStep, ReadUnreadable, ReadTerminal, ReadCurrent, WriteFlag, OpenTmp,
          ReplaceMissing, store, results
    <2> QED
      BY <2>2, <2>3, ReplaceImplements
  <1>2. CASE \E w \in Workers : Publish(w)
    BY <1>2, PublishImplements
  <1>3. CASE \E w \in Workers : \/ WorkerStep(w) /\ ~UpdateStep(w) /\ ~Publish(w)
                                \/ Crash(w) \/ Restart(w)
    BY <1>3, InvisibleStep
    DEF WorkerStep, ListRaises, ListQueued, ListCancelled, List, PickOldest, PickNone,
        StartExecution, CheckRaises, StopCancelled, EnterStage, Analyze, AppendWindows,
        WriteArtifacts, WorkRaises, Crash, Restart, store, results
  <1>4. CASE \E r \in Runs : Enqueue(r)
    BY <1>4, EnqueueImplements
  <1>5. CASE \E r \in Runs : OperatorRetry(r)
    BY <1>5 DEF OperatorRetry, Unretried, TypeInv, TypeOK
  <1>6. CASE UNCHANGED vars
    BY <1>6, InvisibleStep DEF vars
  <1> QED
    BY <1>1, <1>2, <1>3, <1>4, <1>5, <1>6 DEF Next, WorkerStep, Unretried, Alone

(* Without cancel requests and retries, one worker and its store implement the life cycle of *)
(* docs/operations/job-lifecycle.md, however often the worker crashes and is started again:  *)
(* a job is claimed once, publishes only while it runs, and its terminal status is truthful. *)
THEOREM WorkerImplementsLifecycle == Unretried => (Spec => ImplementsLifecycle)
  <1> SUFFICES ASSUME Unretried PROVE Spec => ImplementsLifecycle
    OBVIOUS
  <1> DEFINE Inv == TypeInv /\ AloneInv /\ RecordInv /\ UnpublishedInv
  <1>1. Init => Inv
    <2>1. Init => AloneInv /\ UnpublishedInv
      BY ProcsAssumption DEF Init, AloneInv, UnpublishedInv, Updating, Executing, UpdatePCs
    <2>2. Init => RecordInv
      BY ContentsFacts DEF Init, RecordInv, Backed, UpdatePCs
    <2> QED
      BY <2>1, <2>2, InitTypeInv
  <1>2. Inv /\ [Next]_vars => Inv'
    BY NextTypeInv, NextAloneInv, NextRecordInv, NextUnpublishedInv DEF Unretried
  <1>3. Init => Lifecycle!Init
    BY ContentsFacts DEF Init, Lifecycle!Init
  <1>4. Inv /\ [Next]_vars => [Lifecycle!Next]_<<Phase, published>>
    BY NextImplements
  <1> HIDE DEF Inv
  <1> QED
    BY <1>1, <1>2, <1>3, <1>4, PTL DEF Spec, ImplementsLifecycle, Lifecycle!Spec, Phase
=============================================================================

------------------------- MODULE CaptureIntake_proofs -------------------------
(***************************************************************************)
(* For any number of overlapping uploads, any captures and limits: a job   *)
(* the worker can see has its whole capture, a refused upload leaves       *)
(* nothing behind, the job quota is overrun by fewer directories than      *)
(* there are threads, uploads of one capture become at most as many jobs   *)
(* as there are threads, and uploads one at a time never store more than   *)
(* the data root may hold.                                                 *)
(***************************************************************************)
EXTENDS CaptureIntake, FiniteSetTheorems, NaturalsInduction, WellFoundedInduction, TLAPS

(* The types of the variables; the running total of _usage_bytes comes later, *)
(* with the data-root quota.                                                 *)
FilesOK ==
    /\ parts \in SUBSET Uploads
    /\ bytes \in [Uploads -> Nat]
    /\ dirs \in SUBSET Uploads
    /\ captures \in SUBSET Uploads
    /\ status \in [Uploads -> {"absent", "queued"} \cup Ended]
    /\ ident \in [Uploads -> Identities]
    /\ pc \in [Uploads -> Active \cup {"idle", "done", "lost"}]
    /\ answer \in [Uploads -> Answers]

Safe == FilesOK /\ IntakeInv /\ RefusalLeavesNothing /\ JobHasCapture

(* Nothing is stored yet. *)
LEMMA SafeInit == Init => Safe
  BY DEF Init, Safe, FilesOK, IntakeInv, StepInv, RefusalLeavesNothing, JobHasCapture, Active,
         Checked, Ended, Answers

(* Stuttering steps. *)
LEMMA SafeStutter == Safe /\ UNCHANGED vars => Safe'
  BY DEF vars, request, Safe, FilesOK, IntakeInv, StepInv, RefusalLeavesNothing, JobHasCapture

(* A request that is refused: its .part file goes, its directory, if it has   *)
(* one, stays only when the answer is "error".                                *)
LEMMA RejectStep ==
    ASSUME Safe, NEW u \in Uploads, NEW a \in Answers \ {"none"}, Reject(u, a),
           pc[u] \in {"idle"} \cup Active,
           pc[u] \in {"move", "save"} => a = "error"
    PROVE  Safe'
  <1> USE DEF Reject, Finish, Goto, abort_staged, request
  <1>1. FilesOK'
    BY DEF Safe, FilesOK, Active
  <1>2. ASSUME NEW v \in Uploads PROVE StepInv(v)'
    BY <1>2 DEF Safe, FilesOK, IntakeInv, StepInv, Active, Checked
  <1>3. RefusalLeavesNothing'
    BY DEF Safe, FilesOK, IntakeInv, StepInv, RefusalLeavesNothing, Active
  <1>4. JobHasCapture'
    BY DEF Safe, FilesOK, JobHasCapture
  <1> QED
    BY <1>1, <1>2, <1>3, <1>4 DEF Safe, IntakeInv

(* Each step of an upload on its way to a job. *)
LEMMA IngestStep == ASSUME Safe, NEW u \in Uploads, ingest_capture(u) PROVE Safe'
  <1> USE SizeAssumption DEF Goto, request
  <1>1. CASE NeverStaged(u)
    BY <1>1, RejectStep DEF NeverStaged, Answers, Active
  <1>2. CASE OpenPart(u)
    <2>1. FilesOK'
      BY <1>2 DEF OpenPart, Safe, FilesOK, Active, Ended
    <2>2. ASSUME NEW v \in Uploads PROVE StepInv(v)'
      BY <1>2, <2>2 DEF OpenPart, Safe, FilesOK, IntakeInv, StepInv, Active, Checked
    <2>3. RefusalLeavesNothing'
      BY <1>2 DEF OpenPart, Safe, FilesOK, IntakeInv, StepInv, RefusalLeavesNothing, Active
    <2>4. JobHasCapture'
      BY <1>2 DEF OpenPart, Safe, FilesOK, IntakeInv, StepInv, JobHasCapture, Active, Checked
    <2> QED
      BY <2>1, <2>2, <2>3, <2>4 DEF Safe, IntakeInv
  <1>3. CASE WriteChunk(u)
    <2>1. FilesOK'
      BY <1>3 DEF WriteChunk, Safe, FilesOK, Active, Ended
    <2>2. ASSUME NEW v \in Uploads PROVE StepInv(v)'
      BY <1>3, <2>2 DEF WriteChunk, Safe, FilesOK, IntakeInv, StepInv, Active, Checked
    <2>3. RefusalLeavesNothing'
      BY <1>3 DEF WriteChunk, Safe, FilesOK, IntakeInv, StepInv, RefusalLeavesNothing, Active
    <2>4. JobHasCapture'
      BY <1>3 DEF WriteChunk, Safe, FilesOK, IntakeInv, StepInv, JobHasCapture, Active, Checked
    <2> QED
      BY <2>1, <2>2, <2>3, <2>4 DEF Safe, IntakeInv
  <1>4. CASE TooLarge(u)
    BY <1>4, RejectStep DEF TooLarge, Answers, Active
  <1>5. CASE EmptyCapture(u)
    BY <1>5, RejectStep DEF EmptyCapture, Answers, Active
  <1>6. CASE Staged(u)
    <2>1. FilesOK'
      BY <1>6 DEF Staged, Safe, FilesOK, Active, Ended
    <2>2. ASSUME NEW v \in Uploads PROVE StepInv(v)'
      BY <1>6, <2>2 DEF Staged, Safe, FilesOK, IntakeInv, StepInv, Active, Checked
    <2>3. RefusalLeavesNothing'
      BY <1>6 DEF Staged, Safe, FilesOK, IntakeInv, StepInv, RefusalLeavesNothing, Active
    <2>4. JobHasCapture'
      BY <1>6 DEF Staged, Safe, FilesOK, IntakeInv, StepInv, JobHasCapture, Active, Checked
    <2> QED
      BY <2>1, <2>2, <2>3, <2>4 DEF Safe, IntakeInv
  <1>7. CASE validate_magic(u)
    <2>1. CASE Reject(u, "invalid")
      BY <1>7, <2>1, RejectStep DEF validate_magic, Answers, Active
    <2>2. CASE ~ Reject(u, "invalid")
      <3>1. FilesOK'
        BY <1>7, <2>2 DEF validate_magic, Safe, FilesOK, Active, Ended
      <3>2. ASSUME NEW v \in Uploads PROVE StepInv(v)'
        BY <1>7, <2>2, <3>2
           DEF validate_magic, Safe, FilesOK, IntakeInv, StepInv, Active, Checked
      <3>3. RefusalLeavesNothing'
        BY <1>7, <2>2
           DEF validate_magic, Safe, FilesOK, IntakeInv, StepInv, RefusalLeavesNothing, Active
      <3>4. JobHasCapture'
        BY <1>7, <2>2
           DEF validate_magic, Safe, FilesOK, IntakeInv, StepInv, JobHasCapture, Active, Checked
      <3> QED
        BY <3>1, <3>2, <3>3, <3>4 DEF Safe, IntakeInv
    <2> QED
      BY <2>1, <2>2
  <1>8. CASE ReuseJob(u)
    BY <1>8, RejectStep DEF ReuseJob, Answers, Active
  <1>9. CASE NoDuplicate(u)
    <2>1. FilesOK'
      BY <1>9 DEF NoDuplicate, Safe, FilesOK, Active, Ended
    <2>2. ASSUME NEW v \in Uploads PROVE StepInv(v)'
      BY <1>9, <2>2 DEF NoDuplicate, Safe, FilesOK, IntakeInv, StepInv, Active, Checked
    <2>3. RefusalLeavesNothing'
      BY <1>9 DEF NoDuplicate, Safe, FilesOK, IntakeInv, StepInv, RefusalLeavesNothing, Active
    <2>4. JobHasCapture'
      BY <1>9 DEF NoDuplicate, Safe, FilesOK, IntakeInv, StepInv, JobHasCapture, Active, Checked
    <2> QED
      BY <2>1, <2>2, <2>3, <2>4 DEF Safe, IntakeInv
  <1>10. CASE CountJobs(u)
    <2>1. CASE Reject(u, "quota")
      BY <1>10, <2>1, RejectStep DEF CountJobs, Answers, Active
    <2>2. CASE ~ Reject(u, "quota")
      <3>1. FilesOK'
        BY <1>10, <2>2 DEF CountJobs, Safe, FilesOK, Active, Ended
      <3>2. ASSUME NEW v \in Uploads PROVE StepInv(v)'
        BY <1>10, <2>2, <3>2 DEF CountJobs, Safe, FilesOK, IntakeInv, StepInv, Active, Checked
      <3>3. RefusalLeavesNothing'
        BY <1>10, <2>2
           DEF CountJobs, Safe, FilesOK, IntakeInv, StepInv, RefusalLeavesNothing, Active
      <3>4. JobHasCapture'
        BY <1>10, <2>2
           DEF CountJobs, Safe, FilesOK, IntakeInv, StepInv, JobHasCapture, Active, Checked
      <3> QED
        BY <3>1, <3>2, <3>3, <3>4 DEF Safe, IntakeInv
    <2> QED
      BY <2>1, <2>2
  <1>11. CASE UsageOfJobs(u)
    <2>1. FilesOK'
      BY <1>11 DEF UsageOfJobs, Safe, FilesOK, Active, Ended
    <2>2. ASSUME NEW v \in Uploads PROVE StepInv(v)'
      BY <1>11, <2>2 DEF UsageOfJobs, Safe, FilesOK, IntakeInv, StepInv, Active, Checked
    <2>3. RefusalLeavesNothing'
      BY <1>11 DEF UsageOfJobs, Safe, FilesOK, IntakeInv, StepInv, RefusalLeavesNothing, Active
    <2>4. JobHasCapture'
      BY <1>11
         DEF UsageOfJobs, Safe, FilesOK, IntakeInv, StepInv, JobHasCapture, Active, Checked
    <2> QED
      BY <2>1, <2>2, <2>3, <2>4 DEF Safe, IntakeInv
  <1>12. CASE UsageOfParts(u)
    <2>1. CASE Reject(u, "quota")
      BY <1>12, <2>1, RejectStep DEF UsageOfParts, Answers, Active
    <2>2. CASE ~ Reject(u, "quota")
      <3>1. FilesOK'
        BY <1>12, <2>2 DEF UsageOfParts, Safe, FilesOK, Active, Ended
      <3>2. ASSUME NEW v \in Uploads PROVE StepInv(v)'
        BY <1>12, <2>2, <3>2
           DEF UsageOfParts, Safe, FilesOK, IntakeInv, StepInv, Active, Checked
      <3>3. RefusalLeavesNothing'
        BY <1>12, <2>2
           DEF UsageOfParts, Safe, FilesOK, IntakeInv, StepInv, RefusalLeavesNothing, Active
      <3>4. JobHasCapture'
        BY <1>12, <2>2
           DEF UsageOfParts, Safe, FilesOK, IntakeInv, StepInv, JobHasCapture, Active, Checked
      <3> QED
        BY <3>1, <3>2, <3>3, <3>4 DEF Safe, IntakeInv
    <2> QED
      BY <2>1, <2>2
  <1>13. CASE MakeJobDir(u)
    <2>1. FilesOK'
      BY <1>13 DEF MakeJobDir, Safe, FilesOK, Active, Ended
    <2>2. ASSUME NEW v \in Uploads PROVE StepInv(v)'
      BY <1>13, <2>2 DEF MakeJobDir, Safe, FilesOK, IntakeInv, StepInv, Active, Checked
    <2>3. RefusalLeavesNothing'
      BY <1>13 DEF MakeJobDir, Safe, FilesOK, IntakeInv, StepInv, RefusalLeavesNothing, Active
    <2>4. JobHasCapture'
      BY <1>13 DEF MakeJobDir, Safe, FilesOK, IntakeInv, StepInv, JobHasCapture, Active, Checked
    <2> QED
      BY <2>1, <2>2, <2>3, <2>4 DEF Safe, IntakeInv
  <1>14. CASE MoveCapture(u)
    <2>1. FilesOK'
      BY <1>14 DEF MoveCapture, Safe, FilesOK, Active, Ended
    <2>2. ASSUME NEW v \in Uploads PROVE StepInv(v)'
      BY <1>14, <2>2 DEF MoveCapture, Safe, FilesOK, IntakeInv, StepInv, Active, Checked
    <2>3. RefusalLeavesNothing'
      BY <1>14 DEF MoveCapture, Safe, FilesOK, IntakeInv, StepInv, RefusalLeavesNothing, Active
    <2>4. JobHasCapture'
      BY <1>14
         DEF MoveCapture, Safe, FilesOK, IntakeInv, StepInv, JobHasCapture, Active, Checked
    <2> QED
      BY <2>1, <2>2, <2>3, <2>4 DEF Safe, IntakeInv
  <1>15. CASE MoveFails(u)
    <2>1. FilesOK'
      BY <1>15 DEF MoveFails, Safe, FilesOK, Active, Ended, Finish, abort_staged, Answers
    <2>2. ASSUME NEW v \in Uploads PROVE StepInv(v)'
      BY <1>15, <2>2
         DEF MoveFails, Safe, FilesOK, IntakeInv, StepInv, Active, Checked, Finish,
             abort_staged, Answers
    <2>3. RefusalLeavesNothing'
      BY <1>15
         DEF MoveFails, Safe, FilesOK, IntakeInv, StepInv, RefusalLeavesNothing, Active, Finish,
             abort_staged, Answers
    <2>4. JobHasCapture'
      BY <1>15
         DEF MoveFails, Safe, FilesOK, IntakeInv, StepInv, JobHasCapture, Active, Checked,
             Finish, abort_staged, Answers
    <2> QED
      BY <2>1, <2>2, <2>3, <2>4 DEF Safe, IntakeInv
  <1>16. CASE SaveStatus(u)
    <2>1. FilesOK'
      BY <1>16 DEF SaveStatus, Safe, FilesOK, Active, Ended, Finish, Answers
    <2>2. ASSUME NEW v \in Uploads PROVE StepInv(v)'
      BY <1>16, <2>2
         DEF SaveStatus, Safe, FilesOK, IntakeInv, StepInv, Active, Checked, Finish, Answers
    <2>3. RefusalLeavesNothing'
      BY <1>16
         DEF SaveStatus, Safe, FilesOK, IntakeInv, StepInv, RefusalLeavesNothing, Active,
             Finish, Answers
    <2>4. JobHasCapture'
      BY <1>16
         DEF SaveStatus, Safe, FilesOK, IntakeInv, StepInv, JobHasCapture, Active, Checked,
             Finish, Answers
    <2> QED
      BY <2>1, <2>2, <2>3, <2>4 DEF Safe, IntakeInv
  <1>17. CASE StepRaises(u)
    BY <1>17, RejectStep DEF StepRaises, Answers, Active
  <1> QED
    BY <1>1, <1>2, <1>3, <1>4, <1>5, <1>6, <1>7, <1>8, <1>9, <1>10, <1>11, <1>12, <1>13, <1>14, <1>15, <1>16, <1>17
       DEF ingest_capture

(* The worker ends jobs, and the process may die: neither touches the files. *)
LEMMA OtherStep ==
    ASSUME Safe, (\E u \in Uploads : JobEnds(u) \/ JobRewritten(u)) \/ ApiCrash
    PROVE  Safe'
  <1> USE DEF request
  <1>1. CASE \E u \in Uploads : JobEnds(u) \/ JobRewritten(u)
    BY <1>1 DEF JobEnds, JobRewritten, Safe, FilesOK, IntakeInv, StepInv, RefusalLeavesNothing, JobHasCapture,
                Active, Checked, Ended
  <1>2. CASE ApiCrash
    <2>1. FilesOK'
      BY <1>2 DEF ApiCrash, Safe, FilesOK
    <2>2. ASSUME NEW v \in Uploads PROVE StepInv(v)'
      BY <1>2, <2>2 DEF ApiCrash, InFlight, Safe, FilesOK, IntakeInv, StepInv, Active, Checked
    <2> QED
      BY <1>2, <2>1, <2>2 DEF ApiCrash, Safe, IntakeInv, RefusalLeavesNothing, JobHasCapture
  <1> QED
    BY <1>1, <1>2

(* The invariant holds in every state of every behaviour. *)
LEMMA SafeAlways == Spec => []Safe
  <1>1. Safe /\ [Next]_vars => Safe'
    BY IngestStep, OtherStep, SafeStutter DEF Next
  <1> QED
    BY <1>1, SafeInit, PTL DEF Spec

(* Every job whose status.json exists has its directory and its complete,     *)
(* validated capture, also when uploads overlap and the API process dies.     *)
THEOREM JobsAreComplete == Spec => []JobHasCapture
  <1>1. Safe => JobHasCapture
    BY DEF Safe
  <1> QED
    BY <1>1, SafeAlways, PTL

(* An answered upload has no file in quarantine/, and one refused for its     *)
(* content, as a duplicate or for a quota takes no job slot.                  *)
THEOREM RefusalsLeaveNothing == Spec => []RefusalLeavesNothing
  <1>1. Safe => RefusalLeavesNothing
    BY DEF Safe
  <1> QED
    BY <1>1, SafeAlways, PTL

-----------------------------------------------------------------------------
(***************************************************************************)
(* Quota and duplicates: what the threads that overlap can do.             *)
(***************************************************************************)

(* Uploads that passed the count of job directories and have made none yet. *)
Counted == {u \in Uploads : pc[u] \in {"usage_jobs", "usage_parts", "mkdir"}}

(* Uploads that found no duplicate and have not saved their status yet. *)
Committing == {u \in Uploads : pc[u] \in Checked \ {"lookup"}}

(* Every upload in flight holds a thread, and the directories that are there or still  *)
(* to come stay within the quota and the other threads.                                *)
QuotaInv ==
    /\ threads \in Nat \ {0}
    /\ Cardinality(InFlight) <= threads
    /\ Cardinality(dirs \cup Counted) <= MaxJobs + threads - 1

(* The jobs of identity i a later upload may be given, and those still to come: an upload *)
(* that passes its lookup finds none of the first, and the others are in flight.          *)
Claimed(i) == Reusable(i) \cup {u \in Committing : ident[u] = i}

ReuseInv == \A i \in Identities : Cardinality(Claimed(i)) <= threads

(* Counting sets of uploads. *)
LEMMA Counting ==
    /\ \A S \in SUBSET Uploads : IsFiniteSet(S) /\ Cardinality(S) \in Nat
    /\ \A S, T \in SUBSET Uploads : S \subseteq T => Cardinality(S) <= Cardinality(T)
    /\ \A S, T \in SUBSET Uploads : Cardinality(S \cup T) <= Cardinality(S) + Cardinality(T)
    /\ \A S \in SUBSET Uploads : \A u \in Uploads : Cardinality(S \cup {u}) <= Cardinality(S) + 1
    /\ \A S \in SUBSET Uploads : \A u, v \in S : Cardinality(S) <= 1 => u = v
  <1>1. \A S \in SUBSET Uploads : IsFiniteSet(S) /\ Cardinality(S) \in Nat
    BY UploadsAssumption, FS_Subset, FS_CardinalityType
  <1>2. ASSUME NEW S \in SUBSET Uploads, NEW T \in SUBSET Uploads
        PROVE  /\ S \subseteq T => Cardinality(S) <= Cardinality(T)
               /\ Cardinality(S \cup T) <= Cardinality(S) + Cardinality(T)
    <2>1. S \subseteq T => Cardinality(S) <= Cardinality(T)
      BY <1>1, FS_Subset
    <2>2. Cardinality(S \cap T) \in Nat
      BY <1>1
    <2>3. /\ Cardinality(S \cup T) = Cardinality(S) + Cardinality(T) - Cardinality(S \cap T)
          /\ Cardinality(S) \in Nat /\ Cardinality(T) \in Nat
      BY <1>1, FS_Union
    <2> QED
      BY <2>1, <2>2, <2>3
  <1>3. ASSUME NEW S \in SUBSET Uploads, NEW u \in Uploads
        PROVE  Cardinality(S \cup {u}) <= Cardinality(S) + 1
    BY <1>1, FS_AddElement
  <1>4. ASSUME NEW S \in SUBSET Uploads, NEW u \in S, NEW v \in S, Cardinality(S) <= 1
        PROVE  u = v
    <2>1. Cardinality(S) = 0 \/ Cardinality(S) = 1
      BY <1>1, <1>4
    <2> QED
      BY <2>1, <1>1, FS_EmptySet, FS_Singleton
  <1> QED
    BY <1>1, <1>2, <1>3, <1>4

(* Only OpenPart takes a thread, only the count lets an upload go on to make a directory. *)
LEMMA IngestCounts ==
    ASSUME Safe, NEW u \in Uploads, ingest_capture(u)
    PROVE  /\ threads' = threads
           /\ InFlight' \subseteq InFlight \/ (OpenPart(u) /\ InFlight' = InFlight \cup {u})
           /\ \/ dirs' \cup Counted' \subseteq dirs \cup Counted
              \/ /\ Cardinality(dirs) < MaxJobs /\ pc[u] = "count"
                 /\ dirs' = dirs /\ Counted' = Counted \cup {u}
  <1> USE DEF ingest_capture, Goto, Finish, abort_staged, Reject, request
  <1>1. pc' = [pc EXCEPT ![u] = pc'[u]] /\ threads' = threads
    BY DEF Safe, FilesOK, NeverStaged, OpenPart, WriteChunk, TooLarge, EmptyCapture, Staged,
           validate_magic, ReuseJob, NoDuplicate, CountJobs, UsageOfJobs, UsageOfParts,
           MakeJobDir, MoveCapture, MoveFails, SaveStatus, StepRaises
  <1>2. pc[u] = "idle" /\ ~OpenPart(u) => pc'[u] = "done"
    BY DEF Safe, FilesOK, NeverStaged, WriteChunk, TooLarge, EmptyCapture, Staged,
           validate_magic, ReuseJob, NoDuplicate, CountJobs, UsageOfJobs, UsageOfParts,
           MakeJobDir, MoveCapture, MoveFails, SaveStatus, StepRaises, Active
  <1>3. pc[u] \in {"idle"} \cup Active
    BY DEF NeverStaged, OpenPart, WriteChunk, TooLarge, EmptyCapture, Staged,
           validate_magic, ReuseJob, NoDuplicate, CountJobs, UsageOfJobs, UsageOfParts,
           MakeJobDir, MoveCapture, MoveFails, SaveStatus, StepRaises, Active
  <1>4. InFlight' \subseteq InFlight \/ (OpenPart(u) /\ InFlight' = InFlight \cup {u})
    <2>1. CASE OpenPart(u)
      BY <2>1 DEF OpenPart, InFlight, Safe, FilesOK, Active
    <2>2. CASE ~OpenPart(u)
      BY <1>1, <1>2, <1>3, <2>2 DEF InFlight, Safe, FilesOK, Active
    <2> QED
      BY <2>1, <2>2
  <1>5. \/ pc'[u] \notin {"usage_jobs", "usage_parts", "mkdir"} /\ dirs' \subseteq dirs
        \/ pc[u] \in {"usage_jobs", "usage_parts", "mkdir"} /\ dirs' \subseteq dirs \cup {u}
        \/ Cardinality(dirs) < MaxJobs /\ pc[u] = "count" /\ dirs' = dirs /\ pc'[u] = "usage_jobs"
    BY DEF Safe, FilesOK, NeverStaged, OpenPart, WriteChunk, TooLarge, EmptyCapture, Staged,
           validate_magic, ReuseJob, NoDuplicate, CountJobs, UsageOfJobs, UsageOfParts,
           MakeJobDir, MoveCapture, MoveFails, SaveStatus, StepRaises
  <1>6. \/ dirs' \cup Counted' \subseteq dirs \cup Counted
        \/ /\ Cardinality(dirs) < MaxJobs /\ pc[u] = "count"
           /\ dirs' = dirs /\ Counted' = Counted \cup {u}
    BY <1>1, <1>5 DEF Counted, Safe, FilesOK
  <1> QED
    BY <1>1, <1>4, <1>6

(* QuotaInv is inductive. *)
LEMMA QuotaStep == Safe /\ QuotaInv /\ [Next]_vars => QuotaInv'
  <1> SUFFICES ASSUME Safe, QuotaInv, [Next]_vars PROVE QuotaInv'
    OBVIOUS
  <1>1. ASSUME threads' = threads, InFlight' \subseteq InFlight,
               dirs' \cup Counted' \subseteq dirs \cup Counted,
               dirs' \in SUBSET Uploads
        PROVE  QuotaInv'
    <2>1. /\ InFlight \in SUBSET Uploads /\ InFlight' \in SUBSET Uploads
          /\ dirs \cup Counted \in SUBSET Uploads /\ dirs' \cup Counted' \in SUBSET Uploads
      BY <1>1 DEF InFlight, Counted, Safe, FilesOK
    <2>2. /\ Cardinality(InFlight') <= Cardinality(InFlight)
          /\ Cardinality(dirs' \cup Counted') <= Cardinality(dirs \cup Counted)
      BY <1>1, <2>1, Counting
    <2>3. /\ Cardinality(InFlight') \in Nat /\ Cardinality(InFlight) \in Nat
          /\ Cardinality(dirs' \cup Counted') \in Nat /\ Cardinality(dirs \cup Counted) \in Nat
      BY <2>1, Counting
    <2> QED
      BY <1>1, <2>2, <2>3, LimitAssumption DEF QuotaInv
  <1>2. CASE \E u \in Uploads : ingest_capture(u)
    <2>1. PICK u \in Uploads : ingest_capture(u)
      BY <1>2
    <2>2. dirs' \in SUBSET Uploads
      BY <2>1, IngestStep DEF Safe, FilesOK
    <2>3. /\ InFlight \in SUBSET Uploads /\ InFlight' \in SUBSET Uploads
          /\ Counted \in SUBSET Uploads /\ dirs \in SUBSET Uploads
      BY DEF InFlight, Counted, Safe, FilesOK
    <2>4. /\ threads' = threads
          /\ InFlight' \subseteq InFlight \/ (OpenPart(u) /\ InFlight' = InFlight \cup {u})
          /\ \/ dirs' \cup Counted' \subseteq dirs \cup Counted
             \/ /\ Cardinality(dirs) < MaxJobs /\ pc[u] = "count"
                /\ dirs' = dirs /\ Counted' = Counted \cup {u}
      BY <2>1, IngestCounts
    <2>5. Cardinality(InFlight') <= threads'
      <3>1. CASE InFlight' \subseteq InFlight
        <4>1. /\ Cardinality(InFlight') <= Cardinality(InFlight)
              /\ Cardinality(InFlight') \in Nat /\ Cardinality(InFlight) \in Nat
          BY <3>1, <2>3, Counting
        <4> QED
          BY <4>1, <2>4 DEF QuotaInv
      <3>2. CASE OpenPart(u) /\ InFlight' = InFlight \cup {u}
        <4>1. /\ Cardinality(InFlight') <= Cardinality(InFlight) + 1
              /\ Cardinality(InFlight') \in Nat /\ Cardinality(InFlight) \in Nat
          BY <3>2, <2>3, Counting
        <4>2. Cardinality(InFlight) < threads
          BY <3>2 DEF OpenPart
        <4> QED
          BY <4>1, <4>2, <2>4 DEF QuotaInv
      <3> QED
        BY <2>4, <3>1, <3>2
    <2>6. CASE dirs' \cup Counted' \subseteq dirs \cup Counted
      <3>1. dirs \cup Counted \in SUBSET Uploads /\ dirs' \cup Counted' \in SUBSET Uploads
        BY <2>2, <2>3, <2>6
      <3>2. /\ Cardinality(dirs' \cup Counted') <= Cardinality(dirs \cup Counted)
            /\ Cardinality(dirs' \cup Counted') \in Nat /\ Cardinality(dirs \cup Counted) \in Nat
        BY <3>1, <2>6, Counting
      <3> QED
        BY <3>2, <2>4, <2>5, LimitAssumption DEF QuotaInv
    <2>7. CASE /\ Cardinality(dirs) < MaxJobs /\ pc[u] = "count"
               /\ dirs' = dirs /\ Counted' = Counted \cup {u}
      <3>1. Counted \cup {u} \in SUBSET InFlight /\ Counted \cup {u} \in SUBSET Uploads
        BY <2>7 DEF Counted, InFlight, Active
      <3>2. Cardinality(Counted \cup {u}) <= Cardinality(InFlight)
        BY <3>1, <2>3, Counting
      <3>3. Cardinality(dirs \cup (Counted \cup {u}))
              <= Cardinality(dirs) + Cardinality(Counted \cup {u})
        BY <3>1, <2>3, Counting
      <3>4. /\ Cardinality(dirs) \in Nat /\ Cardinality(Counted \cup {u}) \in Nat
            /\ Cardinality(InFlight) \in Nat
            /\ Cardinality(dirs \cup (Counted \cup {u})) \in Nat
        BY <3>1, <2>3, Counting
      <3>5. Cardinality(dirs \cup (Counted \cup {u})) <= MaxJobs + threads - 1
        BY <3>2, <3>3, <3>4, <2>7, LimitAssumption DEF QuotaInv
      <3> QED
        BY <3>5, <2>7, <2>4, <2>5 DEF QuotaInv
    <2> QED
      BY <2>4, <2>6, <2>7
  <1>3. CASE \E u \in Uploads : JobEnds(u) \/ JobRewritten(u)
    BY <1>3, <1>1 DEF JobEnds, JobRewritten, request, InFlight, Counted, Safe, FilesOK
  <1>4. CASE ApiCrash
    <2>1. InFlight' \subseteq InFlight /\ Counted' \subseteq Counted
      BY <1>4 DEF ApiCrash, InFlight, Counted, Active, Safe, FilesOK
    <2> QED
      BY <1>4, <2>1, <1>1 DEF ApiCrash, request, Safe, FilesOK
  <1>5. CASE UNCHANGED vars
    BY <1>5, <1>1 DEF vars, InFlight, Counted, Safe, FilesOK
  <1> QED
    BY <1>2, <1>3, <1>4, <1>5 DEF Next

(* QuotaInv holds in every state of every behaviour. *)
LEMMA QuotaAlways == Spec => []QuotaInv
  <1>1. Init => QuotaInv
    <2> SUFFICES ASSUME Init PROVE QuotaInv
      OBVIOUS
    <2>1. InFlight = {} /\ dirs \cup Counted = {}
      BY DEF Init, InFlight, Counted, Active
    <2>2. threads \in Nat \ {0}
      BY LimitAssumption DEF Init
    <2> QED
      BY <2>1, <2>2, FS_EmptySet, LimitAssumption DEF QuotaInv
  <1> QED
    BY <1>1, QuotaStep, SafeAlways, PTL DEF Spec

(* With any number of threads, uploads and crashes, the job quota is overrun by fewer job  *)
(* directories than there are threads; with one thread it is never overrun.                *)
THEOREM JobQuotaOverrun == Spec => []JobOverrunBounded
  <1>1. Safe /\ QuotaInv => JobOverrunBounded
    <2> SUFFICES ASSUME Safe, QuotaInv PROVE JobOverrunBounded
      OBVIOUS
    <2>1. dirs \in SUBSET Uploads /\ dirs \cup Counted \in SUBSET Uploads
      BY DEF Safe, FilesOK, Counted
    <2>2. /\ Cardinality(dirs) <= Cardinality(dirs \cup Counted)
          /\ Cardinality(dirs) \in Nat /\ Cardinality(dirs \cup Counted) \in Nat
      BY <2>1, Counting
    <2> QED
      BY <2>2, LimitAssumption DEF QuotaInv, JobOverrunBounded
  <1> QED
    BY <1>1, SafeAlways, QuotaAlways, PTL

(* ReuseInv is inductive: only a lookup that finds nothing adds to what is claimed, and then *)
(* all of it is in flight.                                                                   *)
LEMMA ReuseStep == Safe /\ QuotaInv /\ ReuseInv /\ [Next]_vars => ReuseInv'
  <1> SUFFICES ASSUME Safe, QuotaInv, ReuseInv, [Next]_vars, NEW i \in Identities
               PROVE  Cardinality(Claimed(i)') <= threads'
    BY DEF ReuseInv
  <1>0. threads' = threads /\ ident' = ident
    BY DEF Next, ingest_capture, NeverStaged, OpenPart, WriteChunk, TooLarge, EmptyCapture,
           Staged, validate_magic, ReuseJob, NoDuplicate, CountJobs, UsageOfJobs, UsageOfParts,
           MakeJobDir, MoveCapture, MoveFails, SaveStatus, StepRaises, Reject, JobEnds,
           JobRewritten, ApiCrash, request, vars
  <1>1. /\ Claimed(i) \in SUBSET Uploads /\ Claimed(i)' \in SUBSET Uploads
        /\ InFlight \in SUBSET Uploads
    BY DEF Claimed, Reusable, Committing, InFlight
  <1>2. /\ Cardinality(Claimed(i)) \in Nat /\ Cardinality(Claimed(i)') \in Nat
        /\ Cardinality(InFlight) \in Nat /\ threads \in Nat
    BY <1>1, Counting DEF QuotaInv
  <1>3. ASSUME Claimed(i)' \subseteq Claimed(i) \/ Claimed(i)' \subseteq InFlight
        PROVE  Cardinality(Claimed(i)') <= threads'
    <2>1. \/ Cardinality(Claimed(i)') <= Cardinality(Claimed(i))
          \/ Cardinality(Claimed(i)') <= Cardinality(InFlight)
      BY <1>1, <1>3, Counting
    <2> QED
      BY <1>0, <1>2, <2>1 DEF ReuseInv, QuotaInv
  <1>4. ASSUME Committing' \subseteq Committing, revived \subseteq revived',
               \A v \in Uploads : status'[v] \in Live =>
                  status[v] \in Live \/ v \in revived' \/ v \in Committing
        PROVE  Cardinality(Claimed(i)') <= threads'
    <2>1. Claimed(i)' \subseteq Claimed(i)
      BY <1>0, <1>4 DEF Claimed, Reusable
    <2> QED
      BY <1>3, <2>1
  <1>5. CASE \E u \in Uploads : ingest_capture(u)
    <2>1. PICK u \in Uploads : ingest_capture(u)
      BY <1>5
    <2>2. \A v \in Uploads : v # u => pc'[v] = pc[v] /\ status'[v] = status[v]
      BY <2>1
      DEF ingest_capture, NeverStaged, OpenPart, WriteChunk, TooLarge, EmptyCapture, Staged,
          validate_magic, ReuseJob, NoDuplicate, CountJobs, UsageOfJobs, UsageOfParts,
          MakeJobDir, MoveCapture, MoveFails, SaveStatus, StepRaises, Reject, Finish, Goto,
          Safe, FilesOK
    <2>3. revived' = revived
      BY <2>1
      DEF ingest_capture, NeverStaged, OpenPart, WriteChunk, TooLarge, EmptyCapture, Staged,
          validate_magic, ReuseJob, NoDuplicate, CountJobs, UsageOfJobs, UsageOfParts,
          MakeJobDir, MoveCapture, MoveFails, SaveStatus, StepRaises, Reject, request
    <2>4. CASE NoDuplicate(u) /\ ident[u] = i
      <3>1. Reusable(i) = {} /\ status' = status /\ pc[u] = "lookup"
        BY <2>4 DEF NoDuplicate, Matches, Reusable
      <3>2. Claimed(i)' \subseteq InFlight
        BY <1>0, <2>2, <2>3, <3>1
        DEF Claimed, Reusable, Committing, Checked, InFlight, Active
      <3> QED
        BY <1>3, <3>2
    <2>5. CASE NoDuplicate(u) /\ ident[u] # i
      <3>1. status' = status
        BY <2>5 DEF NoDuplicate
      <3>2. Claimed(i)' \subseteq Claimed(i)
        BY <1>0, <2>2, <2>3, <2>5, <3>1 DEF Claimed, Reusable, Committing
      <3> QED
        BY <1>3, <3>2
    <2>6. CASE ~NoDuplicate(u)
      <3>1. pc'[u] \in Checked \ {"lookup"} => pc[u] \in Checked \ {"lookup"}
        BY <2>1, <2>6
        DEF ingest_capture, NeverStaged, OpenPart, WriteChunk, TooLarge, EmptyCapture, Staged,
            validate_magic, ReuseJob, CountJobs, UsageOfJobs, UsageOfParts,
            MakeJobDir, MoveCapture, MoveFails, SaveStatus, StepRaises, Reject, Finish, Goto,
            Checked, Safe, FilesOK
      <3>2. status'[u] = status[u] \/ pc[u] = "save"
        BY <2>1
        DEF ingest_capture, NeverStaged, OpenPart, WriteChunk, TooLarge, EmptyCapture, Staged,
            validate_magic, ReuseJob, NoDuplicate, CountJobs, UsageOfJobs, UsageOfParts,
            MakeJobDir, MoveCapture, MoveFails, SaveStatus, StepRaises, Reject
      <3>3. Committing' \subseteq Committing
        BY <2>2, <3>1 DEF Committing
      <3>4. \A v \in Uploads : status'[v] \in Live => status[v] \in Live \/ v \in Committing
        BY <2>2, <3>2 DEF Committing, Checked
      <3> QED
        BY <1>4, <2>3, <3>3, <3>4
    <2> QED
      BY <2>4, <2>5, <2>6
  <1>6. CASE \E u \in Uploads : JobEnds(u)
    <2>1. /\ Committing' = Committing /\ revived' = revived
          /\ \A v \in Uploads : status'[v] = status[v] \/ status[v] \in Live
      BY <1>6 DEF JobEnds, request, Live, Committing, Safe, FilesOK
    <2> QED
      BY <1>4, <2>1
  <1>7. CASE \E u \in Uploads : JobRewritten(u)
    <2>1. PICK u \in Uploads : JobRewritten(u)
      BY <1>7
    <2>2. /\ Committing' = Committing /\ revived \subseteq revived'
          /\ \A v \in Uploads : v # u => status'[v] = status[v]
      BY <2>1 DEF JobRewritten, Committing, Safe, FilesOK
    <2>3. status'[u] \in Live => status[u] \in Live \/ u \in revived'
      BY <2>1 DEF JobRewritten, Safe, FilesOK
    <2> QED
      BY <1>4, <2>2, <2>3
  <1>8. CASE ApiCrash
    <2>1. Committing' \subseteq Committing /\ status' = status /\ revived' = revived
      BY <1>8 DEF ApiCrash, request, Committing, Checked, Safe, FilesOK
    <2> QED
      BY <1>4, <2>1
  <1>9. CASE UNCHANGED vars
    <2>1. Committing' = Committing /\ status' = status /\ revived' = revived
      BY <1>9 DEF vars, Committing
    <2> QED
      BY <1>4, <2>1
  <1> QED
    BY <1>5, <1>6, <1>7, <1>8, <1>9 DEF Next

(* However uploads overlap, crash or find their job ended or written back, those of one      *)
(* capture become at most as many jobs at a time as there are threads between find_duplicate *)
(* and commit_staged, those a stale update_job brought back aside: one with one thread.      *)
THEOREM DuplicateJobsBounded == Spec => []DuplicatesBounded
  <1>1. Init => ReuseInv
    <2> SUFFICES ASSUME Init, NEW i \in Identities PROVE Cardinality(Claimed(i)) <= threads
      BY DEF ReuseInv
    <2>1. Claimed(i) = {}
      BY DEF Init, Claimed, Reusable, Committing, Checked, Live
    <2>2. threads \in Nat
      BY LimitAssumption DEF Init
    <2> QED
      BY <2>1, <2>2, FS_EmptySet
  <1>2. Safe /\ QuotaInv /\ ReuseInv => DuplicatesBounded
    <2> SUFFICES ASSUME Safe, QuotaInv, ReuseInv, NEW i \in Identities
                 PROVE  Cardinality(Reusable(i)) <= threads
      BY DEF DuplicatesBounded
    <2>1. Reusable(i) \in SUBSET Uploads /\ Claimed(i) \in SUBSET Uploads
      BY DEF Claimed, Reusable, Committing
    <2>2. /\ Cardinality(Reusable(i)) <= Cardinality(Claimed(i))
          /\ Cardinality(Reusable(i)) \in Nat /\ Cardinality(Claimed(i)) \in Nat
      BY <2>1, Counting DEF Claimed
    <2> QED
      BY <2>2 DEF ReuseInv, QuotaInv
  <1> QED
    BY <1>1, <1>2, ReuseStep, SafeAlways, QuotaAlways, PTL DEF Spec

-----------------------------------------------------------------------------
(***************************************************************************)
(* Sums.  _usage_bytes adds up files in the order the directory lists them: *)
(* a function on the subsets of a set that adds one element at a time,      *)
(* whichever it is, is the sum, and every finite set has one.               *)
(***************************************************************************)

LEMMA LeastExists ==
  ASSUME NEW S \in SUBSET Nat, S # {}
  PROVE  \E m \in S : \A x \in S : m <= x
<1>1. PICK m \in S : \A x \in S : ~(<<x, m>> \in OpToRel(<, Nat))
  BY NatLessThanWellFounded, WFMin
<1>2. \A x \in S : ~(x < m)
  BY <1>1 DEF OpToRel
<1> QED BY <1>2

AddsUp(g, f, S) ==
  /\ g \in [SUBSET S -> Nat] /\ g[{}] = 0
  /\ \A s \in SUBSET S : \A x \in s : g[s] = f[x] + g[s \ {x}]

LEMMA SumIs ==
  ASSUME NEW S, IsFiniteSet(S), NEW f, NEW g, AddsUp(g, f, S)
  PROVE  SumFunctionOnSet(f, S) = g[S]
<1> DEFINE Is(h) == h = [s \in SUBSET S |-> IF s = {} THEN 0
                            ELSE f[CHOOSE x \in s : TRUE] + h[s \ {CHOOSE x \in s : TRUE}]]
           iter == CHOOSE h : Is(h)
<1>1. SumFunctionOnSet(f, S) = iter[S]
  BY DEF SumFunctionOnSet, FoldFunctionOnSet, MapThenFoldSet
<1>2. Is(g)
  <2>1. \A s \in SUBSET S : g[s] = IF s = {} THEN 0
                            ELSE f[CHOOSE x \in s : TRUE] + g[s \ {CHOOSE x \in s : TRUE}]
    BY DEF AddsUp
  <2> QED BY <2>1 DEF AddsUp
<1>3. Is(iter)
  BY <1>2
<1> HIDE DEF iter
<1>4. \A s \in SUBSET S : iter[s] = IF s = {} THEN 0
                            ELSE f[CHOOSE x \in s : TRUE] + iter[s \ {CHOOSE x \in s : TRUE}]
  BY <1>3
<1> HIDE DEF Is
<1>5. \A s \in SUBSET S : iter[s] = g[s]
  <2> SUFFICES ASSUME \E s \in SUBSET S : iter[s] # g[s] PROVE FALSE
    OBVIOUS
  <2> DEFINE bad == {Cardinality(s) : s \in {t \in SUBSET S : iter[t] # g[t]}}
  <2>1. bad \in SUBSET Nat /\ bad # {}
    BY FS_Subset, FS_CardinalityType
  <2>2. PICK m \in bad : \A x \in bad : m <= x
    BY <2>1, LeastExists
  <2>3. PICK s \in SUBSET S : iter[s] # g[s] /\ Cardinality(s) = m
    BY <2>2
  <2>4. s # {}
    BY <1>4, <2>3 DEF AddsUp
  <2> DEFINE x == CHOOSE x \in s : TRUE
  <2>5. x \in s
    BY <2>4
  <2>6. iter[s] = f[x] + iter[s \ {x}]
    BY <1>4, <2>4
  <2> HIDE DEF x
  <2>7. g[s] = f[x] + g[s \ {x}]
    BY <2>5 DEF AddsUp
  <2>8. IsFiniteSet(s) /\ Cardinality(s) \in Nat /\ Cardinality(s \ {x}) = Cardinality(s) - 1
    BY <2>5, FS_Subset, FS_CardinalityType, FS_RemoveElement
  <2>9. s \ {x} \in SUBSET S /\ iter[s \ {x}] # g[s \ {x}]
    BY <2>3, <2>6, <2>7
  <2>10. Cardinality(s \ {x}) \in bad
    BY <2>9
  <2> HIDE DEF bad
  <2> QED BY <2>2, <2>3, <2>8, <2>10
<1> QED BY <1>1, <1>5

LEMMA SumExists ==
  ASSUME NEW S, IsFiniteSet(S), NEW f, \A x \in S : f[x] \in Nat
  PROVE  \E g : AddsUp(g, f, S)
<1> DEFINE Has(t) == \E g : AddsUp(g, f, t)
<1> SUFFICES ASSUME ~Has(S) PROVE FALSE
  OBVIOUS
<1> DEFINE bad == {Cardinality(s) : s \in {t \in SUBSET S : ~Has(t)}}
<1>1. bad \in SUBSET Nat /\ bad # {}
  <2> HIDE DEF Has
  <2> QED BY FS_Subset, FS_CardinalityType
<1>2. PICK m \in bad : \A x \in bad : m <= x
  BY <1>1, LeastExists
<1>3. PICK s \in SUBSET S : ~Has(s) /\ Cardinality(s) = m
  BY <1>2
<1>4. s # {}
  <2> DEFINE g == [t \in SUBSET {} |-> 0]
  <2>1. AddsUp(g, f, {})
    BY DEF AddsUp
  <2> QED BY <1>3, <2>1
<1>5. PICK y \in s : TRUE
  BY <1>4
<1> DEFINE r == s \ {y}
<1>6. IsFiniteSet(s) /\ Cardinality(s) \in Nat /\ Cardinality(r) = Cardinality(s) - 1
  BY <1>5, FS_Subset, FS_CardinalityType, FS_RemoveElement
<1>7. r \in SUBSET S
  OBVIOUS
<1>8. Has(r)
  <2> SUFFICES ASSUME ~Has(r) PROVE FALSE
    OBVIOUS
  <2> HIDE DEF Has, r
  <2>1. Cardinality(r) \in bad
    BY <1>7
  <2> HIDE DEF bad
  <2> QED BY <1>2, <1>3, <1>6, <2>1
<1>9. PICK g : AddsUp(g, f, r)
  BY <1>8
<1> DEFINE h == [t \in SUBSET s |-> IF y \in t THEN f[y] + g[t \ {y}] ELSE g[t]]
<1>10. /\ \A t \in SUBSET s : t \ {y} \in SUBSET r /\ (y \notin t => t \in SUBSET r)
       /\ g \in [SUBSET r -> Nat] /\ f[y] \in Nat /\ g[{}] = 0
       /\ \A t \in SUBSET r : \A x \in t : g[t] = f[x] + g[t \ {x}]
  BY <1>5, <1>9 DEF AddsUp
<1>11. h \in [SUBSET s -> Nat] /\ h[{}] = 0
  <2> HIDE DEF r
  <2> QED BY <1>10
<1>12. ASSUME NEW t \in SUBSET s, NEW x \in t PROVE h[t] = f[x] + h[t \ {x}]
  <2> HIDE DEF r
  <2>1. CASE x = y
    BY <2>1
  <2>2. CASE x # y /\ y \in t
    <3>1. x \in t \ {y} /\ t \ {y} \in SUBSET r /\ f[x] \in Nat
      BY <1>10, <2>2
    <3>2. g[t \ {y}] = f[x] + g[(t \ {y}) \ {x}]
      BY <1>10, <3>1
    <3>3. (t \ {y}) \ {x} = (t \ {x}) \ {y} /\ (t \ {y}) \ {x} \in SUBSET r
      BY <3>1
    <3>4. h[t] = f[y] + g[t \ {y}] /\ h[t \ {x}] = f[y] + g[(t \ {x}) \ {y}]
      BY <2>2
    <3>5. g[(t \ {x}) \ {y}] \in Nat
      BY <1>10, <3>3
    <3> DEFINE q == g[(t \ {x}) \ {y}]
    <3>6. h[t] = f[y] + (f[x] + q) /\ h[t \ {x}] = f[y] + q
      BY <3>2, <3>3, <3>4
    <3>7. q \in Nat /\ f[x] \in Nat /\ f[y] \in Nat
      BY <1>10, <3>1, <3>5
    <3> HIDE DEF h, q
    <3> QED BY <3>6, <3>7
  <2>3. CASE x # y /\ y \notin t
    BY <1>10, <2>3
  <2> QED BY <2>1, <2>2, <2>3
<1>13. AddsUp(h, f, s)
  BY <1>11, <1>12 DEF AddsUp
<1> QED BY <1>3, <1>13

(* What the quotas need of a sum: it is a number, it depends only on what is added, and  *)
(* one more element adds its own share.                                                  *)
LEMMA SumFacts ==
  ASSUME NEW S, IsFiniteSet(S), NEW f, \A x \in S : f[x] \in Nat
  PROVE  /\ SumFunctionOnSet(f, S) \in Nat
         /\ \A h : (\A x \in S : h[x] = f[x]) => SumFunctionOnSet(h, S) = SumFunctionOnSet(f, S)
         /\ \A y : y \notin S /\ f[y] \in Nat =>
              SumFunctionOnSet(f, S \cup {y}) = SumFunctionOnSet(f, S) + f[y]
<1>1. PICK g : AddsUp(g, f, S)
  BY SumExists
<1>2. SumFunctionOnSet(f, S) = g[S] /\ g[S] \in Nat
  <2>1. SumFunctionOnSet(f, S) = g[S]
    BY <1>1, SumIs
  <2>2. g[S] \in Nat
    BY <1>1 DEF AddsUp
  <2> QED BY <2>1, <2>2
<1>3. ASSUME NEW h, \A x \in S : h[x] = f[x]
      PROVE  SumFunctionOnSet(h, S) = SumFunctionOnSet(f, S)
  <2>1. AddsUp(g, h, S)
    BY <1>1, <1>3 DEF AddsUp
  <2> QED BY <1>2, <2>1, SumIs
<1>4. ASSUME NEW y, y \notin S, f[y] \in Nat
      PROVE  SumFunctionOnSet(f, S \cup {y}) = SumFunctionOnSet(f, S) + f[y]
  <2> DEFINE T == S \cup {y}
  <2>1. IsFiniteSet(T) /\ \A x \in T : f[x] \in Nat
    BY <1>4, FS_AddElement
  <2>2. PICK k : AddsUp(k, f, T)
    <3> HIDE DEF T
    <3> QED BY <2>1, SumExists
  <2>3. SumFunctionOnSet(f, T) = k[T]
    <3> HIDE DEF T
    <3> QED BY <2>1, <2>2, SumIs
  <2>4. T \ {y} = S /\ T \in SUBSET T /\ y \in T /\ S \in SUBSET T
    BY <1>4
  <2>5. k[T] = f[y] + k[S] /\ k[S] \in Nat
    BY <2>2, <2>4 DEF AddsUp
  <2> DEFINE l == [s \in SUBSET S |-> k[s]]
  <2>6. AddsUp(l, f, S)
    BY <2>2 DEF AddsUp
  <2>7. SumFunctionOnSet(f, S) = k[S]
    <3>1. SumFunctionOnSet(f, S) = l[S]
      BY <2>6, SumIs
    <3> QED BY <3>1
  <2> QED BY <1>4, <2>3, <2>5, <2>7
<1> QED BY <1>2, <1>3, <1>4

-----------------------------------------------------------------------------
(***************************************************************************)
(* The data-root quota.                                                    *)
(***************************************************************************)

UsedOK == used \in [Uploads -> Nat]

(* What the only upload in flight has counted is still there, and nothing else has been  *)
(* stored: what it may still move to jobs/ fits.  Its own capture is not there yet.      *)
ByteInv ==
    threads = 1 =>
        /\ Total(captures) <= MaxBytes
        /\ \A u \in captures : pc[u] \in {"save", "done", "lost"}
        /\ \A u \in Uploads : pc[u] = "usage_parts" => used[u] = Total(captures)
        /\ \A u \in Uploads : pc[u] \in {"mkdir", "move"} =>
             Total(captures) + bytes[u] <= MaxBytes

(* Sums over uploads, in this state and the next. *)
LEMMA Totals ==
    ASSUME Safe
    PROVE  /\ \A S \in SUBSET Uploads : Total(S) \in Nat
           /\ \A S \in SUBSET Uploads : \A u \in Uploads \ S :
                Total(S \cup {u}) = Total(S) + bytes[u]
           /\ \A S \in SUBSET Uploads : (\A u \in S : bytes'[u] = bytes[u]) =>
                SumFunctionOnSet(bytes', S) = Total(S)
  <1>1. \A S \in SUBSET Uploads : IsFiniteSet(S) /\ \A x \in S : bytes[x] \in Nat
    BY Counting DEF Safe, FilesOK
  <1>2. \A u \in Uploads : bytes[u] \in Nat
    BY DEF Safe, FilesOK
  <1>3. ASSUME NEW S \in SUBSET Uploads
        PROVE  /\ Total(S) \in Nat
               /\ \A u \in Uploads \ S : Total(S \cup {u}) = Total(S) + bytes[u]
               /\ (\A u \in S : bytes'[u] = bytes[u]) => SumFunctionOnSet(bytes', S) = Total(S)
    <2>1. /\ SumFunctionOnSet(bytes, S) \in Nat
          /\ \A y : y \notin S /\ bytes[y] \in Nat =>
               SumFunctionOnSet(bytes, S \cup {y}) = SumFunctionOnSet(bytes, S) + bytes[y]
      BY <1>1, SumFacts
    <2>2. (\A u \in S : bytes'[u] = bytes[u])
            => SumFunctionOnSet(bytes', S) = SumFunctionOnSet(bytes, S)
      BY <1>1, SumFacts
    <2> QED
      BY <1>2, <2>1, <2>2 DEF Total
  <1> QED
    BY <1>3

(* Only _usage_bytes writes the running total, and it writes a sum. *)
LEMMA UsedStep == Safe /\ UsedOK /\ [Next]_vars => UsedOK'
  <1> SUFFICES ASSUME Safe, UsedOK, [Next]_vars PROVE UsedOK'
    OBVIOUS
  <1>1. Total(captures) \in Nat
    BY Totals DEF Safe, FilesOK
  <1>2. used' = used \/ \E u \in Uploads : used' = [used EXCEPT ![u] = Total(captures)]
    BY DEF Next, ingest_capture, NeverStaged, OpenPart, WriteChunk, TooLarge, EmptyCapture,
           Staged, validate_magic, ReuseJob, NoDuplicate, CountJobs, UsageOfJobs, UsageOfParts,
           MakeJobDir, MoveCapture, MoveFails, SaveStatus, StepRaises, Reject, JobEnds,
           JobRewritten, ApiCrash, request, vars
  <1> QED
    BY <1>1, <1>2 DEF UsedOK

(* ByteInv is inductive: between the count of the only upload in flight and its commit  *)
(* nothing is stored, and what it moves to jobs/ is what it counted.                    *)
LEMMA ByteStep == Safe /\ QuotaInv /\ UsedOK /\ ByteInv /\ [Next]_vars => ByteInv'
  <1> SUFFICES ASSUME Safe, QuotaInv, UsedOK, ByteInv, [Next]_vars, threads' = 1
               PROVE  /\ Total(captures)' <= MaxBytes
                      /\ \A u \in captures' : pc'[u] \in {"save", "done", "lost"}
                      /\ \A u \in Uploads : pc'[u] = "usage_parts" => used'[u] = Total(captures)'
                      /\ \A u \in Uploads : pc'[u] \in {"mkdir", "move"} =>
                           Total(captures)' + bytes'[u] <= MaxBytes
    BY DEF ByteInv
  <1>0. threads = 1
    BY DEF Next, ingest_capture, NeverStaged, OpenPart, WriteChunk, TooLarge, EmptyCapture,
           Staged, validate_magic, ReuseJob, NoDuplicate, CountJobs, UsageOfJobs, UsageOfParts,
           MakeJobDir, MoveCapture, MoveFails, SaveStatus, StepRaises, Reject, JobEnds,
           JobRewritten, ApiCrash, request, vars
  <1>1. /\ Total(captures) <= MaxBytes
        /\ \A u \in captures : pc[u] \in {"save", "done", "lost"}
        /\ \A u \in Uploads : pc[u] = "usage_parts" => used[u] = Total(captures)
        /\ \A u \in Uploads : pc[u] \in {"mkdir", "move"} => Total(captures) + bytes[u] <= MaxBytes
    BY <1>0 DEF ByteInv
  <1>2. \A u, v \in InFlight : u = v
    <2>1. InFlight \in SUBSET Uploads /\ Cardinality(InFlight) <= 1
      BY <1>0 DEF InFlight, QuotaInv
    <2> QED
      BY <2>1, Counting
  <1>3. /\ captures \in SUBSET Uploads /\ parts \in SUBSET Uploads
        /\ Total(captures) \in Nat /\ Total(parts) \in Nat /\ MaxBytes \in Nat
        /\ \A u \in Uploads : bytes[u] \in Nat
        /\ pc \in [Uploads -> Active \cup {"idle", "done", "lost"}]
    BY Totals, LimitAssumption DEF Safe, FilesOK
  (* Steps that store nothing. *)
  <1>4. ASSUME captures' = captures, \A u \in captures : bytes'[u] = bytes[u]
        PROVE  Total(captures)' = Total(captures)
    <2>1. Total(captures)' = SumFunctionOnSet(bytes', captures')
      BY DEF Total
    <2>2. SumFunctionOnSet(bytes', captures) = Total(captures)
      BY <1>3, <1>4, Totals DEF Total
    <2> QED
      BY <1>4, <2>1, <2>2
  <1>5. ASSUME UNCHANGED <<captures, bytes, used>>,
               \A u \in Uploads : \/ pc'[u] = pc[u]
                                  \/ pc'[u] \notin {"usage_parts", "mkdir", "move"}
                                  \/ pc[u] = "mkdir" /\ pc'[u] = "move",
               \A u \in captures : pc'[u] \in {"save", "done", "lost"}
        PROVE  /\ Total(captures)' <= MaxBytes
               /\ \A u \in captures' : pc'[u] \in {"save", "done", "lost"}
               /\ \A u \in Uploads : pc'[u] = "usage_parts" => used'[u] = Total(captures)'
               /\ \A u \in Uploads : pc'[u] \in {"mkdir", "move"} =>
                    Total(captures)' + bytes'[u] <= MaxBytes
    BY <1>1, <1>4, <1>5
  <1>6. CASE \E u \in Uploads : ingest_capture(u)
    <2>1. PICK u \in Uploads : ingest_capture(u)
      BY <1>6
    <2>2. CASE WriteChunk(u)
      <3>1. /\ captures' = captures /\ pc' = pc /\ used' = used /\ pc[u] = "streaming"
            /\ \A v \in Uploads : v # u => bytes'[v] = bytes[v]
        BY <2>2 DEF WriteChunk, Safe, FilesOK
      <3>2. u \notin captures
        BY <1>1, <3>1
      <3>3. Total(captures)' = Total(captures)
        BY <1>3, <1>4, <3>1, <3>2
      <3> QED
        BY <1>1, <3>1, <3>3
    <2>3. CASE UsageOfJobs(u)
      <3>1. /\ captures' = captures /\ bytes' = bytes /\ pc[u] = "usage_jobs"
            /\ pc' = [pc EXCEPT ![u] = "usage_parts"]
            /\ used' = [used EXCEPT ![u] = Total(captures)]
        BY <2>3 DEF UsageOfJobs, Goto
      <3>2. Total(captures)' = Total(captures)
        BY <1>4, <3>1
      <3>3. \A v \in Uploads : v # u => pc'[v] \notin {"usage_parts", "mkdir", "move"}
        BY <1>2, <1>3, <3>1 DEF InFlight, Active
      <3>4. u \notin captures
        BY <1>1, <3>1
      <3>5. used'[u] = Total(captures)
        BY <3>1 DEF UsedOK
      <3> QED
        BY <1>1, <1>3, <3>1, <3>2, <3>3, <3>4, <3>5
    <2>4. CASE UsageOfParts(u)
      <3>1. /\ captures' = captures /\ bytes' = bytes /\ used' = used /\ pc[u] = "usage_parts"
            /\ \/ pc' = [pc EXCEPT ![u] = "done"]
               \/ /\ used[u] + Total(parts) + bytes[u] <= MaxBytes
                  /\ pc' = [pc EXCEPT ![u] = "mkdir"]
        BY <2>4 DEF UsageOfParts, Goto, Reject, Finish
      <3>2. Total(captures)' = Total(captures)
        BY <1>4, <3>1
      <3>3. used[u] = Total(captures)
        BY <1>1, <3>1
      <3>4. \A v \in Uploads : v # u => pc'[v] = pc[v]
        BY <1>3, <3>1
      <3>5. pc'[u] = "done" \/ (pc'[u] = "mkdir" /\ Total(captures) + bytes[u] <= MaxBytes)
        BY <1>3, <3>1, <3>3
      <3>6. u \notin captures
        BY <1>1, <3>1
      <3> QED
        BY <1>1, <1>3, <3>1, <3>2, <3>4, <3>5, <3>6
    <2>5. CASE MoveCapture(u)
      <3>1. /\ captures' = captures \cup {u} /\ bytes' = bytes /\ used' = used
            /\ pc[u] = "move" /\ pc' = [pc EXCEPT ![u] = "save"]
        BY <2>5 DEF MoveCapture, Goto
      <3>2. u \notin captures /\ Total(captures) + bytes[u] <= MaxBytes
        BY <1>1, <3>1
      <3>3. Total(captures \cup {u}) = Total(captures) + bytes[u]
        BY <1>3, <3>2, Totals
      <3>4. Total(captures)' = Total(captures \cup {u})
        BY <3>1 DEF Total
      <3>5. \A v \in Uploads : v # u => pc'[v] \notin {"usage_parts", "mkdir", "move"}
        BY <1>2, <1>3, <3>1 DEF InFlight, Active
      <3> QED
        BY <1>1, <1>3, <3>1, <3>2, <3>3, <3>4, <3>5
    <2>6. CASE ~(WriteChunk(u) \/ UsageOfJobs(u) \/ UsageOfParts(u) \/ MoveCapture(u))
      <3>1. UNCHANGED <<captures, bytes, used>>
        BY <2>1, <2>6
        DEF ingest_capture, NeverStaged, OpenPart, TooLarge, EmptyCapture, Staged,
            validate_magic, ReuseJob, NoDuplicate, CountJobs, MakeJobDir, MoveFails, SaveStatus,
            StepRaises, Reject
      <3>2. \/ \E l \in {"streaming", "validate", "lookup", "count", "usage_jobs"} :
                  pc[u] \notin {"save", "done", "lost"} /\ pc' = [pc EXCEPT ![u] = l]
            \/ pc' = [pc EXCEPT ![u] = "done"]
            \/ pc[u] = "mkdir" /\ pc' = [pc EXCEPT ![u] = "move"]
        BY <2>1, <2>6
        DEF ingest_capture, NeverStaged, OpenPart, TooLarge, EmptyCapture, Staged,
            validate_magic, ReuseJob, NoDuplicate, CountJobs, MakeJobDir, MoveFails, SaveStatus,
            StepRaises, Reject, Finish, Goto
      <3> QED
        BY <1>1, <1>3, <1>5, <3>1, <3>2
    <2> QED
      BY <2>2, <2>3, <2>4, <2>5, <2>6
  <1>7. CASE \E u \in Uploads : JobEnds(u) \/ JobRewritten(u)
    BY <1>1, <1>5, <1>7 DEF JobEnds, JobRewritten
  <1>8. CASE ApiCrash
    <2>1. \A u \in Uploads : pc'[u] = pc[u] \/ pc'[u] = "lost"
      BY <1>3, <1>8 DEF ApiCrash
    <2> QED
      BY <1>1, <1>3, <1>5, <1>8, <2>1 DEF ApiCrash
  <1>9. CASE UNCHANGED vars
    BY <1>1, <1>5, <1>9 DEF vars
  <1> QED
    BY <1>6, <1>7, <1>8, <1>9 DEF Next

(* An API process that serves one upload at a time never stores more than the data root  *)
(* may hold, whatever sizes the captures have and wherever earlier processes died        *)
(* (commit_staged, _usage_bytes).                                                        *)
THEOREM SerialUploadsFit == Spec => []SerialByteLimit
  <1>1. Init => UsedOK /\ ByteInv
    <2> SUFFICES ASSUME Init PROVE UsedOK /\ ByteInv
      OBVIOUS
    <2>1. Total(captures) = 0
      <3> DEFINE g == [s \in SUBSET {} |-> 0]
      <3>1. AddsUp(g, bytes, {})
        BY DEF AddsUp
      <3>2. SumFunctionOnSet(bytes, {}) = g[{}]
        BY <3>1, SumIs, FS_EmptySet
      <3> QED
        BY <3>2 DEF Init, Total
    <2> QED
      BY <2>1, LimitAssumption DEF Init, UsedOK, ByteInv
  <1>2. ByteInv => SerialByteLimit
    BY DEF ByteInv, SerialByteLimit
  <1> QED
    BY <1>1, <1>2, UsedStep, ByteStep, SafeAlways, QuotaAlways, PTL DEF Spec
===============================================================================

---------------------------- MODULE JobLifecycle ----------------------------
(***************************************************************************)
(* What the control plane promises about a job, as a user of the API sees  *)
(* it (docs/operations/job-lifecycle.md): a submitted job is queued, is    *)
(* claimed once, publishes its report only while it runs, and ends in one  *)
(* terminal status that says truthfully whether a report was published.    *)
(***************************************************************************)
EXTENDS JobRecords

CONSTANT Runs

VARIABLES phase,     \* phase[r]: the status of r, "absent" before its upload
          visible    \* runs whose report is in the catalog

Init ==
    /\ phase = [r \in Runs |-> "absent"]
    /\ visible = {}

Move(r, from, to) ==
    /\ phase[r] = from
    /\ phase' = [phase EXCEPT ![r] = to]
    /\ UNCHANGED visible

Submit(r) == Move(r, "absent", "queued")

Claim(r) == Move(r, "queued", "running")

PublishReport(r) ==
    /\ phase[r] = "running"
    /\ visible' = visible \cup {r}
    /\ UNCHANGED phase

Complete(r) == r \in visible /\ Move(r, "running", "completed")

Abort(r) == Move(r, "running", "failed")

CancelQueued(r) == Move(r, "queued", "cancelled")

CancelRunning(r) == r \notin visible /\ Move(r, "running", "cancelled")

Next ==
    \E r \in Runs : \/ Submit(r) \/ Claim(r) \/ PublishReport(r) \/ Complete(r)
                    \/ Abort(r) \/ CancelQueued(r) \/ CancelRunning(r)

Spec == Init /\ [][Next]_<<phase, visible>>
=============================================================================

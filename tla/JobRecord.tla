------------------------------- MODULE JobRecord -------------------------------
(***************************************************************************)
(* What the document jobs/{id}/state.json holds and what one call of a     *)
(* JobService method does to it (services/job_service.py, schemas.py).     *)
(* Every method is a function from the document it read to the document it *)
(* writes back; a method that returns early gives the document back as it  *)
(* was.  JobService applies these functions atomically, JobStateFile under *)
(* the lock protocol of the code.                                          *)
(***************************************************************************)
CONSTANT Files          \* the primary files of the job, one subtask each

\* create_job refuses a request without a primary file (api/jobs.py:308).
ASSUME FilesAssumption == Files # {}

SubtaskStatus == {"pending", "running", "done", "failed", "cancelled"}
JobStatus     == {"pending", "running", "done", "failed", "cancelled"}

Counted  == {"done", "failed"}                  \* what done + failed counts
Terminal == {"done", "failed", "cancelled"}

JobState ==
  [status              : JobStatus,
   subtasks            : [Files -> SubtaskStatus],
   cancel_requested    : BOOLEAN,
   download_started_at : BOOLEAN]

(* The document that `create` writes. *)
NewState ==
  [status              |-> "pending",
   subtasks            |-> [f \in Files |-> "pending"],
   cancel_requested    |-> FALSE,
   download_started_at |-> FALSE]

--------------------------------------------------------------------------------
(* The two transition tables.  A definition named Mutant... is never used:  *)
(* it is the definition below it with a bug put in, for showing that the   *)
(* properties notice the bug.                                              *)

MutantRetryFailed ==
  [s \in SubtaskStatus |->
     IF s = "pending" THEN {"running", "done", "failed", "cancelled"}
     ELSE IF s \in {"running", "failed"} THEN {"done", "failed", "cancelled"}
     ELSE {}]

SUBTASK_TRANSITIONS ==
  [s \in SubtaskStatus |->
     IF s = "pending" THEN {"running", "done", "failed", "cancelled"}
     ELSE IF s = "running" THEN {"done", "failed", "cancelled"}
     ELSE {}]

JOB_TRANSITIONS ==
  [s \in JobStatus |->
     IF s = "pending" THEN {"running", "done", "failed", "cancelled"}
     ELSE IF s = "running" THEN {"done", "failed", "cancelled"}
     ELSE {}]

(* _transition: a same-state call and an illegal one both leave the status *)
(* alone (the exception is caught and logged by _apply_transition).        *)
Legal(table, current, target) == target # current /\ target \in table[current]

Apply(table, current, target) ==
  IF Legal(table, current, target) THEN target ELSE current

MovesSub(s, f, target) == Legal(SUBTASK_TRANSITIONS, s.subtasks[f], target)
MovesJob(s, target)    == Apply(JOB_TRANSITIONS, s.status, target)

(* state.done + state.failed == state.total *)
AllCounted(s) == \A f \in Files : s.subtasks[f] \in Counted
AnyFailed(s)  == \E f \in Files : s.subtasks[f] = "failed"
AllFailed(s)  == \A f \in Files : s.subtasks[f] = "failed"

--------------------------------------------------------------------------------
(* The methods. *)

WithSub(s, f, target) == [s EXCEPT !.subtasks[f] = target]

AfterMarkRunning(s, f) ==
  IF MovesSub(s, f, "running")
    THEN [WithSub(s, f, "running") EXCEPT !.status = MovesJob(s, "running")]
    ELSE s

MutantDoneIgnoresFailed(s, f) ==
  LET t == WithSub(s, f, "done")
  IN  IF ~ MovesSub(s, f, "done") THEN s
      ELSE IF AllCounted(t) THEN [t EXCEPT !.status = MovesJob(t, "done")]
      ELSE t

(* The call that counts the last subtask moves the job as well. *)
AfterMarkDone(s, f) ==
  LET t      == WithSub(s, f, "done")
      target == IF AnyFailed(t) THEN "failed" ELSE "done"
  IN  IF ~ MovesSub(s, f, "done") THEN s
      ELSE IF AllCounted(t) THEN [t EXCEPT !.status = MovesJob(t, target)]
      ELSE t

AfterMarkFailed(s, f) ==
  LET t == WithSub(s, f, "failed")
  IN  IF ~ MovesSub(s, f, "failed") THEN s
      ELSE IF AllCounted(t) THEN [t EXCEPT !.status = MovesJob(t, "failed")]
      ELSE t

MutantLastOnRepeat(s, f, target) == AllCounted(WithSub(s, f, target))

(* The boolean mark_done and mark_failed return: this call moved the       *)
(* subtask, and with it every subtask of the job is counted.  The job's    *)
(* own transition may have been refused (a cancelled job); the answer is   *)
(* TRUE all the same.                                                      *)
IsLast(s, f, target) ==
  MovesSub(s, f, target) /\ AllCounted(WithSub(s, f, target))

Answer(s, f, target) == IF IsLast(s, f, target) THEN 1 ELSE 0

MutantSubtaskCancelled(s, f) ==
  IF MovesSub(s, f, "cancelled") THEN WithSub(s, f, "canceled") ELSE s

AfterMarkSubtaskCancelled(s, f) ==
  IF MovesSub(s, f, "cancelled") THEN WithSub(s, f, "cancelled") ELSE s

MutantCancelKeepsStatus(s) == [s EXCEPT !.cancel_requested = TRUE]

(* The request is recorded even when the job is already terminal. *)
AfterMarkCancelled(s) ==
  [s EXCEPT !.status = MovesJob(s, "cancelled"), !.cancel_requested = TRUE]

AfterMarkDownloadStarted(s) == [s EXCEPT !.download_started_at = TRUE]

--------------------------------------------------------------------------------
(* s is t, or a document the same job had before t. *)
Behind(s, t) ==
  /\ s.status = t.status \/ Legal(JOB_TRANSITIONS, s.status, t.status)
  /\ \A f \in Files :
       \/ s.subtasks[f] = t.subtasks[f]
       \/ Legal(SUBTASK_TRANSITIONS, s.subtasks[f], t.subtasks[f])
  /\ s.cancel_requested => t.cancel_requested
  /\ s.download_started_at => t.download_started_at
================================================================================

------------------------------ MODULE JobService ------------------------------
(***************************************************************************)
(* What JobService promises of one job: each mark_* call is one atomic     *)
(* change of the job's document, whoever makes it and in whatever order.   *)
(* `create` has written the document; deleting it is not part of this      *)
(* module (the cleanup service removes the directory behind the back of    *)
(* the job service).                                                       *)
(*                                                                         *)
(* The callers are the RQ workers, the recovery scan and the API.  They    *)
(* are bound by two rules only: the Redis flag is set by mark_cancelled    *)
(* after its write, and a subtask is marked cancelled only by a worker     *)
(* that saw the flag.                                                      *)
(***************************************************************************)
EXTENDS JobRecord, Naturals

VARIABLES
  state,       \* the document
  cancelFlag,  \* Redis key job:{id}:cancel
  answers      \* history: how many calls of mark_done, mark_failed were TRUE

vars == <<state, cancelFlag, answers>>

TypeOK ==
  /\ state \in JobState
  /\ cancelFlag \in BOOLEAN
  /\ answers \in Nat

Init ==
  /\ state = NewState
  /\ cancelFlag = FALSE
  /\ answers = 0

--------------------------------------------------------------------------------
MarkRunning(f) ==
  /\ state' = AfterMarkRunning(state, f)
  /\ UNCHANGED <<cancelFlag, answers>>

MarkDone(f) ==
  /\ state' = AfterMarkDone(state, f)
  /\ answers' = answers + Answer(state, f, "done")
  /\ UNCHANGED cancelFlag

MarkFailed(f) ==
  /\ state' = AfterMarkFailed(state, f)
  /\ answers' = answers + Answer(state, f, "failed")
  /\ UNCHANGED cancelFlag

MutantCancelUnasked(f) ==
  /\ state' = AfterMarkSubtaskCancelled(state, f)
  /\ UNCHANGED <<cancelFlag, answers>>

MarkSubtaskCancelled(f) ==
  /\ cancelFlag
  /\ state' = AfterMarkSubtaskCancelled(state, f)
  /\ UNCHANGED <<cancelFlag, answers>>

(* mark_cancelled is two writes to two stores, so two steps. *)
MarkCancelled ==
  /\ state' = AfterMarkCancelled(state)
  /\ UNCHANGED <<cancelFlag, answers>>

SetCancelFlag ==
  /\ state.cancel_requested
  /\ cancelFlag' = TRUE
  /\ UNCHANGED <<state, answers>>

MarkDownloadStarted ==
  /\ state' = AfterMarkDownloadStarted(state)
  /\ UNCHANGED <<cancelFlag, answers>>

Next ==
  \/ \E f \in Files :
       \/ MarkRunning(f)
       \/ MarkDone(f)
       \/ MarkFailed(f)
       \/ MarkSubtaskCancelled(f)
  \/ MarkCancelled
  \/ SetCancelFlag
  \/ MarkDownloadStarted

Spec == Init /\ [][Next]_vars

--------------------------------------------------------------------------------
(* Properties.                                                             *)

(* The job's status tells what its subtasks ended as: `done` only when     *)
(* every file is converted, `failed` only when all are settled and one     *)
(* failed, and a job whose subtasks have all settled is never left         *)
(* pending or running, whichever of two racing calls was the last one.     *)
(* A reader that trusts the status (finalize_job, the recovery scan, the   *)
(* job page) relies on it.                                                 *)
StatusMatchesSubtasks ==
  /\ state.status = "done" => \A f \in Files : state.subtasks[f] = "done"
  /\ state.status = "failed" => AllCounted(state) /\ AnyFailed(state)
  /\ AllCounted(state) => state.status \in Terminal

(* Without a cancel request no subtask is cancelled and the job is not     *)
(* either; so a job whose subtasks are all terminal is itself terminal:    *)
(* nothing is stuck waiting for a subtask that will not report.            *)
OnlyCancelCancels ==
  /\ ~ state.cancel_requested =>
       /\ state.status # "cancelled"
       /\ \A f \in Files : state.subtasks[f] # "cancelled"
  /\ state.cancel_requested => state.status \in Terminal
  /\ (\A f \in Files : state.subtasks[f] \in Terminal) =>
       state.status \in Terminal

(* "Callers use that flag to enqueue finalize_job exactly once": over all  *)
(* calls, by any number of workers and scans, exactly one answers TRUE,    *)
(* and it does so exactly when the last subtask has settled.               *)
LastAnsweredOnce ==
  answers = IF AllCounted(state) THEN 1 ELSE 0

(* Results are never taken back: a late, repeated or contradicting call    *)
(* leaves a settled subtask, a finished job, a cancel request and the      *)
(* start of the download grace period as they are.                         *)
TerminalIsFinal ==
  [][/\ state.status \in Terminal => state'.status = state.status
     /\ \A f \in Files :
          state.subtasks[f] \in Terminal =>
            state'.subtasks[f] = state.subtasks[f]
     /\ state.cancel_requested => state'.cancel_requested
     /\ state.download_started_at => state'.download_started_at]_vars
================================================================================

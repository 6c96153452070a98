---------------------------- MODULE JobRecordProofs ----------------------------
(***************************************************************************)
(* What the transition tables allow and what each method makes of a        *)
(* well-formed document, as lemmas.  The theorems about JobService and     *)
(* JobStateFile argue about the methods through these lemmas only.         *)
(***************************************************************************)
EXTENDS JobRecord, TLAPS

--------------------------------------------------------------------------------
(* Where the tables lead: from `pending` anywhere else, from `running` to  *)
(* a terminal status, from a terminal status nowhere.                      *)
LEMMA SubtaskTable ==
  ASSUME NEW c \in SubtaskStatus, NEW t \in SubtaskStatus
  PROVE  Legal(SUBTASK_TRANSITIONS, c, t)
           <=> \/ c = "pending" /\ t # "pending"
               \/ c = "running" /\ t \in Terminal
BY DEF Legal, SUBTASK_TRANSITIONS, SubtaskStatus, Terminal

LEMMA JobTable ==
  ASSUME NEW c \in JobStatus, NEW t \in JobStatus
  PROVE  Apply(JOB_TRANSITIONS, c, t)
           = IF \/ c = "pending"
                \/ c = "running" /\ t \in Terminal
             THEN t ELSE c
BY DEF Apply, Legal, JOB_TRANSITIONS, JobStatus, Terminal

(* How the document s becomes the document t when a call moves subtask f   *)
(* to `target`, a status that is counted: f moves, nothing else of the     *)
(* subtasks does, and an open job moves if f was the last to be counted.   *)
Settles(s, t, f, target) ==
  /\ s.subtasks[f] \in {"pending", "running"}
  /\ t.subtasks = [s.subtasks EXCEPT ![f] = target]
  /\ t.cancel_requested = s.cancel_requested
  /\ t.download_started_at = s.download_started_at
  /\ t.status =
       IF AllCounted(t) /\ s.status \in {"pending", "running"}
         THEN IF AnyFailed(t) THEN "failed" ELSE "done"
         ELSE s.status

(* A call of mark_done or mark_failed either is a repetition, which        *)
(* changes nothing and answers FALSE, or settles the subtask and answers   *)
(* whether every subtask is counted now (job_service.py:127-182).          *)
LEMMA MarkDoneSettles ==
  ASSUME NEW s \in JobState, NEW f \in Files
  PROVE  LET t == AfterMarkDone(s, f)
         IN  \/ t = s /\ ~ IsLast(s, f, "done") /\ s.subtasks[f] \in Terminal
             \/ /\ Settles(s, t, f, "done")
                /\ IsLast(s, f, "done") <=> AllCounted(t)
<1> DEFINE w == WithSub(s, f, "done")
           t == AfterMarkDone(s, f)
<1>1. s.subtasks[f] \in SubtaskStatus /\ s.status \in JobStatus
  BY DEF JobState
<1>2. MovesSub(s, f, "done") <=> s.subtasks[f] \in {"pending", "running"}
  BY <1>1, SubtaskTable DEF MovesSub, SubtaskStatus, Terminal
<1>3. CASE ~ MovesSub(s, f, "done")
  BY <1>1, <1>2, <1>3 DEF AfterMarkDone, IsLast, SubtaskStatus, Terminal
<1>4. CASE MovesSub(s, f, "done")
  <2>1. /\ w.subtasks = [s.subtasks EXCEPT ![f] = "done"]
        /\ w.status = s.status
        /\ w.cancel_requested = s.cancel_requested
        /\ w.download_started_at = s.download_started_at
        /\ w \in JobState
    BY DEF WithSub, JobState, SubtaskStatus
  <2>2. \A x \in {"done", "failed"} :
          MovesJob(w, x) = IF s.status \in {"pending", "running"}
                             THEN x ELSE s.status
    BY <1>1, <2>1, JobTable DEF MovesJob, JobStatus, Terminal
  <2>3. /\ t.subtasks = w.subtasks
        /\ t.cancel_requested = w.cancel_requested
        /\ t.download_started_at = w.download_started_at
        /\ t.status = IF AllCounted(w)
                        THEN MovesJob(w, IF AnyFailed(w) THEN "failed"
                                                         ELSE "done")
                        ELSE s.status
    BY <1>4, <2>1 DEF AfterMarkDone, JobState
  <2>4. (AllCounted(t) <=> AllCounted(w)) /\ (AnyFailed(t) <=> AnyFailed(w))
    BY <2>3 DEF AllCounted, AnyFailed
  <2>5. IsLast(s, f, "done") <=> AllCounted(w)
    BY <1>4 DEF IsLast
  <2> HIDE DEF w, t
  <2> QED  BY <1>2, <1>4, <2>1, <2>2, <2>3, <2>4, <2>5 DEF Settles, t
<1> QED  BY <1>3, <1>4

LEMMA MarkFailedSettles ==
  ASSUME NEW s \in JobState, NEW f \in Files
  PROVE  LET t == AfterMarkFailed(s, f)
         IN  \/ t = s /\ ~ IsLast(s, f, "failed") /\ s.subtasks[f] \in Terminal
             \/ /\ Settles(s, t, f, "failed")
                /\ IsLast(s, f, "failed") <=> AllCounted(t)
<1> DEFINE w == WithSub(s, f, "failed")
           t == AfterMarkFailed(s, f)
<1>1. s.subtasks[f] \in SubtaskStatus /\ s.status \in JobStatus
  BY DEF JobState
<1>2. MovesSub(s, f, "failed") <=> s.subtasks[f] \in {"pending", "running"}
  BY <1>1, SubtaskTable DEF MovesSub, SubtaskStatus, Terminal
<1>3. CASE ~ MovesSub(s, f, "failed")
  BY <1>1, <1>2, <1>3 DEF AfterMarkFailed, IsLast, SubtaskStatus, Terminal
<1>4. CASE MovesSub(s, f, "failed")
  <2>1. /\ w.subtasks = [s.subtasks EXCEPT ![f] = "failed"]
        /\ w.status = s.status
        /\ w.cancel_requested = s.cancel_requested
        /\ w.download_started_at = s.download_started_at
        /\ w \in JobState
    BY DEF WithSub, JobState, SubtaskStatus
  <2>2. MovesJob(w, "failed") = IF s.status \in {"pending", "running"}
                                  THEN "failed" ELSE s.status
    BY <1>1, <2>1, JobTable DEF MovesJob, JobStatus, Terminal
  <2>3. /\ t.subtasks = w.subtasks
        /\ t.cancel_requested = w.cancel_requested
        /\ t.download_started_at = w.download_started_at
        /\ t.status = IF AllCounted(w) THEN MovesJob(w, "failed") ELSE s.status
    BY <1>4, <2>1 DEF AfterMarkFailed, JobState
  <2>4. AllCounted(t) <=> AllCounted(w)
    BY <2>3 DEF AllCounted
  <2>5. AnyFailed(t)
    BY <2>1, <2>3 DEF AnyFailed, JobState
  <2>6. IsLast(s, f, "failed") <=> AllCounted(w)
    BY <1>4 DEF IsLast
  <2> HIDE DEF w, t
  <2> QED  BY <1>2, <1>4, <2>1, <2>2, <2>3, <2>4, <2>5, <2>6 DEF Settles, t
<1> QED  BY <1>3, <1>4

(* The other methods.  mark_running and mark_subtask_cancelled leave a     *)
(* settled subtask alone; no status is taken back by any of them.          *)
LEMMA MarkRunningEffect ==
  ASSUME NEW s \in JobState, NEW f \in Files
  PROVE  LET t == AfterMarkRunning(s, f)
         IN  \/ t = s
             \/ /\ s.subtasks[f] = "pending"
                /\ t.subtasks = [s.subtasks EXCEPT ![f] = "running"]
                /\ t.cancel_requested = s.cancel_requested
                /\ t.download_started_at = s.download_started_at
                /\ t.status = IF s.status = "pending" THEN "running"
                              ELSE s.status
<1>1. s.subtasks[f] \in SubtaskStatus /\ s.status \in JobStatus
  BY DEF JobState
<1>2. MovesSub(s, f, "running") <=> s.subtasks[f] = "pending"
  BY <1>1, SubtaskTable DEF MovesSub, SubtaskStatus, Terminal
<1>3. MovesJob(s, "running") = IF s.status = "pending" THEN "running"
                               ELSE s.status
  BY <1>1, JobTable DEF MovesJob, JobStatus, Terminal
<1> QED  BY <1>2, <1>3 DEF AfterMarkRunning, WithSub, JobState

LEMMA MarkSubtaskCancelledEffect ==
  ASSUME NEW s \in JobState, NEW f \in Files
  PROVE  LET t == AfterMarkSubtaskCancelled(s, f)
         IN  \/ t = s
             \/ /\ s.subtasks[f] \in {"pending", "running"}
                /\ t.subtasks = [s.subtasks EXCEPT ![f] = "cancelled"]
                /\ t.cancel_requested = s.cancel_requested
                /\ t.download_started_at = s.download_started_at
                /\ t.status = s.status
<1>1. s.subtasks[f] \in SubtaskStatus
  BY DEF JobState
<1>2. MovesSub(s, f, "cancelled") => s.subtasks[f] \in {"pending", "running"}
  BY <1>1, SubtaskTable DEF MovesSub, SubtaskStatus, Terminal
<1> QED  BY <1>2 DEF AfterMarkSubtaskCancelled, WithSub, JobState

LEMMA MarkCancelledEffect ==
  ASSUME NEW s \in JobState
  PROVE  LET t == AfterMarkCancelled(s)
         IN  /\ t.subtasks = s.subtasks
             /\ t.cancel_requested = TRUE
             /\ t.download_started_at = s.download_started_at
             /\ t.status = IF s.status \in {"pending", "running"}
                             THEN "cancelled" ELSE s.status
<1>1. MovesJob(s, "cancelled") = IF s.status \in {"pending", "running"}
                                   THEN "cancelled" ELSE s.status
  BY JobTable DEF MovesJob, JobState, JobStatus, Terminal
<1> QED  BY <1>1 DEF AfterMarkCancelled, JobState

LEMMA MarkDownloadStartedEffect ==
  ASSUME NEW s \in JobState
  PROVE  LET t == AfterMarkDownloadStarted(s)
         IN  /\ t.subtasks = s.subtasks
             /\ t.cancel_requested = s.cancel_requested
             /\ t.download_started_at = TRUE
             /\ t.status = s.status
BY DEF AfterMarkDownloadStarted, JobState

(* Every method gives back a well-formed document. *)
LEMMA MethodsKeepType ==
  ASSUME NEW s \in JobState, NEW f \in Files
  PROVE  /\ AfterMarkRunning(s, f) \in JobState
         /\ AfterMarkDone(s, f) \in JobState
         /\ AfterMarkFailed(s, f) \in JobState
         /\ AfterMarkSubtaskCancelled(s, f) \in JobState
         /\ AfterMarkCancelled(s) \in JobState
         /\ AfterMarkDownloadStarted(s) \in JobState
<1>1. \A x \in SubtaskStatus : WithSub(s, f, x) \in JobState
  BY DEF WithSub, JobState
<1>2. \A w \in JobState, x \in JobStatus : MovesJob(w, x) \in JobStatus
  BY DEF MovesJob, Apply, JobState
<1>3. \A w \in JobState, x \in JobStatus :
        [w EXCEPT !.status = MovesJob(w, x)] \in JobState
  BY <1>2 DEF JobState
<1>4. AfterMarkRunning(s, f) \in JobState
  <2>1. \A w \in JobState, y \in JobStatus : [w EXCEPT !.status = y] \in JobState
    BY DEF JobState
  <2> QED  BY <1>1, <1>2, <2>1 DEF AfterMarkRunning, SubtaskStatus, JobStatus
<1>5. AfterMarkDone(s, f) \in JobState
  BY <1>1, <1>3 DEF AfterMarkDone, SubtaskStatus, JobStatus
<1>6. AfterMarkFailed(s, f) \in JobState
  BY <1>1, <1>3 DEF AfterMarkFailed, SubtaskStatus, JobStatus
<1>7. AfterMarkSubtaskCancelled(s, f) \in JobState
  BY <1>1 DEF AfterMarkSubtaskCancelled, SubtaskStatus
<1>8. AfterMarkCancelled(s) \in JobState
  BY <1>2 DEF AfterMarkCancelled, JobState, JobStatus
<1>9. AfterMarkDownloadStarted(s) \in JobState
  BY DEF AfterMarkDownloadStarted, JobState
<1> QED  BY <1>4, <1>5, <1>6, <1>7, <1>8, <1>9

--------------------------------------------------------------------------------
(* Behind orders the documents of a job, and no method goes back in it.    *)
LEMMA BehindUnfolded ==
  ASSUME NEW s \in JobState, NEW t \in JobState
  PROVE  Behind(s, t) <=>
           /\ \/ s.status = t.status
              \/ s.status = "pending" /\ t.status # "pending"
              \/ s.status = "running" /\ t.status \in Terminal
           /\ \A f \in Files :
                \/ s.subtasks[f] = t.subtasks[f]
                \/ s.subtasks[f] = "pending" /\ t.subtasks[f] # "pending"
                \/ s.subtasks[f] = "running" /\ t.subtasks[f] \in Terminal
           /\ s.cancel_requested => t.cancel_requested
           /\ s.download_started_at => t.download_started_at
<1>1. Legal(JOB_TRANSITIONS, s.status, t.status)
        <=> \/ s.status = "pending" /\ t.status # "pending"
            \/ s.status = "running" /\ t.status \in Terminal
  BY DEF Legal, JOB_TRANSITIONS, JobState, JobStatus, Terminal
<1>2. \A f \in Files :
        Legal(SUBTASK_TRANSITIONS, s.subtasks[f], t.subtasks[f])
          <=> \/ s.subtasks[f] = "pending" /\ t.subtasks[f] # "pending"
              \/ s.subtasks[f] = "running" /\ t.subtasks[f] \in Terminal
  <2> TAKE f \in Files
  <2>1. s.subtasks[f] \in SubtaskStatus /\ t.subtasks[f] \in SubtaskStatus
    BY DEF JobState
  <2> QED  BY <2>1, SubtaskTable
<1> QED  BY <1>1, <1>2 DEF Behind

LEMMA BehindReflexive ==
  ASSUME NEW s \in JobState
  PROVE  Behind(s, s)
BY DEF Behind

LEMMA BehindTransitive ==
  ASSUME NEW s \in JobState, NEW t \in JobState, NEW u \in JobState,
         Behind(s, t), Behind(t, u)
  PROVE  Behind(s, u)
<1>1. \/ s.status = u.status
      \/ s.status = "pending" /\ u.status # "pending"
      \/ s.status = "running" /\ u.status \in Terminal
  BY BehindUnfolded DEF Terminal
<1>2. \A f \in Files :
        \/ s.subtasks[f] = u.subtasks[f]
        \/ s.subtasks[f] = "pending" /\ u.subtasks[f] # "pending"
        \/ s.subtasks[f] = "running" /\ u.subtasks[f] \in Terminal
  BY BehindUnfolded DEF Terminal
<1>3. /\ s.cancel_requested => u.cancel_requested
      /\ s.download_started_at => u.download_started_at
  BY BehindUnfolded
<1> QED  BY <1>1, <1>2, <1>3, BehindUnfolded

(* A document that differs from s in one subtask that could move there.    *)
LEMMA OneSubtaskForward ==
  ASSUME NEW s \in JobState, NEW t \in JobState,
         NEW f \in Files, NEW x \in SubtaskStatus,
         \/ s.subtasks[f] = "pending" /\ x # "pending"
         \/ s.subtasks[f] = "running" /\ x \in Terminal,
         t.subtasks = [s.subtasks EXCEPT ![f] = x],
         t.cancel_requested = s.cancel_requested,
         t.download_started_at = s.download_started_at,
         \/ s.status = t.status
         \/ s.status = "pending" /\ t.status # "pending"
         \/ s.status = "running" /\ t.status \in Terminal
  PROVE  Behind(s, t)
<1>1. s.subtasks \in [Files -> SubtaskStatus]
  BY DEF JobState
<1>2. \A g \in Files :
        \/ s.subtasks[g] = t.subtasks[g]
        \/ s.subtasks[g] = "pending" /\ t.subtasks[g] # "pending"
        \/ s.subtasks[g] = "running" /\ t.subtasks[g] \in Terminal
  BY <1>1
<1> QED  BY <1>2, BehindUnfolded

LEMMA MethodsGoForward ==
  ASSUME NEW s \in JobState, NEW f \in Files
  PROVE  /\ Behind(s, AfterMarkRunning(s, f))
         /\ Behind(s, AfterMarkDone(s, f))
         /\ Behind(s, AfterMarkFailed(s, f))
         /\ Behind(s, AfterMarkSubtaskCancelled(s, f))
         /\ Behind(s, AfterMarkCancelled(s))
         /\ Behind(s, AfterMarkDownloadStarted(s))
<1> USE DEF SubtaskStatus, Terminal
<1>1. Behind(s, AfterMarkRunning(s, f))
  <2> DEFINE t == AfterMarkRunning(s, f)
  <2>1. t \in JobState
    BY MethodsKeepType
  <2>2. CASE t = s
    BY <2>2, BehindReflexive
  <2>3. CASE t # s
    <3>1. /\ s.subtasks[f] = "pending"
          /\ t.subtasks = [s.subtasks EXCEPT ![f] = "running"]
          /\ t.cancel_requested = s.cancel_requested
          /\ t.download_started_at = s.download_started_at
          /\ t.status = IF s.status = "pending" THEN "running" ELSE s.status
      BY <2>3, MarkRunningEffect
    <3>2. Behind(s, t)
      <4> HIDE DEF t
      <4> QED  BY <2>1, <3>1, OneSubtaskForward
    <3> QED  BY <3>2
  <2> QED  BY <2>2, <2>3
<1>2. ASSUME NEW t \in JobState, NEW x \in Counted, Settles(s, t, f, x)
      PROVE  Behind(s, t)
  <2>1. \/ s.status = t.status
        \/ s.status = "pending" /\ t.status # "pending"
        \/ s.status = "running" /\ t.status \in Terminal
    BY <1>2 DEF Settles, JobState, JobStatus
  <2>2. /\ s.subtasks[f] \in {"pending", "running"}
        /\ t.subtasks = [s.subtasks EXCEPT ![f] = x]
        /\ t.cancel_requested = s.cancel_requested
        /\ t.download_started_at = s.download_started_at
    BY <1>2 DEF Settles
  <2>3. x \in SubtaskStatus /\ x \in Terminal /\ x # "pending"
    BY DEF Counted
  <2>4. \/ s.subtasks[f] = "pending" /\ x # "pending"
        \/ s.subtasks[f] = "running" /\ x \in Terminal
    BY <2>2, <2>3
  <2> HIDE DEF SubtaskStatus, Terminal
  <2> QED  BY <2>1, <2>2, <2>3, <2>4, OneSubtaskForward
<1>3. Behind(s, AfterMarkDone(s, f))
  BY <1>2, MarkDoneSettles, MethodsKeepType, BehindReflexive DEF Counted
<1>4. Behind(s, AfterMarkFailed(s, f))
  BY <1>2, MarkFailedSettles, MethodsKeepType, BehindReflexive DEF Counted
<1>5. Behind(s, AfterMarkSubtaskCancelled(s, f))
  <2> DEFINE t == AfterMarkSubtaskCancelled(s, f)
  <2>1. t \in JobState
    BY MethodsKeepType
  <2>2. CASE t = s
    BY <2>2, BehindReflexive
  <2>3. CASE t # s
    <3>1. /\ s.subtasks[f] \in {"pending", "running"}
          /\ t.subtasks = [s.subtasks EXCEPT ![f] = "cancelled"]
          /\ t.cancel_requested = s.cancel_requested
          /\ t.download_started_at = s.download_started_at
          /\ t.status = s.status
      BY <2>3, MarkSubtaskCancelledEffect
    <3>2. Behind(s, t)
      <4> HIDE DEF t
      <4> QED  BY <2>1, <3>1, OneSubtaskForward
    <3> QED  BY <3>2
  <2> QED  BY <2>2, <2>3
<1>6. Behind(s, AfterMarkCancelled(s))
  <2> DEFINE t == AfterMarkCancelled(s)
  <2>1. t \in JobState
    BY MethodsKeepType
  <2>2. /\ t.subtasks = s.subtasks
        /\ t.cancel_requested = TRUE
        /\ t.download_started_at = s.download_started_at
        /\ t.status = IF s.status \in {"pending", "running"}
                        THEN "cancelled" ELSE s.status
    BY MarkCancelledEffect
  <2>3. Behind(s, t)
    <3> HIDE DEF t
    <3> QED  BY <2>1, <2>2, BehindUnfolded DEF JobState, JobStatus
  <2> QED  BY <2>3
<1>7. Behind(s, AfterMarkDownloadStarted(s))
  <2> DEFINE t == AfterMarkDownloadStarted(s)
  <2>1. t \in JobState
    BY MethodsKeepType
  <2>2. /\ t.subtasks = s.subtasks
        /\ t.cancel_requested = s.cancel_requested
        /\ t.download_started_at = TRUE
        /\ t.status = s.status
    BY MarkDownloadStartedEffect
  <2>3. Behind(s, t)
    <3> HIDE DEF t
    <3> QED  BY <2>1, <2>2, BehindUnfolded DEF JobState, JobStatus
  <2> QED  BY <2>3
<1> QED  BY <1>1, <1>3, <1>4, <1>5, <1>6, <1>7
================================================================================

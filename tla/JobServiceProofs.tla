--------------------------- MODULE JobServiceProofs ---------------------------
(***************************************************************************)
(* JobService's invariants and its action property, for every set of       *)
(* files.                                                                  *)
(***************************************************************************)
EXTENDS JobService, JobRecordProofs

--------------------------------------------------------------------------------
(* Type correctness: the document, whatever calls are made, keeps its      *)
(* shape and its statuses stay within the two tables.                      *)
THEOREM TypeCorrect == Spec => []TypeOK
<1>1. Init => TypeOK
  <2> SUFFICES ASSUME Init PROVE TypeOK
    OBVIOUS
  <2>1. NewState \in JobState
    BY DEF NewState, JobState, JobStatus, SubtaskStatus
  <2>2. answers \in Nat
    BY DEF Init
  <2>3. cancelFlag \in BOOLEAN
    BY DEF Init
  <2> QED  BY <2>1, <2>2, <2>3 DEF Init, TypeOK
<1>2. TypeOK /\ [Next]_vars => TypeOK'
  <2> SUFFICES ASSUME TypeOK, [Next]_vars PROVE TypeOK'
    OBVIOUS
  <2> USE DEF TypeOK
  <2>1. ASSUME NEW f \in Files, MarkRunning(f) PROVE TypeOK'
    BY <2>1, MethodsKeepType DEF MarkRunning
  <2>2. ASSUME NEW f \in Files, MarkDone(f) PROVE TypeOK'
    BY <2>2, MethodsKeepType DEF MarkDone, Answer
  <2>3. ASSUME NEW f \in Files, MarkFailed(f) PROVE TypeOK'
    BY <2>3, MethodsKeepType DEF MarkFailed, Answer
  <2>4. ASSUME NEW f \in Files, MarkSubtaskCancelled(f) PROVE TypeOK'
    BY <2>4, MethodsKeepType DEF MarkSubtaskCancelled
  <2>5. ASSUME MarkCancelled PROVE TypeOK'
    BY <2>5, MethodsKeepType, FilesAssumption DEF MarkCancelled
  <2>6. ASSUME SetCancelFlag PROVE TypeOK'
    BY <2>6 DEF SetCancelFlag
  <2>7. ASSUME MarkDownloadStarted PROVE TypeOK'
    BY <2>7, MethodsKeepType, FilesAssumption DEF MarkDownloadStarted
  <2>8. CASE UNCHANGED vars
    BY <2>8 DEF vars
  <2> QED  BY <2>1, <2>2, <2>3, <2>4, <2>5, <2>6, <2>7, <2>8 DEF Next
<1> QED  BY <1>1, <1>2, PTL DEF Spec

--------------------------------------------------------------------------------
(* The Redis flag is raised only for a request the document records.       *)
FlagFollowsRequest == cancelFlag => state.cancel_requested

(* The three state properties need each other: that a job whose subtasks   *)
(* have settled is terminal needs that a cancel request ends the job, and  *)
(* that nothing is cancelled unasked needs that the flag follows the       *)
(* request; together they are inductive.                                   *)
IInv ==
  /\ TypeOK
  /\ FlagFollowsRequest
  /\ StatusMatchesSubtasks
  /\ OnlyCancelCancels
  /\ LastAnsweredOnce

(* A settling step keeps the invariant; its answer is whether it was last. *)
LEMMA SettlingKeepsIInv ==
  ASSUME IInv, TypeOK', NEW f \in Files, NEW target \in Counted,
         Settles(state, state', f, target),
         answers' = answers + (IF AllCounted(state') THEN 1 ELSE 0),
         UNCHANGED cancelFlag
  PROVE  IInv'
<1> DEFINE s == state
           t == state'
<1>1. /\ s.subtasks[f] \in {"pending", "running"}
      /\ t.subtasks = [s.subtasks EXCEPT ![f] = target]
      /\ t.cancel_requested = s.cancel_requested
      /\ t.status = IF AllCounted(t) /\ s.status \in {"pending", "running"}
                      THEN IF AnyFailed(t) THEN "failed" ELSE "done"
                      ELSE s.status
  BY DEF Settles
<1>2. /\ s.subtasks \in [Files -> SubtaskStatus] /\ s.status \in JobStatus
      /\ t.subtasks \in [Files -> SubtaskStatus] /\ t.status \in JobStatus
  BY DEF IInv, TypeOK, JobState
<1>3. /\ t.subtasks[f] = target
      /\ \A g \in Files \ {f} : t.subtasks[g] = s.subtasks[g]
  BY <1>1, <1>2
<1>4. ~ AllCounted(s) /\ answers = 0
  BY <1>1 DEF AllCounted, Counted, IInv, LastAnsweredOnce
<1>5. s.status \notin {"done", "failed"}
  BY <1>4 DEF IInv, StatusMatchesSubtasks, AllCounted, Counted
<1>6. LastAnsweredOnce'
  BY <1>4 DEF LastAnsweredOnce
<1>7. StatusMatchesSubtasks'
  <2>1. CASE AllCounted(t)
    <3>1. CASE s.status \in {"pending", "running"}
      <4>1. ~ AnyFailed(t) => \A g \in Files : t.subtasks[g] = "done"
        BY <2>1 DEF AllCounted, AnyFailed, Counted
      <4> QED  BY <1>1, <2>1, <3>1, <4>1 DEF StatusMatchesSubtasks, Terminal
    <3>2. CASE s.status = "cancelled"
      BY <1>1, <3>2 DEF StatusMatchesSubtasks, Terminal
    <3> QED  BY <1>2, <1>5, <3>1, <3>2 DEF JobStatus
  <2>2. CASE ~ AllCounted(t)
    BY <1>1, <1>5, <2>2 DEF StatusMatchesSubtasks
  <2> QED  BY <2>1, <2>2
<1>8. OnlyCancelCancels'
  <2>1. ~ t.cancel_requested =>
          /\ t.status # "cancelled"
          /\ \A g \in Files : t.subtasks[g] # "cancelled"
    BY <1>1, <1>3 DEF IInv, OnlyCancelCancels, Counted
  <2>2. t.cancel_requested => t.status \in Terminal
    BY <1>1 DEF IInv, OnlyCancelCancels, Terminal
  <2>3. (\A g \in Files : t.subtasks[g] \in Terminal) => t.status \in Terminal
    <3>1. CASE t.cancel_requested
      BY <2>2, <3>1
    <3>2. CASE ~ t.cancel_requested
      <4>1. (\A g \in Files : t.subtasks[g] \in Terminal) => AllCounted(t)
        BY <2>1, <3>2 DEF AllCounted, Counted, Terminal
      <4> QED  BY <1>7, <4>1 DEF StatusMatchesSubtasks
    <3> QED  BY <3>1, <3>2
  <2> QED  BY <2>1, <2>2, <2>3 DEF OnlyCancelCancels
<1>9. FlagFollowsRequest'
  BY <1>1 DEF IInv, FlagFollowsRequest
<1> QED  BY <1>6, <1>7, <1>8, <1>9 DEF IInv

(* The inductive invariant holds in every reachable state. *)
LEMMA Invariance == Spec => []IInv
<1>1. Init /\ TypeOK => IInv
  <2> SUFFICES ASSUME Init, TypeOK PROVE IInv
    OBVIOUS
  <2>1. /\ state.status = "pending"
        /\ \A f \in Files : state.subtasks[f] = "pending"
        /\ state.cancel_requested = FALSE
        /\ cancelFlag = FALSE
        /\ answers = 0
    BY DEF Init, NewState
  <2>2. ~ AllCounted(state)
    BY <2>1, FilesAssumption DEF AllCounted, Counted
  <2>3. StatusMatchesSubtasks /\ LastAnsweredOnce
    BY <2>1, <2>2 DEF StatusMatchesSubtasks, LastAnsweredOnce
  <2>4. OnlyCancelCancels /\ FlagFollowsRequest
    BY <2>1, FilesAssumption DEF OnlyCancelCancels, FlagFollowsRequest, Terminal
  <2> QED  BY <2>3, <2>4 DEF IInv
<1>2. IInv /\ TypeOK' /\ [Next]_vars => IInv'
  <2> SUFFICES ASSUME IInv, TypeOK', [Next]_vars PROVE IInv'
    OBVIOUS
  <2>a. state \in JobState
    BY DEF IInv, TypeOK
  <2>1. ASSUME NEW f \in Files, MarkRunning(f) PROVE IInv'
    <3>1. CASE state' = state
      BY <2>1, <3>1
      DEF MarkRunning, IInv, TypeOK, FlagFollowsRequest, LastAnsweredOnce,
          StatusMatchesSubtasks, OnlyCancelCancels, AllCounted, AnyFailed
    <3>2. CASE /\ state.subtasks[f] = "pending"
               /\ state'.subtasks = [state.subtasks EXCEPT ![f] = "running"]
               /\ state'.cancel_requested = state.cancel_requested
               /\ state'.status = IF state.status = "pending" THEN "running"
                                  ELSE state.status
      <4>1. state.subtasks \in [Files -> SubtaskStatus]
        BY <2>a DEF JobState
      <4>2. /\ state'.subtasks[f] = "running"
            /\ \A g \in Files \ {f} : state'.subtasks[g] = state.subtasks[g]
        BY <3>2, <4>1
      <4>3. ~ AllCounted(state) /\ ~ AllCounted(state')
        BY <3>2, <4>2 DEF AllCounted, Counted
      <4>4. answers = 0 /\ state.status \notin {"done", "failed"}
        BY <3>2, <4>3
        DEF IInv, LastAnsweredOnce, StatusMatchesSubtasks, AllCounted, Counted
      <4>5. LastAnsweredOnce' /\ StatusMatchesSubtasks'
        BY <2>1, <3>2, <4>3, <4>4
        DEF MarkRunning, LastAnsweredOnce, StatusMatchesSubtasks
      <4>6. OnlyCancelCancels'
        BY <3>2, <4>2 DEF IInv, OnlyCancelCancels, Terminal
      <4>7. FlagFollowsRequest'
        BY <2>1, <3>2 DEF MarkRunning, IInv, FlagFollowsRequest
      <4> QED  BY <4>5, <4>6, <4>7 DEF IInv
    <3> QED  BY <2>1, <2>a, <3>1, <3>2, MarkRunningEffect DEF MarkRunning
  <2>2. ASSUME NEW f \in Files, MarkDone(f) PROVE IInv'
    <3>1. CASE state' = state /\ ~ IsLast(state, f, "done")
      BY <2>2, <3>1
      DEF MarkDone, Answer, IInv, TypeOK, FlagFollowsRequest, LastAnsweredOnce,
          StatusMatchesSubtasks, OnlyCancelCancels, AllCounted, AnyFailed
    <3>2. CASE /\ Settles(state, state', f, "done")
               /\ IsLast(state, f, "done") <=> AllCounted(state')
      BY <2>2, <3>2, SettlingKeepsIInv DEF MarkDone, Answer, Counted
    <3> QED  BY <2>2, <2>a, <3>1, <3>2, MarkDoneSettles DEF MarkDone
  <2>3. ASSUME NEW f \in Files, MarkFailed(f) PROVE IInv'
    <3>1. CASE state' = state /\ ~ IsLast(state, f, "failed")
      BY <2>3, <3>1
      DEF MarkFailed, Answer, IInv, TypeOK, FlagFollowsRequest, LastAnsweredOnce,
          StatusMatchesSubtasks, OnlyCancelCancels, AllCounted, AnyFailed
    <3>2. CASE /\ Settles(state, state', f, "failed")
               /\ IsLast(state, f, "failed") <=> AllCounted(state')
      BY <2>3, <3>2, SettlingKeepsIInv DEF MarkFailed, Answer, Counted
    <3> QED  BY <2>3, <2>a, <3>1, <3>2, MarkFailedSettles DEF MarkFailed
  <2>4. ASSUME NEW f \in Files, MarkSubtaskCancelled(f) PROVE IInv'
    <3>1. CASE state' = state
      BY <2>4, <3>1
      DEF MarkSubtaskCancelled, IInv, TypeOK, FlagFollowsRequest,
          LastAnsweredOnce, StatusMatchesSubtasks, OnlyCancelCancels,
          AllCounted, AnyFailed
    <3>2. CASE /\ state.subtasks[f] \in {"pending", "running"}
               /\ state'.subtasks = [state.subtasks EXCEPT ![f] = "cancelled"]
               /\ state'.cancel_requested = state.cancel_requested
               /\ state'.status = state.status
      <4>1. state.subtasks \in [Files -> SubtaskStatus]
        BY <2>a DEF JobState
      <4>2. state'.subtasks[f] = "cancelled"
        BY <3>2, <4>1
      <4>3. ~ AllCounted(state) /\ ~ AllCounted(state')
        BY <3>2, <4>2 DEF AllCounted, Counted
      <4>4. answers = 0 /\ state.status \notin {"done", "failed"}
        BY <3>2, <4>3
        DEF IInv, LastAnsweredOnce, StatusMatchesSubtasks, AllCounted, Counted
      <4>5. LastAnsweredOnce' /\ StatusMatchesSubtasks'
        BY <2>4, <3>2, <4>3, <4>4
        DEF MarkSubtaskCancelled, LastAnsweredOnce, StatusMatchesSubtasks
      <4>6. state.cancel_requested
        BY <2>4 DEF MarkSubtaskCancelled, IInv, FlagFollowsRequest
      <4>7. OnlyCancelCancels'
        BY <3>2, <4>6 DEF IInv, OnlyCancelCancels
      <4>8. FlagFollowsRequest'
        BY <3>2, <4>6 DEF FlagFollowsRequest
      <4> QED  BY <4>5, <4>7, <4>8 DEF IInv
    <3> QED
      BY <2>4, <2>a, <3>1, <3>2, MarkSubtaskCancelledEffect
      DEF MarkSubtaskCancelled
  <2>5. ASSUME MarkCancelled PROVE IInv'
    <3>1. /\ state'.subtasks = state.subtasks
          /\ state'.cancel_requested = TRUE
          /\ state'.status = IF state.status \in {"pending", "running"}
                               THEN "cancelled" ELSE state.status
          /\ UNCHANGED <<cancelFlag, answers>>
      BY <2>5, <2>a, MarkCancelledEffect DEF MarkCancelled
    <3>2. state.status \in JobStatus
      BY <2>a DEF JobState
    <3>3. /\ AllCounted(state') <=> AllCounted(state)
          /\ AnyFailed(state') <=> AnyFailed(state)
      BY <3>1 DEF AllCounted, AnyFailed
    <3>4. StatusMatchesSubtasks'
      BY <3>1, <3>3 DEF IInv, StatusMatchesSubtasks, Terminal
    <3>5. OnlyCancelCancels'
      BY <3>1, <3>2 DEF OnlyCancelCancels, JobStatus, Terminal
    <3>6. LastAnsweredOnce' /\ FlagFollowsRequest'
      BY <3>1, <3>3 DEF IInv, LastAnsweredOnce, FlagFollowsRequest
    <3> QED  BY <3>4, <3>5, <3>6 DEF IInv
  <2>6. CASE SetCancelFlag
    BY <2>6
    DEF SetCancelFlag, IInv, TypeOK, FlagFollowsRequest, LastAnsweredOnce,
        StatusMatchesSubtasks, OnlyCancelCancels, AllCounted, AnyFailed
  <2>7. CASE MarkDownloadStarted
    <3>1. /\ state'.subtasks = state.subtasks
          /\ state'.cancel_requested = state.cancel_requested
          /\ state'.status = state.status
          /\ UNCHANGED <<cancelFlag, answers>>
      BY <2>7, <2>a, MarkDownloadStartedEffect DEF MarkDownloadStarted
    <3>2. /\ AllCounted(state') <=> AllCounted(state)
          /\ AnyFailed(state') <=> AnyFailed(state)
      BY <3>1 DEF AllCounted, AnyFailed
    <3> QED
      BY <3>1, <3>2
      DEF IInv, FlagFollowsRequest, LastAnsweredOnce, StatusMatchesSubtasks,
          OnlyCancelCancels
  <2>8. CASE UNCHANGED vars
    BY <2>8
    DEF vars, IInv, TypeOK, FlagFollowsRequest, LastAnsweredOnce,
        StatusMatchesSubtasks, OnlyCancelCancels, AllCounted, AnyFailed
  <2> QED  BY <2>1, <2>2, <2>3, <2>4, <2>5, <2>6, <2>7, <2>8 DEF Next
<1> QED  BY <1>1, <1>2, TypeCorrect, PTL DEF Spec

(* The job's status always tells what its subtasks ended as, and a settled *)
(* job is never left pending or running (StatusMatchesSubtasks).           *)
THEOREM StatusCorrect == Spec => []StatusMatchesSubtasks
<1>1. IInv => StatusMatchesSubtasks
  BY DEF IInv
<1> QED  BY <1>1, Invariance, PTL

(* Nothing is cancelled unasked, and a job is not stuck behind a subtask   *)
(* that will never report (OnlyCancelCancels).                             *)
THEOREM CancelCorrect == Spec => []OnlyCancelCancels
<1>1. IInv => OnlyCancelCancels
  BY DEF IInv
<1> QED  BY <1>1, Invariance, PTL

(* Exactly one call, the one that settles the last subtask, answers TRUE   *)
(* (LastAnsweredOnce).                                                     *)
THEOREM LastOnce == Spec => []LastAnsweredOnce
<1>1. IInv => LastAnsweredOnce
  BY DEF IInv
<1> QED  BY <1>1, Invariance, PTL

--------------------------------------------------------------------------------
(* No call takes a result back (TerminalIsFinal): what is settled stays,   *)
(* whichever methods run later, in any order and any number of times.      *)
THEOREM FinalityCorrect == Spec => TerminalIsFinal
<1> DEFINE Keeps(s, t) ==
             /\ s.status \in Terminal => t.status = s.status
             /\ \A f \in Files :
                  s.subtasks[f] \in Terminal => t.subtasks[f] = s.subtasks[f]
             /\ s.cancel_requested => t.cancel_requested
             /\ s.download_started_at => t.download_started_at
<1>1. ASSUME NEW s \in JobState, NEW t, NEW f \in Files, NEW x,
             s.subtasks[f] \in {"pending", "running"},
             t.subtasks = [s.subtasks EXCEPT ![f] = x],
             t.cancel_requested = s.cancel_requested,
             t.download_started_at = s.download_started_at,
             s.status \in Terminal => t.status = s.status
      PROVE  Keeps(s, t)
  <2>1. s.subtasks \in [Files -> SubtaskStatus]
    BY DEF JobState
  <2>2. \A g \in Files : s.subtasks[g] \in Terminal =>
                            t.subtasks[g] = s.subtasks[g]
    BY <1>1, <2>1 DEF Terminal
  <2> QED  BY <1>1, <2>2
<1>2. ASSUME TypeOK, Next PROVE Keeps(state, state')
  <2>a. state \in JobState
    BY <1>2 DEF TypeOK
  <2>1. ASSUME NEW f \in Files, MarkRunning(f) PROVE Keeps(state, state')
    <3>1. CASE state' = state
      BY <3>1
    <3>2. CASE /\ state.subtasks[f] = "pending"
               /\ state'.subtasks = [state.subtasks EXCEPT ![f] = "running"]
               /\ state'.cancel_requested = state.cancel_requested
               /\ state'.download_started_at = state.download_started_at
               /\ state'.status = IF state.status = "pending" THEN "running"
                                  ELSE state.status
      <4>1. state.status \in Terminal => state'.status = state.status
        BY <3>2 DEF Terminal
      <4> HIDE DEF Keeps
      <4> QED  BY <2>a, <3>2, <4>1, <1>1
    <3> QED  BY <2>1, <2>a, <3>1, <3>2, MarkRunningEffect DEF MarkRunning
  <2>2. ASSUME NEW f \in Files, NEW x, Settles(state, state', f, x)
        PROVE  Keeps(state, state')
    <3>1. /\ state.subtasks[f] \in {"pending", "running"}
          /\ state'.subtasks = [state.subtasks EXCEPT ![f] = x]
          /\ state'.cancel_requested = state.cancel_requested
          /\ state'.download_started_at = state.download_started_at
          /\ state.status \in Terminal => state'.status = state.status
      BY <2>2 DEF Settles, Terminal
    <3> HIDE DEF Keeps
    <3> QED  BY <2>a, <3>1, <1>1
  <2>3. ASSUME NEW f \in Files, MarkDone(f) PROVE Keeps(state, state')
    <3>1. state' = state \/ Settles(state, state', f, "done")
      BY <2>3, <2>a, MarkDoneSettles DEF MarkDone
    <3> QED  BY <2>2, <3>1
  <2>4. ASSUME NEW f \in Files, MarkFailed(f) PROVE Keeps(state, state')
    <3>1. state' = state \/ Settles(state, state', f, "failed")
      BY <2>4, <2>a, MarkFailedSettles DEF MarkFailed
    <3> QED  BY <2>2, <3>1
  <2>5. ASSUME NEW f \in Files, MarkSubtaskCancelled(f)
        PROVE  Keeps(state, state')
    <3>1. CASE state' = state
      BY <3>1
    <3>2. CASE /\ state.subtasks[f] \in {"pending", "running"}
               /\ state'.subtasks = [state.subtasks EXCEPT ![f] = "cancelled"]
               /\ state'.cancel_requested = state.cancel_requested
               /\ state'.download_started_at = state.download_started_at
               /\ state'.status = state.status
      <4> HIDE DEF Keeps
      <4> QED  BY <2>a, <3>2, <1>1
    <3> QED
      BY <2>5, <2>a, <3>1, <3>2, MarkSubtaskCancelledEffect
      DEF MarkSubtaskCancelled
  <2>6. ASSUME MarkCancelled PROVE Keeps(state, state')
    BY <2>6, <2>a, MarkCancelledEffect DEF MarkCancelled, Terminal
  <2>7. ASSUME SetCancelFlag PROVE Keeps(state, state')
    BY <2>7 DEF SetCancelFlag
  <2>8. ASSUME MarkDownloadStarted PROVE Keeps(state, state')
    BY <2>8, <2>a, MarkDownloadStartedEffect DEF MarkDownloadStarted
  <2> QED  BY <1>2, <2>1, <2>3, <2>4, <2>5, <2>6, <2>7, <2>8 DEF Next
<1>3. TypeOK /\ [Next]_vars => [Keeps(state, state')]_vars
  BY <1>2
<1>4. [Keeps(state, state')]_vars =>
        [/\ state.status \in Terminal => state'.status = state.status
         /\ \A f \in Files :
              state.subtasks[f] \in Terminal =>
                state'.subtasks[f] = state.subtasks[f]
         /\ state.cancel_requested => state'.cancel_requested
         /\ state.download_started_at => state'.download_started_at]_vars
  OBVIOUS
<1> QED  BY <1>3, <1>4, TypeCorrect, PTL DEF Spec, TerminalIsFinal

================================================================================

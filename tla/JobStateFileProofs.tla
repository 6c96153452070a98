-------------------------- MODULE JobStateFileProofs --------------------------
(***************************************************************************)
(* The lock protocol of JobService keeps its promises for any number of    *)
(* processes and files, and makes every call one step of JobService.       *)
(***************************************************************************)
EXTENDS JobStateFile, JobRecordProofs

--------------------------------------------------------------------------------
(* Who is inside the lock holds it, and has the current document in        *)
(* memory from its read on; a worker in mark_subtask_cancelled saw the     *)
(* flag before it called.                                                  *)
LockInv ==
  \A p \in Callers :
    /\ pc[p] # "idle" => call[p] \in Calls
    /\ pc[p] \in {"body", "mirror", "unlock"} <=> holder = p
    /\ pc[p] \in {"body", "mirror"} => copy[p] = disk
    /\ pc[p] # "idle" /\ call[p].method = "mark_subtask_cancelled"
         => cancelFlag

(* What a call still owes Redis after its write is true of the disk. *)
OwedInv ==
  \A p \in Callers : pc[p] \in {"mirror", "unlock", "after"} =>
    /\ call[p].method = "mark_done" => disk.subtasks[call[p].file] = "done"
    /\ call[p].method = "mark_cancelled" => disk.cancel_requested

IInv ==
  /\ TypeOK
  /\ LockInv
  /\ OwedInv
  /\ RedisFollowsDisk
  /\ Behind(scanCopy, disk)

--------------------------------------------------------------------------------
(* What a body does: it leaves, or it writes a later document of the job   *)
(* that holds what the call will owe Redis.                                *)
Writes(p, doc) ==
  /\ Persist(p, doc)
  /\ answers' \in Nat
  /\ doc \in JobState
  /\ Behind(copy[p], doc)
  /\ call[p].method = "mark_done" => doc.subtasks[call[p].file] = "done"
  /\ call[p].method = "mark_cancelled" => doc.cancel_requested

LEMMA BodyEffect ==
  ASSUME NEW p \in Callers, copy[p] \in JobState, call[p] \in Calls,
         answers \in Nat, Body(p)
  PROVE  Return(p) \/ \E doc \in JobState : Writes(p, doc)
<1> DEFINE s == copy[p]
           f == call[p].file
<1>f. f \in Files
  BY DEF Calls
<1>1. CASE Running(p)
  <2>1. SUFFICES ASSUME ~ Return(p) PROVE Writes(p, AfterMarkRunning(s, f))
    BY <1>f, MethodsKeepType
  <2>2. /\ Persist(p, AfterMarkRunning(s, f)) /\ answers' = answers
        /\ call[p].method = "mark_running"
    BY <1>1, <2>1 DEF Running
  <2> QED  BY <2>2, <1>f, MethodsKeepType, MethodsGoForward DEF Writes
<1>2. CASE Done(p)
  <2>1. SUFFICES ASSUME ~ Return(p) PROVE Writes(p, AfterMarkDone(s, f))
    BY <1>f, MethodsKeepType
  <2>2. /\ Persist(p, AfterMarkDone(s, f))
        /\ answers' = answers + Answer(s, f, "done")
        /\ MovesSub(s, f, "done")
        /\ call[p].method = "mark_done"
    BY <1>2, <2>1 DEF Done
  <2>3. answers' \in Nat
    BY <2>2 DEF Answer
  <2>4. AfterMarkDone(s, f).subtasks[f] = "done"
    <3>1. s.subtasks \in [Files -> SubtaskStatus]
      BY DEF JobState
    <3>2. s.subtasks[f] \notin Terminal
      BY <2>2, <3>1, <1>f, SubtaskTable DEF MovesSub, Terminal, SubtaskStatus
    <3>3. Settles(s, AfterMarkDone(s, f), f, "done")
      BY <3>2, <1>f, MarkDoneSettles
    <3> QED  BY <3>3, <3>1, <1>f DEF Settles
  <2> QED  BY <2>2, <2>3, <2>4, <1>f, MethodsKeepType, MethodsGoForward
           DEF Writes
<1>3. CASE Failed(p)
  <2>1. SUFFICES ASSUME ~ Return(p) PROVE Writes(p, AfterMarkFailed(s, f))
    BY <1>f, MethodsKeepType
  <2>2. /\ Persist(p, AfterMarkFailed(s, f))
        /\ answers' = answers + Answer(s, f, "failed")
        /\ call[p].method = "mark_failed"
    BY <1>3, <2>1 DEF Failed
  <2>3. answers' \in Nat
    BY <2>2 DEF Answer
  <2> QED  BY <2>2, <2>3, <1>f, MethodsKeepType, MethodsGoForward DEF Writes
<1>4. CASE SubtaskCancelled(p)
  <2>1. SUFFICES ASSUME ~ Return(p)
                 PROVE  Writes(p, AfterMarkSubtaskCancelled(s, f))
    BY <1>f, MethodsKeepType
  <2>2. /\ Persist(p, AfterMarkSubtaskCancelled(s, f)) /\ answers' = answers
        /\ call[p].method = "mark_subtask_cancelled"
    BY <1>4, <2>1 DEF SubtaskCancelled
  <2> QED  BY <2>2, <1>f, MethodsKeepType, MethodsGoForward DEF Writes
<1>5. CASE Cancelled(p)
  <2>1. SUFFICES Writes(p, AfterMarkCancelled(s))
    BY <1>f, MethodsKeepType
  <2>2. /\ Persist(p, AfterMarkCancelled(s)) /\ answers' = answers
        /\ call[p].method = "mark_cancelled"
    BY <1>5 DEF Cancelled
  <2>3. AfterMarkCancelled(s).cancel_requested
    BY MarkCancelledEffect
  <2> QED  BY <2>2, <2>3, <1>f, MethodsKeepType, MethodsGoForward DEF Writes
<1>6. CASE DownloadStarted(p)
  <2>1. SUFFICES ASSUME ~ Return(p)
                 PROVE  Writes(p, AfterMarkDownloadStarted(s))
    BY <1>f, MethodsKeepType
  <2>2. /\ Persist(p, AfterMarkDownloadStarted(s)) /\ answers' = answers
        /\ call[p].method = "mark_download_started"
    BY <1>6, <2>1 DEF DownloadStarted
  <2> QED  BY <2>2, <1>f, MethodsKeepType, MethodsGoForward DEF Writes
<1> QED  BY <1>1, <1>2, <1>3, <1>4, <1>5, <1>6 DEF Body

(* What a later document keeps of an earlier one. *)
LEMMA BehindKeeps ==
  ASSUME NEW s \in JobState, NEW t \in JobState, Behind(s, t)
  PROVE  /\ s.cancel_requested => t.cancel_requested
         /\ \A f \in Files : s.subtasks[f] = "done" => t.subtasks[f] = "done"
  BY BehindUnfolded DEF Terminal

--------------------------------------------------------------------------------
(* The invariant holds when `create` has written the document, and each    *)
(* step of a call, and of the scan, keeps it: one lemma per step.          *)
LEMMA InitHolds == Init => IInv
<1> SUFFICES ASSUME Init PROVE IInv
  OBVIOUS
<1>1. NewState \in JobState
  BY DEF NewState, JobState, JobStatus, SubtaskStatus
<1>2. answers \in Nat
  BY DEF Init
<1>3. cancelFlag \in BOOLEAN
  BY DEF Init
<1>4. scanning \in BOOLEAN
  BY DEF Init
<1>5. TypeOK
  BY <1>1, <1>2, <1>3, <1>4 DEF Init, TypeOK
<1>6. LockInv
  BY CallersAssumption DEF Init, LockInv
<1>7. OwedInv
  BY DEF Init, OwedInv
<1>8. Behind(mirror, disk) /\ Behind(scanCopy, disk)
  BY <1>1, BehindReflexive DEF Init
<1>9. RedisFollowsDisk
  BY <1>8 DEF Init, RedisFollowsDisk
<1> QED  BY <1>5, <1>6, <1>7, <1>8, <1>9 DEF IInv

LEMMA EnterKeeps ==
  ASSUME IInv, NEW p \in Callers, Enter(p)
  PROVE  IInv'
<1> USE DEF IInv
<1>0. PICK c \in Calls :
        /\ c.method = "mark_subtask_cancelled" => cancelFlag
        /\ call' = [call EXCEPT ![p] = c]
  BY DEF Enter
<1>1. TypeOK'
  BY <1>0 DEF Enter, Goto, TypeOK, redisVars, scanVars
<1>2. /\ pc[p] = "idle" /\ pc' = [pc EXCEPT ![p] = "lock"]
      /\ UNCHANGED <<disk, holder, mirror, doneSet, cancelFlag, copy, scanCopy>>
  BY DEF Enter, Goto, redisVars, scanVars
<1>3. LockInv'
  BY <1>0, <1>2 DEF LockInv, TypeOK
<1>4. OwedInv'
  BY <1>0, <1>2 DEF OwedInv, TypeOK
<1>5. RedisFollowsDisk' /\ Behind(scanCopy, disk)'
  BY <1>2 DEF RedisFollowsDisk
<1> QED  BY <1>1, <1>3, <1>4, <1>5

LEMMA LockKeeps ==
  ASSUME IInv, NEW p \in Callers, Lock(p)
  PROVE  IInv'
<1> USE DEF IInv
<1>1. TypeOK'
  BY DEF Lock, Goto, TypeOK, redisVars, scanVars
<1>2. /\ pc[p] = "lock" /\ pc' = [pc EXCEPT ![p] = "body"]
      /\ holder = NoOne /\ holder' = p
      /\ copy' = [copy EXCEPT ![p] = disk]
      /\ UNCHANGED <<disk, mirror, doneSet, cancelFlag, call, scanCopy>>
  BY DEF Lock, Goto, redisVars, scanVars
<1>3. LockInv'
  BY <1>2, CallersAssumption DEF LockInv, TypeOK
<1>4. OwedInv'
  BY <1>2 DEF OwedInv, TypeOK
<1>5. RedisFollowsDisk' /\ Behind(scanCopy, disk)'
  BY <1>2 DEF RedisFollowsDisk
<1> QED  BY <1>1, <1>3, <1>4, <1>5

(* A call ends, and the lock is free if the caller had it. *)
LEMMA LeaveKeeps ==
  ASSUME IInv, NEW p \in Callers, Leave(p), pc[p] # "idle",
         holder' = (IF holder = p THEN NoOne ELSE holder),
         UNCHANGED <<disk, mirror, scanCopy, scanning, answers>>,
         doneSet' \subseteq Files, cancelFlag' \in BOOLEAN,
         \A f \in doneSet' : disk.subtasks[f] = "done",
         cancelFlag => cancelFlag',
         cancelFlag' => disk.cancel_requested
  PROVE  IInv'
<1> USE DEF IInv
<1>0. NewState \in JobState
  BY DEF NewState, JobState, JobStatus, SubtaskStatus
<1>1. TypeOK'
  BY <1>0 DEF Leave, TypeOK
<1>2. /\ pc' = [pc EXCEPT ![p] = "idle"]
      /\ call' = [call EXCEPT ![p] = NoCall]
      /\ copy' = [copy EXCEPT ![p] = NewState]
  BY DEF Leave
<1>3. LockInv'
  BY <1>2, CallersAssumption DEF LockInv, TypeOK
<1>4. OwedInv'
  BY <1>2 DEF OwedInv, TypeOK
<1>5. RedisFollowsDisk' /\ Behind(scanCopy, disk)'
  BY DEF RedisFollowsDisk
<1> QED  BY <1>1, <1>3, <1>4, <1>5

(* The write: what the others owe Redis, and what Redis holds, is true of  *)
(* the later document as well.                                             *)
LEMMA WritesKeeps ==
  ASSUME IInv, NEW p \in Callers, NEW doc \in JobState, Writes(p, doc)
  PROVE  IInv'
<1> USE DEF IInv
<1>1. /\ pc[p] = "body" /\ pc' = [pc EXCEPT ![p] = "mirror"]
      /\ disk' = doc /\ copy' = [copy EXCEPT ![p] = doc]
      /\ UNCHANGED <<holder, mirror, doneSet, cancelFlag, call, scanCopy,
                     scanning>>
  BY DEF Writes, Persist, Goto, redisVars, scanVars
<1>2. answers' \in Nat
  BY DEF Writes
<1>3. TypeOK'
  BY <1>1, <1>2 DEF TypeOK
<1>4. copy[p] = disk /\ holder = p
  BY <1>1 DEF LockInv
<1>5. Behind(disk, doc) /\ disk \in JobState /\ mirror \in JobState
        /\ scanCopy \in JobState
  BY <1>4 DEF Writes, TypeOK
<1>6. /\ disk.cancel_requested => doc.cancel_requested
      /\ \A f \in Files : disk.subtasks[f] = "done" => doc.subtasks[f] = "done"
  BY <1>5, BehindKeeps
<1>7. LockInv'
  BY <1>1, <1>4 DEF LockInv, TypeOK
<1>8. OwedInv'
  <2> SUFFICES ASSUME NEW q \in Callers, pc'[q] \in {"mirror", "unlock", "after"}
               PROVE  /\ call[q].method = "mark_done" =>
                           doc.subtasks[call[q].file] = "done"
                      /\ call[q].method = "mark_cancelled" =>
                           doc.cancel_requested
    BY <1>1 DEF OwedInv
  <2>1. CASE q = p
    BY <2>1 DEF Writes
  <2>2. CASE q # p
    <3>1. pc[q] \in {"mirror", "unlock", "after"}
      BY <2>2, <1>1 DEF TypeOK
    <3>2. call[q] \in Calls /\ call[q].file \in Files
      BY <3>1 DEF LockInv, Calls
    <3> QED  BY <3>1, <3>2, <1>6 DEF OwedInv
  <2> QED  BY <2>1, <2>2
<1>9. Behind(mirror, doc) /\ Behind(scanCopy, doc)
  BY <1>5, BehindTransitive DEF RedisFollowsDisk
<1>10. RedisFollowsDisk'
  BY <1>1, <1>6, <1>9 DEF RedisFollowsDisk, TypeOK
<1> QED  BY <1>1, <1>3, <1>7, <1>8, <1>9, <1>10

LEMMA MirrorKeeps ==
  ASSUME IInv, NEW p \in Callers, Mirror(p)
  PROVE  IInv'
<1> USE DEF IInv
<1>0. NewState \in JobState
  BY DEF NewState, JobState, JobStatus, SubtaskStatus
<1>1. TypeOK'
  BY <1>0 DEF Mirror, Goto, TypeOK, scanVars
<1>2. /\ pc[p] = "mirror" /\ pc' = [pc EXCEPT ![p] = "unlock"]
      /\ mirror' = copy[p] /\ copy' = [copy EXCEPT ![p] = NewState]
      /\ UNCHANGED <<disk, holder, doneSet, cancelFlag, call, scanCopy>>
  BY DEF Mirror, Goto, scanVars
<1>3. copy[p] = disk /\ disk \in JobState
  BY <1>2 DEF LockInv, TypeOK
<1>4. LockInv'
  BY <1>2 DEF LockInv, TypeOK
<1>5. OwedInv'
  BY <1>2 DEF OwedInv, TypeOK
<1>6. RedisFollowsDisk' /\ Behind(scanCopy, disk)'
  BY <1>2, <1>3, BehindReflexive DEF RedisFollowsDisk
<1> QED  BY <1>1, <1>4, <1>5, <1>6

LEMMA UnlockKeeps ==
  ASSUME IInv, NEW p \in Callers, Unlock(p)
  PROVE  IInv'
<1> USE DEF IInv
<1>1. TypeOK'
  BY DEF Unlock, Goto, TypeOK, redisVars, scanVars
<1>2. /\ pc[p] = "unlock" /\ pc' = [pc EXCEPT ![p] = "after"]
      /\ holder' = NoOne
      /\ UNCHANGED <<disk, mirror, doneSet, cancelFlag, call, copy, scanCopy>>
  BY DEF Unlock, Goto, redisVars, scanVars
<1>3. LockInv'
  BY <1>2, CallersAssumption DEF LockInv, TypeOK
<1>4. OwedInv'
  BY <1>2 DEF OwedInv, TypeOK
<1>5. RedisFollowsDisk' /\ Behind(scanCopy, disk)'
  BY <1>2 DEF RedisFollowsDisk
<1> QED  BY <1>1, <1>3, <1>4, <1>5

LEMMA AfterKeeps ==
  ASSUME IInv, NEW p \in Callers, After(p)
  PROVE  IInv'
<1> USE DEF IInv
<1>1. /\ pc[p] = "after" /\ holder # p /\ call[p] \in Calls
      /\ call[p].file \in Files
  BY DEF After, LockInv, Calls
<1>2. /\ Leave(p) /\ holder' = holder
      /\ UNCHANGED <<disk, mirror, scanCopy, scanning, answers>>
  BY DEF After, scanVars
<1>3. /\ doneSet' \subseteq Files
      /\ \A f \in doneSet' : disk.subtasks[f] = "done"
  BY <1>1 DEF After, TypeOK, OwedInv, RedisFollowsDisk
<1>4. cancelFlag' = (cancelFlag \/ call[p].method = "mark_cancelled")
  BY DEF After
<1>5. cancelFlag' \in BOOLEAN
  BY <1>4
<1>6. cancelFlag' => disk.cancel_requested
  BY <1>1, <1>4 DEF OwedInv, RedisFollowsDisk
<1> QED  BY <1>1, <1>2, <1>3, <1>4, <1>5, <1>6, LeaveKeeps

(* An early return, and a call that is cut off. *)
LEMMA EndKeeps ==
  ASSUME IInv, NEW p \in Callers, Return(p) \/ Abort(p)
  PROVE  IInv'
<1>1. /\ pc[p] # "idle" /\ Leave(p)
      /\ UNCHANGED <<disk, mirror, doneSet, cancelFlag, scanCopy, scanning,
                     answers>>
  BY DEF Return, Abort, redisVars, scanVars
<1>2. holder' = (IF holder = p THEN NoOne ELSE holder)
  BY DEF Return, Abort, IInv, LockInv
<1>3. /\ doneSet \subseteq Files /\ cancelFlag \in BOOLEAN
      /\ \A f \in doneSet : disk.subtasks[f] = "done"
      /\ cancelFlag => disk.cancel_requested
  BY DEF IInv, TypeOK, RedisFollowsDisk
<1> QED  BY <1>1, <1>2, <1>3, LeaveKeeps

LEMMA ScanKeeps ==
  ASSUME IInv, ScanRead \/ ScanRefresh
  PROVE  IInv'
<1> USE DEF IInv
<1>1. CASE ScanRead
  <2>1. TypeOK'
    BY <1>1 DEF ScanRead, TypeOK, redisVars, callerVars
  <2>2. LockInv' /\ OwedInv'
    BY <1>1 DEF ScanRead, LockInv, OwedInv, redisVars, callerVars
  <2>3. Behind(disk, disk)
    BY BehindReflexive DEF TypeOK
  <2> QED  BY <1>1, <2>1, <2>2, <2>3
           DEF ScanRead, RedisFollowsDisk, redisVars
<1>2. CASE ScanRefresh
  <2>0. NewState \in JobState
    BY DEF NewState, JobState, JobStatus, SubtaskStatus
  <2>1. TypeOK'
    BY <1>2, <2>0 DEF ScanRefresh, TypeOK, callerVars
  <2>2. LockInv' /\ OwedInv'
    BY <1>2 DEF ScanRefresh, LockInv, OwedInv, callerVars
  <2>3. Behind(NewState, disk)
    BY <2>0, BehindUnfolded DEF TypeOK, NewState
  <2> QED  BY <1>2, <2>1, <2>2, <2>3 DEF ScanRefresh, RedisFollowsDisk
<1> QED  BY <1>1, <1>2

(* So it is inductive. *)
LEMMA IInvInductive == IInv /\ [Next]_vars => IInv'
<1> SUFFICES ASSUME IInv, [Next]_vars PROVE IInv'
  OBVIOUS
<1>1. ASSUME NEW p \in Callers, Body(p) PROVE IInv'
  <2>1. pc[p] = "body"
    BY <1>1 DEF Body, Running, Done, Failed, SubtaskCancelled, Cancelled,
                DownloadStarted, Return, Persist, Goto
  <2>2. copy[p] \in JobState /\ call[p] \in Calls /\ answers \in Nat
    BY <2>1 DEF IInv, TypeOK, LockInv
  <2> QED  BY <1>1, <2>2, BodyEffect, EndKeeps, WritesKeeps
<1>2. CASE UNCHANGED vars
  BY <1>2 DEF vars, redisVars, callerVars, scanVars, IInv, TypeOK, LockInv,
              OwedInv, RedisFollowsDisk
<1> QED  BY <1>1, <1>2, EnterKeeps, LockKeeps, MirrorKeeps, UnlockKeeps,
            AfterKeeps, EndKeeps, ScanKeeps DEF Next

LEMMA Invariance == Spec => []IInv
  BY InitHolds, IInvInductive, PTL DEF Spec

--------------------------------------------------------------------------------
(* The document, its copies and the places of the callers keep their       *)
(* shape, for any number of processes.                                     *)
THEOREM TypeCorrect == Spec => []TypeOK
<1>1. IInv => TypeOK
  BY DEF IInv
<1> QED  BY <1>1, Invariance, PTL

(* Whoever is about to write has the current document in memory, so no     *)
(* two processes lose each other's update (job_service.py:327).            *)
THEOREM NoUpdateLost == Spec => []NoLostUpdate
<1>1. IInv => NoLostUpdate
  BY DEF IInv, LockInv, NoLostUpdate
<1> QED  BY <1>1, Invariance, PTL

(* "File first, redis second": what Redis holds is never ahead of the      *)
(* disk, wherever processes die and however late the scan's refresh comes. *)
THEOREM RedisBehindDisk == Spec => []RedisFollowsDisk
<1>1. IInv => RedisFollowsDisk
  BY DEF IInv
<1> QED  BY <1>1, Invariance, PTL

--------------------------------------------------------------------------------
(* The refinement: every step is one call of JobService, or none.          *)
(* The instance of JobService has its own copy of the document module;     *)
(* with the same files its methods are the same.                           *)
LEMMA SameMethods ==
  /\ JS!NewState = NewState
  /\ \A s, f : /\ JS!AfterMarkRunning(s, f) = AfterMarkRunning(s, f)
               /\ JS!AfterMarkDone(s, f) = AfterMarkDone(s, f)
               /\ JS!AfterMarkFailed(s, f) = AfterMarkFailed(s, f)
               /\ JS!AfterMarkSubtaskCancelled(s, f)
                    = AfterMarkSubtaskCancelled(s, f)
               /\ \A x : JS!Answer(s, f, x) = Answer(s, f, x)
  /\ \A s : /\ JS!AfterMarkCancelled(s) = AfterMarkCancelled(s)
            /\ JS!AfterMarkDownloadStarted(s) = AfterMarkDownloadStarted(s)
<1>1. /\ JS!SUBTASK_TRANSITIONS = SUBTASK_TRANSITIONS
      /\ JS!JOB_TRANSITIONS = JOB_TRANSITIONS
  BY DEF SUBTASK_TRANSITIONS, JOB_TRANSITIONS, SubtaskStatus, JobStatus,
         JS!SUBTASK_TRANSITIONS, JS!JOB_TRANSITIONS, JS!SubtaskStatus,
         JS!JobStatus
<1>2. \A s, f, x : /\ JS!MovesSub(s, f, x) = MovesSub(s, f, x)
                   /\ JS!MovesJob(s, x) = MovesJob(s, x)
                   /\ JS!WithSub(s, f, x) = WithSub(s, f, x)
  BY <1>1 DEF MovesSub, MovesJob, WithSub, Legal, Apply, JS!MovesSub,
              JS!MovesJob, JS!WithSub, JS!Legal, JS!Apply
<1>3. \A s : /\ JS!AllCounted(s) = AllCounted(s)
             /\ JS!AnyFailed(s) = AnyFailed(s)
  BY DEF AllCounted, AnyFailed, Counted, JS!AllCounted, JS!AnyFailed,
         JS!Counted
<1>4. JS!NewState = NewState
  BY DEF NewState, JS!NewState
<1>5. \A s, f, x : JS!Answer(s, f, x) = Answer(s, f, x)
  BY <1>2, <1>3 DEF Answer, IsLast, JS!Answer, JS!IsLast
<1>6. \A s, f : /\ JS!AfterMarkRunning(s, f) = AfterMarkRunning(s, f)
                /\ JS!AfterMarkSubtaskCancelled(s, f)
                     = AfterMarkSubtaskCancelled(s, f)
  BY <1>2 DEF AfterMarkRunning, AfterMarkSubtaskCancelled,
              JS!AfterMarkRunning, JS!AfterMarkSubtaskCancelled
<1>7. \A s, f : /\ JS!AfterMarkDone(s, f) = AfterMarkDone(s, f)
                /\ JS!AfterMarkFailed(s, f) = AfterMarkFailed(s, f)
  BY <1>2, <1>3 DEF AfterMarkDone, AfterMarkFailed, JS!AfterMarkDone,
                    JS!AfterMarkFailed
<1>8. \A s : /\ JS!AfterMarkCancelled(s) = AfterMarkCancelled(s)
             /\ JS!AfterMarkDownloadStarted(s) = AfterMarkDownloadStarted(s)
  BY <1>2 DEF AfterMarkCancelled, AfterMarkDownloadStarted,
              JS!AfterMarkCancelled, JS!AfterMarkDownloadStarted
<1> QED  BY <1>4, <1>5, <1>6, <1>7, <1>8

LEMMA BodyRefines ==
  ASSUME IInv, NEW p \in Callers, Body(p)
  PROVE  [JS!Next]_JS!vars
<1> DEFINE f == call[p].file
<1>1. pc[p] = "body"
  BY DEF Body, Running, Done, Failed, SubtaskCancelled, Cancelled,
         DownloadStarted, Return, Persist, Goto
<1>2. copy[p] = disk /\ f \in Files
  BY <1>1 DEF IInv, LockInv, Calls
<1>3. ASSUME Return(p) PROVE UNCHANGED JS!vars
  BY <1>3 DEF Return, redisVars, JS!vars
<1>4. ASSUME NEW doc, Persist(p, doc) PROVE disk' = doc /\ UNCHANGED cancelFlag
  BY <1>4 DEF Persist, redisVars
<1>5. CASE Running(p)
  BY <1>2, <1>3, <1>4, <1>5, SameMethods DEF Running, JS!Next, JS!MarkRunning
<1>6. CASE Done(p)
  BY <1>2, <1>3, <1>4, <1>6, SameMethods DEF Done, JS!Next, JS!MarkDone
<1>7. CASE Failed(p)
  BY <1>2, <1>3, <1>4, <1>7, SameMethods DEF Failed, JS!Next, JS!MarkFailed
<1>8. CASE SubtaskCancelled(p)
  <2>1. cancelFlag
    BY <1>1, <1>8 DEF SubtaskCancelled, IInv, LockInv
  <2>2. CASE Return(p)
    BY <1>3, <2>2
  <2>3. CASE /\ Persist(p, AfterMarkSubtaskCancelled(copy[p], f))
             /\ UNCHANGED answers
    <3>1. disk' = JS!AfterMarkSubtaskCancelled(disk, f)
      BY <1>2, <1>4, <2>3, SameMethods
    <3>2. UNCHANGED <<cancelFlag, answers>>
      BY <1>4, <2>3
    <3>3. JS!MarkSubtaskCancelled(f)
      BY <2>1, <3>1, <3>2, Zenon DEF JS!MarkSubtaskCancelled
    <3> QED  BY <1>2, <3>3 DEF JS!Next
  <2> QED  BY <1>8, <2>2, <2>3 DEF SubtaskCancelled
<1>9. CASE Cancelled(p)
  BY <1>2, <1>4, <1>9, SameMethods DEF Cancelled, JS!Next, JS!MarkCancelled
<1>10. CASE DownloadStarted(p)
  BY <1>2, <1>3, <1>4, <1>10, SameMethods
  DEF DownloadStarted, JS!Next, JS!MarkDownloadStarted
<1> QED  BY <1>5, <1>6, <1>7, <1>8, <1>9, <1>10 DEF Body

LEMMA AfterRefines ==
  ASSUME IInv, NEW p \in Callers, After(p)
  PROVE  [JS!Next]_JS!vars
<1>1. /\ UNCHANGED <<disk, answers>>
      /\ cancelFlag' = (cancelFlag \/ call[p].method = "mark_cancelled")
  BY DEF After
<1>2. cancelFlag \in BOOLEAN
  BY DEF IInv, TypeOK
<1>3. CASE call[p].method = "mark_cancelled"
  <2>1. disk.cancel_requested
    BY <1>3 DEF After, IInv, OwedInv
  <2>2. cancelFlag' = TRUE
    BY <1>1, <1>3
  <2> QED  BY <1>1, <2>1, <2>2 DEF JS!Next, JS!SetCancelFlag
<1>4. CASE call[p].method # "mark_cancelled"
  <2>1. cancelFlag' = cancelFlag
    BY <1>1, <1>2, <1>4
  <2> QED  BY <1>1, <2>1 DEF JS!vars
<1> QED  BY <1>3, <1>4

(* Under the lock every call is one atomic step of JobService, taken when  *)
(* the file is replaced; the flag of a cancel is its second step.          *)
THEOREM Refinement == Spec => ImplementsJobService
<1>1. Init => JS!Init
  BY SameMethods DEF Init, JS!Init
<1>2. IInv /\ [Next]_vars => [JS!Next]_JS!vars
  <2> SUFFICES ASSUME IInv, [Next]_vars PROVE [JS!Next]_JS!vars
    OBVIOUS
  <2>1. ASSUME NEW p \in Callers,
               Enter(p) \/ Lock(p) \/ Mirror(p) \/ Unlock(p) \/ Abort(p)
        PROVE  UNCHANGED JS!vars
    BY <2>1 DEF Enter, Lock, Mirror, Unlock, Abort, redisVars, JS!vars
  <2>2. ASSUME ScanRead \/ ScanRefresh PROVE UNCHANGED JS!vars
    BY <2>2 DEF ScanRead, ScanRefresh, redisVars, JS!vars
  <2>3. CASE UNCHANGED vars
    BY <2>3 DEF vars, redisVars, JS!vars
  <2> QED  BY <2>1, <2>2, <2>3, BodyRefines, AfterRefines DEF Next
<1> QED  BY <1>1, <1>2, Invariance, PTL DEF Spec, ImplementsJobService, JS!Spec
================================================================================

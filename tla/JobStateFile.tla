----------------------------- MODULE JobStateFile -----------------------------
(***************************************************************************)
(* How JobService makes its calls atomic: every mutating method runs under *)
(* an exclusive flock on state.lock, re-reads state.json inside it, writes *)
(* the file (temp + fsync + os.replace), then the Redis copy, releases the *)
(* lock, and only then does what it owes Redis besides (SADD of the done   *)
(* set, the cancel flag, the event).                                       *)
(*                                                                         *)
(* Callers are processes: RQ workers, the API, the recovery scan.  One of  *)
(* them may be killed, or may get an exception from the disk or from       *)
(* Redis, at any point of a call; either way the kernel or the `finally`   *)
(* releases the lock and the rest of the call does not happen.             *)
(*                                                                         *)
(* The recovery scan also copies the document it read, without the lock,   *)
(* to Redis (recovery_service.py:150).                                     *)
(***************************************************************************)
EXTENDS JobRecord, Naturals

CONSTANTS
  Callers,    \* the processes that call the service
  NoOne       \* the lock is free

ASSUME CallersAssumption == NoOne \notin Callers

VARIABLES
  disk,        \* state.json
  holder,      \* who holds the flock on state.lock
  mirror,      \* Redis key job:{id}
  doneSet,     \* Redis set job:{id}:done
  cancelFlag,  \* Redis key job:{id}:cancel
  pc,          \* where each caller is in its call
  call,        \* the method and the file each caller was called with
  copy,        \* the document each caller has in memory
  scanCopy,    \* the document the recovery scan has in memory
  scanning,    \* whether it is between its read and its refresh of Redis
  answers      \* history: how many calls found themselves the last one

callerVars == <<pc, call, copy>>
redisVars  == <<mirror, doneSet, cancelFlag>>
scanVars   == <<scanCopy, scanning>>
vars == <<disk, holder, redisVars, callerVars, scanVars, answers>>

Methods == {"mark_running", "mark_done", "mark_failed",
            "mark_subtask_cancelled", "mark_cancelled",
            "mark_download_started"}

Calls  == [method : Methods, file : Files]
NoCall == [method |-> "none"]

TypeOK ==
  /\ disk \in JobState /\ mirror \in JobState /\ scanCopy \in JobState
  /\ holder \in Callers \cup {NoOne}
  /\ doneSet \subseteq Files /\ answers \in Nat
  /\ cancelFlag \in BOOLEAN /\ scanning \in BOOLEAN
  /\ pc \in [Callers -> {"idle", "lock", "body", "mirror", "unlock", "after"}]
  /\ call \in [Callers -> Calls \cup {NoCall}]
  /\ copy \in [Callers -> JobState]

(* `create` has written the file and the Redis copy. *)
Init ==
  /\ disk = NewState /\ mirror = NewState /\ scanCopy = NewState
  /\ holder = NoOne
  /\ doneSet = {} /\ answers = 0
  /\ cancelFlag = FALSE /\ scanning = FALSE
  /\ pc = [p \in Callers |-> "idle"]
  /\ call = [p \in Callers |-> NoCall]
  /\ copy = [p \in Callers |-> NewState]

--------------------------------------------------------------------------------
Goto(p, from, to) == pc[p] = from /\ pc' = [pc EXCEPT ![p] = to]

(* A call ends, and its local variables with it. *)
Leave(p) ==
  /\ pc'   = [pc EXCEPT ![p] = "idle"]
  /\ call' = [call EXCEPT ![p] = NoCall]
  /\ copy' = [copy EXCEPT ![p] = NewState]

(* A caller enters a method.  Only a worker that saw the cancel flag marks *)
(* its subtask cancelled (tasks.py:111, 137); only a job with a result.zip *)
(* is downloaded, so one that is done or failed (api/jobs.py:231).         *)
Enter(p) ==
  /\ Goto(p, "idle", "lock")
  /\ \E c \in Calls :
       /\ c.method = "mark_subtask_cancelled" => cancelFlag
       /\ c.method = "mark_download_started" => disk.status \in Counted
       /\ call' = [call EXCEPT ![p] = c]
  /\ UNCHANGED <<disk, holder, redisVars, copy, scanVars, answers>>

MutantNoLock(p) ==
  /\ Goto(p, "lock", "body")
  /\ holder' = p
  /\ copy' = [copy EXCEPT ![p] = disk]
  /\ UNCHANGED <<disk, redisVars, call, scanVars, answers>>

(* flock(LOCK_EX) and the read inside it; the file cannot change between   *)
(* the two, since whoever writes it holds the lock.                        *)
Lock(p) ==
  /\ Goto(p, "lock", "body")
  /\ holder = NoOne
  /\ holder' = p
  /\ copy' = [copy EXCEPT ![p] = disk]
  /\ UNCHANGED <<disk, redisVars, call, scanVars, answers>>

(* The two ways out of the body: an early return leaves through the        *)
(* `finally` that unlocks; otherwise the new document is written to disk.  *)
Return(p) ==
  /\ pc[p] = "body"
  /\ Leave(p)
  /\ holder' = NoOne
  /\ UNCHANGED <<disk, redisVars, scanVars, answers>>

MutantRedisFirst(p, doc) ==
  /\ Goto(p, "body", "mirror")
  /\ mirror' = doc
  /\ copy' = [copy EXCEPT ![p] = doc]
  /\ UNCHANGED <<disk, holder, doneSet, cancelFlag, call, scanVars>>

Persist(p, doc) ==
  /\ Goto(p, "body", "mirror")
  /\ disk' = doc
  /\ copy' = [copy EXCEPT ![p] = doc]
  /\ UNCHANGED <<holder, redisVars, call, scanVars>>

(* The body of each method on the document the caller read. *)
Running(p) ==
  LET f == call[p].file
  IN  /\ call[p].method = "mark_running"
      /\ \/ /\ MovesSub(copy[p], f, "running")
            /\ Persist(p, AfterMarkRunning(copy[p], f))
            /\ UNCHANGED answers
         \/ ~ MovesSub(copy[p], f, "running") /\ Return(p)

Done(p) ==
  LET f == call[p].file
  IN  /\ call[p].method = "mark_done"
      /\ \/ /\ MovesSub(copy[p], f, "done")
            /\ Persist(p, AfterMarkDone(copy[p], f))
            /\ answers' = answers + Answer(copy[p], f, "done")
         \/ ~ MovesSub(copy[p], f, "done") /\ Return(p)

Failed(p) ==
  LET f == call[p].file
  IN  /\ call[p].method = "mark_failed"
      /\ \/ /\ MovesSub(copy[p], f, "failed")
            /\ Persist(p, AfterMarkFailed(copy[p], f))
            /\ answers' = answers + Answer(copy[p], f, "failed")
         \/ ~ MovesSub(copy[p], f, "failed") /\ Return(p)

SubtaskCancelled(p) ==
  LET f == call[p].file
  IN  /\ call[p].method = "mark_subtask_cancelled"
      /\ \/ /\ MovesSub(copy[p], f, "cancelled")
            /\ Persist(p, AfterMarkSubtaskCancelled(copy[p], f))
            /\ UNCHANGED answers
         \/ ~ MovesSub(copy[p], f, "cancelled") /\ Return(p)

Cancelled(p) ==
  /\ call[p].method = "mark_cancelled"
  /\ Persist(p, AfterMarkCancelled(copy[p]))
  /\ UNCHANGED answers

DownloadStarted(p) ==
  /\ call[p].method = "mark_download_started"
  /\ \/ /\ ~ copy[p].download_started_at
        /\ Persist(p, AfterMarkDownloadStarted(copy[p]))
        /\ UNCHANGED answers
     \/ copy[p].download_started_at /\ Return(p)

Body(p) ==
  \/ Running(p) \/ Done(p) \/ Failed(p)
  \/ SubtaskCancelled(p) \/ Cancelled(p) \/ DownloadStarted(p)

(* The second half of _persist: "file first, redis second". *)
Mirror(p) ==
  /\ Goto(p, "mirror", "unlock")
  /\ mirror' = copy[p]
  /\ copy' = [copy EXCEPT ![p] = NewState]
  /\ UNCHANGED <<disk, holder, doneSet, cancelFlag, call, scanVars, answers>>

Unlock(p) ==
  /\ Goto(p, "unlock", "after")
  /\ holder' = NoOne
  /\ UNCHANGED <<disk, redisVars, call, copy, scanVars, answers>>

(* What follows the `with` block, and the return. *)
After(p) ==
  /\ pc[p] = "after"
  /\ Leave(p)
  /\ doneSet' = IF call[p].method = "mark_done"
                  THEN doneSet \cup {call[p].file} ELSE doneSet
  /\ cancelFlag' = (cancelFlag \/ call[p].method = "mark_cancelled")
  /\ UNCHANGED <<disk, holder, mirror, scanVars, answers>>

MutantBreakLock(p) ==
  /\ pc[p] # "idle"
  /\ Leave(p)
  /\ holder' = NoOne
  /\ UNCHANGED <<disk, redisVars, scanVars, answers>>

(* Killed, or an exception: nothing more of the call, and the lock is free *)
(* again.                                                                  *)
Abort(p) ==
  /\ pc[p] # "idle"
  /\ Leave(p)
  /\ holder' = IF holder = p THEN NoOne ELSE holder
  /\ UNCHANGED <<disk, redisVars, scanVars, answers>>

(* scan_and_resume reads the file once, unlocked, works through the job    *)
(* and, if it read an open job, copies what it read to Redis at the end.   *)
ScanRead ==
  /\ ~ scanning /\ disk.status \notin Terminal
  /\ scanning' = TRUE
  /\ scanCopy' = disk
  /\ UNCHANGED <<disk, holder, redisVars, callerVars, answers>>

ScanRefresh ==
  /\ scanning
  /\ scanning' = FALSE
  /\ scanCopy' = NewState
  /\ mirror' = scanCopy
  /\ UNCHANGED <<disk, holder, doneSet, cancelFlag, callerVars, answers>>

Next ==
  \/ \E p \in Callers :
       \/ Enter(p) \/ Lock(p) \/ Body(p) \/ Mirror(p)
       \/ Unlock(p) \/ After(p) \/ Abort(p)
  \/ ScanRead
  \/ ScanRefresh

Spec == Init /\ [][Next]_vars

--------------------------------------------------------------------------------
(* Properties.                                                             *)

(* "File first, redis second": whatever a crash, an exception or the       *)
(* scan's late refresh leaves in Redis, it is an earlier document of the   *)
(* same job, never one that the disk has not reached.                      *)
RedisFollowsDisk ==
  /\ Behind(mirror, disk)
  /\ \A f \in doneSet : disk.subtasks[f] = "done"
  /\ cancelFlag => disk.cancel_requested

(* A caller about to write has the current document in memory, so no       *)
(* update made since its read is lost ("last writer wins, losing           *)
(* increments", job_service.py:331).                                       *)
NoLostUpdate == \A p \in Callers : pc[p] = "body" => copy[p] = disk

(* With the lock, every call is one atomic step of JobService. *)
JS == INSTANCE JobService WITH state <- disk

ImplementsJobService == JS!Spec
================================================================================

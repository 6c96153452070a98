------------------------------- MODULE WorkQueue -------------------------------
(***************************************************************************)
(* How work reaches the RQ workers (workers/queue.py): enqueue_subtask and *)
(* enqueue_finalize give every unit of work a fixed RQ id, first look      *)
(* whether a job with that id is active and only then enqueue it.  The     *)
(* look-up and the enqueue are two steps, and several processes enqueue.   *)
(*                                                                         *)
(* RQ itself is not part of this repository; it is modelled from how       *)
(* queue.py and tasks.py use it: a list of ids that the workers pop, and   *)
(* one record per id.                                                      *)
(***************************************************************************)
EXTENDS JobRecord, SequencesExt

CONSTANTS
  Workers,    \* RQ worker processes (RQ_WORKERS)
  Scanners,   \* processes that run scan_and_resume
  Creator,    \* the API call that creates the job
  Finalize,   \* the finalize task; the other tasks are the subtasks
  Nothing     \* no task

ASSUME QueueAssumption ==
  /\ Creator \notin Workers \cup Scanners /\ Workers \cap Scanners = {}
  /\ Finalize \notin Files /\ Nothing \notin Files \cup {Finalize} \cup Workers

Tasks  == Files \cup {Finalize}
Actors == Workers \cup Scanners \cup {Creator}

VARIABLES
  queue,   \* the list of RQ ids, one task each
  rec,     \* what the RQ record of each task says
  calls    \* the enqueue call each process is in

queueVars == <<queue, rec, calls>>

(* "ended" is a terminal record; "stale" is STARTED with a heartbeat older *)
(* than STALE_STARTED_SECONDS.                                             *)
RecordStatus == {"none", "ended", "queued", "started", "stale"}

NoCall == [task |-> Nothing, at |-> "look"]

QueueTypeOK ==
  /\ queue \in Seq(Tasks)
  /\ rec \in [Tasks -> RecordStatus]
  /\ calls \in [Actors -> [task : Tasks, at : {"look", "delete", "push"}] \cup {NoCall}]

QueueInit ==
  /\ queue = <<>>
  /\ rec = [t \in Tasks |-> "none"]
  /\ calls = [a \in Actors |-> NoCall]

--------------------------------------------------------------------------------
(* a enters enqueue_subtask or enqueue_finalize for the task t; Calling is *)
(* the value of calls then.                                                *)
Calling(a, t) == [calls EXCEPT ![a] = [task |-> t, at |-> "look"]]
Busy(a)       == calls[a] # NoCall

(* job.delete takes the id off the list, if it is there, and the record    *)
(* with it, whatever became of the task since the record was read.         *)
Delete(t) ==
  /\ queue' = RemoveFirst(queue, t)
  /\ rec' = [rec EXCEPT ![t] = "none"]

MutantStaleActive(t) == rec[t] \notin {"ended", "none"}

IsDuplicate(t) == rec[t] \in {"queued", "started"}

(* _is_duplicate: an active record ends the call; any other one is then    *)
(* deleted, as a step of its own, and the call goes on.                    *)
LookUp(a) ==
  /\ Busy(a) /\ calls[a].at = "look"
  /\ LET t == calls[a].task
     IN  calls' = [calls EXCEPT ![a] =
                     IF IsDuplicate(t) THEN NoCall
                     ELSE [task |-> t, at |-> IF rec[t] = "none" THEN "push" ELSE "delete"]]
  /\ UNCHANGED <<queue, rec>>

DropRecord(a) ==
  /\ Busy(a) /\ calls[a].at = "delete"
  /\ calls' = [calls EXCEPT ![a].at = "push"]
  /\ Delete(calls[a].task)

(* queue.enqueue *)
Push(a) ==
  /\ Busy(a) /\ calls[a].at = "push"
  /\ calls' = [calls EXCEPT ![a] = NoCall]
  /\ queue' = Append(queue, calls[a].task)
  /\ rec' = [rec EXCEPT ![calls[a].task] = "queued"]

--------------------------------------------------------------------------------
(* RQ's side. *)

(* A worker pops the head of the list. *)
Pop(t) ==
  /\ queue # <<>> /\ t = Head(queue)
  /\ queue' = Tail(queue)
  /\ rec' = [rec EXCEPT ![t] = "started"]

(* A run that returned, or raised, gets a terminal record. *)
Ended(t) == [rec EXCEPT ![t] = "ended"]

(* The heartbeat of a run is no longer refreshed. *)
HeartbeatStops(t) ==
  /\ rec[t] = "started"
  /\ rec' = [rec EXCEPT ![t] = "stale"]
================================================================================

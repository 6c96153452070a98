------------------------------ MODULE JobDeletion ------------------------------
(***************************************************************************)
(* The end of a job's directory: the three sweeps of CleanupService and    *)
(* the deletion by a late download (services/cleanup_service.py,           *)
(* api/jobs.py), against everybody who still works in that directory.      *)
(*                                                                         *)
(* A deletion lists the directory, removes what it listed one entry after  *)
(* the other, removes the directory if nothing has been added meanwhile,   *)
(* and wipes the job's Redis keys; none of it takes a lock.  A locked call *)
(* of JobService is what JobStateFile shows it to be with one addition:    *)
(* its lock file can be removed under it, and a later caller then locks    *)
(* another file of the same name.                                          *)
(*                                                                         *)
(* The tasks are those of JobPipeline cut down to their accesses to the    *)
(* directory; a task that waits or runs is not enqueued again.  There is   *)
(* one deletion at a time, and the API makes one call at a time: a cancel  *)
(* request, a download, or what its recovery scan marks done.              *)
(***************************************************************************)
EXTENDS JobRecord, Integers, FiniteSets

CONSTANTS
  Workers,    \* RQ worker processes
  Finalize,   \* the finalize task
  Nothing,    \* no document, no task, no file
  MaxDeaths   \* how many processes die

ASSUME DeletionAssumption ==
  /\ Finalize \notin Files /\ Nothing \notin Files \cup {Finalize}
  /\ Nothing \notin JobState
  /\ "api" \notin Workers /\ IsFiniteSet(Workers)
  /\ MaxDeaths \in Nat

Tasks    == Files \cup {Finalize}
Callers  == Workers \cup {"api"}
Ages     == {"grace", "cancel", "old"}

(* What is in the directory, apart from what nobody looks at later.  Two   *)
(* lock files of the same name differ in their number; 0 is none.          *)
Entries  == {"state", "lock", "out", "zip"}
LockFile == 1 .. Cardinality(Callers) + 1

VARIABLES
  doc,        \* state.json
  dir,        \* which of out, zip the directory has
  outs,       \* the files f with an out/{f}.out.xlsx
  lockFile,   \* which file is called state.lock
  cancelFlag, \* Redis key job:{id}:cancel
  queued,     \* the tasks that wait for a worker
  run,        \* the task each worker is at, and where in it
  call,       \* the call of JobService each process is in
  purge,      \* the deletion that is going on
  ages,       \* which ages have passed: of the first download, of the
              \* cancel request, of the job
  removed,    \* history: state.json has been removed once
  downloaded, \* history: a download has been recorded
  deaths      \* how many processes have died

tree   == <<doc, dir, outs, lockFile>>
times  == <<ages, removed, downloaded, deaths>>
vars   == <<tree, cancelFlag, queued, run, call, purge, times>>

Ops == {"running", "done", "failed", "subtask_cancelled", "cancelled",
        "download_started"}

Idle    == [at |-> "idle", task |-> Nothing]
NoCall  == [at |-> "none", op |-> "done", file |-> Nothing, copy |-> Nothing,
            lock |-> 1]
NoPurge == [at |-> "idle", listed |-> {}]

TypeOK ==
  /\ doc \in JobState \cup {Nothing}
  /\ dir \subseteq {"out", "zip"} /\ outs \subseteq Files
  /\ lockFile \in LockFile \cup {0}
  /\ cancelFlag \in BOOLEAN /\ queued \subseteq Tasks
  /\ run \in [Workers ->
       [at : {"idle", "begin", "check", "mkdir", "read", "save", "third",
              "finalize", "exists", "open", "pack"},
        task : Tasks \cup {Nothing}]]
  /\ call \in [Callers ->
       [at : {"none", "exists", "open", "wait", "locked", "flag"}, op : Ops,
        file : Files \cup {Nothing}, copy : JobState \cup {Nothing},
        lock : LockFile]]
  /\ purge \in [at : {"idle", "list", "remove", "keys"},
               listed : SUBSET Entries]
  /\ ages \subseteq Ages /\ removed \in BOOLEAN
  /\ downloaded \in BOOLEAN /\ deaths \in 0 .. MaxDeaths

(* create_job is over. *)
Init ==
  /\ doc = NewState /\ dir = {} /\ outs = {} /\ lockFile = 0
  /\ cancelFlag = FALSE /\ queued = Tasks
  /\ run = [w \in Workers |-> Idle]
  /\ call = [c \in Callers |-> NoCall]
  /\ purge = NoPurge
  /\ ages = {} /\ removed = FALSE /\ downloaded = FALSE /\ deaths = 0

There      == doc # Nothing
Creates(e) == dir' = dir \cup {e}
Purging    == ~ There /\ purge.at \in {"remove", "keys"}

--------------------------------------------------------------------------------
(* A locked call of JobService. *)

After(op, f, s) ==
  IF op = "running" THEN AfterMarkRunning(s, f)
  ELSE IF op = "done" THEN AfterMarkDone(s, f)
  ELSE IF op = "failed" THEN AfterMarkFailed(s, f)
  ELSE IF op = "subtask_cancelled" THEN AfterMarkSubtaskCancelled(s, f)
  ELSE IF op = "cancelled" THEN AfterMarkCancelled(s)
  ELSE AfterMarkDownloadStarted(s)

Calls(c, op, f) ==
  call' = [call EXCEPT ![c] = [NoCall EXCEPT !.at = "exists", !.op = op,
                                             !.file = f]]

(* The call raises, and so does the task that made it; the wrappers that   *)
(* catch JobNotFound return at once.                                       *)
Raises(c) ==
  /\ call' = [call EXCEPT ![c] = NoCall]
  /\ run' = IF c \in Workers THEN [run EXCEPT ![c] = Idle] ELSE run

Exists(c) ==
  /\ call[c].at = "exists"
  /\ \/ There /\ call' = [call EXCEPT ![c].at = "open"] /\ UNCHANGED run
     \/ ~ There /\ Raises(c)
  /\ UNCHANGED <<tree, cancelFlag, queued, purge, times>>

(* mkdir, and open(lock_path, "w"): a directory or a lock file that is     *)
(* gone comes back.                                                        *)
Unused == CHOOSE n \in LockFile :
            \A c \in Callers : call[c].at \in {"wait", "locked"}
                                 => call[c].lock # n

Open(c) ==
  /\ call[c].at = "open"
  /\ lockFile' = IF lockFile = 0 THEN Unused ELSE lockFile
  /\ call' = [call EXCEPT ![c].at = "wait", ![c].lock = lockFile']
  /\ UNCHANGED <<doc, dir, outs, cancelFlag, queued, run, purge, times>>

MutantNoFlock(c) ==
  /\ call[c].at = "wait"
  /\ \/ /\ There
        /\ call' = [call EXCEPT ![c].at = "locked", ![c].copy = doc]
        /\ UNCHANGED run
     \/ ~ There /\ Raises(c)
  /\ UNCHANGED <<tree, cancelFlag, queued, purge, times>>

(* flock, and the document is read under it. *)
Locks(c) ==
  /\ call[c].at = "wait"
  /\ \A b \in Callers : ~ (call[b].at = "locked" /\ call[b].lock = call[c].lock)
  /\ \/ /\ There
        /\ call' = [call EXCEPT ![c].at = "locked", ![c].copy = doc]
        /\ UNCHANGED run
     \/ ~ There /\ Raises(c)
  /\ UNCHANGED <<tree, cancelFlag, queued, purge, times>>

(* What the caller does with the answer. *)
Continues(c, op) ==
  /\ run' = IF c \notin Workers THEN run
            ELSE IF op = "running" THEN [run EXCEPT ![c].at = "check"]
            ELSE [run EXCEPT ![c] = Idle]
  /\ call' = [call EXCEPT ![c] =
                IF op = "cancelled" THEN [NoCall EXCEPT !.at = "flag"]
                                    ELSE NoCall]

(* The document, with the directory if it is gone, is written unless the   *)
(* call left it as it was; the time of a cancel request is written anew    *)
(* each time.  The last mark_done or mark_failed enqueues the finalize     *)
(* task.                                                                   *)
Persist(c) ==
  LET op == call[c].op
      f  == call[c].file
      s  == call[c].copy
      t  == After(op, f, s)
  IN  /\ call[c].at = "locked"
      /\ IF t = s /\ op # "cancelled"
           THEN UNCHANGED doc
           ELSE doc' = t
      /\ queued' = IF op \in {"done", "failed"} /\ IsLast(s, f, op)
                     THEN queued \cup {Finalize} ELSE queued
      /\ ages' = IF op = "cancelled" THEN ages \ {"cancel"} ELSE ages
      /\ downloaded' = (downloaded \/ op = "download_started")
      /\ Continues(c, op)
      /\ UNCHANGED <<dir, outs, lockFile, cancelFlag, purge, removed, deaths>>

(* The directory disappears between the mkdir and the replace. *)
PersistRaises(c) ==
  /\ call[c].at = "locked" /\ Purging
  /\ Raises(c)
  /\ UNCHANGED <<tree, cancelFlag, queued, purge, times>>

LockedCall(c) ==
  Exists(c) \/ Open(c) \/ Locks(c) \/ Persist(c) \/ PersistRaises(c)

--------------------------------------------------------------------------------
(* The tasks. *)

At(w, l)   == run[w].at = l /\ call[w].at = "none"
Goes(w, l) == run' = [run EXCEPT ![w].at = l] /\ UNCHANGED call
Ends(w)    == run' = [run EXCEPT ![w] = Idle] /\ UNCHANGED call
Marks(w, op) == Calls(w, op, run[w].task) /\ UNCHANGED run

Take(w) ==
  /\ At(w, "idle")
  /\ \E t \in queued :
       /\ queued' = queued \ {t}
       /\ run' = [run EXCEPT ![w] =
            IF t = Finalize THEN [at |-> "finalize", task |-> t]
            ELSE IF cancelFlag THEN Idle ELSE [at |-> "begin", task |-> t]]
  /\ UNCHANGED <<tree, cancelFlag, call, purge, times>>

Begin(w) ==
  /\ At(w, "begin")
  /\ \/ run[w].task \in outs /\ Marks(w, "done")
     \/ run[w].task \notin outs /\ There /\ Marks(w, "running")
     \/ run[w].task \notin outs /\ ~ There /\ Ends(w)
  /\ UNCHANGED <<tree, cancelFlag, queued, purge, times>>

SecondCheck(w) ==
  /\ At(w, "check")
  /\ \/ cancelFlag /\ Marks(w, "subtask_cancelled")
     \/ ~ cancelFlag /\ Goes(w, "mkdir")
  /\ UNCHANGED <<tree, cancelFlag, queued, purge, times>>

MakeOut(w) ==
  /\ At(w, "mkdir")
  /\ Creates("out")
  /\ Goes(w, "read")
  /\ UNCHANGED <<doc, outs, lockFile, cancelFlag, queued, purge, times>>

(* The uploads are read and converted, or they are gone, or faulty. *)
ReadUploads(w) ==
  /\ At(w, "read")
  /\ Goes(w, "save") \/ Marks(w, "failed")
  /\ UNCHANGED <<tree, cancelFlag, queued, purge, times>>

(* atomic_path makes out/ again. *)
Save(w) ==
  /\ At(w, "save")
  /\ Creates("out")
  /\ outs' = outs \cup {run[w].task}
  /\ Goes(w, "third")
  /\ UNCHANGED <<doc, lockFile, cancelFlag, queued, purge, times>>

ThirdCheck(w) ==
  /\ At(w, "third")
  /\ Marks(w, IF cancelFlag THEN "subtask_cancelled" ELSE "done")
  /\ UNCHANGED <<tree, cancelFlag, queued, purge, times>>

Converted(s) == s.status # "cancelled" /\ AllCounted(s) /\ ~ AllFailed(s)

FinalizeRead(w) ==
  /\ At(w, "finalize")
  /\ IF There /\ "zip" \notin dir
       THEN IF Converted(doc) THEN Goes(w, "exists") ELSE Ends(w)
       ELSE Ends(w)
  /\ UNCHANGED <<tree, cancelFlag, queued, purge, times>>

(* finalize_lock checks before it creates, too. *)
FinalizeExists(w) ==
  /\ At(w, "exists")
  /\ IF There THEN Goes(w, "open") ELSE Ends(w)
  /\ UNCHANGED <<tree, cancelFlag, queued, purge, times>>

FinalizeOpen(w) ==
  /\ At(w, "open")
  /\ IF "zip" \in dir THEN Ends(w) ELSE Goes(w, "pack")
  /\ UNCHANGED <<tree, cancelFlag, queued, purge, times>>

FinalizePack(w) ==
  /\ At(w, "pack")
  /\ \/ Creates("zip")
     \/ Purging /\ UNCHANGED dir
  /\ Ends(w)
  /\ UNCHANGED <<doc, outs, lockFile, cancelFlag, queued, purge, times>>

Work(w) ==
  \/ Take(w) \/ Begin(w) \/ SecondCheck(w) \/ MakeOut(w) \/ ReadUploads(w)
  \/ Save(w) \/ ThirdCheck(w) \/ FinalizeRead(w) \/ FinalizeExists(w)
  \/ FinalizeOpen(w) \/ FinalizePack(w)

--------------------------------------------------------------------------------
(* The recovery scan, on a document that it has just read. *)
Active(t) == t \in queued \/ \E w \in Workers : run[w].task = t

ScanFile(f) ==
  /\ call["api"].at = "none" /\ There
  /\ doc.status \notin Terminal
  /\ \/ /\ f \in outs /\ doc.subtasks[f] \notin Counted
        /\ Calls("api", "done", f) /\ UNCHANGED queued
     \/ /\ f \notin outs /\ doc.subtasks[f] # "done" /\ ~ Active(f)
        /\ queued' = queued \cup {f} /\ UNCHANGED call
  /\ UNCHANGED <<tree, cancelFlag, run, purge, times>>

ScanBackstop ==
  /\ call["api"].at = "none" /\ There
  /\ Converted(doc) /\ "zip" \notin dir /\ ~ Active(Finalize)
  /\ queued' = queued \cup {Finalize}
  /\ UNCHANGED <<tree, cancelFlag, run, call, purge, times>>

Scan == ScanBackstop \/ \E f \in Files : ScanFile(f)

--------------------------------------------------------------------------------
(* The requests. *)
CancelJob ==
  /\ call["api"].at = "none" /\ There
  /\ doc.status \notin Terminal
  /\ Calls("api", "cancelled", Nothing)
  /\ UNCHANGED <<tree, cancelFlag, queued, run, purge, times>>

(* The end of mark_cancelled, and cancel_job drops what is queued. *)
SetFlag ==
  /\ call["api"].at = "flag"
  /\ cancelFlag' = TRUE /\ queued' = {}
  /\ call' = [call EXCEPT !["api"] = NoCall]
  /\ UNCHANGED <<tree, run, purge, times>>

GraceOver(s) == s.download_started_at /\ "grace" \in ages

Download ==
  /\ call["api"].at = "none" /\ There
  /\ \/ /\ ~ GraceOver(doc) /\ "zip" \in dir
        /\ Calls("api", "download_started", Nothing)
        /\ UNCHANGED purge
     \/ /\ GraceOver(doc) /\ purge.at = "idle"
        /\ purge' = [purge EXCEPT !.at = "list"]
        /\ UNCHANGED call
  /\ UNCHANGED <<tree, cancelFlag, queued, run, times>>

--------------------------------------------------------------------------------
(* The sweeps.  A job is due by the document the sweep has read. *)
NothingRuns(s) == \A f \in Files : s.subtasks[f] # "running"

MutantNoTimeout(s) ==
  \/ GraceOver(s)
  \/ "old" \in ages
  \/ s.status = "cancelled" /\ NothingRuns(s)

MutantByRequest(s) == GraceOver(s) \/ "old" \in ages \/ s.cancel_requested

Due(s) ==
  \/ GraceOver(s)
  \/ "old" \in ages
  \/ s.status = "cancelled" /\ (NothingRuns(s) \/ "cancel" \in ages)

Sweep ==
  /\ purge.at = "idle" /\ There
  /\ Due(doc)
  /\ purge' = [purge EXCEPT !.at = "list"]
  /\ UNCHANGED <<tree, cancelFlag, queued, run, call, times>>

(* rmtree lists the directory, if there is one ... *)
Held ==
       dir
  \cup (IF There THEN {"state"} ELSE {})
  \cup (IF lockFile # 0 THEN {"lock"} ELSE {})

List ==
  /\ purge.at = "list"
  /\ purge' = [at |-> "remove", listed |-> Held]
  /\ UNCHANGED <<tree, cancelFlag, queued, run, call, times>>

(* ... and removes what it listed, in the order of the listing. *)
Remove(e) ==
  /\ purge.at = "remove" /\ e \in purge.listed \cap Held
  /\ purge' = [purge EXCEPT !.listed = @ \ {e}]
  /\ dir' = dir \ {e}
  /\ doc' = IF e = "state" THEN Nothing ELSE doc
  /\ lockFile' = IF e = "lock" THEN 0 ELSE lockFile
  /\ outs' = IF e = "out" THEN {} ELSE outs
  /\ removed' = (removed \/ e = "state")
  /\ UNCHANGED <<cancelFlag, queued, run, call, ages, downloaded, deaths>>

RemoveDir ==
  /\ purge.at = "remove" /\ purge.listed = {} /\ Held = {}
  /\ purge' = [purge EXCEPT !.at = "keys"]
  /\ UNCHANGED <<tree, cancelFlag, queued, run, call, times>>

(* It raises when out/ or the directory has got another entry meanwhile, a *)
(* temporary file perhaps: then the rest stays, and so do the Redis keys.  *)
RemoveRaises ==
  /\ purge.at = "remove"
  /\ \/ "out" \in purge.listed /\ \E w \in Workers : At(w, "save")
     \/ /\ purge.listed = {}
        /\ \/ Held # {}
           \/ \E c \in Callers : call[c].at = "locked"
           \/ \E w \in Workers : At(w, "pack")
  /\ purge' = NoPurge
  /\ UNCHANGED <<tree, cancelFlag, queued, run, call, times>>

WipeKeys ==
  /\ purge.at = "keys"
  /\ cancelFlag' = FALSE
  /\ purge' = NoPurge
  /\ UNCHANGED <<tree, queued, run, call, times>>

Deletes ==
  \/ List \/ RemoveDir \/ RemoveRaises \/ WipeKeys
  \/ \E e \in Entries : Remove(e)

--------------------------------------------------------------------------------
(* Time.  The grace period runs from the first download, the time-out of a *)
(* cancelled job from the request; it is a minute longer than what RQ lets *)
(* a task run, so that no task is at work any more that was at the request.*)
Passes(a) ==
  /\ a \notin ages
  /\ a = "grace"  => There /\ doc.download_started_at
  /\ a = "cancel" => /\ There /\ doc.status = "cancelled"
                     /\ \A w \in Workers : run[w] = Idle
  /\ ages' = ages \cup {a}
  /\ UNCHANGED <<tree, cancelFlag, queued, run, call, purge, removed,
                 downloaded, deaths>>

--------------------------------------------------------------------------------
(* Deaths: a worker's task, or the API with its calls and deletions.       *)
Dies == deaths < MaxDeaths /\ deaths' = deaths + 1

WorkerDies(w) ==
  /\ run[w] # Idle /\ Dies
  /\ Raises(w)
  /\ UNCHANGED <<tree, cancelFlag, queued, purge, ages, removed, downloaded>>

ApiDies ==
  /\ Dies
  /\ call' = [c \in Callers |-> IF c \in Workers THEN call[c] ELSE NoCall]
  /\ purge' = NoPurge
  /\ UNCHANGED <<tree, cancelFlag, queued, run, ages, removed, downloaded>>

Next ==
  \/ \E c \in Callers : LockedCall(c)
  \/ \E w \in Workers : Work(w) \/ WorkerDies(w)
  \/ \E a \in Ages : Passes(a)
  \/ Scan \/ Sweep \/ Deletes \/ CancelJob \/ SetFlag \/ Download \/ ApiDies

Spec == Init /\ [][Next]_vars

Fairness ==
  /\ \A w \in Workers : WF_vars(Work(w) \/ LockedCall(w))
  /\ WF_vars(LockedCall("api") \/ SetFlag)
  /\ WF_vars(Sweep) /\ WF_vars(Deletes) /\ WF_vars(Passes("cancel"))

FairSpec == Spec /\ Fairness

--------------------------------------------------------------------------------
(* Properties. *)

(* A writer that held the document while it was deleted writes it back     *)
(* (mkdir and all, job_service.py:313).  Unless the job has reached its    *)
(* retention age, what comes back is over: the recovery scan will not      *)
(* start a job again that the user cancelled, or whose zip is gone.        *)
ResurrectedIsOver ==
  There /\ removed /\ "old" \notin ages => doc.status \in Terminal

(* A zip that has been downloaded once can be downloaded again for the     *)
(* whole grace period (download_zip: "retries are cheap"), whatever cancel *)
(* request, late task or sweep of cancelled jobs comes between; only the   *)
(* retention age overrides it.                                             *)
ZipKept ==
  downloaded /\ {"grace", "old"} \cap ages = {}
    => There /\ "zip" \in dir

(* A job that is cancelled, or whose grace period or retention is over, is *)
(* in the end gone for good: neither a dead worker whose subtask stays     *)
(* running, nor a sweep that raises, nor a writer that brings the document *)
(* back, nor the scan that enqueues it again, keeps it.                    *)
IsCancelled == There /\ doc.status = "cancelled"

DueIsSwept ==
  (IsCancelled \/ {"grace", "old"} \cap ages # {}) ~> [](~ There)

(* A late call of "a job dir already purged (cancelled + swept mid-flight) *)
(* must raise JobNotFound without leaving an orphan dir/lock file behind"  *)
(* (job_service.py:335-337): before retention, when the document is gone   *)
(* and every call and deletion is over, so is the lock file.               *)
AllOver == purge = NoPurge /\ \A c \in Callers : call[c] = NoCall

NoOrphanLock == ~ There /\ "old" \notin ages /\ AllOver => lockFile = 0
================================================================================

------------------------------ MODULE JobPipeline ------------------------------
(***************************************************************************)
(* One job from its creation to its result.zip: the API enqueues the       *)
(* subtasks and a finalize task, RQ workers run them (workers/tasks.py),   *)
(* the recovery scan re-enqueues what seems lost                           *)
(* (services/recovery_service.py), a user may cancel (api/jobs.py), and    *)
(* any process may die.                                                    *)
(*                                                                         *)
(* A call of JobService is one step here: JobStateFile shows why it may    *)
(* be.  Everything between two such calls, two file accesses or two Redis  *)
(* accesses is open to the other processes.                                *)
(***************************************************************************)
EXTENDS WorkQueue, Naturals

CONSTANTS
  Periodic,   \* the scanners that scan again and again (the API's scheduler);
              \* the others scan once (the start of a container)
  EventKinds, \* what the environment may do: "cancel" (the user asks to),
              \* "fault" (a process dies, or a call raises)
  MaxEvents   \* how often it does

ASSUME PipelineAssumption ==
  /\ Periodic \subseteq Scanners
  /\ EventKinds \subseteq {"cancel", "fault"} /\ MaxEvents \in Nat

VARIABLES
  state,       \* state.json
  cancelFlag,  \* Redis key job:{id}:cancel
  answers,     \* history of JobService
  outputs,     \* the files f with a complete out/{f}.out.xlsx
  torn,        \* the files f with an abandoned out/.tmp-* of theirs
  packs,       \* history: the contents of result.zip each time it was written
  packer,      \* who holds the flock on finalize.lock
  listing,     \* what the packer found in out/
  pc,          \* where each worker is in its task
  task,        \* the task of each worker
  unsent,      \* what create_job has still to enqueue
  scan,        \* what each recovery scan has still to do
  canceller,   \* where a cancel request is, and which tasks it has to drop
  events       \* how many of them there were

jobVars    == <<state, cancelFlag, answers>>
packVars   == <<packs, packer, listing>>
workerVars == <<pc, task>>
otherVars  == <<unsent, scan, canceller, events>>
vars == <<queueVars, jobVars, outputs, torn, packVars, workerVars, otherVars>>

JS == INSTANCE JobService

WorkerPC == {"idle", "begin", "skip", "start", "check", "write", "wrote", "done",
             "failing", "finalize", "lock", "pack", "return"}

(* What out/ holds at a moment, and so what a zip of it would hold. *)
Content  == [outputs : SUBSET Files, torn : SUBSET Files]
NoContent == [outputs |-> {}, torn |-> {}]

(* Of the document it read, a scan uses which subtasks were not settled,   *)
(* which had failed, and whether the job was converted.                    *)
NoScan == [on |-> FALSE, open |-> {}, failed |-> {}, converted |-> FALSE,
           over |-> FALSE]

CancellerAt == {"idle", "mark", "flag", "list", "drop"}

ScanOver(s) == [NoScan EXCEPT !.over = s \notin Periodic]

TypeOK ==
  /\ QueueTypeOK /\ JS!TypeOK
  /\ outputs \subseteq Files /\ torn \subseteq Files
  /\ packs \in Seq(Content) /\ listing \in Content
  /\ packer \in Workers \cup {Nothing}
  /\ pc \in [Workers -> WorkerPC]
  /\ task \in [Workers -> Tasks \cup {Nothing}]
  /\ unsent \subseteq Tasks
  /\ scan \in [Scanners -> [on : BOOLEAN, open : SUBSET Files,
                            failed : SUBSET Files, converted : BOOLEAN,
                            over : BOOLEAN]]
  /\ canceller \in [at : CancellerAt, drop : SUBSET Tasks]
  /\ events \in 0 .. MaxEvents

(* create_job has called JobService.create. *)
Init ==
  /\ QueueInit /\ JS!Init
  /\ outputs = {} /\ torn = {}
  /\ packs = <<>> /\ packer = Nothing /\ listing = NoContent
  /\ pc = [w \in Workers |-> "idle"]
  /\ task = [w \in Workers |-> Nothing]
  /\ unsent = Tasks
  /\ scan = [s \in Scanners |-> NoScan]
  /\ canceller = [at |-> "idle", drop |-> {}]
  /\ events = 0

--------------------------------------------------------------------------------
(* Enqueuing.  create_job enqueues the subtasks, then the finalize task.   *)
Create ==
  /\ ~ Busy(Creator)
  /\ \E t \in unsent :
       /\ t = Finalize => unsent = {Finalize}
       /\ calls' = Calling(Creator, t)
       /\ unsent' = unsent \ {t}
  /\ UNCHANGED <<queue, rec, jobVars, outputs, torn, packVars, workerVars,
                 scan, canceller, events>>

Enqueue(a) ==
  /\ LookUp(a) \/ DropRecord(a) \/ Push(a)
  /\ UNCHANGED <<jobVars, outputs, torn, packVars, workerVars, otherVars>>

(* Ageing of RQ records: the heartbeat of a run whose worker is gone.      *)
Stale(t) ==
  /\ \A w \in Workers : task[w] # t
  /\ HeartbeatStops(t)
  /\ UNCHANGED <<queue, calls, jobVars, outputs, torn, packVars, workerVars,
                 otherVars>>

--------------------------------------------------------------------------------
(* The workers.  run_subtask, from one access to shared state to the next. *)
Goto(w, from, to) == pc[w] = from /\ pc' = [pc EXCEPT ![w] = to]

(* A worker takes the head of the queue; the first thing run_subtask does  *)
(* is to return if the cancel flag is set.  (One step: until then the      *)
(* others cannot tell the task from one still queued.)                     *)
Dequeue(w) ==
  /\ \E t \in Tasks :
       /\ Pop(t)
       /\ task' = [task EXCEPT ![w] = t]
       /\ \/ t = Finalize /\ Goto(w, "idle", "finalize")
          \/ t # Finalize /\ ~ cancelFlag /\ Goto(w, "idle", "begin")
          \/ t # Finalize /\ cancelFlag /\ Goto(w, "idle", "return")
  /\ UNCHANGED <<calls, jobVars, outputs, torn, packVars, otherVars>>

(* RQ records that the function returned or raised. *)
Finish(w) ==
  /\ Goto(w, "return", "idle") /\ ~ Busy(w)
  /\ task' = [task EXCEPT ![w] = Nothing]
  /\ rec' = Ended(task[w])
  /\ UNCHANGED <<queue, calls, jobVars, outputs, torn, packVars, otherVars>>

(* What mark_done and mark_failed answer decides whether the worker        *)
(* enqueues the finalize task before it returns.                           *)
SettlesThen(w, f, target) ==
  calls' = IF IsLast(state, f, target) THEN Calling(w, Finalize) ELSE calls

(* Is the output of an earlier run there?  The answer may be out of date   *)
(* when it is used: another run of the same task may be about to write it. *)
Look(w) ==
  /\ Goto(w, "begin", IF task[w] \in outputs THEN "skip" ELSE "start")
  /\ UNCHANGED <<queueVars, jobVars, outputs, torn, packVars, task, otherVars>>

AlreadyDone(w) ==
  /\ Goto(w, "skip", "return")
  /\ JS!MarkDone(task[w])
  /\ SettlesThen(w, task[w], "done")
  /\ UNCHANGED <<queue, rec, outputs, torn, packVars, task, otherVars>>

(* The configuration is gone: mark_failed, and its answer is not used.     *)
ConfigGone(w) ==
  /\ Goto(w, "start", "return")
  /\ JS!MarkFailed(task[w])
  /\ UNCHANGED <<queueVars, outputs, torn, packVars, task, otherVars>>

Start(w) ==
  /\ Goto(w, "start", "check")
  /\ JS!MarkRunning(task[w])
  /\ UNCHANGED <<queueVars, outputs, torn, packVars, task, otherVars>>

(* The checks before the writer starts and after it has finished. *)
LaterCheck(w, from, to) ==
  /\ \/ /\ Goto(w, from, "return")
        /\ JS!MarkSubtaskCancelled(task[w])      \* only if cancelFlag
     \/ /\ ~ cancelFlag
        /\ Goto(w, from, to)
        /\ UNCHANGED jobVars
  /\ UNCHANGED <<queueVars, outputs, torn, packVars, task, otherVars>>

SecondCheck(w) == LaterCheck(w, "check", "write")
ThirdCheck(w)  == LaterCheck(w, "wrote", "done")

(* While the writer runs its output is an out/.tmp-*; os.replace makes it  *)
(* the output.                                                             *)
Write(w) ==
  /\ Goto(w, "write", "wrote")
  /\ outputs' = outputs \cup {task[w]}
  /\ UNCHANGED <<queueVars, jobVars, torn, packVars, task, otherVars>>

MutantErrorSwallowed(w) ==
  /\ Goto(w, "write", "wrote")
  /\ UNCHANGED <<queueVars, jobVars, outputs, torn, packVars, task, otherVars>>

(* _execute raises and the temporary file goes; the time limit may strike  *)
(* after the replace.                                                      *)
WriteFails(w) ==
  /\ Goto(w, "write", "failing")
  /\ outputs' \in {outputs, outputs \cup {task[w]}}
  /\ UNCHANGED <<queueVars, jobVars, torn, packVars, task, otherVars>>

Failing(w) ==
  /\ Goto(w, "failing", "return")
  /\ JS!MarkFailed(task[w])
  /\ SettlesThen(w, task[w], "failed")
  /\ UNCHANGED <<queue, rec, outputs, torn, packVars, task, otherVars>>

Done(w) ==
  /\ Goto(w, "done", "return")
  /\ JS!MarkDone(task[w])
  /\ SettlesThen(w, task[w], "done")
  /\ UNCHANGED <<queue, rec, outputs, torn, packVars, task, otherVars>>

--------------------------------------------------------------------------------
(* finalize_job: the decisions are taken on the document it reads first.   *)
Packed == packs # <<>>

MutantConverted(doc) == doc.status # "cancelled" /\ ~ AllFailed(doc)

MutantCancelIgnored(doc) == AllCounted(doc) /\ ~ AllFailed(doc)

(* Every subtask has settled, one at least is done, and nobody cancelled.  *)
Converted(doc) ==
  doc.status # "cancelled" /\ AllCounted(doc) /\ ~ AllFailed(doc)

FinalizeRead(w) ==
  /\ Goto(w, "finalize", IF Converted(state) /\ ~ Packed
                          THEN "lock" ELSE "return")
  /\ UNCHANGED <<queueVars, jobVars, outputs, torn, packVars, task, otherVars>>

Writing == {task[w] : w \in {v \in Workers : pc[v] = "write"}}

(* finalize_lock, the second look for result.zip, and zipper.pack's list   *)
(* of out/, temporary files included.                                      *)
FinalizeLock(w) ==
  /\ packer = Nothing
  /\ \/ /\ Packed
        /\ Goto(w, "lock", "return")
        /\ UNCHANGED packVars
     \/ /\ ~ Packed
        /\ Goto(w, "lock", "pack")
        /\ packer' = w
        /\ \E open \in SUBSET Writing :
             listing' = [outputs |-> outputs, torn |-> torn \cup open]
        /\ UNCHANGED packs
  /\ UNCHANGED <<queueVars, jobVars, outputs, torn, task, otherVars>>

FinalizePack(w) ==
  /\ Goto(w, "pack", "return")
  /\ packs' = Append(packs, listing)
  /\ packer' = Nothing
  /\ listing' = NoContent
  /\ UNCHANGED <<queueVars, jobVars, outputs, torn, task, otherVars>>

--------------------------------------------------------------------------------
(* scan_and_resume on this job: it reads the document once, and sweeps the *)
(* temporary files that are old enough.                                    *)
ScanStart(s) ==
  LET unfinished == state.status \notin Terminal
      Those(kind) == {f \in Files : unfinished /\ state.subtasks[f] \in kind}
  IN  /\ ~ scan[s].on /\ ~ scan[s].over /\ ~ Busy(s)
      /\ scan' = [scan EXCEPT ![s] =
           [on |-> TRUE, open |-> Those({"pending", "running", "cancelled"}),
            failed |-> Those({"failed"}), converted |-> Converted(state),
            over |-> FALSE]]
      /\ torn' \in SUBSET torn
      /\ UNCHANGED <<queueVars, jobVars, outputs, packVars, workerVars, unsent,
                     canceller, events>>

(* One subtask: an output without its mark_done gets it; a subtask that    *)
(* was not done and has no output is enqueued, a failed one as well.       *)
ScanFile(s, f) ==
  /\ ~ Busy(s)
  /\ f \in scan[s].open \cup scan[s].failed
  /\ scan' = [scan EXCEPT ![s].open = @ \ {f}, ![s].failed = @ \ {f}]
  /\ \/ /\ f \in outputs /\ f \in scan[s].open
        /\ JS!MarkDone(f)
        /\ SettlesThen(s, f, "done")
     \/ /\ f \in outputs /\ f \in scan[s].failed
        /\ UNCHANGED <<calls, jobVars>>
     \/ /\ f \notin outputs
        /\ calls' = Calling(s, f)
        /\ UNCHANGED jobVars
  /\ UNCHANGED <<queue, rec, outputs, torn, packVars, workerVars, unsent,
                 canceller, events>>

ScanDone(s) ==
  scan[s].on /\ scan[s].open = {} /\ scan[s].failed = {} /\ ~ Busy(s)

MutantNoBackstop(s) ==
  /\ ScanDone(s)
  /\ scan' = [scan EXCEPT ![s] = ScanOver(s)]
  /\ UNCHANGED <<queueVars, jobVars, outputs, torn, packVars, workerVars,
                 unsent, canceller, events>>

(* The finalize backstop. *)
ScanEnd(s) ==
  /\ ScanDone(s)
  /\ scan' = [scan EXCEPT ![s] = ScanOver(s)]
  /\ calls' = IF scan[s].converted /\ ~ Packed THEN Calling(s, Finalize)
                                               ELSE calls
  /\ UNCHANGED <<queue, rec, jobVars, outputs, torn, packVars, workerVars,
                 unsent, canceller, events>>

--------------------------------------------------------------------------------
Event(kind) ==
  kind \in EventKinds /\ events < MaxEvents /\ events' = events + 1

(* cancel_job: an unlocked look at the status, the two writes of           *)
(* mark_cancelled, a look at the list and one cancel and delete for every  *)
(* task found on it (in any order).  A request that dies is one that takes *)
(* no further step.                                                        *)
CancelGoto(from, to) ==
  /\ canceller.at = from /\ canceller' = [canceller EXCEPT !.at = to]
  /\ UNCHANGED <<calls, outputs, torn, packVars, workerVars, unsent, scan>>

CancelRequest ==
  /\ state.status \notin Terminal
  /\ CancelGoto("idle", "mark") /\ Event("cancel")
  /\ UNCHANGED <<queue, rec, jobVars>>

CancelMark ==
  /\ CancelGoto("mark", "flag")
  /\ JS!MarkCancelled
  /\ UNCHANGED <<queue, rec, events>>

CancelFlag ==
  /\ CancelGoto("flag", "list")
  /\ JS!SetCancelFlag
  /\ UNCHANGED <<queue, rec, events>>

CancelList ==
  /\ canceller.at = "list"
  /\ canceller' = [at |-> "drop", drop |-> ToSet(queue)]
  /\ UNCHANGED <<queueVars, jobVars, outputs, torn, packVars, workerVars,
                 unsent, scan, events>>

CancelDrop(t) ==
  /\ canceller.at = "drop" /\ t \in canceller.drop
  /\ canceller' = [canceller EXCEPT !.drop = @ \ {t}]
  /\ Delete(t)
  /\ UNCHANGED <<calls, jobVars, outputs, torn, packVars, workerVars, unsent,
                 scan, events>>

CancelEnd ==
  /\ canceller.drop = {} /\ CancelGoto("drop", "idle")
  /\ UNCHANGED <<queue, rec, jobVars, events>>

--------------------------------------------------------------------------------
(* Faults. *)

(* A task is killed, or an exception leaves it: RQ's parent process        *)
(* records the failure, unless it was the one killed.  The kernel drops    *)
(* the lock; a writer that was killed leaves its temporary file behind.    *)
WorkerFault(w) ==
  /\ pc[w] # "idle" /\ Event("fault")
  /\ pc' = [pc EXCEPT ![w] = "idle"]
  /\ task' = [task EXCEPT ![w] = Nothing]
  /\ calls' = [calls EXCEPT ![w] = NoCall]
  /\ rec' \in {rec, Ended(task[w])}
  /\ torn' \in {torn, IF pc[w] = "write" THEN torn \cup {task[w]} ELSE torn}
  /\ packer' = IF packer = w THEN Nothing ELSE packer
  /\ listing' = IF packer = w THEN NoContent ELSE listing
  /\ UNCHANGED <<queue, jobVars, outputs, packs, unsent, scan, canceller>>

(* The parent is killed and its task goes on without a heartbeat.          *)
OrphanRun(w) ==
  /\ pc[w] # "idle" /\ Event("fault")
  /\ HeartbeatStops(task[w])
  /\ UNCHANGED <<queue, calls, jobVars, outputs, torn, packVars, workerVars,
                 unsent, scan, canceller>>

CreatorFault ==
  /\ unsent # {} \/ Busy(Creator)
  /\ Event("fault")
  /\ unsent' = {}
  /\ calls' = [calls EXCEPT ![Creator] = NoCall]
  /\ UNCHANGED <<queue, rec, jobVars, outputs, torn, packVars, workerVars,
                 scan, canceller>>

ScanFault(s) ==
  /\ scan[s].on \/ Busy(s)
  /\ Event("fault")
  /\ scan' = [scan EXCEPT ![s] = ScanOver(s)]
  /\ calls' = [calls EXCEPT ![s] = NoCall]
  /\ UNCHANGED <<queue, rec, jobVars, outputs, torn, packVars, workerVars,
                 unsent, canceller>>

--------------------------------------------------------------------------------
RunSubtask(w) ==
  \/ Look(w) \/ AlreadyDone(w) \/ ConfigGone(w) \/ Start(w)
  \/ SecondCheck(w) \/ Write(w) \/ WriteFails(w) \/ Failing(w)
  \/ ThirdCheck(w) \/ Done(w)

FinalizeJob(w) == FinalizeRead(w) \/ FinalizeLock(w) \/ FinalizePack(w)

Run(w) == RunSubtask(w) \/ FinalizeJob(w) \/ Enqueue(w) \/ Finish(w)

CreateJob == Create \/ Enqueue(Creator)

ScanAndResume(s) ==
  \/ ScanStart(s) \/ ScanEnd(s) \/ Enqueue(s)
  \/ \E f \in Files : ScanFile(s, f)

CancelJob ==
  \/ CancelMark \/ CancelFlag \/ CancelList \/ CancelEnd
  \/ \E t \in Tasks : CancelDrop(t)

SomeFault ==
  \/ \E w \in Workers : WorkerFault(w) \/ OrphanRun(w)
  \/ \E s \in Scanners : ScanFault(s)
  \/ CreatorFault

Next ==
  \/ \E w \in Workers : Dequeue(w) \/ Run(w)
  \/ \E t \in Tasks : Stale(t)
  \/ \E s \in Scanners : ScanAndResume(s)
  \/ CreateJob
  \/ CancelRequest
  \/ CancelJob
  \/ SomeFault

Spec == Init /\ [][Next]_vars

(* Every process that is up goes on; a scan is started every               *)
(* RESUME_SCAN_SECONDS; some worker takes what is queued; a heartbeat that *)
(* is not refreshed grows old.  A cancel request need not come to its end, *)
(* and nothing has to fail.                                                *)
Fairness ==
  /\ \A w \in Workers : WF_vars(Run(w))
  /\ WF_vars(\E w \in Workers : Dequeue(w))
  /\ \A t \in Tasks : WF_vars(Stale(t))
  /\ \A s \in Scanners : WF_vars(ScanAndResume(s))
  /\ WF_vars(CreateJob)

FairSpec == Spec /\ Fairness

--------------------------------------------------------------------------------
(* Properties.                                                             *)

(* A subtask is done only when its output is complete on disk, whether a   *)
(* worker or the recovery scan says so: the user never gets a zip with a   *)
(* file missing that the summary ticks off.                                *)
DoneHasOutput ==
  \A f \in Files : state.subtasks[f] = "done" => f \in outputs

(* result.zip is written once, however many finalize tasks run at a time,  *)
(* and only for a job whose subtasks have all settled; it holds the output *)
(* of every file that is done, for good.  A cancelled job has none.        *)
ZipIsComplete ==
  /\ Len(packs) <= 1
  /\ Packed =>
       /\ state.status \in {"done", "failed"}
       /\ \A f \in Files :
            state.subtasks[f] = "done" => f \in Last(packs).outputs

(* Whatever process dies in between, every job ends, and the user of a job *)
(* that was not cancelled and of which a file was converted gets a zip.    *)
EveryJobServed ==
  <>(state.status \in Terminal /\ (Converted(state) => Packed))

(* Nobody is going to do anything about the job any more. *)
Quiet ==
  /\ queue = <<>> /\ unsent = {} /\ canceller.at = "idle"
  /\ \A w \in Workers : pc[w] = "idle"
  /\ \A a \in Actors : ~ Busy(a)

(* finalize_job "re-enqueues itself one iteration if some subtasks are     *)
(* still pending" (tasks.py:253), and the last subtask enqueues it again   *)
(* "so finalize is guaranteed to run after all done" (tasks.py:149-151):   *)
(* with no event, a converted job at rest has its zip.                     *)
FinalizeGuaranteed ==
  Quiet /\ events = 0 /\ ~ state.cancel_requested
        /\ AllCounted(state) /\ ~ AllFailed(state) => Packed

(* A running subtask "checks is_cancel_requested again before the writer   *)
(* stage and before mark_done/mark_failed, so it stops without touching    *)
(* state or output once cancelled" (api/jobs.py:255-257): when the flag is *)
(* set while its writer is at work, it is not marked done or failed.       *)
CancelledRunStops ==
  \A w \in Workers, f \in Files :
    [](pc[w] = "write" /\ task[w] = f /\ cancelFlag
         /\ state.subtasks[f] = "running"
       => [](state.subtasks[f] \in {"running", "cancelled"}))

(* "A worker killed mid-write could leave a truncated state.json, xlsx or  *)
(* ZIP" is listed as fixed (CHANGELOG.md:61), and the zip holds "the 4     *)
(* successful .out.xlsx files plus a _summary.txt" (docs/spec/spec.md):    *)
(* nothing half-written is in it.                                          *)
ZipHasNoTornFile == Packed => Last(packs).torn = {}
================================================================================

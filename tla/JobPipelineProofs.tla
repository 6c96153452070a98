--------------------------- MODULE JobPipelineProofs ---------------------------
(***************************************************************************)
(* The pipeline's safety, for any number of files, workers, scans and      *)
(* events: it only uses the job service as JobService allows, a done       *)
(* subtask has its output, and result.zip is written once and complete.    *)
(***************************************************************************)
EXTENDS JobPipeline, JobRecordProofs, SequenceTheorems, WellFoundedInduction

--------------------------------------------------------------------------------
(* Types.                                                                  *)

CallsMade == [task : Tasks, at : {"look", "delete", "push"}]
Calls == CallsMade \cup {NoCall}
Scans == [on : BOOLEAN, open : SUBSET Files, failed : SUBSET Files,
          converted : BOOLEAN, over : BOOLEAN]

Converting == {"begin", "skip", "start", "check", "write", "wrote", "done",
               "failing"}

WorkOK ==
  /\ pc \in [Workers -> WorkerPC]
  /\ task \in [Workers -> Tasks \cup {Nothing}]
  /\ \A w \in Workers : pc[w] \in Converting => task[w] \in Files
PackOK ==
  /\ outputs \subseteq Files /\ torn \subseteq Files
  /\ packs \in Seq(Content) /\ listing \in Content
  /\ packer \in Workers \cup {Nothing}
OtherOK ==
  /\ unsent \subseteq Tasks
  /\ scan \in [Scanners -> Scans]
  /\ canceller \in [at : CancellerAt, drop : SUBSET Tasks]
  /\ events \in 0 .. MaxEvents

Types == QueueTypeOK /\ WorkOK /\ PackOK /\ OtherOK

(* A set of numbers has a least one.                                       *)
LEMMA LeastNumber ==
  ASSUME NEW I \in SUBSET Nat, I # {}
  PROVE  \E n \in I : \A m \in I : n <= m
<1> DEFINE R == OpToRel(<, Nat)
<1>1. IsWellFoundedOn(R, Nat)
  BY NatLessThanWellFounded
<1>2. \A x, y \in Nat : y < x => <<y, x>> \in R
  BY DEF OpToRel
<1> HIDE DEF R
<1>3. PICK n \in I : \A m \in I : ~ (<<m, n>> \in R)
  BY <1>1, WFMin
<1>4. \A m \in I : ~ (m < n)
  BY <1>2, <1>3, Zenon
<1> QED  BY <1>4, SMT

(* Taking an id off the list leaves a list.                                *)
LEMMA RemovingATask ==
  ASSUME NEW q \in Seq(Tasks), NEW t
  PROVE  RemoveFirst(q, t) \in Seq(Tasks)
<1>1. CASE \E i \in 1 .. Len(q) : q[i] = t
  <2> DEFINE I == {i \in 1 .. Len(q) : q[i] = t}
             k == Min(I)
  <2>1. I \in SUBSET Nat /\ I # {}
    BY <1>1
  <2>2. \E n \in I : \A m \in I : n <= m
    <3> HIDE DEF I
    <3> QED  BY <2>1, LeastNumber
  <2>3. k \in I
    <3> HIDE DEF I
    <3> QED  BY <2>2 DEF Min
  <2>4. RemoveFirst(q, t) = SubSeq(q, 1, k - 1) \o SubSeq(q, k + 1, Len(q))
    BY <1>1, <2>1 DEF RemoveFirst, RemoveAt, SelectInSeq
  <2>5. k \in 1 .. Len(q)
    BY <2>3
  <2> HIDE DEF k
  <2>6. /\ SubSeq(q, 1, k - 1) \in Seq(Tasks)
        /\ SubSeq(q, k + 1, Len(q)) \in Seq(Tasks)
    BY <2>5, SubSeqProperties
  <2> QED  BY <2>4, <2>6
<1>2. CASE ~ \E i \in 1 .. Len(q) : q[i] = t
  BY <1>2 DEF RemoveFirst
<1> QED  BY <1>1, <1>2

(* A deletion leaves a list of ids and a record of every task.             *)
LEMMA DeleteKeepsTypes ==
  ASSUME QueueTypeOK, NEW t \in Tasks, Delete(t)
  PROVE  queue' \in Seq(Tasks) /\ rec' \in [Tasks -> RecordStatus]
<1>1. queue' \in Seq(Tasks)
  BY RemovingATask DEF Delete, QueueTypeOK
<1> QED  BY <1>1 DEF Delete, QueueTypeOK, RecordStatus

LEMMA EnqueueKeepsTypes ==
  ASSUME QueueTypeOK, NEW a \in Actors, LookUp(a) \/ DropRecord(a) \/ Push(a)
  PROVE  QueueTypeOK'
<1>1. calls \in [Actors -> Calls] /\ calls[a] \in CallsMade /\ NoCall \in Calls
  BY DEF QueueTypeOK, LookUp, DropRecord, Push, Busy, Calls, CallsMade
<1>2. calls[a].task \in Tasks
  BY <1>1 DEF CallsMade
<1>3. calls' \in [Actors -> Calls]
  <2>1. CASE LookUp(a)
    <3> DEFINE next == [task |-> calls[a].task,
                        at |-> IF rec[calls[a].task] = "none" THEN "push"
                                                              ELSE "delete"]
    <3>1. next \in Calls
      BY <1>2 DEF Calls, CallsMade
    <3>2. \/ calls' = [calls EXCEPT ![a] = NoCall]
          \/ calls' = [calls EXCEPT ![a] = next]
      BY <2>1 DEF LookUp
    <3> HIDE DEF next
    <3> QED  BY <1>1, <3>1, <3>2
  <2>2. CASE DropRecord(a)
    <3> DEFINE next == [calls[a] EXCEPT !.at = "push"]
    <3>1. next \in Calls
      BY <1>1 DEF Calls, CallsMade
    <3>2. calls' = [calls EXCEPT ![a] = next]
      BY <2>2 DEF DropRecord
    <3> HIDE DEF next
    <3> QED  BY <1>1, <3>1, <3>2
  <2>3. CASE Push(a)
    BY <1>1, <2>3 DEF Push
  <2> QED  BY <2>1, <2>2, <2>3
<1>4. queue' \in Seq(Tasks) /\ rec' \in [Tasks -> RecordStatus]
  <2>1. CASE LookUp(a)
    BY <2>1 DEF LookUp, QueueTypeOK
  <2>2. CASE DropRecord(a)
    BY <1>2, <2>2, DeleteKeepsTypes DEF DropRecord
  <2>3. CASE Push(a)
    BY <1>2, <2>3 DEF Push, QueueTypeOK, RecordStatus
  <2> QED  BY <2>1, <2>2, <2>3
<1> QED  BY <1>3, <1>4 DEF QueueTypeOK, Calls, CallsMade

(* Only the calls change: somebody enters an enqueue, or leaves it.        *)
LEMMA CallingKeepsTypes ==
  ASSUME QueueTypeOK, NEW a \in Actors, NEW t \in Tasks,
         UNCHANGED <<queue, rec>>,
         \/ calls' = calls
         \/ calls' = Calling(a, t)
         \/ calls' = [calls EXCEPT ![a] = NoCall]
  PROVE  QueueTypeOK'
<1> DEFINE new == [task |-> t, at |-> "look"]
<1>1. new \in Calls /\ NoCall \in Calls
  BY DEF Calls, CallsMade
<1> HIDE DEF new
<1>2. calls \in [Actors -> Calls]
  BY DEF QueueTypeOK, Calls, CallsMade
<1>3. Calling(a, t) = [calls EXCEPT ![a] = new]
  BY DEF Calling, new
<1>4. calls' \in [Actors -> Calls]
  BY <1>1, <1>2, <1>3
<1> QED  BY <1>4 DEF QueueTypeOK, Calls, CallsMade

(* RQ takes a task off the list, or records how it went.                   *)
LEMMA RecordKeepsTypes ==
  ASSUME QueueTypeOK, UNCHANGED calls,
         queue' \in Seq(Tasks), rec' \in [Tasks -> RecordStatus]
  PROVE  QueueTypeOK'
BY DEF QueueTypeOK

LEMMA InitTypes ==
  ASSUME Init
  PROVE  Types
<1>1. QueueTypeOK
  BY DEF Init, QueueInit, QueueTypeOK, RecordStatus
<1>2. WorkOK
  BY DEF Init, WorkOK, WorkerPC, Converting
<1>3. PackOK
  BY DEF Init, PackOK, Content, NoContent
<1>4. OtherOK
  BY PipelineAssumption DEF Init, OtherOK, NoScan, Scans, CancellerAt
<1> QED  BY <1>1, <1>2, <1>3, <1>4 DEF Types

LEMMA WhoActs ==
  Workers \subseteq Actors /\ Scanners \subseteq Actors /\ Creator \in Actors
BY DEF Actors

LEMMA WhichTasks ==
  Files \subseteq Tasks /\ Finalize \in Tasks /\ Finalize \notin Files
    /\ Nothing \notin Tasks
BY QueueAssumption DEF Tasks

(* A step of a task from one point of it to the next.                      *)
LEMMA GotoKeepsWork ==
  ASSUME WorkOK, NEW w \in Workers, NEW from, NEW to \in WorkerPC,
         Goto(w, from, to), UNCHANGED task,
         to \in Converting => from \in Converting
  PROVE  WorkOK'
<1>1. /\ pc' \in [Workers -> WorkerPC]
      /\ task' \in [Workers -> Tasks \cup {Nothing}]
  BY DEF WorkOK, Goto
<1>2. \A v \in Workers : pc'[v] \in Converting => task'[v] \in Files
  <2> TAKE v \in Workers
  <2>1. CASE v = w
    BY <2>1 DEF WorkOK, Goto
  <2>2. CASE v # w
    BY <2>2 DEF WorkOK, Goto
  <2> QED  BY <2>1, <2>2
<1> QED  BY <1>1, <1>2 DEF WorkOK

LEMMA SubtaskKeepsTypes ==
  ASSUME Types, NEW w \in Workers, RunSubtask(w)
  PROVE  Types'
<1> USE DEF Types
<1>1. /\ UNCHANGED <<queue, rec>>
      /\ calls' = calls \/ calls' = Calling(w, Finalize)
  BY DEF RunSubtask, Look, AlreadyDone, ConfigGone, Start, SecondCheck,
         ThirdCheck, LaterCheck, Write, WriteFails, Failing, Done, SettlesThen,
         queueVars
<1>2. QueueTypeOK'
  BY <1>1, CallingKeepsTypes, WhoActs, WhichTasks
<1>3. /\ UNCHANGED <<task, packVars, torn, otherVars>>
      /\ pc[w] \in Converting
      /\ \E from \in Converting, to \in WorkerPC : Goto(w, from, to)
      /\ outputs' \in {outputs, outputs \cup {task[w]}}
  <2> USE DEF Goto, Converting, WorkerPC
  <2>1. CASE Look(w)
    BY <2>1 DEF Look
  <2>2. CASE AlreadyDone(w) \/ Failing(w) \/ Done(w)
    BY <2>2 DEF AlreadyDone, Failing, Done
  <2>3. CASE ConfigGone(w) \/ Start(w)
    BY <2>3 DEF ConfigGone, Start
  <2>4. CASE SecondCheck(w) \/ ThirdCheck(w)
    BY <2>4 DEF SecondCheck, ThirdCheck, LaterCheck
  <2>5. CASE Write(w) \/ WriteFails(w)
    BY <2>5 DEF Write, WriteFails
  <2> QED  BY <2>1, <2>2, <2>3, <2>4, <2>5 DEF RunSubtask
<1>4. WorkOK'
  BY <1>3, GotoKeepsWork
<1>5. PackOK'
  BY <1>3 DEF PackOK, WorkOK, packVars
<1>6. OtherOK'
  BY <1>3 DEF OtherOK, otherVars
<1> QED  BY <1>2, <1>4, <1>5, <1>6

LEMMA FinalizeKeepsTypes ==
  ASSUME Types, NEW w \in Workers, FinalizeJob(w)
  PROVE  Types'
<1> USE DEF Types
<1>1. UNCHANGED <<queueVars, task, outputs, torn, otherVars>>
  BY DEF FinalizeJob, FinalizeRead, FinalizeLock, FinalizePack
<1>2. QueueTypeOK'
  BY <1>1 DEF QueueTypeOK, queueVars
<1>3. \E from, to \in WorkerPC : Goto(w, from, to) /\ to \notin Converting
  BY DEF FinalizeJob, FinalizeRead, FinalizeLock, FinalizePack, Goto,
         Converting, WorkerPC
<1>4. WorkOK'
  BY <1>1, <1>3, GotoKeepsWork
<1>5. PackOK'
  <2>1. CASE FinalizeRead(w)
    BY <2>1 DEF FinalizeRead, PackOK, packVars
  <2>2. CASE FinalizeLock(w)
    <3>1. Writing \subseteq Files
      BY DEF Writing, WorkOK, Converting
    <3>2. \A open \in SUBSET Writing :
            [outputs |-> outputs, torn |-> torn \cup open] \in Content
      BY <3>1 DEF PackOK, Content
    <3>3. listing' \in Content /\ packer' \in Workers \cup {Nothing}
            /\ packs' = packs
      BY <2>2, <3>2 DEF FinalizeLock, PackOK, packVars
    <3> QED  BY <1>1, <3>3 DEF PackOK
  <2>3. CASE FinalizePack(w)
    <3>1. NoContent \in Content
      BY DEF NoContent, Content
    <3>2. packs' \in Seq(Content)
      BY <2>3 DEF FinalizePack, PackOK
    <3> QED  BY <1>1, <2>3, <3>1, <3>2 DEF FinalizePack, PackOK
  <2> QED  BY <2>1, <2>2, <2>3 DEF FinalizeJob
<1>6. OtherOK'
  BY <1>1 DEF OtherOK, otherVars
<1> QED  BY <1>2, <1>4, <1>5, <1>6

LEMMA WorkerKeepsTypes ==
  ASSUME Types, NEW w \in Workers, Dequeue(w) \/ Run(w)
  PROVE  Types'
<1> USE DEF Types
<1>1. CASE Dequeue(w)
  <2>1. PICK t \in Tasks :
          /\ Pop(t)
          /\ task' = [task EXCEPT ![w] = t]
          /\ \/ t = Finalize /\ Goto(w, "idle", "finalize")
             \/ t # Finalize /\ Goto(w, "idle", "begin")
             \/ t # Finalize /\ Goto(w, "idle", "return")
    BY <1>1 DEF Dequeue
  <2>2. QueueTypeOK'
    <3>1. queue' \in Seq(Tasks)
      BY <2>1, HeadTailProperties DEF Pop, QueueTypeOK
    <3>2. rec' \in [Tasks -> RecordStatus]
      BY <2>1 DEF Pop, QueueTypeOK, RecordStatus
    <3> QED  BY <1>1, <3>1, <3>2, RecordKeepsTypes DEF Dequeue
  <2>3. WorkOK'
    <3>1. task' \in [Workers -> Tasks \cup {Nothing}]
      BY <2>1 DEF WorkOK
    <3>2. pc' \in [Workers -> WorkerPC]
      BY <2>1 DEF WorkOK, Goto, WorkerPC
    <3>3. ASSUME NEW v \in Workers, pc'[v] \in Converting
          PROVE  task'[v] \in Files
      <4>1. CASE v = w
        BY <2>1, <3>3, <4>1 DEF WorkOK, Goto, Converting, Tasks
      <4>2. CASE v # w
        BY <2>1, <3>3, <4>2 DEF WorkOK, Goto
      <4> QED  BY <4>1, <4>2
    <3> QED  BY <3>1, <3>2, <3>3 DEF WorkOK
  <2> QED  BY <1>1, <2>2, <2>3 DEF Dequeue, PackOK, OtherOK, packVars, otherVars
<1>2. CASE RunSubtask(w)
  BY <1>2, SubtaskKeepsTypes
<1>3. CASE FinalizeJob(w)
  BY <1>3, FinalizeKeepsTypes
<1>4. CASE Enqueue(w)
  <2>1. QueueTypeOK'
    BY <1>4, EnqueueKeepsTypes, WhoActs DEF Enqueue
  <2> QED  BY <1>4, <2>1 DEF Enqueue, WorkOK, PackOK, OtherOK, packVars,
                              otherVars, workerVars
<1>5. CASE Finish(w)
  <2>1. rec' \in [Tasks -> RecordStatus]
    BY <1>5 DEF Finish, Ended, QueueTypeOK, RecordStatus
  <2>2. QueueTypeOK'
    BY <1>5, <2>1, RecordKeepsTypes DEF Finish, QueueTypeOK
  <2>3. pc' = [pc EXCEPT ![w] = "idle"] /\ task' = [task EXCEPT ![w] = Nothing]
    BY <1>5 DEF Finish, Goto
  <2>4. WorkOK'
    BY <2>3 DEF WorkOK, WorkerPC, Converting
  <2> QED  BY <1>5, <2>2, <2>4 DEF Finish, PackOK, OtherOK, packVars, otherVars
<1> QED  BY <1>1, <1>2, <1>3, <1>4, <1>5 DEF Run

LEMMA ScanKeepsTypes ==
  ASSUME Types, NEW s \in Scanners, ScanAndResume(s)
  PROVE  Types'
<1> USE DEF Types
<1>1. ScanOver(s) \in Scans
  BY DEF ScanOver, NoScan, Scans
<1>2. CASE ScanStart(s)
  <2> DEFINE unfinished == state.status \notin Terminal
             Those(kind) ==
               {f \in Files : unfinished /\ state.subtasks[f] \in kind}
             new == [on |-> TRUE,
                     open |-> Those({"pending", "running", "cancelled"}),
                     failed |-> Those({"failed"}),
                     converted |-> Converted(state), over |-> FALSE]
  <2>1. new \in Scans
    BY DEF Scans, Converted
  <2>2. scan' = [scan EXCEPT ![s] = new] /\ torn' \in SUBSET torn
    BY <1>2 DEF ScanStart
  <2> HIDE DEF new
  <2>3. OtherOK'
    BY <1>2, <2>1, <2>2 DEF OtherOK, ScanStart
  <2> QED  BY <1>2, <2>2, <2>3 DEF ScanStart, QueueTypeOK, WorkOK, PackOK,
                                  queueVars, workerVars, packVars
<1>3. CASE ScanEnd(s)
  <2>1. scan' = [scan EXCEPT ![s] = ScanOver(s)]
          /\ (calls' = calls \/ calls' = Calling(s, Finalize))
    BY <1>3 DEF ScanEnd
  <2>2. QueueTypeOK'
    BY <1>3, <2>1, CallingKeepsTypes, WhoActs, WhichTasks DEF ScanEnd
  <2>3. OtherOK'
    BY <1>1, <1>3, <2>1 DEF OtherOK, ScanEnd
  <2> QED  BY <1>3, <2>2, <2>3 DEF ScanEnd, WorkOK, PackOK, workerVars, packVars
<1>4. CASE Enqueue(s)
  <2>1. QueueTypeOK'
    BY <1>4, EnqueueKeepsTypes, WhoActs DEF Enqueue
  <2> QED  BY <1>4, <2>1 DEF Enqueue, WorkOK, PackOK, OtherOK, packVars,
                              otherVars, workerVars
<1>5. ASSUME NEW f \in Files, ScanFile(s, f) PROVE Types'
  <2> DEFINE new == [scan[s] EXCEPT !.open = @ \ {f}, !.failed = @ \ {f}]
  <2>1. \/ calls' = calls
        \/ calls' = Calling(s, Finalize)
        \/ calls' = Calling(s, f)
    BY <1>5 DEF ScanFile, SettlesThen
  <2>2. QueueTypeOK'
    BY <1>5, <2>1, CallingKeepsTypes, WhoActs, WhichTasks DEF ScanFile
  <2>3. scan[s] \in Scans
    BY DEF OtherOK
  <2>4. new \in Scans
    BY <2>3 DEF Scans
  <2>5. scan' = [scan EXCEPT ![s] = new]
    BY <1>5, <2>3 DEF ScanFile, OtherOK, Scans
  <2> HIDE DEF new
  <2>6. OtherOK'
    BY <1>5, <2>4, <2>5 DEF OtherOK, ScanFile
  <2> QED  BY <1>5, <2>2, <2>6 DEF ScanFile, WorkOK, PackOK, workerVars,
                                   packVars
<1> QED  BY <1>2, <1>3, <1>4, <1>5 DEF ScanAndResume

LEMMA RequestsKeepTypes ==
  ASSUME Types, CreateJob \/ CancelRequest \/ CancelJob
  PROVE  Types'
<1> USE DEF Types
<1>1. CASE Create
  <2>1. PICK t \in unsent :
          calls' = Calling(Creator, t) /\ unsent' = unsent \ {t}
    BY <1>1 DEF Create
  <2>2. t \in Tasks /\ unsent' \subseteq Tasks
    BY <2>1 DEF OtherOK
  <2>3. QueueTypeOK'
    BY <1>1, <2>1, <2>2, CallingKeepsTypes, WhoActs DEF Create
  <2> QED  BY <1>1, <2>2, <2>3 DEF Create, WorkOK, PackOK, OtherOK, workerVars,
                                  packVars
<1>2. CASE Enqueue(Creator)
  <2>1. QueueTypeOK'
    BY <1>2, EnqueueKeepsTypes, WhoActs DEF Enqueue
  <2> QED  BY <1>2, <2>1 DEF Enqueue, WorkOK, PackOK, OtherOK, packVars,
                              otherVars, workerVars
<1>3. CASE CancelRequest \/ CancelMark \/ CancelFlag \/ CancelList \/ CancelEnd
  <2> USE DEF CancelGoto, CancellerAt, OtherOK, queueVars
  <2>1. /\ UNCHANGED <<queueVars, outputs, torn, packVars, workerVars, unsent,
                        scan>>
        /\ canceller' \in [at : CancellerAt, drop : SUBSET Tasks]
        /\ \/ events' = events
           \/ events < MaxEvents /\ events' = events + 1
    <3>1. CASE CancelRequest
      BY <3>1 DEF CancelRequest, Event
    <3>2. CASE CancelMark
      BY <3>2 DEF CancelMark
    <3>3. CASE CancelFlag
      BY <3>3 DEF CancelFlag
    <3>4. CASE CancelList
      <4>1. ToSet(queue) \in SUBSET Tasks
        BY DEF ToSet, QueueTypeOK
      <4> QED  BY <3>4, <4>1 DEF CancelList
    <3>5. CASE CancelEnd
      BY <3>5 DEF CancelEnd
    <3> QED  BY <1>3, <3>1, <3>2, <3>3, <3>4, <3>5
  <2>2. events' \in 0 .. MaxEvents
    BY <2>1, PipelineAssumption DEF OtherOK
  <2> QED  BY <2>1, <2>2 DEF QueueTypeOK, WorkOK, PackOK, packVars, workerVars
<1>4. ASSUME NEW t \in Tasks, CancelDrop(t) PROVE Types'
  <2>1. QueueTypeOK'
    BY <1>4, DeleteKeepsTypes, RecordKeepsTypes DEF CancelDrop
  <2>2. canceller' \in [at : CancellerAt, drop : SUBSET Tasks]
    BY <1>4 DEF CancelDrop, OtherOK
  <2> QED  BY <1>4, <2>1, <2>2 DEF CancelDrop, WorkOK, PackOK, OtherOK,
                                   packVars, workerVars
<1> QED  BY <1>1, <1>2, <1>3, <1>4 DEF CreateJob, CancelJob

LEMMA FaultsKeepTypes ==
  ASSUME Types, SomeFault
  PROVE  Types'
<1> USE DEF Types
<1>1. ASSUME Event("fault") PROVE events' \in 0 .. MaxEvents
  BY <1>1, PipelineAssumption DEF Event, OtherOK
<1>2. NoCall \in Calls /\ NoContent \in Content
  BY DEF Calls, NoContent, Content
<1>3. ASSUME NEW w \in Workers, WorkerFault(w) PROVE Types'
  <2>1. calls' \in [Actors -> Calls] /\ rec' \in [Tasks -> RecordStatus]
    BY <1>2, <1>3 DEF WorkerFault, QueueTypeOK, Calls, CallsMade, Ended,
                      RecordStatus
  <2>2. QueueTypeOK'
    BY <1>3, <2>1 DEF WorkerFault, QueueTypeOK, Calls, CallsMade
  <2>3. WorkOK'
    BY <1>3 DEF WorkerFault, WorkOK, WorkerPC, Converting
  <2>4. torn' \subseteq Files
    BY <1>3 DEF WorkerFault, WorkOK, PackOK, Converting
  <2>5. PackOK'
    BY <1>2, <1>3, <2>4 DEF WorkerFault, PackOK
  <2> QED  BY <1>1, <1>3, <2>2, <2>3, <2>5 DEF WorkerFault, OtherOK
<1>4. ASSUME NEW w \in Workers, OrphanRun(w) PROVE Types'
  <2>1. QueueTypeOK'
    BY <1>4 DEF OrphanRun, HeartbeatStops, QueueTypeOK, RecordStatus
  <2> QED  BY <1>1, <1>4, <2>1 DEF OrphanRun, WorkOK, PackOK, OtherOK,
                                   workerVars,
                                  packVars
<1>5. ASSUME NEW s \in Scanners, ScanFault(s) PROVE Types'
  <2>1. ScanOver(s) \in Scans
    BY DEF ScanOver, NoScan, Scans
  <2>2. QueueTypeOK'
    BY <1>5, CallingKeepsTypes, WhoActs, WhichTasks DEF ScanFault
  <2>3. OtherOK'
    BY <1>1, <1>5, <2>1 DEF ScanFault, OtherOK
  <2> QED  BY <1>5, <2>2, <2>3 DEF ScanFault, WorkOK, PackOK, workerVars,
                                   packVars
<1>6. CASE CreatorFault
  <2>1. QueueTypeOK'
    BY <1>6, CallingKeepsTypes, WhoActs, WhichTasks DEF CreatorFault
  <2> QED  BY <1>1, <1>6, <2>1 DEF CreatorFault, WorkOK, PackOK, OtherOK,
                                  workerVars, packVars
<1> QED  BY <1>3, <1>4, <1>5, <1>6 DEF SomeFault

LEMMA StepKeepsTypes ==
  ASSUME Types, [Next]_vars
  PROVE  Types'
<1>1. CASE \E w \in Workers : Dequeue(w) \/ Run(w)
  BY <1>1, WorkerKeepsTypes
<1>2. ASSUME NEW t \in Tasks, Stale(t) PROVE Types'
  <2>1. QueueTypeOK'
    BY <1>2 DEF Stale, HeartbeatStops, QueueTypeOK, RecordStatus, Types
  <2> QED  BY <1>2, <2>1 DEF Stale, Types, WorkOK, PackOK, OtherOK, workerVars,
                              packVars, otherVars
<1>3. CASE \E s \in Scanners : ScanAndResume(s)
  BY <1>3, ScanKeepsTypes
<1>4. CASE CreateJob \/ CancelRequest \/ CancelJob
  BY <1>4, RequestsKeepTypes
<1>5. CASE SomeFault
  BY <1>5, FaultsKeepTypes
<1>6. CASE UNCHANGED vars
  BY <1>6 DEF vars, queueVars, packVars, workerVars, otherVars, Types,
              QueueTypeOK,
              WorkOK, PackOK, OtherOK
<1> QED  BY <1>1, <1>2, <1>3, <1>4, <1>5, <1>6 DEF Next

LEMMA TypesHold == Spec => []Types
<1>1. Init => Types
  BY InitTypes
<1>2. Types /\ [Next]_vars => Types'
  BY StepKeepsTypes
<1> QED  BY <1>1, <1>2, PTL DEF Spec

--------------------------------------------------------------------------------
(* The job service is used as it allows.                                   *)

(* What a step of the pipeline does to the document: one call of the       *)
(* service, or none; and mark_done is called only for a subtask that a     *)
(* worker has just looked at or written, or that the scan found on disk.   *)
HasReason(f) ==
  f \in outputs \/ \E w \in Workers : pc[w] \in {"skip", "done"} /\ task[w] = f

ServiceCall ==
  \/ UNCHANGED jobVars
  \/ \E f \in Files :
       \/ JS!MarkRunning(f)
       \/ JS!MarkFailed(f)
       \/ JS!MarkSubtaskCancelled(f)
       \/ JS!MarkDone(f) /\ HasReason(f)
  \/ JS!MarkCancelled
  \/ JS!SetCancelFlag

LEMMA StepCalls ==
  ASSUME Types, [Next]_vars
  PROVE  ServiceCall
<1>1. ASSUME NEW w \in Workers, RunSubtask(w) PROVE ServiceCall
  <2>1. task[w] \in Files
    BY <1>1 DEF RunSubtask, Look, AlreadyDone, ConfigGone, Start, SecondCheck,
                ThirdCheck, LaterCheck, Write, WriteFails, Failing, Done, Goto,
                Types, WorkOK, Converting
  <2>2. CASE AlreadyDone(w) \/ Done(w)
    BY <2>1, <2>2 DEF AlreadyDone, Done, Goto, ServiceCall, HasReason
  <2>3. CASE ConfigGone(w) \/ Start(w) \/ Failing(w)
    BY <2>1, <2>3 DEF ConfigGone, Start, Failing, ServiceCall
  <2>4. CASE SecondCheck(w) \/ ThirdCheck(w)
    BY <2>1, <2>4 DEF SecondCheck, ThirdCheck, LaterCheck, ServiceCall
  <2>5. CASE Look(w) \/ Write(w) \/ WriteFails(w)
    BY <2>5 DEF Look, Write, WriteFails, ServiceCall
  <2> QED  BY <1>1, <2>2, <2>3, <2>4, <2>5 DEF RunSubtask
<1>2. ASSUME NEW w \in Workers,
             Dequeue(w) \/ FinalizeJob(w) \/ Enqueue(w) \/ Finish(w)
      PROVE  ServiceCall
  BY <1>2 DEF Dequeue, FinalizeJob, FinalizeRead, FinalizeLock, FinalizePack,
              Enqueue, Finish, ServiceCall
<1>3. ASSUME NEW t \in Tasks, Stale(t) PROVE ServiceCall
  BY <1>3 DEF Stale, ServiceCall
<1>4. ASSUME NEW s \in Scanners, NEW f \in Files, ScanFile(s, f)
      PROVE  ServiceCall
  BY <1>4 DEF ScanFile, ServiceCall, HasReason
<1>5. ASSUME NEW s \in Scanners, ScanStart(s) \/ ScanEnd(s) \/ Enqueue(s)
      PROVE  ServiceCall
  BY <1>5 DEF ScanStart, ScanEnd, Enqueue, ServiceCall
<1>6. CASE CreateJob \/ CancelRequest
  BY <1>6 DEF CreateJob, Create, Enqueue, CancelRequest, ServiceCall
<1>7. CASE CancelJob
  BY <1>7 DEF CancelJob, CancelMark, CancelFlag, CancelList,
              CancelDrop, CancelEnd, ServiceCall
<1>8. CASE SomeFault
  BY <1>8 DEF SomeFault, WorkerFault, OrphanRun, ScanFault, CreatorFault,
              ServiceCall
<1>9. CASE UNCHANGED vars
  BY <1>9 DEF vars, ServiceCall
<1> QED  BY <1>1, <1>2, <1>3, <1>4, <1>5, <1>6, <1>7, <1>8, <1>9
         DEF Next, Run, ScanAndResume

(* However the workers, the scans and the users interleave, all they do to *)
(* a job's document is what JobService allows: its guarantees (a status    *)
(* that matches the subtasks, one last answer, final results) hold in the  *)
(* whole pipeline.                                                         *)
THEOREM PipelineUsesService == Spec => JS!Spec
<1>1. Init => JS!Init
  BY DEF Init
<1>2. Types /\ [Next]_vars => [JS!Next]_JS!vars
  <2>1. ServiceCall => [JS!Next]_JS!vars
    BY DEF ServiceCall, JS!Next, JS!vars, jobVars
  <2> QED  BY <2>1, StepCalls
<1> QED  BY <1>1, <1>2, TypesHold, PTL DEF Spec, JS!Spec

--------------------------------------------------------------------------------
(* The document.  The instance of JobService has its own copy of JobRecord *)
(* and the same files, so its methods are the same.                        *)
LEMMA SameMethods ==
  /\ JS!JobState = JobState /\ JS!NewState = NewState
  /\ \A s, f : /\ JS!AfterMarkRunning(s, f) = AfterMarkRunning(s, f)
               /\ JS!AfterMarkDone(s, f) = AfterMarkDone(s, f)
               /\ JS!AfterMarkFailed(s, f) = AfterMarkFailed(s, f)
               /\ JS!AfterMarkSubtaskCancelled(s, f)
                    = AfterMarkSubtaskCancelled(s, f)
               /\ \A x : JS!Answer(s, f, x) = Answer(s, f, x)
  /\ \A s : JS!AfterMarkCancelled(s) = AfterMarkCancelled(s)
<1>1. /\ JS!SUBTASK_TRANSITIONS = SUBTASK_TRANSITIONS
      /\ JS!JOB_TRANSITIONS = JOB_TRANSITIONS
  BY DEF SUBTASK_TRANSITIONS, JOB_TRANSITIONS, SubtaskStatus, JobStatus,
         JS!SUBTASK_TRANSITIONS, JS!JOB_TRANSITIONS, JS!SubtaskStatus,
         JS!JobStatus
<1>2. \A s, f, x : /\ JS!MovesSub(s, f, x) = MovesSub(s, f, x)
                   /\ JS!MovesJob(s, x) = MovesJob(s, x)
                   /\ JS!WithSub(s, f, x) = WithSub(s, f, x)
  BY <1>1 DEF MovesSub, MovesJob, WithSub, Legal, Apply, JS!MovesSub,
              JS!MovesJob, JS!WithSub, JS!Legal, JS!Apply
<1>3. \A s : /\ JS!AllCounted(s) = AllCounted(s)
             /\ JS!AnyFailed(s) = AnyFailed(s)
  BY DEF AllCounted, AnyFailed, Counted, JS!AllCounted, JS!AnyFailed,
         JS!Counted
<1>4. JS!NewState = NewState
  BY DEF NewState, JS!NewState
<1>5. \A s, f, x : JS!Answer(s, f, x) = Answer(s, f, x)
  BY <1>2, <1>3 DEF Answer, IsLast, JS!Answer, JS!IsLast
<1>6. \A s, f : /\ JS!AfterMarkRunning(s, f) = AfterMarkRunning(s, f)
                /\ JS!AfterMarkSubtaskCancelled(s, f)
                     = AfterMarkSubtaskCancelled(s, f)
  BY <1>2 DEF AfterMarkRunning, AfterMarkSubtaskCancelled,
              JS!AfterMarkRunning, JS!AfterMarkSubtaskCancelled
<1>7. \A s, f : /\ JS!AfterMarkDone(s, f) = AfterMarkDone(s, f)
                /\ JS!AfterMarkFailed(s, f) = AfterMarkFailed(s, f)
  BY <1>2, <1>3 DEF AfterMarkDone, AfterMarkFailed, JS!AfterMarkDone,
                    JS!AfterMarkFailed
<1>8. \A s : JS!AfterMarkCancelled(s) = AfterMarkCancelled(s)
  BY <1>2 DEF AfterMarkCancelled, JS!AfterMarkCancelled
<1>9. JS!JobState = JobState
  BY DEF JobState, JobStatus, SubtaskStatus, JS!JobState, JS!JobStatus,
         JS!SubtaskStatus
<1> QED  BY <1>4, <1>5, <1>6, <1>7, <1>8, <1>9

(* Once every subtask has settled the job's status has too: the call that  *)
(* settled the last one moved both.                                        *)
DocOK ==
  /\ state \in JobState /\ cancelFlag \in BOOLEAN /\ answers \in Nat
  /\ AllCounted(state) => state.status \in Terminal

(* From the document s to t nothing is taken back that the zip relies on.  *)
Kept(s, t) ==
  /\ \A f \in Files : s.subtasks[f] \in Counted => t.subtasks[f] = s.subtasks[f]
  /\ s.status \in Terminal => t.status = s.status

(* The subtasks that t calls done and s did not are among F.               *)
DoneOnly(s, t, F) ==
  \A f \in Files : t.subtasks[f] = "done" /\ s.subtasks[f] # "done" => f \in F

LEMMA DoneEffect ==
  ASSUME NEW s \in JobState, NEW f \in Files, NEW t,
         AllCounted(s) => s.status \in Terminal,
         t = AfterMarkDone(s, f)
  PROVE  /\ Kept(s, t) /\ DoneOnly(s, t, {f})
         /\ AllCounted(t) => t.status \in Terminal
<1>1. s.subtasks \in [Files -> SubtaskStatus] /\ s.status \in JobStatus
  BY DEF JobState
<1>2. \/ t = s
      \/ Settles(s, t, f, "done")
  BY MarkDoneSettles
<1>3. CASE t = s
  BY <1>3 DEF Kept, DoneOnly
<1>4. CASE Settles(s, t, f, "done")
  BY <1>1, <1>4 DEF Settles, Kept, DoneOnly, Counted, Terminal, JobStatus
<1> QED  BY <1>2, <1>3, <1>4

LEMMA OtherEffects ==
  ASSUME NEW s \in JobState, NEW f \in Files,
         AllCounted(s) => s.status \in Terminal,
         NEW t \in {AfterMarkRunning(s, f), AfterMarkFailed(s, f),
                    AfterMarkSubtaskCancelled(s, f), AfterMarkCancelled(s)}
  PROVE  /\ Kept(s, t) /\ DoneOnly(s, t, {})
         /\ AllCounted(t) => t.status \in Terminal
<1>1. s.subtasks \in [Files -> SubtaskStatus] /\ s.status \in JobStatus
  BY DEF JobState
<1>2. CASE t = s
  BY <1>2 DEF Kept, DoneOnly
<1>3. CASE t = AfterMarkRunning(s, f) /\ t # s
  <2>1. /\ s.subtasks[f] = "pending"
        /\ t.subtasks = [s.subtasks EXCEPT ![f] = "running"]
        /\ t.status = IF s.status = "pending" THEN "running" ELSE s.status
    BY <1>3, MarkRunningEffect
  <2>2. ~ AllCounted(t)
    BY <1>1, <2>1 DEF AllCounted, Counted
  <2> QED  BY <1>1, <2>1, <2>2 DEF Kept, DoneOnly, Counted, Terminal
<1>4. CASE t = AfterMarkFailed(s, f) /\ t # s
  <2>1. Settles(s, t, f, "failed")
    BY <1>4, MarkFailedSettles
  <2> QED  BY <1>1, <2>1 DEF Settles, Kept, DoneOnly, Counted, Terminal,
                             JobStatus
<1>5. CASE t = AfterMarkSubtaskCancelled(s, f) /\ t # s
  <2>1. /\ s.subtasks[f] \in {"pending", "running"}
        /\ t.subtasks = [s.subtasks EXCEPT ![f] = "cancelled"]
        /\ t.status = s.status
    BY <1>5, MarkSubtaskCancelledEffect
  <2>2. ~ AllCounted(t)
    BY <1>1, <2>1 DEF AllCounted, Counted
  <2> QED  BY <1>1, <2>1, <2>2 DEF Kept, DoneOnly, Counted
<1>6. CASE t = AfterMarkCancelled(s)
  <2>1. /\ t.subtasks = s.subtasks
        /\ t.status = IF s.status \in {"pending", "running"}
                        THEN "cancelled" ELSE s.status
    BY <1>6, MarkCancelledEffect
  <2> QED  BY <1>1, <2>1 DEF Kept, DoneOnly, Terminal, JobStatus
<1> QED  BY <1>2, <1>3, <1>4, <1>5, <1>6

(* The outputs: what a worker is about to report, and what is reported.    *)
Reporting == {"skip", "wrote", "done"}

OutputInv ==
  /\ DoneHasOutput
  /\ \A w \in Workers : pc[w] \in Reporting => task[w] \in outputs

LEMMA StepOnDocument ==
  ASSUME Types, DocOK, OutputInv, [Next]_vars
  PROVE  DocOK' /\ Kept(state, state') /\ DoneOnly(state, state', outputs)
<1>1. state \in JobState
  BY DEF DocOK
<1>2. \A f : HasReason(f) => f \in outputs
  BY DEF HasReason, OutputInv, Reporting
<1>3. \A f, x : Answer(state, f, x) \in Nat
  BY DEF Answer
<1>4. CASE UNCHANGED jobVars
  BY <1>4 DEF jobVars, DocOK, Kept, DoneOnly, AllCounted
<1>5. ASSUME NEW f \in Files, JS!MarkDone(f), HasReason(f)
      PROVE  DocOK' /\ Kept(state, state') /\ DoneOnly(state, state', outputs)
  <2>1. /\ state' = AfterMarkDone(state, f)
        /\ cancelFlag' = cancelFlag
        /\ answers' = answers + Answer(state, f, "done")
    BY <1>5, SameMethods DEF JS!MarkDone
  <2>2. /\ Kept(state, state') /\ DoneOnly(state, state', {f})
        /\ AllCounted(state') => state'.status \in Terminal
    BY <1>1, <2>1, DoneEffect DEF DocOK
  <2>3. state' \in JobState
    BY <1>1, <2>1, MethodsKeepType
  <2>4. answers' \in Nat
    BY <1>3, <2>1 DEF DocOK
  <2>5. DocOK'
    BY <2>1, <2>2, <2>3, <2>4 DEF DocOK, AllCounted
  <2>6. DoneOnly(state, state', outputs)
    BY <1>2, <1>5, <2>2 DEF DoneOnly
  <2> QED  BY <2>2, <2>5, <2>6
<1>6. ASSUME NEW f \in Files,
             \/ JS!MarkRunning(f) \/ JS!MarkFailed(f)
             \/ JS!MarkSubtaskCancelled(f) \/ JS!MarkCancelled
      PROVE  DocOK' /\ Kept(state, state') /\ DoneOnly(state, state', outputs)
  <2>1. /\ state' \in {AfterMarkRunning(state, f), AfterMarkFailed(state, f),
                       AfterMarkSubtaskCancelled(state, f),
                       AfterMarkCancelled(state)}
        /\ cancelFlag' = cancelFlag
        /\ answers' = answers \/ answers' = answers + Answer(state, f, "failed")
    BY <1>6, SameMethods DEF JS!MarkRunning, JS!MarkFailed,
                             JS!MarkSubtaskCancelled, JS!MarkCancelled
  <2>2. /\ Kept(state, state') /\ DoneOnly(state, state', {})
        /\ AllCounted(state') => state'.status \in Terminal
    BY <1>1, <2>1, OtherEffects DEF DocOK
  <2>3. state' \in JobState
    BY <1>1, <2>1, MethodsKeepType
  <2>4. answers' \in Nat
    BY <1>3, <2>1 DEF DocOK
  <2>5. DocOK'
    BY <2>1, <2>2, <2>3, <2>4 DEF DocOK, AllCounted
  <2>6. DoneOnly(state, state', outputs)
    BY <2>2 DEF DoneOnly
  <2> QED  BY <2>2, <2>5, <2>6
<1>7. CASE JS!SetCancelFlag
  <2>1. state' = state /\ answers' = answers /\ cancelFlag' = TRUE
    BY <1>7 DEF JS!SetCancelFlag
  <2> QED  BY <2>1 DEF DocOK, Kept, DoneOnly, AllCounted
<1>8. CASE JS!MarkCancelled
  <2>1. PICK f \in Files : TRUE
    BY FilesAssumption
  <2> QED  BY <1>6, <1>8, <2>1
<1> QED  BY StepCalls, <1>4, <1>5, <1>6, <1>7, <1>8 DEF ServiceCall

LEMMA InitDocument ==
  ASSUME Init
  PROVE  DocOK
<1>1. state = NewState /\ cancelFlag = FALSE /\ answers = 0
  BY SameMethods DEF Init, JS!Init
<1>2. NewState \in JobState
  BY DEF NewState, JobState, JobStatus, SubtaskStatus
<1>3. ~ AllCounted(NewState)
  BY FilesAssumption DEF NewState, AllCounted, Counted
<1> QED  BY <1>1, <1>2, <1>3 DEF DocOK

--------------------------------------------------------------------------------
(* The outputs.  Nothing takes one away, and a worker reports only what it *)
(* has seen on disk.                                                       *)
LEMMA OutputsGrow ==
  ASSUME Types, [Next]_vars
  PROVE  /\ outputs \subseteq outputs'
         /\ \A w \in Workers :
              pc'[w] \in Reporting =>
                \/ pc[w] \in Reporting /\ task'[w] = task[w]
                \/ task'[w] \in outputs'
<1> DEFINE Seen(w) == pc'[w] \in Reporting =>
                        \/ pc[w] \in Reporting /\ task'[w] = task[w]
                        \/ task'[w] \in outputs'
<1> SUFFICES outputs \subseteq outputs' /\ \A w \in Workers : Seen(w)
  OBVIOUS
<1>1. pc \in [Workers -> WorkerPC] /\ task \in [Workers -> Tasks \cup {Nothing}]
  BY DEF Types, WorkOK
<1>2. ASSUME UNCHANGED <<pc, task>> PROVE \A w \in Workers : Seen(w)
  BY <1>2
<1>3. ASSUME NEW v \in Workers, NEW from, NEW to, Goto(v, from, to),
             \/ to \notin Reporting
             \/ task'[v] \in outputs'
             \/ from \in Reporting /\ task' = task,
             \A w \in Workers \ {v} : task'[w] = task[w]
      PROVE  \A w \in Workers : Seen(w)
  <2> TAKE w \in Workers
  <2>1. CASE w = v
    BY <1>1, <1>3, <2>1 DEF Goto
  <2>2. CASE w # v
    BY <1>1, <1>3, <2>2 DEF Goto
  <2> QED  BY <2>1, <2>2
<1> HIDE DEF Seen
<1>4. ASSUME NEW w \in Workers, RunSubtask(w)
      PROVE  outputs \subseteq outputs' /\ \A v \in Workers : Seen(v)
  <2>1. task' = task /\ outputs \subseteq outputs'
    BY <1>4 DEF RunSubtask, Look, AlreadyDone, ConfigGone, Start, SecondCheck,
                ThirdCheck, LaterCheck, Write, WriteFails, Failing, Done
  <2>2. CASE Look(w)
    BY <1>3, <2>1, <2>2 DEF Look, Reporting
  <2>3. CASE AlreadyDone(w) \/ Failing(w) \/ Done(w)
    BY <1>3, <2>1, <2>3 DEF AlreadyDone, Failing, Done, Reporting
  <2>4. CASE ConfigGone(w) \/ Start(w) \/ WriteFails(w)
    BY <1>3, <2>1, <2>4 DEF ConfigGone, Start, WriteFails, Reporting
  <2>5. CASE SecondCheck(w) \/ ThirdCheck(w)
    BY <1>3, <2>1, <2>5 DEF SecondCheck, ThirdCheck, LaterCheck, Reporting
  <2>6. CASE Write(w)
    BY <1>3, <2>1, <2>6 DEF Write, Reporting
  <2> QED  BY <1>4, <2>1, <2>2, <2>3, <2>4, <2>5, <2>6 DEF RunSubtask
<1>5. ASSUME NEW w \in Workers, FinalizeJob(w)
      PROVE  outputs \subseteq outputs' /\ \A v \in Workers : Seen(v)
  <2>1. task' = task /\ outputs' = outputs
    BY <1>5 DEF FinalizeJob, FinalizeRead, FinalizeLock, FinalizePack
  <2>2. \E from, to : Goto(w, from, to) /\ to \notin Reporting
    BY <1>5 DEF FinalizeJob, FinalizeRead, FinalizeLock, FinalizePack, Reporting
  <2> QED  BY <1>3, <2>1, <2>2
<1>6. ASSUME NEW w \in Workers, Dequeue(w) \/ Finish(w)
      PROVE  outputs \subseteq outputs' /\ \A v \in Workers : Seen(v)
  <2>1. /\ outputs' = outputs
        /\ \A v \in Workers \ {w} : task'[v] = task[v]
        /\ \E from, to : Goto(w, from, to) /\ to \notin Reporting
    BY <1>1, <1>6 DEF Dequeue, Finish, Reporting
  <2> QED  BY <1>3, <2>1
<1>7. ASSUME NEW w \in Workers, WorkerFault(w)
      PROVE  outputs \subseteq outputs' /\ \A v \in Workers : Seen(v)
  <2>1. \A v \in Workers : Seen(v)
    BY <1>1, <1>7 DEF WorkerFault, Seen, Reporting
  <2> QED  BY <1>7, <2>1 DEF WorkerFault
<1>8. ASSUME UNCHANGED <<outputs, workerVars>>
      PROVE  outputs \subseteq outputs' /\ \A v \in Workers : Seen(v)
  BY <1>2, <1>8 DEF workerVars
<1>9. ASSUME NEW w \in Workers, Enqueue(w) \/ OrphanRun(w)
      PROVE  UNCHANGED <<outputs, workerVars>>
  BY <1>9 DEF Enqueue, OrphanRun
<1>10. ASSUME NEW t \in Tasks, Stale(t) PROVE UNCHANGED <<outputs, workerVars>>
  BY <1>10 DEF Stale
<1>11. ASSUME NEW s \in Scanners, ScanAndResume(s) \/ ScanFault(s)
       PROVE  UNCHANGED <<outputs, workerVars>>
  BY <1>11 DEF ScanAndResume, ScanStart, ScanFile, ScanEnd, Enqueue, ScanFault
<1>12. CASE CreateJob \/ CreatorFault
  BY <1>8, <1>12 DEF CreateJob, Create, Enqueue, CreatorFault
<1>13. CASE CancelRequest \/ CancelJob
  BY <1>8, <1>13 DEF CancelRequest, CancelJob, CancelMark, CancelFlag,
                     CancelList, CancelDrop, CancelEnd,
                     CancelGoto
<1>14. CASE UNCHANGED vars
  BY <1>8, <1>14 DEF vars
<1> QED  BY <1>4, <1>5, <1>6, <1>7, <1>8, <1>9, <1>10, <1>11, <1>12, <1>13,
            <1>14
         DEF Next, Run, SomeFault

LEMMA StepKeepsOutputs ==
  ASSUME Types, DocOK, OutputInv, [Next]_vars
  PROVE  OutputInv'
<1>1. DoneHasOutput'
  BY StepOnDocument, OutputsGrow DEF OutputInv, DoneHasOutput, DoneOnly
<1>2. ASSUME NEW w \in Workers, pc'[w] \in Reporting PROVE task'[w] \in outputs'
  BY <1>2, OutputsGrow DEF OutputInv
<1> QED  BY <1>1, <1>2 DEF OutputInv

LEMMA OutputsHold == Spec => [](Types /\ DocOK /\ OutputInv)
<1>1. Init => OutputInv
  <2> SUFFICES ASSUME Init PROVE OutputInv
    OBVIOUS
  <2>1. state = NewState
    BY SameMethods DEF Init, JS!Init
  <2> QED  BY <2>1 DEF Init, OutputInv, DoneHasOutput, Reporting, NewState
<1>2. Init => Types /\ DocOK
  BY InitTypes, InitDocument
<1>3. (Types /\ DocOK /\ OutputInv) /\ [Next]_vars
        => (Types /\ DocOK /\ OutputInv)'
  BY StepKeepsTypes, StepOnDocument, StepKeepsOutputs
<1> QED  BY <1>1, <1>2, <1>3, PTL DEF Spec

(* The whole pipeline's types, the document's included.                    *)
THEOREM PipelineTypes == Spec => []TypeOK
<1>1. Types /\ DocOK => TypeOK
  BY SameMethods DEF Types, WorkOK, PackOK, OtherOK, DocOK, Scans, TypeOK,
                     JS!TypeOK
<1> QED  BY <1>1, OutputsHold, PTL

(* A subtask is done only when its output is on disk (tasks.py run_subtask,*)
(* recovery_service.py), whatever else runs, dies or is cancelled.         *)
THEOREM DoneIsOnDisk == Spec => []DoneHasOutput
<1>1. OutputInv => DoneHasOutput
  BY DEF OutputInv
<1> QED  BY <1>1, OutputsHold, PTL

--------------------------------------------------------------------------------
(* The zip.                                                                *)

(* Nothing about the subtasks moves any more, and nobody cancelled.        *)
Settled == AllCounted(state) /\ state.status \in {"done", "failed"}

Holds(c) == \A f \in Files : state.subtasks[f] = "done" => f \in c.outputs

ZipInv ==
  /\ \A w \in Workers :
       pc[w] = "pack" => packer = w /\ ~ Packed /\ Holds(listing)
  /\ \A w \in Workers : pc[w] \in {"lock", "pack"} => Settled
  /\ Len(packs) <= 1
  /\ Packed => Settled /\ Holds(Last(packs))

LEMMA SettledStays ==
  ASSUME Settled, Kept(state, state')
  PROVE  /\ Settled'
         /\ \A f \in Files : state'.subtasks[f] = state.subtasks[f]
<1>1. \A f \in Files : state'.subtasks[f] = state.subtasks[f]
  BY DEF Settled, Kept, AllCounted
<1>2. state'.status = state.status
  BY DEF Settled, Kept, Terminal
<1> QED  BY <1>1, <1>2 DEF Settled, AllCounted

(* Whoever does not finalize leaves the zip, the lock and those who        *)
(* finalize alone.                                                         *)
Packing == {"lock", "pack"}

LEMMA OthersLeaveTheZip ==
  ASSUME Types, [Next]_vars,
         ~ \E w \in Workers : FinalizeJob(w) \/ WorkerFault(w)
  PROVE  /\ UNCHANGED packVars
         /\ \A w \in Workers : pc'[w] \in Packing => pc'[w] = pc[w]
<1> DEFINE Away == \A v \in Workers : pc'[v] \in Packing => pc'[v] = pc[v]
<1> SUFFICES UNCHANGED packVars /\ Away
  OBVIOUS
<1>1. pc \in [Workers -> WorkerPC]
  BY DEF Types, WorkOK
<1>2. ASSUME NEW w \in Workers, NEW from, NEW to, Goto(w, from, to),
             to \notin Packing
      PROVE  Away
  <2> TAKE v \in Workers
  <2>1. CASE v = w
    BY <1>1, <1>2, <2>1 DEF Goto
  <2>2. CASE v # w
    BY <1>1, <1>2, <2>2 DEF Goto
  <2> QED  BY <2>1, <2>2
<1>3. ASSUME UNCHANGED pc PROVE Away
  BY <1>3
<1> HIDE DEF Away
<1>4. ASSUME NEW w \in Workers, RunSubtask(w) PROVE UNCHANGED packVars /\ Away
  <2>1. UNCHANGED packVars
    BY <1>4 DEF RunSubtask, Look, AlreadyDone, ConfigGone, Start, SecondCheck,
                ThirdCheck, LaterCheck, Write, WriteFails, Failing, Done
  <2>2. CASE Look(w)
    BY <1>2, <2>2 DEF Look, Packing
  <2>3. CASE AlreadyDone(w) \/ Failing(w) \/ Done(w)
    BY <1>2, <2>3 DEF AlreadyDone, Failing, Done, Packing
  <2>4. CASE ConfigGone(w) \/ Start(w) \/ Write(w) \/ WriteFails(w)
    BY <1>2, <2>4 DEF ConfigGone, Start, Write, WriteFails, Packing
  <2>5. CASE SecondCheck(w) \/ ThirdCheck(w)
    BY <1>2, <2>5 DEF SecondCheck, ThirdCheck, LaterCheck, Packing
  <2> QED  BY <1>4, <2>1, <2>2, <2>3, <2>4, <2>5 DEF RunSubtask
<1>5. ASSUME NEW w \in Workers, Dequeue(w) \/ Finish(w)
      PROVE  UNCHANGED packVars /\ Away
  <2>1. \E from, to : Goto(w, from, to) /\ to \notin Packing
    BY <1>5 DEF Dequeue, Finish, Packing
  <2> QED  BY <1>2, <1>5, <2>1 DEF Dequeue, Finish
<1>6. ASSUME UNCHANGED <<packVars, workerVars>> PROVE UNCHANGED packVars /\ Away
  BY <1>3, <1>6 DEF workerVars
<1>7. ASSUME NEW w \in Workers, Enqueue(w) \/ OrphanRun(w)
      PROVE  UNCHANGED <<packVars, workerVars>>
  BY <1>7 DEF Enqueue, OrphanRun
<1>8. ASSUME NEW t \in Tasks, Stale(t) PROVE UNCHANGED <<packVars, workerVars>>
  BY <1>8 DEF Stale
<1>9. ASSUME NEW s \in Scanners, ScanAndResume(s) \/ ScanFault(s)
      PROVE  UNCHANGED <<packVars, workerVars>>
  BY <1>9 DEF ScanAndResume, ScanStart, ScanFile, ScanEnd, Enqueue, ScanFault
<1>10. CASE CreateJob \/ CreatorFault
  BY <1>6, <1>10 DEF CreateJob, Create, Enqueue, CreatorFault
<1>11. CASE CancelRequest \/ CancelJob
  BY <1>6, <1>11 DEF CancelRequest, CancelJob, CancelMark, CancelFlag,
                     CancelList, CancelDrop, CancelEnd,
                     CancelGoto
<1>12. CASE UNCHANGED vars
  BY <1>6, <1>12 DEF vars
<1> QED  BY <1>4, <1>5, <1>6, <1>7, <1>8, <1>9, <1>10, <1>11, <1>12
         DEF Next, Run, SomeFault

LEMMA OthersKeepZip ==
  ASSUME ZipInv, Kept(state, state'), UNCHANGED packVars,
         \A w \in Workers : pc'[w] \in Packing => pc'[w] = pc[w]
  PROVE  ZipInv'
<1>1. /\ Packed' = Packed /\ packs' = packs
      /\ packer' = packer /\ listing' = listing
  BY DEF packVars, Packed
<1>2. ASSUME Settled, NEW c PROVE Settled' /\ (Holds(c) => Holds(c)')
  BY <1>2, SettledStays DEF Holds
<1>3. ASSUME NEW w \in Workers, pc'[w] \in Packing
      PROVE  pc[w] = pc'[w] /\ Settled /\ Settled'
  BY <1>2, <1>3 DEF ZipInv, Packing
<1>4. ASSUME NEW w \in Workers, pc'[w] = "pack"
      PROVE  packer' = w /\ ~ Packed' /\ Holds(listing)'
  <2>1. pc[w] = "pack" /\ Settled
    BY <1>3, <1>4 DEF Packing
  <2>2. packer = w /\ ~ Packed /\ Holds(listing)
    BY <2>1 DEF ZipInv
  <2>3. \A f \in Files : state'.subtasks[f] = state.subtasks[f]
    BY <2>1, SettledStays
  <2> QED  BY <1>1, <2>2, <2>3 DEF Holds
<1>5. ASSUME Packed' PROVE Settled' /\ Holds(Last(packs))'
  <2>1. Settled /\ Holds(Last(packs))
    BY <1>1, <1>5 DEF ZipInv
  <2>2. Settled' /\ \A f \in Files : state'.subtasks[f] = state.subtasks[f]
    BY <2>1, SettledStays
  <2> QED  BY <1>1, <2>1, <2>2 DEF Holds
<1>6. Len(packs') <= 1
  BY <1>1 DEF ZipInv
<1> QED  BY <1>3, <1>4, <1>5, <1>6 DEF ZipInv, Packing

(* finalize_job decides on a document whose subtasks have all settled, and *)
(* lists out/ under the lock: nobody else writes result.zip, and the       *)
(* output of every done subtask is there (DoneHasOutput).                  *)
LEMMA FinalizeKeepsZip ==
  ASSUME Types, DocOK, OutputInv, ZipInv, NEW w \in Workers, FinalizeJob(w)
  PROVE  ZipInv'
<1>1. pc \in [Workers -> WorkerPC]
  BY DEF Types, WorkOK
<1>2. state' = state
  BY DEF FinalizeJob, FinalizeRead, FinalizeLock, FinalizePack, jobVars
<1>3. /\ Settled' <=> Settled
      /\ \A c : Holds(c)' <=> Holds(c)
  BY <1>2 DEF Settled, Holds, AllCounted
<1>4. CASE FinalizeRead(w)
  <2>1. Converted(state) => Settled
    BY DEF DocOK, Converted, Settled, Terminal
  <2>2. \/ Goto(w, "finalize", "lock") /\ Settled
        \/ Goto(w, "finalize", "return")
    BY <1>4, <2>1 DEF FinalizeRead
  <2>3. UNCHANGED packVars
    BY <1>4 DEF FinalizeRead
  <2>4. \A v \in Workers :
          pc'[v] \in Packing => \/ pc[v] = pc'[v]
                                \/ Settled /\ pc'[v] = "lock"
    BY <1>1, <2>2 DEF Goto, Packing
  <2> QED  BY <1>2, <1>3, <2>3, <2>4 DEF ZipInv, Packing, packVars, Packed,
                                         Holds
<1>5. CASE FinalizeLock(w)
  <2>1. CASE Packed /\ Goto(w, "lock", "return") /\ UNCHANGED packVars
    <3>1. \A v \in Workers : pc'[v] \in Packing => pc'[v] = pc[v]
      BY <1>1, <2>1 DEF Goto, Packing
    <3>2. Kept(state, state')
      BY <1>2 DEF Kept
    <3> QED  BY <2>1, <3>1, <3>2, OthersKeepZip
  <2>2. CASE ~ Packed /\ Goto(w, "lock", "pack")
    <3>1. /\ packer = Nothing /\ packer' = w /\ packs' = packs
          /\ listing'.outputs = outputs
      BY <1>5, <2>2 DEF FinalizeLock
    <3>2. \A v \in Workers : pc[v] # "pack"
      BY <3>1, QueueAssumption DEF ZipInv
    <3>3. \A v \in Workers : /\ pc'[v] = "pack" => v = w
                             /\ pc'[v] = "lock" => pc[v] = "lock"
      BY <1>1, <2>2, <3>2 DEF Goto
    <3>4. Settled
      BY <2>2 DEF Goto, ZipInv
    <3>5. Holds(listing)'
      BY <1>2, <3>1 DEF OutputInv, DoneHasOutput, Holds
    <3>6. ~ Packed' /\ Len(packs') <= 1
      BY <2>2, <3>1 DEF Packed, ZipInv
    <3> QED  BY <1>3, <3>1, <3>3, <3>4, <3>5, <3>6 DEF ZipInv
  <2> QED  BY <1>5, <2>1, <2>2 DEF FinalizeLock
<1>6. CASE FinalizePack(w)
  <2>1. pc[w] = "pack" /\ pc' = [pc EXCEPT ![w] = "return"]
          /\ packs' = Append(packs, listing)
    BY <1>6 DEF FinalizePack, Goto
  <2>2. packer = w /\ packs = <<>> /\ Holds(listing) /\ Settled
    BY <2>1 DEF ZipInv, Packed
  <2>3. packs' = <<listing>> /\ Len(packs') = 1 /\ Last(packs') = listing
    BY <2>1, <2>2 DEF Last
  <2>4. \A v \in Workers : /\ pc'[v] # "pack"
                           /\ pc'[v] = "lock" => pc[v] = "lock"
    BY <1>1, <2>1, <2>2 DEF ZipInv
  <2>5. Holds(Last(packs))'
    BY <1>2, <2>2, <2>3 DEF Holds
  <2> QED  BY <1>3, <2>2, <2>3, <2>4, <2>5 DEF ZipInv
<1> QED  BY <1>4, <1>5, <1>6 DEF FinalizeJob

(* A packer that dies gives the lock up and leaves no zip behind.          *)
LEMMA FaultKeepsZip ==
  ASSUME Types, ZipInv, NEW w \in Workers, WorkerFault(w)
  PROVE  ZipInv'
<1>1. pc' = [pc EXCEPT ![w] = "idle"] /\ packs' = packs /\ state' = state
  BY DEF WorkerFault, jobVars
<1>2. pc \in [Workers -> WorkerPC]
  BY DEF Types, WorkOK
<1>3. ASSUME NEW v \in Workers, pc'[v] \in Packing
      PROVE  v # w /\ pc'[v] = pc[v]
  BY <1>1, <1>2, <1>3 DEF Packing
<1>4. ASSUME NEW v \in Workers, pc'[v] = "pack"
      PROVE  packer' = v /\ listing' = listing
  BY <1>3, <1>4 DEF ZipInv, WorkerFault, Packing
<1>5. /\ Settled' <=> Settled
      /\ Packed' <=> Packed
      /\ \A c : Holds(c)' <=> Holds(c)
  BY <1>1 DEF Settled, Holds, AllCounted, Packed
<1>6. ASSUME NEW v \in Workers, pc'[v] = "pack"
      PROVE  packer' = v /\ ~ Packed' /\ Holds(listing)'
  <2>1. pc[v] = "pack" /\ listing' = listing /\ packer' = v
    BY <1>3, <1>4, <1>6 DEF Packing
  <2> QED  BY <1>1, <1>5, <2>1 DEF ZipInv, Holds
<1>7. \A v \in Workers : pc'[v] \in Packing => Settled'
  BY <1>3, <1>5 DEF ZipInv, Packing
<1>8. Packed' => Settled' /\ Holds(Last(packs))'
  BY <1>1, <1>5 DEF ZipInv, Holds
<1> QED  BY <1>1, <1>6, <1>7, <1>8 DEF ZipInv, Packing

LEMMA StepKeepsZip ==
  ASSUME Types, DocOK, OutputInv, ZipInv, [Next]_vars
  PROVE  ZipInv'
<1>1. CASE \E w \in Workers : FinalizeJob(w)
  BY <1>1, FinalizeKeepsZip
<1>2. CASE \E w \in Workers : WorkerFault(w)
  BY <1>2, FaultKeepsZip
<1>3. CASE ~ \E w \in Workers : FinalizeJob(w) \/ WorkerFault(w)
  BY <1>3, OthersLeaveTheZip, StepOnDocument, OthersKeepZip
<1> QED  BY <1>1, <1>2, <1>3

(* result.zip is written once, for a job whose subtasks have all settled   *)
(* and that nobody cancelled, and holds every converted file (tasks.py     *)
(* finalize_job): for any number of finalize tasks, workers, scans, cancel *)
(* requests and faults.                                                    *)
THEOREM ZipCorrect == Spec => []ZipIsComplete
<1>1. Init => ZipInv
  BY DEF Init, ZipInv, Packed
<1>2. Types /\ DocOK /\ OutputInv /\ ZipInv /\ [Next]_vars => ZipInv'
  BY StepKeepsZip
<1>3. ZipInv => ZipIsComplete
  BY DEF ZipInv, ZipIsComplete, Settled, Holds
<1> QED  BY <1>1, <1>2, <1>3, OutputsHold, PTL DEF Spec
================================================================================

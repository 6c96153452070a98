--------------------------- MODULE JobDeletionProofs ---------------------------
(***************************************************************************)
(* What survives a deletion, for any number of files, workers and deaths.  *)
(* The argument is about who may still hold a document while its directory *)
(* goes: a deletion that retention does not force begins only on a job     *)
(* that is over, and a caller that locked another lock file than the one   *)
(* in the directory, or holds a document that has since been deleted, has  *)
(* one that is over.                                                       *)
(***************************************************************************)
EXTENDS JobDeletion, JobRecordProofs, FiniteSetTheorems

(* What the calls and the tasks are about.                                 *)
InCall(c) == call[c].at \notin {"none", "flag"}

FileOps == {"running", "done", "failed", "subtask_cancelled"}
AtFile  == {"begin", "check", "mkdir", "read", "save", "third"}
AtZip   == {"exists", "open", "pack"}

CallsOK ==
  /\ \A c \in Callers : InCall(c) /\ call[c].op \in FileOps
                          => call[c].file \in Files
  /\ \A c \in Callers : call[c].at = "locked" => call[c].copy \in JobState
  /\ \A w \in Workers : call[w].at # "none" => call[w].op \in FileOps
  /\ \A w \in Workers : call[w].at # "none" => run[w].at \in AtFile
  /\ \A w \in Workers : run[w].at \in AtFile => run[w].task \in Files

RunSet ==
  [at : {"idle", "begin", "check", "mkdir", "read", "save", "third",
         "finalize", "exists", "open", "pack"},
   task : Tasks \cup {Nothing}]

CallSet ==
  [at : {"none", "exists", "open", "wait", "locked", "flag"}, op : Ops,
   file : Files \cup {Nothing}, copy : JobState \cup {Nothing},
   lock : LockFile]

(* The type invariant in parts: which actions touch which.                 *)
TreeOK  == /\ doc \in JobState \cup {Nothing}
           /\ dir \subseteq {"out", "zip"} /\ outs \subseteq Files
           /\ lockFile \in LockFile \cup {0}
FlagsOK == /\ cancelFlag \in BOOLEAN /\ queued \subseteq Tasks
           /\ purge \in [at : {"idle", "list", "remove", "keys"},
                         listed : SUBSET Entries]
           /\ ages \subseteq Ages /\ removed \in BOOLEAN
           /\ downloaded \in BOOLEAN /\ deaths \in 0 .. MaxDeaths
ProcsOK == run \in [Workers -> RunSet] /\ call \in [Callers -> CallSet]

Types == TreeOK /\ FlagsOK /\ ProcsOK /\ CallsOK

(* When all subtasks are counted the job is over, in the document and in   *)
(* every copy of it.                                                       *)
Sound(s) == AllCounted(s) => s.status \in Terminal

DocOK ==
  /\ There => Sound(doc)
  /\ \A c \in Callers : call[c].at = "locked" => Sound(call[c].copy)

(* The lock: one caller at a time for each lock file.                      *)
Excl ==
  \A b, c \in Callers :
    call[b].at = "locked" /\ call[c].at = "locked" /\ b # c
      => call[b].lock # call[c].lock

(* Retention has not come yet, and neither has the end of the grace period *)
(* for Calm.  Over has the statuses on which a deletion may have begun.    *)
Young == "old" \notin ages
Calm  == {"grace", "old"} \cap ages = {}
Over  == IF Calm THEN {"cancelled"} ELSE Terminal

HoldsDoc(c)  == There /\ call[c].copy = doc /\ call[c].lock = lockFile
HoldsOver(c) ==
  call[c].copy.status \in Over /\ (There => doc.status \in Over)

LockedOK ==
  \A c \in Callers : call[c].at = "locked" => HoldsDoc(c) \/ HoldsOver(c)

(* A deletion has been there, or has begun.                                *)
StaleWaiter == \E c \in Callers : call[c].at = "wait" /\ call[c].lock # lockFile
Touched     == purge.at # "idle" \/ removed \/ StaleWaiter
TouchedIsOver == Touched /\ There => doc.status \in Over

(* Who has to do with the zip found a job that is over.                    *)
Fetching   == \E c \in Callers : InCall(c) /\ call[c].op = "download_started"
Packing    == \E w \in Workers : run[w].at \in AtZip
ZipIsOver ==
  /\ There /\ ("zip" \in dir \/ Packing \/ Fetching)
       => doc.status \in Terminal
  /\ There /\ doc.download_started_at => doc.status \in Terminal

OverInv == Young => LockedOK /\ TouchedIsOver /\ ZipIsOver

(* As long as neither the grace period nor retention is over, a job that   *)
(* has ended with results is there, and so is the zip that was downloaded. *)
Settled == There /\ doc.status \in {"done", "failed"}

ZipInv ==
  Calm =>
    /\ "zip" \in dir \/ Packing => Settled
    /\ Fetching \/ downloaded => Settled /\ "zip" \in dir

--------------------------------------------------------------------------------
LEMMA AfterByOp ==
  ASSUME NEW f, NEW s
  PROVE  /\ After("running", f, s) = AfterMarkRunning(s, f)
         /\ After("done", f, s) = AfterMarkDone(s, f)
         /\ After("failed", f, s) = AfterMarkFailed(s, f)
         /\ After("subtask_cancelled", f, s) = AfterMarkSubtaskCancelled(s, f)
         /\ After("cancelled", f, s) = AfterMarkCancelled(s)
         /\ After("download_started", f, s) = AfterMarkDownloadStarted(s)
BY DEF After

--------------------------------------------------------------------------------
(* There is a lock number for a new lock file: one more than callers.      *)
LEMMA UnusedIsALock ==
  ASSUME DeletionAssumption
  PROVE  Unused \in LockFile
<1> DEFINE Held_(n, c) == call[c].at \in {"wait", "locked"} /\ call[c].lock = n
<1>1. IsFiniteSet(Callers) /\ Cardinality(Callers) \in Nat
  BY FS_AddElement, FS_CardinalityType DEF DeletionAssumption, Callers
<1>2. /\ IsFiniteSet(LockFile)
      /\ Cardinality(LockFile) = Cardinality(Callers) + 1
  BY <1>1, FS_Interval DEF LockFile
<1>3. \E n \in LockFile : \A c \in Callers : ~ Held_(n, c)
  <2> SUFFICES ASSUME \A n \in LockFile : \E c \in Callers : Held_(n, c)
               PROVE  FALSE
    OBVIOUS
  <2> DEFINE g == [n \in LockFile |-> CHOOSE c \in Callers : Held_(n, c)]
  <2>1. \A n \in LockFile : g[n] \in Callers /\ Held_(n, g[n])
    OBVIOUS
  <2>2. g \in [LockFile -> Callers]
    BY <2>1
  <2>3. PICK m, n \in LockFile : m # n /\ g[m] = g[n]
    <3>1. Cardinality(Callers) < Cardinality(LockFile)
      BY <1>1, <1>2
    <3> HIDE DEF g
    <3> QED  BY <1>1, <1>2, <2>2, <3>1, FS_PigeonHole
  <2> QED  BY <2>1, <2>3
<1>4. \E n \in LockFile : \A c \in Callers :
        call[c].at \in {"wait", "locked"} => call[c].lock # n
  BY <1>3
<1> QED  BY <1>4 DEF Unused

--------------------------------------------------------------------------------
(* Types: how the processes' entries change.                               *)
LEMMA RunChanges ==
  ASSUME ProcsOK, NEW w \in Workers, NEW r \in RunSet
  PROVE  /\ [run EXCEPT ![w] = r] \in [Workers -> RunSet]
         /\ [run EXCEPT ![w] = r][w] = r
         /\ \A b \in Workers \ {w} : [run EXCEPT ![w] = r][b] = run[b]
BY DEF ProcsOK

LEMMA CallChanges ==
  ASSUME ProcsOK, NEW c \in Callers, NEW r \in CallSet
  PROVE  /\ [call EXCEPT ![c] = r] \in [Callers -> CallSet]
         /\ [call EXCEPT ![c] = r][c] = r
         /\ \A b \in Callers \ {c} : [call EXCEPT ![c] = r][b] = call[b]
BY DEF ProcsOK

LEMMA NoCallIsACall == NoCall \in CallSet
<1>1. 1 \in LockFile
  <2>1. Cardinality(Callers) \in Nat
    BY DeletionAssumption, FS_AddElement, FS_CardinalityType
       DEF DeletionAssumption, Callers
  <2> QED  BY <2>1 DEF LockFile
<1> QED  BY <1>1 DEF NoCall, CallSet, Ops

LEMMA InitTypes == Init => Types
<1> SUFFICES ASSUME Init PROVE Types
  OBVIOUS
<1>1. NewState \in JobState
  BY DEF NewState, JobState, JobStatus, SubtaskStatus
<1>2. TreeOK
  BY <1>1 DEF Init, TreeOK
<1>3. FlagsOK
  <2>1. purge \in [at : {"idle", "list", "remove", "keys"},
                   listed : SUBSET Entries]
    BY DEF Init, NoPurge
  <2>2. deaths \in 0 .. MaxDeaths
    BY DeletionAssumption DEF Init, DeletionAssumption
  <2> QED  BY <2>1, <2>2 DEF Init, FlagsOK
<1>4. Idle \in RunSet
  BY DEF Idle, RunSet
<1>5. ProcsOK
  BY <1>4, NoCallIsACall DEF Init, ProcsOK
<1>6. CallsOK
  BY DEF Init, CallsOK, InCall, NoCall, Callers, Idle, AtFile
<1> QED  BY <1>2, <1>3, <1>5, <1>6 DEF Types

(* A call ends, or begins.                                                 *)
LEMMA RaisesKeepsTypes ==
  ASSUME Types, NEW c \in Callers, Raises(c)
  PROVE  ProcsOK' /\ CallsOK'
<1>1. /\ call' \in [Callers -> CallSet] /\ call'[c] = NoCall
      /\ \A b \in Callers \ {c} : call'[b] = call[b]
  BY CallChanges, NoCallIsACall DEF Raises, Types
<1>2. /\ run' \in [Workers -> RunSet] 
      /\ \A w \in Workers : run'[w] = IF w = c THEN Idle ELSE run[w]
  <2>1. Idle \in RunSet
    BY DEF Idle, RunSet
  <2> QED  BY <2>1, RunChanges DEF Raises, Types, ProcsOK
<1> QED
  BY <1>1, <1>2 DEF ProcsOK, CallsOK, Types, InCall, NoCall, Callers, Idle,
                    AtFile

LEMMA CallKeepsTypes ==
  ASSUME Types, NEW c \in Callers, LockedCall(c)
  PROVE  Types'
<1> USE DEF Types, Callers
<1>1. CASE Exists(c)
  <2>1. TreeOK' /\ FlagsOK'
    BY <1>1 DEF Exists, TreeOK, FlagsOK, tree, times
  <2>2. CASE Raises(c)
    BY <2>1, <2>2, RaisesKeepsTypes
  <2>3. CASE call' = [call EXCEPT ![c].at = "open"] /\ UNCHANGED run
    <3>1. ProcsOK'
      BY <2>3 DEF ProcsOK, CallSet
    <3>2. CallsOK'
      BY <1>1, <2>3 DEF Exists, ProcsOK, CallsOK, InCall, CallSet
    <3> QED  BY <2>1, <3>1, <3>2
  <2> QED  BY <1>1, <2>2, <2>3 DEF Exists
<1>2. CASE Open(c)
  <2>1. lockFile' \in LockFile
    BY <1>2, UnusedIsALock, DeletionAssumption DEF Open, TreeOK
  <2>2. TreeOK' /\ FlagsOK'
    BY <1>2, <2>1 DEF Open, TreeOK, FlagsOK, times
  <2>3. ProcsOK'
    BY <1>2, <2>1 DEF Open, ProcsOK, CallSet
  <2>4. CallsOK'
    BY <1>2 DEF Open, ProcsOK, CallsOK, InCall, CallSet
  <2> QED  BY <2>2, <2>3, <2>4
<1>3. CASE Locks(c)
  <2>1. TreeOK' /\ FlagsOK'
    BY <1>3 DEF Locks, TreeOK, FlagsOK, tree, times
  <2>2. CASE Raises(c)
    BY <2>1, <2>2, RaisesKeepsTypes
  <2>3. CASE /\ There /\ UNCHANGED run
             /\ call' = [call EXCEPT ![c].at = "locked", ![c].copy = doc]
    <3> DEFINE r == [call[c] EXCEPT !.at = "locked", !.copy = doc]
    <3>1. r \in CallSet /\ r.copy \in JobState /\ r.at = "locked"
          /\ r.op = call[c].op /\ r.file = call[c].file
      <4>1. call[c] \in CallSet /\ doc \in JobState
        BY <2>3 DEF ProcsOK, There, TreeOK
      <4> QED  BY <4>1 DEF CallSet
    <3>2. call' = [call EXCEPT ![c] = r]
      BY <2>3 DEF ProcsOK, CallSet
    <3> HIDE DEF r
    <3>3. ProcsOK'
      BY <2>3, <3>1, <3>2 DEF ProcsOK
    <3>4. CallsOK'
      BY <1>3, <2>3, <3>1, <3>2 DEF Locks, ProcsOK, CallsOK, InCall
    <3> QED  BY <2>1, <3>3, <3>4
  <2> QED  BY <1>3, <2>2, <2>3 DEF Locks
<1>4. CASE Persist(c)
  <2> DEFINE op == call[c].op
             f  == call[c].file
             s  == call[c].copy
  <2>1. op \in Ops /\ s \in JobState
        /\ (op \in FileOps => f \in Files)
        /\ (c \in Workers => op \in FileOps /\ run[c].at \in AtFile)
    BY <1>4 DEF Persist, ProcsOK, CallsOK, CallSet, InCall
  <2>2. After(op, f, s) \in JobState
    BY <2>1, MethodsKeepType, AfterByOp, FilesAssumption
       DEF Ops, FileOps, FilesAssumption
  <2>3. TreeOK'
    BY <1>4, <2>2 DEF Persist, TreeOK
  <2>4. FlagsOK'
    BY <1>4 DEF Persist, FlagsOK, Tasks
  <2>5. PICK r \in CallSet :
          /\ call' = [call EXCEPT ![c] = r] /\ r.at \in {"none", "flag"}
          /\ c \in Workers => r.at = "none"
    <3>1. NoCall \in CallSet /\ NoCall.at = "none"
      BY NoCallIsACall DEF NoCall
    <3>2. /\ [NoCall EXCEPT !.at = "flag"] \in CallSet
          /\ [NoCall EXCEPT !.at = "flag"].at = "flag"
      BY <3>1 DEF CallSet
    <3>3. op = "cancelled" => c \notin Workers
      BY <2>1 DEF FileOps
    <3> QED  BY <1>4, <3>1, <3>2, <3>3 DEF Persist, Continues
  <2>6. /\ run' \in [Workers -> RunSet]
        /\ \A w \in Workers : w # c => run'[w] = run[w]
        /\ c \in Workers => run'[c].at = "idle" \/ run'[c].task = run[c].task
    BY <1>4 DEF Persist, Continues, ProcsOK, RunSet, Idle, Tasks
  <2>7. ProcsOK'
    BY <2>5, <2>6 DEF ProcsOK
  <2>8. CallsOK'
    BY <2>1, <2>5, <2>6 DEF CallsOK, ProcsOK, InCall, AtFile
  <2> QED  BY <2>3, <2>4, <2>7, <2>8
<1>5. CASE PersistRaises(c)
  <2>1. TreeOK' /\ FlagsOK'
    BY <1>5 DEF PersistRaises, TreeOK, FlagsOK, tree, times
  <2> QED  BY <1>5, <2>1, RaisesKeepsTypes DEF PersistRaises
<1> QED  BY <1>1, <1>2, <1>3, <1>4, <1>5 DEF LockedCall

(* A new call of c, about a file unless it is the API's for the whole job. *)
LEMMA CallsKeepsTypes ==
  ASSUME ProcsOK, CallsOK, NEW c \in Callers, NEW op \in Ops,
         NEW f \in Files \cup {Nothing}, Calls(c, op, f), UNCHANGED run,
         op \in FileOps => f \in Files,
         c \in Workers => op \in FileOps /\ run[c].at \in AtFile
  PROVE  ProcsOK' /\ CallsOK'
<1> DEFINE r == [NoCall EXCEPT !.at = "exists", !.op = op, !.file = f]
<1>1. r \in CallSet /\ r.at = "exists" /\ r.op = op /\ r.file = f
  <2>1. NoCall \in CallSet
    BY NoCallIsACall
  <2> QED  BY <2>1 DEF CallSet
<1>2. call' = [call EXCEPT ![c] = r]
  BY DEF Calls
<1> HIDE DEF r
<1>3. ProcsOK'
  BY <1>1, <1>2 DEF ProcsOK
<1>4. CallsOK'
  BY <1>1, <1>2 DEF ProcsOK, CallsOK, InCall
<1> QED  BY <1>3, <1>4

(* A worker that is in no call goes on in its task, or takes one.          *)
LEMMA RunKeepsTypes ==
  ASSUME ProcsOK, CallsOK, NEW w \in Workers, NEW r \in RunSet,
         call[w].at = "none", UNCHANGED call,
         run' = [run EXCEPT ![w] = r],
         r.at \in AtFile => r.task \in Files
  PROVE  ProcsOK' /\ CallsOK'
<1>1. ProcsOK'
  BY DEF ProcsOK
<1>2. CallsOK'
  BY DEF ProcsOK, CallsOK, InCall
<1> QED  BY <1>1, <1>2

LEMMA GoesKeepsTypes ==
  ASSUME ProcsOK, CallsOK, NEW w \in Workers, call[w].at = "none",
         NEW l \in {"mkdir", "read", "save", "third", "exists", "open", "pack"},
         Goes(w, l),
         l \in AtFile => run[w].at \in AtFile
  PROVE  ProcsOK' /\ CallsOK'
<1> DEFINE r == [run[w] EXCEPT !.at = l]
<1>1. r \in RunSet /\ r.at = l /\ r.task = run[w].task
  <2>1. run[w] \in RunSet
    BY DEF ProcsOK
  <2> QED  BY <2>1 DEF RunSet
<1>2. run' = [run EXCEPT ![w] = r]
  BY DEF Goes, ProcsOK, RunSet
<1>3. r.at \in AtFile => r.task \in Files
  BY <1>1 DEF CallsOK
<1> HIDE DEF r
<1> QED  BY <1>1, <1>2, <1>3, RunKeepsTypes DEF Goes

LEMMA EndsKeepsTypes ==
  ASSUME ProcsOK, CallsOK, NEW w \in Workers, call[w].at = "none", Ends(w)
  PROVE  ProcsOK' /\ CallsOK'
<1>1. Idle \in RunSet /\ Idle.at \notin AtFile
  BY DEF Idle, RunSet, AtFile
<1> QED  BY <1>1, RunKeepsTypes DEF Ends

LEMMA MarksKeepsTypes ==
  ASSUME ProcsOK, CallsOK, NEW w \in Workers, run[w].at \in AtFile,
         NEW op \in FileOps, Marks(w, op)
  PROVE  ProcsOK' /\ CallsOK'
<1>1. run[w].task \in Files
  BY DEF CallsOK
<1>2. w \in Callers /\ op \in Ops
  BY DEF Callers, FileOps, Ops
<1> QED  BY <1>1, <1>2, CallsKeepsTypes DEF Marks

LEMMA WorkKeepsTypes ==
  ASSUME Types, NEW w \in Workers, Work(w)
  PROVE  Types'
<1> USE DEF Types
<1>1. CASE Take(w)
  <2>1. TreeOK' /\ FlagsOK'
    BY <1>1 DEF Take, TreeOK, FlagsOK, tree, times
  <2>2. PICK t \in queued : run' = [run EXCEPT ![w] =
            IF t = Finalize THEN [at |-> "finalize", task |-> t]
            ELSE IF cancelFlag THEN Idle ELSE [at |-> "begin", task |-> t]]
    BY <1>1 DEF Take
  <2> DEFINE r == IF t = Finalize THEN [at |-> "finalize", task |-> t]
                  ELSE IF cancelFlag THEN Idle ELSE [at |-> "begin", task |-> t]
  <2>3. t \in Tasks
    BY DEF FlagsOK
  <2>4. r \in RunSet /\ (r.at \in AtFile => r.task \in Files)
    BY <2>3 DEF RunSet, Idle, AtFile, Tasks
  <2>5. run' = [run EXCEPT ![w] = r]
    BY <2>2
  <2> HIDE DEF r
  <2> QED  BY <1>1, <2>1, <2>4, <2>5, RunKeepsTypes DEF Take, At
<1>2. CASE Begin(w)
  <2>1. TreeOK' /\ FlagsOK'
    BY <1>2 DEF Begin, TreeOK, FlagsOK, tree, times
  <2> QED  BY <1>2, <2>1, MarksKeepsTypes, EndsKeepsTypes
           DEF Begin, At, AtFile, FileOps
<1>3. CASE SecondCheck(w)
  <2>1. TreeOK' /\ FlagsOK'
    BY <1>3 DEF SecondCheck, TreeOK, FlagsOK, tree, times
  <2> QED  BY <1>3, <2>1, MarksKeepsTypes, GoesKeepsTypes
           DEF SecondCheck, At, AtFile, FileOps
<1>4. CASE MakeOut(w)
  <2>1. TreeOK' /\ FlagsOK'
    BY <1>4 DEF MakeOut, Creates, TreeOK, FlagsOK, times
  <2> QED  BY <1>4, <2>1, GoesKeepsTypes DEF MakeOut, At, AtFile
<1>5. CASE ReadUploads(w)
  <2>1. TreeOK' /\ FlagsOK'
    BY <1>5 DEF ReadUploads, TreeOK, FlagsOK, tree, times
  <2> QED  BY <1>5, <2>1, MarksKeepsTypes, GoesKeepsTypes
           DEF ReadUploads, At, AtFile, FileOps
<1>6. CASE Save(w)
  <2>1. run[w].task \in Files
    BY <1>6 DEF Save, At, AtFile, CallsOK
  <2>2. TreeOK' /\ FlagsOK'
    BY <1>6, <2>1 DEF Save, Creates, TreeOK, FlagsOK, times
  <2> QED  BY <1>6, <2>2, GoesKeepsTypes DEF Save, At, AtFile
<1>7. CASE ThirdCheck(w)
  <2>1. TreeOK' /\ FlagsOK'
    BY <1>7 DEF ThirdCheck, TreeOK, FlagsOK, tree, times
  <2> QED  BY <1>7, <2>1, MarksKeepsTypes DEF ThirdCheck, At, AtFile, FileOps
<1>8. CASE FinalizeRead(w)
  <2>1. TreeOK' /\ FlagsOK'
    BY <1>8 DEF FinalizeRead, TreeOK, FlagsOK, tree, times
  <2> QED  BY <1>8, <2>1, EndsKeepsTypes, GoesKeepsTypes
           DEF FinalizeRead, At, AtFile
<1>9. CASE FinalizeExists(w)
  <2>1. TreeOK' /\ FlagsOK'
    BY <1>9 DEF FinalizeExists, TreeOK, FlagsOK, tree, times
  <2> QED  BY <1>9, <2>1, EndsKeepsTypes, GoesKeepsTypes
           DEF FinalizeExists, At, AtFile
<1>10. CASE FinalizeOpen(w)
  <2>1. TreeOK' /\ FlagsOK'
    BY <1>10 DEF FinalizeOpen, TreeOK, FlagsOK, tree, times
  <2> QED  BY <1>10, <2>1, EndsKeepsTypes, GoesKeepsTypes
           DEF FinalizeOpen, At, AtFile
<1>11. CASE FinalizePack(w)
  <2>1. TreeOK' /\ FlagsOK'
    BY <1>11 DEF FinalizePack, Creates, TreeOK, FlagsOK, times
  <2> QED  BY <1>11, <2>1, EndsKeepsTypes DEF FinalizePack, At
<1> QED  BY <1>1, <1>2, <1>3, <1>4, <1>5, <1>6, <1>7, <1>8, <1>9, <1>10, <1>11
         DEF Work

(* The API: what the scan and the requests call, and its deletions.        *)
LEMMA ApiKeepsTypes ==
  ASSUME Types, Scan \/ CancelJob \/ SetFlag \/ Download
  PROVE  Types'
<1> USE DEF Types
<1>1. "api" \in Callers /\ "api" \notin Workers
  BY DeletionAssumption DEF DeletionAssumption, Callers
<1>2. CASE UNCHANGED <<run, call>>
  <2>1. ProcsOK' /\ CallsOK'
    BY <1>2 DEF ProcsOK, CallsOK, InCall
  <2>2. TreeOK'
    BY DEF Scan, ScanBackstop, ScanFile, CancelJob, SetFlag, Download, TreeOK,
           tree
  <2>3. FlagsOK'
    BY <1>2 DEF Scan, ScanBackstop, ScanFile, CancelJob, SetFlag, Download,
           FlagsOK, times, Tasks
  <2> QED  BY <2>1, <2>2, <2>3
<1>3. ASSUME NEW op \in Ops, NEW f \in Files \cup {Nothing},
             Calls("api", op, f), op \in FileOps => f \in Files, UNCHANGED run
      PROVE  ProcsOK' /\ CallsOK'
  BY <1>1, <1>3, CallsKeepsTypes
<1>4. CASE CancelJob
  <2>1. TreeOK' /\ FlagsOK'
    BY <1>4 DEF CancelJob, TreeOK, FlagsOK, tree, times
  <2> QED  BY <1>3, <1>4, <2>1 DEF CancelJob, Ops, FileOps
<1>5. CASE SetFlag
  <2>1. TreeOK' /\ FlagsOK'
    BY <1>5 DEF SetFlag, TreeOK, FlagsOK, tree, times
  <2>2. ProcsOK' /\ CallsOK'
    BY <1>1, <1>5, NoCallIsACall
       DEF SetFlag, ProcsOK, CallsOK, InCall, NoCall
  <2> QED  BY <2>1, <2>2
<1>6. CASE Download
  <2>1. TreeOK' /\ FlagsOK'
    BY <1>6 DEF Download, TreeOK, FlagsOK, tree, times
  <2>2. CASE Calls("api", "download_started", Nothing) /\ UNCHANGED run
    BY <1>3, <2>1, <2>2 DEF Ops, FileOps
  <2> QED  BY <1>2, <1>6, <2>2 DEF Download
<1>7. CASE ScanBackstop
  BY <1>2, <1>7 DEF ScanBackstop
<1>8. CASE \E f \in Files : ScanFile(f)
  <2>1. PICK f \in Files : ScanFile(f)
    BY <1>8
  <2>2. TreeOK' /\ FlagsOK'
    BY <2>1 DEF ScanFile, TreeOK, FlagsOK, tree, times, Tasks
  <2>3. CASE Calls("api", "done", f)
    BY <1>3, <2>1, <2>2, <2>3 DEF ScanFile, Ops, FileOps
  <2> QED  BY <1>2, <2>1, <2>3 DEF ScanFile
<1> QED  BY <1>4, <1>5, <1>6, <1>7, <1>8 DEF Scan

LEMMA DeletesKeepsTypes ==
  ASSUME Types, Sweep \/ Deletes
  PROVE  Types'
<1> USE DEF Types
<1>1. ProcsOK' /\ CallsOK'
  <2>1. UNCHANGED <<run, call>>
    BY DEF Sweep, Deletes, List, Remove, RemoveDir, RemoveRaises, WipeKeys
  <2> QED  BY <2>1 DEF ProcsOK, CallsOK, InCall
<1>2. TreeOK'
  BY DEF Sweep, Deletes, List, Remove, RemoveDir, RemoveRaises, WipeKeys,
         TreeOK, tree
<1>3. FlagsOK'
  <2>1. Held \subseteq Entries
    BY DEF Held, Entries, TreeOK
  <2>2. purge' \in [at : {"idle", "list", "remove", "keys"},
                    listed : SUBSET Entries]
    BY <2>1 DEF Sweep, Deletes, List, Remove, RemoveDir, RemoveRaises, WipeKeys,
           FlagsOK, NoPurge
  <2> QED
    BY <2>2 DEF Sweep, Deletes, List, Remove, RemoveDir, RemoveRaises, WipeKeys,
           FlagsOK, times
<1> QED  BY <1>1, <1>2, <1>3

LEMMA OthersKeepTypes ==
  ASSUME Types,
         \/ \E a \in Ages : Passes(a)
         \/ \E w \in Workers : WorkerDies(w)
         \/ ApiDies
         \/ UNCHANGED vars
  PROVE  Types'
<1> USE DEF Types
<1>1. CASE \E a \in Ages : Passes(a)
  BY <1>1 DEF Passes, TreeOK, FlagsOK, ProcsOK, CallsOK, InCall, tree
<1>2. CASE \E w \in Workers : WorkerDies(w)
  <2>1. PICK w \in Workers : WorkerDies(w)
    BY <1>2
  <2>2. TreeOK' /\ FlagsOK'
    BY <2>1, DeletionAssumption
       DEF WorkerDies, Dies, TreeOK, FlagsOK, tree, DeletionAssumption
  <2> QED  BY <2>1, <2>2, RaisesKeepsTypes DEF WorkerDies, Callers
<1>3. CASE ApiDies
  <2>1. TreeOK' /\ FlagsOK'
    BY <1>3, DeletionAssumption
       DEF ApiDies, Dies, TreeOK, FlagsOK, tree, DeletionAssumption, NoPurge
  <2>2. ProcsOK' /\ CallsOK'
    BY <1>3, NoCallIsACall
       DEF ApiDies, ProcsOK, CallsOK, InCall, Callers, NoCall
  <2> QED  BY <2>1, <2>2
<1>4. CASE UNCHANGED vars
  BY <1>4 DEF vars, tree, times, TreeOK, FlagsOK, ProcsOK, CallsOK, InCall
<1> QED  BY <1>1, <1>2, <1>3, <1>4

LEMMA TypesHold == Spec => []Types
<1>1. ASSUME Types, [Next]_vars
      PROVE  Types'
  BY <1>1, CallKeepsTypes, WorkKeepsTypes, ApiKeepsTypes, DeletesKeepsTypes,
     OthersKeepTypes DEF Next
<1> QED  BY InitTypes, <1>1, PTL DEF Spec

--------------------------------------------------------------------------------
(* What a call makes of the document it read.                              *)
LEMMA AfterKeeps ==
  ASSUME NEW s \in JobState, Sound(s), NEW op \in Ops, NEW f,
         op \in FileOps => f \in Files,
         NEW t, t = After(op, f, s)
  PROVE  /\ t \in JobState /\ Sound(t)
         /\ s.status \in Terminal => t.status = s.status
         /\ op # "download_started"
              => t.download_started_at = s.download_started_at
<1>1. s.subtasks \in [Files -> SubtaskStatus] /\ s.status \in JobStatus
  BY DEF JobState
<1>2. PICK g \in Files : op \in FileOps => g = f
  BY FilesAssumption DEF FilesAssumption
<1>3. t \in JobState
  BY <1>2, AfterByOp, MethodsKeepType DEF Ops, FileOps
<1>4. CASE op = "running"
  <2>1. t = AfterMarkRunning(s, g) /\ g = f
    BY <1>2, <1>4, AfterByOp DEF FileOps
  <2>2. CASE t = s
    BY <1>3, <2>2
  <2>3. CASE t # s
    <3>1. /\ s.subtasks[g] = "pending"
          /\ t.subtasks = [s.subtasks EXCEPT ![g] = "running"]
          /\ t.download_started_at = s.download_started_at
          /\ t.status = IF s.status = "pending" THEN "running" ELSE s.status
      BY <2>1, <2>3, MarkRunningEffect
    <3>2. ~ AllCounted(t)
      BY <1>1, <3>1 DEF AllCounted, Counted
    <3> QED  BY <1>3, <3>1, <3>2 DEF Sound, Terminal
  <2> QED  BY <2>2, <2>3
<1>5. CASE op \in {"done", "failed"}
  <2>1. t = s \/ Settles(s, t, g, op)
    BY <1>2, <1>5, AfterByOp, MarkDoneSettles, MarkFailedSettles DEF FileOps
  <2>2. CASE t = s
    BY <1>3, <2>2
  <2>3. CASE Settles(s, t, g, op)
    BY <1>1, <1>3, <2>3 DEF Settles, Sound, Terminal, JobStatus
  <2> QED  BY <2>1, <2>2, <2>3
<1>6. CASE op = "subtask_cancelled"
  <2>1. t = AfterMarkSubtaskCancelled(s, g) /\ g = f
    BY <1>2, <1>6, AfterByOp DEF FileOps
  <2>2. CASE t = s
    BY <1>3, <2>2
  <2>3. CASE t # s
    <3>1. /\ s.subtasks[g] \in {"pending", "running"}
          /\ t.subtasks = [s.subtasks EXCEPT ![g] = "cancelled"]
          /\ t.download_started_at = s.download_started_at
          /\ t.status = s.status
      BY <2>1, <2>3, MarkSubtaskCancelledEffect
    <3>2. ~ AllCounted(t)
      BY <1>1, <3>1 DEF AllCounted, Counted
    <3> QED  BY <1>3, <3>1, <3>2 DEF Sound
  <2> QED  BY <2>2, <2>3
<1>7. CASE op = "cancelled"
  <2>1. t = AfterMarkCancelled(s)
    BY <1>7, AfterByOp
  <2>2. /\ t.subtasks = s.subtasks
        /\ t.download_started_at = s.download_started_at
        /\ t.status = IF s.status \in {"pending", "running"}
                        THEN "cancelled" ELSE s.status
    BY <2>1, MarkCancelledEffect
  <2> QED  BY <1>1, <1>3, <2>2 DEF Sound, AllCounted, Terminal, JobStatus
<1>8. CASE op = "download_started"
  <2>1. t = AfterMarkDownloadStarted(s)
    BY <1>8, AfterByOp
  <2>2. t.subtasks = s.subtasks /\ t.status = s.status
    BY <2>1, MarkDownloadStartedEffect
  <2> QED  BY <1>3, <1>8, <2>2 DEF Sound, AllCounted
<1> QED  BY <1>4, <1>5, <1>6, <1>7, <1>8 DEF Ops

--------------------------------------------------------------------------------
(* The document and its holders.                                           *)
HoldersOK == DocOK /\ Excl /\ (Young => LockedOK /\ TouchedIsOver)
ZipOK     == (Young => ZipIsOver) /\ ZipInv

SameAges == (Young' <=> Young) /\ (Calm' <=> Calm)

(* Steps that bring nobody to the lock and touch neither the document nor  *)
(* the lock file.                                                          *)
LEMMA HoldersStay ==
  ASSUME HoldersOK, SameAges, UNCHANGED <<doc, lockFile, removed>>,
         purge'.at # "idle" => purge.at # "idle",
         \A c \in Callers : \/ call'[c] = call[c]
                            \/ call'[c].at \notin {"wait", "locked"}
  PROVE  HoldersOK'
<1>1. DocOK' /\ Excl'
  BY DEF HoldersOK, DocOK, Excl, There
<1>2. Over' = Over
  BY DEF SameAges, Over
<1>3. StaleWaiter' => StaleWaiter
  BY DEF StaleWaiter
<1>4. ASSUME Young'
      PROVE  LockedOK' /\ TouchedIsOver'
  <2>1. LockedOK /\ TouchedIsOver
    BY <1>4 DEF HoldersOK, SameAges
  <2>2. LockedOK'
    BY <1>2, <2>1 DEF LockedOK, HoldsDoc, HoldsOver, There
  <2>3. TouchedIsOver'
    BY <1>2, <1>3, <2>1 DEF TouchedIsOver, Touched, There
  <2> QED  BY <2>2, <2>3
<1> QED  BY <1>1, <1>4 DEF HoldersOK

(* Steps that leave the zip to whom it was.                                *)
LEMMA ZipStays ==
  ASSUME ZipOK, SameAges, UNCHANGED <<doc, downloaded>>,
         "zip" \in dir' <=> "zip" \in dir,
         Packing' => Packing, Fetching' => Fetching
  PROVE  ZipOK'
BY DEF ZipOK, SameAges, ZipIsOver, ZipInv, Settled, There

LEMMA OpenKeepsHolders ==
  ASSUME Types, HoldersOK, NEW c \in Callers, Open(c)
  PROVE  HoldersOK'
<1>1. /\ UNCHANGED <<doc, purge, removed>> /\ SameAges /\ Over' = Over
      /\ lockFile # 0 => lockFile' = lockFile
      /\ call' = [call EXCEPT ![c].at = "wait", ![c].lock = lockFile']
  BY DEF Open, times, SameAges, Young, Calm, Over
<1>2. /\ call'[c].at = "wait" /\ call'[c].lock = lockFile'
      /\ \A b \in Callers \ {c} : call'[b] = call[b]
  BY <1>1 DEF Types, ProcsOK, CallSet
<1>3. \A b \in Callers : call[b].lock # 0
  BY DEF Types, ProcsOK, CallSet, LockFile
<1>4. DocOK' /\ Excl'
  <2>1. DocOK /\ Excl
    BY DEF HoldersOK
  <2>2. \A b \in Callers : call'[b].at = "locked"
                             => call'[b] = call[b] /\ call[b].at = "locked"
    BY <1>2
  <2>3. DocOK'
    BY <1>1, <2>1, <2>2 DEF DocOK, There
  <2>4. Excl'
    BY <2>1, <2>2 DEF Excl
  <2> QED  BY <2>3, <2>4
<1>5. StaleWaiter' => StaleWaiter
  BY <1>1, <1>2, <1>3 DEF StaleWaiter
<1>6. ASSUME Young'
      PROVE  LockedOK' /\ TouchedIsOver'
  <2>1. LockedOK /\ TouchedIsOver
    BY <1>1, <1>6 DEF HoldersOK, SameAges
  <2>2. ASSUME NEW b \in Callers, call'[b].at = "locked"
        PROVE  HoldsDoc(b)' \/ HoldsOver(b)'
    <3>1. call'[b] = call[b] /\ call[b].at = "locked"
      BY <1>2, <2>2
    <3>2. CASE HoldsDoc(b)
      BY <1>1, <1>3, <3>1, <3>2 DEF HoldsDoc, There
    <3>3. CASE HoldsOver(b)
      BY <1>1, <3>1, <3>3 DEF HoldsOver, There
    <3> QED  BY <2>1, <3>1, <3>2, <3>3 DEF LockedOK
  <2>3. TouchedIsOver'
    BY <1>1, <1>5, <2>1 DEF TouchedIsOver, Touched, There
  <2> QED  BY <2>2, <2>3 DEF LockedOK
<1> QED  BY <1>4, <1>6 DEF HoldersOK

(* Who gets a lock has read the document of this moment, and if the lock   *)
(* is not that of the directory any more, the job is over.                 *)
LEMMA LocksKeepsHolders ==
  ASSUME Types, HoldersOK, NEW c \in Callers, Locks(c),
         There, call' = [call EXCEPT ![c].at = "locked", ![c].copy = doc]
  PROVE  HoldersOK'
<1>1. /\ UNCHANGED <<doc, lockFile, purge, removed>> /\ SameAges
      /\ Over' = Over
  BY DEF Locks, tree, times, SameAges, Young, Calm, Over
<1>2. /\ call'[c].at = "locked" /\ call'[c].copy = doc
      /\ call'[c].lock = call[c].lock
      /\ \A b \in Callers \ {c} : call'[b] = call[b]
  BY DEF Types, ProcsOK, CallSet
<1>3. DocOK'
  BY <1>1, <1>2 DEF HoldersOK, DocOK, There
<1>4. Excl'
  <2>1. Excl /\ \A b \in Callers : call[b].at = "locked"
                                     => call[b].lock # call[c].lock
    BY DEF Locks, HoldersOK
  <2>2. ASSUME NEW b \in Callers, NEW d \in Callers, b # d,
               call'[b].at = "locked", call'[d].at = "locked"
        PROVE  call'[b].lock # call'[d].lock
    <3>1. CASE b = c
      BY <1>2, <2>1, <2>2, <3>1
    <3>2. CASE d = c
      BY <1>2, <2>1, <2>2, <3>2
    <3>3. CASE b # c /\ d # c
      BY <1>2, <2>1, <2>2, <3>3 DEF Excl
    <3> QED  BY <3>1, <3>2, <3>3
  <2> QED  BY <2>2 DEF Excl
<1>5. StaleWaiter' => StaleWaiter
  BY <1>1, <1>2 DEF StaleWaiter
<1>6. ASSUME Young'
      PROVE  LockedOK' /\ TouchedIsOver'
  <2>1. LockedOK /\ TouchedIsOver
    BY <1>1, <1>6 DEF HoldersOK, SameAges
  <2>2. HoldsDoc(c)' \/ HoldsOver(c)'
    <3>1. CASE call[c].lock = lockFile
      BY <1>1, <1>2, <3>1 DEF HoldsDoc, There
    <3>2. CASE call[c].lock # lockFile
      <4>1. StaleWaiter
        BY <3>2 DEF Locks, StaleWaiter
      <4>2. doc.status \in Over
        BY <2>1, <4>1 DEF TouchedIsOver, Touched
      <4> QED  BY <1>1, <1>2, <4>2 DEF HoldsOver
    <3> QED  BY <3>1, <3>2
  <2>3. ASSUME NEW b \in Callers \ {c}, call'[b].at = "locked"
        PROVE  HoldsDoc(b)' \/ HoldsOver(b)'
    <3>1. call'[b] = call[b] /\ call[b].at = "locked"
      BY <1>2, <2>3
    <3>2. CASE HoldsDoc(b)
      BY <1>1, <3>1, <3>2 DEF HoldsDoc, There
    <3>3. CASE HoldsOver(b)
      BY <1>1, <3>1, <3>3 DEF HoldsOver, There
    <3> QED  BY <2>1, <3>1, <3>2, <3>3 DEF LockedOK
  <2>4. TouchedIsOver'
    BY <1>1, <1>5, <2>1 DEF TouchedIsOver, Touched, There
  <2> QED  BY <2>2, <2>3, <2>4 DEF LockedOK
<1> QED  BY <1>3, <1>4, <1>6 DEF HoldersOK

(* The write at the end of a call, as the others see it.                   *)
LEMMA PersistEffect ==
  ASSUME Types, DocOK, NEW c \in Callers, Persist(c)
  PROVE  LET s == call[c].copy
             t == After(call[c].op, call[c].file, s)
         IN  /\ doc' = doc \/ doc' = t
             /\ Sound(t)
             /\ s.status \in Terminal => t.status = s.status
             /\ call[c].op # "download_started"
                  => t.download_started_at = s.download_started_at
             /\ UNCHANGED <<dir, lockFile, purge, removed>> /\ SameAges
             /\ call'[c].at \in {"none", "flag"}
             /\ \A b \in Callers \ {c} : call'[b] = call[b]
<1> DEFINE s == call[c].copy
           t == After(call[c].op, call[c].file, s)
<1>1. /\ s \in JobState /\ Sound(s) /\ call[c].op \in Ops
      /\ call[c].op \in FileOps => call[c].file \in Files
  BY DEF Persist, Types, CallsOK, ProcsOK, CallSet, InCall, DocOK
<1>2. /\ Sound(t)
      /\ s.status \in Terminal => t.status = s.status
      /\ call[c].op # "download_started"
           => t.download_started_at = s.download_started_at
  <2> HIDE DEF s
  <2> QED  BY <1>1, AfterKeeps
<1>3. doc' = doc \/ doc' = t
  BY DEF Persist
<1>4. UNCHANGED <<dir, lockFile, purge, removed>> /\ SameAges
  BY DEF Persist, SameAges, Young, Calm
<1>5. /\ call'[c].at \in {"none", "flag"}
      /\ \A b \in Callers \ {c} : call'[b] = call[b]
  BY DEF Persist, Continues, NoCall, Types, ProcsOK
<1> QED  BY <1>2, <1>3, <1>4, <1>5

LEMMA PersistKeepsHolders ==
  ASSUME Types, HoldersOK, NEW c \in Callers, Persist(c)
  PROVE  HoldersOK'
<1> DEFINE s == call[c].copy
           t == After(call[c].op, call[c].file, s)
<1>1. DocOK /\ Excl
  BY DEF HoldersOK
<1>2. /\ doc' = doc \/ doc' = t
      /\ Sound(t)
      /\ s.status \in Terminal => t.status = s.status
      /\ UNCHANGED <<lockFile, purge, removed>> /\ SameAges
      /\ call'[c].at \in {"none", "flag"}
      /\ \A b \in Callers \ {c} : call'[b] = call[b]
  BY <1>1, PersistEffect
<1>3. call[c].at = "locked"
  BY DEF Persist
<1> HIDE DEF t
<1>4. CASE doc' = doc
  BY <1>2, <1>4, HoldersStay
<1>5. CASE doc' = t
  <2>1. DocOK' /\ Excl'
    BY <1>1, <1>2, <1>5 DEF DocOK, Excl
  <2>2. ASSUME Young'
        PROVE  LockedOK' /\ TouchedIsOver'
    <3>1. LockedOK /\ TouchedIsOver /\ Over' = Over
      BY <1>2, <2>2 DEF HoldersOK, SameAges, Over
    <3>2. HoldsDoc(c) \/ HoldsOver(c)
      BY <1>3, <3>1 DEF LockedOK
    <3>3. s.status \in Over => t.status \in Over
      BY <1>2 DEF Over, Terminal
    <3>4. ASSUME NEW b \in Callers, call'[b].at = "locked"
          PROVE  HoldsOver(b)'
      <4>1. /\ b # c /\ call'[b] = call[b] /\ call[b].at = "locked"
            /\ call[b].lock # call[c].lock
        BY <1>1, <1>2, <1>3, <3>4 DEF Excl
      <4>2. HoldsDoc(b) \/ HoldsOver(b)
        BY <3>1, <4>1 DEF LockedOK
      <4>3. call[b].copy.status \in Over /\ s.status \in Over
        BY <3>2, <4>1, <4>2 DEF HoldsDoc, HoldsOver
      <4> QED  BY <1>5, <3>1, <3>3, <4>1, <4>3 DEF HoldsOver
    <3>5. Touched' => Touched
      BY <1>2 DEF Touched, StaleWaiter
    <3>6. TouchedIsOver'
      <4> SUFFICES ASSUME Touched'
                   PROVE  t.status \in Over
        BY <1>5, <3>1 DEF TouchedIsOver
      <4> QED  BY <3>1, <3>2, <3>3, <3>5 DEF TouchedIsOver, HoldsDoc, HoldsOver
    <3> QED  BY <3>4, <3>6 DEF LockedOK
  <2> QED  BY <2>1, <2>2 DEF HoldersOK
<1> QED  BY <1>2, <1>4, <1>5

(* A deletion that retention does not force begins on a job that is over.  *)
LEMMA DueIsOver ==
  ASSUME ZipOK, Young, There, Due(doc)
  PROVE  doc.status \in Over
<1>1. CASE GraceOver(doc)
  BY <1>1 DEF GraceOver, ZipOK, ZipIsOver, Over, Calm
<1>2. CASE doc.status = "cancelled"
  BY <1>2 DEF Over, Terminal
<1> QED  BY <1>1, <1>2 DEF Due, Young

LEMMA BeginKeepsHolders ==
  ASSUME HoldersOK, ZipOK, There, Due(doc), purge'.at = "list",
         UNCHANGED <<doc, lockFile, call, ages, removed>>
  PROVE  HoldersOK'
<1>1. SameAges /\ Over' = Over
  BY DEF SameAges, Young, Calm, Over
<1>2. DocOK' /\ Excl'
  BY DEF HoldersOK, DocOK, Excl, There
<1>3. ASSUME Young'
      PROVE  LockedOK' /\ TouchedIsOver'
  BY <1>1, <1>3, DueIsOver
     DEF HoldersOK, SameAges, LockedOK, HoldsDoc, HoldsOver, There,
         TouchedIsOver
<1> QED  BY <1>2, <1>3 DEF HoldersOK

LEMMA RemoveKeepsHolders ==
  ASSUME HoldersOK, NEW e \in Entries, Remove(e)
  PROVE  HoldersOK'
<1>1. /\ UNCHANGED call /\ SameAges /\ Over' = Over /\ Touched
      /\ There' => There /\ doc' = doc
  BY DEF Remove, SameAges, Young, Calm, Over, Touched, There
<1>2. DocOK' /\ Excl'
  BY <1>1 DEF HoldersOK, DocOK, Excl
<1>3. ASSUME Young'
      PROVE  LockedOK' /\ TouchedIsOver'
  <2>1. LockedOK /\ (There => doc.status \in Over)
    BY <1>1, <1>3 DEF HoldersOK, SameAges, TouchedIsOver
  <2>2. \A c \in Callers : call[c].at = "locked" => HoldsOver(c)'
    BY <1>1, <2>1 DEF LockedOK, HoldsDoc, HoldsOver
  <2> QED  BY <1>1, <2>1, <2>2 DEF LockedOK, TouchedIsOver
<1> QED  BY <1>2, <1>3 DEF HoldersOK

(* When an age has passed, more may be deleted and less is promised.       *)
LEMMA PassesKeeps ==
  ASSUME HoldersOK, ZipOK, NEW a \in Ages, Passes(a)
  PROVE  HoldersOK' /\ ZipOK'
<1>1. /\ UNCHANGED <<doc, dir, lockFile, run, call, purge, removed, downloaded>>
      /\ ages' = ages \cup {a}
  BY DEF Passes, tree
<1>2. (Young' => Young) /\ (Calm' => Calm) /\ Over \subseteq Over'
  BY <1>1 DEF Young, Calm, Over, Terminal
<1>3. DocOK' /\ Excl'
  BY <1>1 DEF HoldersOK, DocOK, Excl, There
<1>4. ASSUME Young'
      PROVE  LockedOK' /\ TouchedIsOver'
  <2>1. LockedOK /\ TouchedIsOver
    BY <1>2, <1>4 DEF HoldersOK
  <2>2. LockedOK'
    BY <1>1, <1>2, <2>1 DEF LockedOK, HoldsDoc, HoldsOver, There
  <2>3. TouchedIsOver'
    BY <1>1, <1>2, <2>1 DEF TouchedIsOver, Touched, StaleWaiter, There
  <2> QED  BY <2>2, <2>3
<1>5. ZipOK'
  BY <1>1, <1>2 DEF ZipOK, ZipIsOver, ZipInv, Settled, There, Packing,
                    Fetching, InCall
<1> QED  BY <1>3, <1>4, <1>5 DEF HoldersOK

--------------------------------------------------------------------------------
(* The zip.                                                                *)
LEMMA PersistKeepsZip ==
  ASSUME Types, HoldersOK, ZipOK, NEW c \in Callers, Persist(c)
  PROVE  ZipOK'
<1> DEFINE s == call[c].copy
           t == After(call[c].op, call[c].file, s)
<1>1. /\ doc' = doc \/ doc' = t
      /\ s.status \in Terminal => t.status = s.status
      /\ call[c].op # "download_started"
           => t.download_started_at = s.download_started_at
      /\ UNCHANGED dir /\ SameAges
      /\ call'[c].at \in {"none", "flag"}
      /\ \A b \in Callers \ {c} : call'[b] = call[b]
  BY PersistEffect DEF HoldersOK
<1>2. t \in JobState
  <2>1. /\ s \in JobState /\ Sound(s) /\ call[c].op \in Ops
        /\ call[c].op \in FileOps => call[c].file \in Files
    BY DEF Persist, Types, CallsOK, ProcsOK, CallSet, InCall, HoldersOK, DocOK
  <2> HIDE DEF s
  <2> QED  BY <2>1, AfterKeeps
<1>3. call[c].at = "locked"
      /\ (downloaded' <=> downloaded \/ call[c].op = "download_started")
  BY DEF Persist
<1> HIDE DEF t
<1>4. /\ Fetching' => Fetching
      /\ call[c].op = "download_started" => Fetching
  BY <1>1, <1>3 DEF Fetching, InCall
<1>5. Packing' => Packing
  BY DEF Persist, Continues, Packing, Types, ProcsOK, RunSet, Idle, AtZip
<1>6. CASE doc' = doc
  BY <1>1, <1>3, <1>4, <1>5, <1>6
     DEF ZipOK, SameAges, ZipIsOver, ZipInv, Settled, There
<1>7. CASE doc' = t
  <2>1. There'
    BY <1>2, <1>7, DeletionAssumption DEF There, DeletionAssumption
  <2>2. Young => HoldsDoc(c) \/ HoldsOver(c)
    BY <1>3 DEF HoldersOK, LockedOK
  <2>3. Over \subseteq Terminal /\ (Calm => Young /\ Over = {"cancelled"})
    BY DEF Over, Terminal, Calm, Young
  <2>4. ASSUME Young'
        PROVE  ZipIsOver'
    <3>1. ZipIsOver /\ (HoldsDoc(c) \/ HoldsOver(c))
      BY <1>1, <2>2, <2>4 DEF ZipOK, SameAges
    <3>2. CASE HoldsOver(c)
      BY <1>1, <1>7, <2>3, <3>2 DEF HoldsOver, ZipIsOver
    <3>3. CASE HoldsDoc(c)
      <4>1. There /\ s = doc
        BY <3>3 DEF HoldsDoc
      <4>2. "zip" \in dir' \/ Packing' \/ Fetching' => t.status \in Terminal
        BY <1>1, <1>4, <1>5, <3>1, <4>1 DEF ZipIsOver
      <4>3. t.download_started_at => t.status \in Terminal
        BY <1>1, <1>4, <3>1, <4>1 DEF ZipIsOver
      <4> QED  BY <1>7, <4>2, <4>3 DEF ZipIsOver
    <3> QED  BY <3>1, <3>2, <3>3
  <2>5. ASSUME Calm'
        PROVE  /\ "zip" \in dir' \/ Packing' => Settled'
               /\ Fetching' \/ downloaded' => Settled' /\ "zip" \in dir'
    <3>1. /\ Calm /\ ZipInv /\ Over = {"cancelled"}
          /\ HoldsDoc(c) \/ HoldsOver(c)
      BY <1>1, <2>2, <2>3, <2>5 DEF ZipOK, SameAges
    <3>2. Settled => Settled'
      BY <1>1, <1>7, <2>1, <3>1 DEF Settled, HoldsDoc, HoldsOver, Terminal
    <3> QED  BY <1>1, <1>3, <1>4, <1>5, <3>1, <3>2 DEF ZipInv
  <2> QED  BY <2>4, <2>5 DEF ZipOK, ZipInv
<1> QED  BY <1>1, <1>6, <1>7

(* A deletion that retention and grace period do not force never meets a   *)
(* settled job, so that it takes no zip anybody was promised.              *)
LEMMA RemoveKeepsZip ==
  ASSUME HoldersOK, ZipOK, NEW e \in Entries, Remove(e)
  PROVE  ZipOK'
<1>1. /\ UNCHANGED <<run, call, downloaded>> /\ SameAges /\ Touched
      /\ There' => There /\ doc' = doc
      /\ "zip" \in dir' => "zip" \in dir
  BY DEF Remove, SameAges, Young, Calm, Touched, There
<1>2. (Packing' <=> Packing) /\ (Fetching' <=> Fetching)
  BY <1>1 DEF Packing, Fetching, InCall
<1>3. Young' => ZipIsOver'
  BY <1>1, <1>2 DEF ZipOK, SameAges, ZipIsOver
<1>4. ZipInv'
  <2> SUFFICES ASSUME Calm'
               PROVE  ~ Settled /\ ZipInv
    BY <1>1, <1>2 DEF ZipInv, SameAges
  <2>1. Young /\ Over = {"cancelled"} /\ ZipInv
    BY <1>1 DEF SameAges, Calm, Young, Over, ZipOK
  <2> QED  BY <1>1, <2>1 DEF HoldersOK, TouchedIsOver, Settled
<1> QED  BY <1>3, <1>4 DEF ZipOK

LEMMA CallKeeps ==
  ASSUME Types, HoldersOK, ZipOK, NEW c \in Callers, LockedCall(c)
  PROVE  HoldersOK' /\ ZipOK'
<1>1. CASE Raises(c) /\ UNCHANGED <<tree, purge, times>>
  <2>1. /\ UNCHANGED <<doc, dir, lockFile, purge, removed, downloaded>>
        /\ SameAges
    BY <1>1 DEF tree, times, SameAges, Young, Calm
  <2>2. call'[c].at = "none" /\ \A b \in Callers \ {c} : call'[b] = call[b]
    BY <1>1 DEF Raises, NoCall, Types, ProcsOK
  <2>3. Packing' => Packing
    BY <1>1 DEF Raises, Packing, Idle, AtZip, Types, ProcsOK
  <2>4. Fetching' => Fetching
    BY <2>2 DEF Fetching, InCall
  <2> QED  BY <2>1, <2>2, <2>3, <2>4, HoldersStay, ZipStays
<1>2. ASSUME UNCHANGED <<dir, run, times>>, UNCHANGED doc,
             call'[c].op = call[c].op, InCall(c),
             \A b \in Callers \ {c} : call'[b] = call[b]
      PROVE  ZipOK'
  <2>1. UNCHANGED downloaded /\ SameAges
    BY <1>2 DEF times, SameAges, Young, Calm
  <2>2. (Packing' => Packing) /\ (Fetching' => Fetching)
    BY <1>2 DEF Packing, Fetching, InCall
  <2> QED  BY <1>2, <2>1, <2>2, ZipStays
<1>3. CASE Exists(c) /\ ~ Raises(c)
  <2>1. /\ UNCHANGED <<dir, run, times, doc, lockFile, purge, removed>>
        /\ SameAges /\ InCall(c)
    BY <1>3 DEF Exists, tree, times, SameAges, Young, Calm, InCall
  <2>2. /\ call'[c].op = call[c].op /\ call'[c].at = "open"
        /\ \A b \in Callers \ {c} : call'[b] = call[b]
    BY <1>3 DEF Exists, Types, ProcsOK, CallSet
  <2> QED  BY <1>2, <2>1, <2>2, HoldersStay
<1>4. CASE Open(c)
  <2>1. UNCHANGED <<dir, run, times, doc>> /\ InCall(c)
    BY <1>4 DEF Open, times, InCall
  <2>2. /\ call'[c].op = call[c].op
        /\ \A b \in Callers \ {c} : call'[b] = call[b]
    BY <1>4 DEF Open, Types, ProcsOK, CallSet
  <2> QED  BY <1>2, <1>4, <2>1, <2>2, OpenKeepsHolders
<1>5. CASE Locks(c) /\ ~ Raises(c)
  <2>1. UNCHANGED <<dir, run, times, doc>> /\ InCall(c)
    BY <1>5 DEF Locks, tree, times, InCall
  <2>2. /\ call'[c].op = call[c].op
        /\ \A b \in Callers \ {c} : call'[b] = call[b]
    BY <1>5 DEF Locks, Types, ProcsOK, CallSet
  <2>3. There /\ call' = [call EXCEPT ![c].at = "locked", ![c].copy = doc]
    BY <1>5 DEF Locks
  <2> QED  BY <1>2, <1>5, <2>1, <2>2, <2>3, LocksKeepsHolders
<1>6. CASE Persist(c)
  BY <1>6, PersistKeepsHolders, PersistKeepsZip
<1> QED
  BY <1>1, <1>3, <1>4, <1>5, <1>6
     DEF LockedCall, Exists, Locks, PersistRaises, times

(* What a task does between its calls: only the finalize task has to do    *)
(* with the zip, and it found a job whose subtasks are all counted.        *)
LEMMA WorkKeeps ==
  ASSUME Types, HoldersOK, ZipOK, NEW w \in Workers, Work(w)
  PROVE  HoldersOK' /\ ZipOK'
<1> USE DEF At
<1>1. /\ UNCHANGED <<doc, lockFile, purge, removed, downloaded>> /\ SameAges
  BY DEF Work, Take, Begin, SecondCheck, MakeOut, ReadUploads, Save, ThirdCheck,
         FinalizeRead, FinalizeExists, FinalizeOpen, FinalizePack, tree, times,
         SameAges, Young, Calm
<1>2. \/ UNCHANGED call
      \/ \E op \in FileOps : Marks(w, op)
  BY DEF Work, Take, Begin, SecondCheck, MakeOut, ReadUploads, Save, ThirdCheck,
         FinalizeRead, FinalizeExists, FinalizeOpen, FinalizePack, Goes, Ends,
         FileOps
<1>3. ASSUME NEW op \in FileOps, Marks(w, op)
      PROVE  /\ UNCHANGED run
             /\ \A c \in Callers \ {w} : call'[c] = call[c]
             /\ call'[w].at = "exists" /\ call'[w].op = op
  BY <1>3 DEF Marks, Calls, NoCall, Types, ProcsOK, Callers
<1>4. \A c \in Callers : \/ call'[c] = call[c]
                           \/ call'[c].at \notin {"wait", "locked"}
  BY <1>2, <1>3
<1>5. HoldersOK'
  BY <1>1, <1>4, HoldersStay
<1>6. Fetching' => Fetching
  BY <1>2, <1>3 DEF Fetching, InCall, FileOps
<1>7. \A b \in Workers \ {w} : run'[b] = run[b]
  BY <1>2, <1>3
     DEF Work, Take, Begin, SecondCheck, MakeOut, ReadUploads, Save, ThirdCheck,
         FinalizeRead, FinalizeExists, FinalizeOpen, FinalizePack, Goes, Ends,
         Marks, Types, ProcsOK
<1>8. CASE FinalizeRead(w)
  <2>1. UNCHANGED dir
    BY <1>8 DEF FinalizeRead, tree
  <2>2. CASE Ends(w)
    <3>1. Packing' => Packing
      BY <1>7, <2>2 DEF Packing, Ends, Idle, AtZip, Types, ProcsOK
    <3> QED  BY <1>1, <1>5, <1>6, <2>1, <3>1, ZipStays
  <2>3. CASE There /\ Converted(doc)
    <3>1. There' /\ doc'.status \in {"done", "failed"}
      BY <1>1, <2>3
         DEF Converted, HoldersOK, DocOK, Sound, Terminal, There
    <3> QED  BY <1>1, <1>5, <1>6, <2>1, <3>1
             DEF ZipOK, ZipIsOver, ZipInv, Settled, Terminal, SameAges, There
  <2> QED  BY <1>8, <2>2, <2>3 DEF FinalizeRead
<1>9. CASE FinalizePack(w)
  <2>1. Packing /\ (Packing' => Packing)
    BY <1>9 DEF FinalizePack, Packing, AtZip
  <2>2. "zip" \in dir => "zip" \in dir'
    BY <1>9 DEF FinalizePack, Creates
  <2> QED  BY <1>1, <1>5, <1>6, <2>1, <2>2
           DEF ZipOK, ZipIsOver, ZipInv, Settled, SameAges, There
<1>10. CASE ~ FinalizeRead(w) /\ ~ FinalizePack(w)
  <2>1. "zip" \in dir' <=> "zip" \in dir
    BY <1>10 DEF Work, Take, Begin, SecondCheck, MakeOut, ReadUploads, Save,
                 ThirdCheck, FinalizeExists, FinalizeOpen, tree, Creates
  <2>2. run'[w].at \in AtZip => run[w].at \in AtZip
    BY <1>10, <1>2, <1>3
       DEF Work, Take, Begin, SecondCheck, MakeOut, ReadUploads, Save,
           ThirdCheck, FinalizeExists, FinalizeOpen, Goes, Ends, Marks, Idle,
           AtZip, Types, ProcsOK, RunSet
  <2>3. Packing' => Packing
    BY <1>7, <2>2 DEF Packing
  <2> QED  BY <1>1, <1>5, <1>6, <2>1, <2>3, ZipStays
<1> QED  BY <1>8, <1>9, <1>10

LEMMA ApiKeeps ==
  ASSUME Types, HoldersOK, ZipOK, Scan \/ CancelJob \/ SetFlag \/ Download
  PROVE  HoldersOK' /\ ZipOK'
<1>1. "api" \in Callers
  BY DEF Callers
<1>2. /\ UNCHANGED <<doc, dir, lockFile, run, removed, downloaded, ages>>
      /\ SameAges
  BY DEF Scan, ScanBackstop, ScanFile, CancelJob, SetFlag, Download, tree, times,
         SameAges, Young, Calm
<1>3. (Packing' <=> Packing)
  BY <1>2 DEF Packing
<1>4. ASSUME UNCHANGED purge,
             \A c \in Callers : \/ call'[c] = call[c]
                                \/ /\ call'[c].at \notin {"wait", "locked"}
                                   /\ InCall(c)' => call'[c].op # "download_started"
      PROVE  HoldersOK' /\ ZipOK'
  <2>1. Fetching' => Fetching
    BY <1>4 DEF Fetching, InCall
  <2> QED  BY <1>2, <1>3, <1>4, <2>1, HoldersStay, ZipStays
<1>5. ASSUME NEW op \in Ops, NEW f \in Files \cup {Nothing}, Calls("api", op, f)
      PROVE  /\ \A c \in Callers \ {"api"} : call'[c] = call[c]
             /\ call'["api"].at = "exists" /\ call'["api"].op = op
  BY <1>1, <1>5 DEF Calls, NoCall, Types, ProcsOK
<1>6. CASE Scan
  <2>1. UNCHANGED purge
    BY <1>6 DEF Scan, ScanBackstop, ScanFile
  <2>2. UNCHANGED call \/ \E f \in Files : Calls("api", "done", f)
    BY <1>6 DEF Scan, ScanBackstop, ScanFile
  <2> QED  BY <1>4, <1>5, <2>1, <2>2 DEF Ops
<1>7. CASE CancelJob
  BY <1>4, <1>5, <1>7 DEF CancelJob, Ops
<1>8. CASE SetFlag
  <2>1. /\ UNCHANGED purge /\ call'["api"].at = "none"
        /\ \A c \in Callers \ {"api"} : call'[c] = call[c]
    BY <1>1, <1>8 DEF SetFlag, NoCall, Types, ProcsOK
  <2> QED  BY <1>4, <2>1 DEF InCall
<1>9. CASE Download
  <2>1. CASE GraceOver(doc) /\ There /\ purge'.at = "list" /\ UNCHANGED call
    <3>1. HoldersOK'
      BY <1>2, <2>1, BeginKeepsHolders DEF Due
    <3>2. Fetching' => Fetching
      BY <2>1 DEF Fetching, InCall
    <3> QED  BY <1>2, <1>3, <3>1, <3>2, ZipStays
  <2>2. CASE /\ There /\ "zip" \in dir /\ UNCHANGED purge
             /\ Calls("api", "download_started", Nothing)
    <3>1. HoldersOK'
      BY <1>2, <1>5, <2>2, HoldersStay DEF Ops
    <3>2. ZipOK'
      BY <1>2, <1>3, <2>2
         DEF ZipOK, ZipIsOver, ZipInv, Settled, SameAges, There
    <3> QED  BY <3>1, <3>2
  <2>3. purge \in [at : {"idle", "list", "remove", "keys"},
                   listed : SUBSET Entries]
    BY DEF Types, FlagsOK
  <2> QED  BY <1>9, <2>1, <2>2, <2>3 DEF Download
<1> QED  BY <1>6, <1>7, <1>8, <1>9

LEMMA DeletesKeep ==
  ASSUME Types, HoldersOK, ZipOK, Sweep \/ Deletes
  PROVE  HoldersOK' /\ ZipOK'
<1>1. purge \in [at : {"idle", "list", "remove", "keys"},
                 listed : SUBSET Entries]
  BY DEF Types, FlagsOK
<1>2. CASE Sweep
  <2>1. /\ UNCHANGED <<doc, dir, lockFile, run, call, removed, downloaded, ages>>
        /\ SameAges /\ There /\ Due(doc) /\ purge'.at = "list"
    BY <1>1, <1>2 DEF Sweep, tree, times, SameAges, Young, Calm
  <2>2. HoldersOK'
    BY <2>1, BeginKeepsHolders
  <2>3. ZipOK'
    BY <2>1, ZipStays DEF Packing, Fetching, InCall
  <2> QED  BY <2>2, <2>3
<1>3. CASE \E e \in Entries : Remove(e)
  BY <1>3, RemoveKeepsHolders, RemoveKeepsZip
<1>4. CASE List \/ RemoveDir \/ RemoveRaises \/ WipeKeys
  <2>1. /\ UNCHANGED <<doc, dir, lockFile, run, call, removed, downloaded, ages>>
        /\ SameAges /\ (purge'.at # "idle" => purge.at # "idle")
    BY <1>1, <1>4 DEF List, RemoveDir, RemoveRaises, WipeKeys, NoPurge, tree,
                      times, SameAges, Young, Calm
  <2>2. HoldersOK'
    BY <2>1, HoldersStay
  <2>3. ZipOK'
    BY <2>1, ZipStays DEF Packing, Fetching, InCall
  <2> QED  BY <2>2, <2>3
<1> QED  BY <1>2, <1>3, <1>4 DEF Deletes

LEMMA DeathsKeep ==
  ASSUME Types, HoldersOK, ZipOK,
         \/ \E w \in Workers : WorkerDies(w)
         \/ ApiDies
         \/ UNCHANGED vars
  PROVE  HoldersOK' /\ ZipOK'
<1>1. /\ UNCHANGED <<doc, dir, lockFile, removed, downloaded>> /\ SameAges
      /\ UNCHANGED purge \/ purge' = NoPurge
  BY DEF WorkerDies, ApiDies, Dies, vars, tree, times, SameAges, Young, Calm
<1>2. \A c \in Callers : call'[c] = call[c] \/ call'[c].at = "none"
  BY DEF WorkerDies, Raises, ApiDies, vars, NoCall, Types, ProcsOK
<1>3. \A w \in Workers : run'[w] = run[w] \/ run'[w] = Idle
  BY DEF WorkerDies, Raises, ApiDies, vars, Types, ProcsOK
<1>4. HoldersOK'
  BY <1>1, <1>2, HoldersStay DEF NoPurge
<1>5. (Packing' => Packing) /\ (Fetching' => Fetching)
  BY <1>2, <1>3 DEF Packing, Fetching, InCall, Idle, AtZip
<1> QED  BY <1>1, <1>4, <1>5, ZipStays

--------------------------------------------------------------------------------
LEMMA InitHolds == Init => HoldersOK /\ ZipOK
<1> SUFFICES ASSUME Init PROVE HoldersOK /\ ZipOK
  OBVIOUS
<1>1. /\ \A c \in Callers : call[c].at = "none"
      /\ \A w \in Workers : run[w].at = "idle"
      /\ purge.at = "idle" /\ ~ removed /\ ~ downloaded /\ "zip" \notin dir
  BY DEF Init, NoCall, Idle, NoPurge
<1>2. doc = NewState /\ ~ AllCounted(NewState) /\ ~ NewState.download_started_at
  BY FilesAssumption
     DEF Init, NewState, AllCounted, Counted, FilesAssumption
<1>3. HoldersOK
  BY <1>1, <1>2 DEF HoldersOK, DocOK, Sound, Excl, LockedOK, TouchedIsOver,
                    Touched, StaleWaiter
<1>4. ZipOK
  BY <1>1, <1>2 DEF ZipOK, ZipIsOver, ZipInv, Packing, Fetching, InCall, AtZip
<1> QED  BY <1>3, <1>4

LEMMA DeletionHolds == Spec => [](Types /\ HoldersOK /\ ZipOK)
<1>1. ASSUME Types, HoldersOK, ZipOK, [Next]_vars
      PROVE  HoldersOK' /\ ZipOK'
  BY <1>1, CallKeeps, WorkKeeps, ApiKeeps, DeletesKeep, DeathsKeep, PassesKeeps
     DEF Next
<1> QED  BY TypesHold, InitHolds, <1>1, PTL DEF Spec

--------------------------------------------------------------------------------
(* All variables have their types; in particular the lock files that are   *)
(* held or waited for leave a number for a new one (job_service.py:338).   *)
THEOREM DeletionTypes == Spec => []TypeOK
<1>1. Types => TypeOK
  BY DEF Types, TreeOK, FlagsOK, ProcsOK, RunSet, CallSet, TypeOK
<1> QED  BY TypesHold, <1>1, PTL

(* Whatever a late writer brings back after its directory was deleted is   *)
(* over, unless retention has come (cleanup_service.py, job_service.py:313)*)
THEOREM LateWriterIsHarmless == Spec => []ResurrectedIsOver
<1>1. HoldersOK => ResurrectedIsOver
  BY DEF HoldersOK, ResurrectedIsOver, TouchedIsOver, Touched, Young, Over,
         Terminal
<1> QED  BY DeletionHolds, <1>1, PTL

(* A zip that has been downloaded stays for its grace period.              *)
THEOREM DownloadedZipStays == Spec => []ZipKept
<1>1. ZipOK => ZipKept
  BY DEF ZipOK, ZipInv, ZipKept, Calm, Settled
<1> QED  BY DeletionHolds, <1>1, PTL
================================================================================

# Verification of the Excel Template Parser

The program converts uploaded Excel files into a target template. A user
uploads one or more *primary* files, lookup files and a template; every primary
file becomes one *subtask* that a background worker converts; when all have
settled, the outputs are packed into `result.zip`. This directory models how a
job gets from upload to zip with several processes at work, any of which may
die, and what the program promises on the way. Paths below are relative to
`backend/app/` unless they start with `frontend/`.

## 1. The system

| part | state it keeps | operations | talks to |
|---|---|---|---|
| Job API `api/jobs.py` | job directory: uploads | create, read, event stream, download, cancel | job service, work queue, cleanup |
| Job service `services/job_service.py`, `schemas.py` | `state.json`, its copy in Redis, the set of done subtasks, the cancel flag | `create`, `mark_*`, `finalize_lock`, reads | the file system (flock), Redis, event channel |
| Work queue `workers/queue.py`, `workers/run.py` | RQ list and one record per task | `enqueue_subtask`, `enqueue_finalize` | RQ / Redis |
| Worker control `workers/tasks.py` | none; local variables of a run | `run_subtask`, `finalize_job` | all of the above, conversion core |
| Atomic files, zipper `core/atomic_io.py`, `core/zipper.py` | outputs, temporary files, `result.zip` | `atomic_path`, `atomic_write_text`, `pack` | file system |
| Recovery scan `services/recovery_service.py` | none; the document it read | `scan_and_resume` at start-up and every `RESUME_SCAN_SECONDS` | job service, work queue |
| Cleanup `services/cleanup_service.py`, `services/scheduler.py` | none | three purges, `delete_job` | file system, Redis |
| Configuration store `services/config_service.py`, `api/configs.py` | one JSON file per configuration, Redis cache and index | save, delete, get, list, import | file system, Redis |
| Conversion core `core/parser.py`, `joiner.py`, `mapper.py`, `writer.py`, ... | none | parse, join, map, write, preview, preflight | spreadsheet libraries |
| Event stream `api/jobs.py`, `services/job_service.py` | Redis channel per job | snapshot, subscribe, forward | job service |
| Drafts and pages `frontend/src/pages/ConfigBuilder.tsx`, `WizardPage.tsx`, `lib/configForm.ts` | the form, a stored draft both pages share, a pending autosave, dialogs | autosave, restore, discard, save (409, overwrite), load, delete, preview | configuration API, localStorage, other tabs |
| Form editor `frontend/src/lib/configForm.ts`, `features/config-builder/*`, `components/SheetHeaderPicker.tsx` | sources, joins, rows, files and what is known of their sheets | every edit, parse requests per picker, merge of rows, both schemas, checklist | parse API |
| Job page `frontend/src/hooks/useJobSnapshot.ts`, `lib/api.ts`, `pages/JobDetail.tsx` | the snapshot on screen, event stream, its reconnect timer | open, apply an update, reconnect, refetch | job API |
| Batch page, job list `frontend/src/features/batch-runner/NewBatchForm.tsx`, `JobsList.tsx`, `lib/recentJobs.ts` | chosen configuration, slots, stored list of recent jobs | choose, submit, poll, record, remove | job API, localStorage |

A request creates the job document and enqueues one task per primary file and a
finalize task. RQ workers (processes, `RQ_WORKERS` of them) take the tasks from
one list. The job service is a library each process has its own copy of; the
processes share only files and Redis. The one that marks the last subtask is
told so and enqueues the finalize task again. The scan runs in the API process
and once when the worker container starts, at the same time as everything else.

**What is hard.** Processes interleave between any two accesses to a file or to
Redis. There is no transaction over the two stores. A worker, its parent, the
API or the scan may be killed at any point; a killed worker leaves its RQ
record STARTED, its temporary file in `out/` and its hand-over undone. The
duplicate check, the deletion of a dead record and the enqueue are three steps, so a
task may run twice at a time. A cancel request races with all of this. The scan decides on a document
that is old by the time it acts. A directory is deleted entry by entry, without
a lock, under whoever works in it. In the browser every answer arrives in a later
render than its request: the form has been edited, the page left, the file
replaced or another job opened meanwhile; closures keep the values of the render
they come from, two pages and other tabs write one draft, and an event stream can
break between any two updates. `PROJECT.json` lists these hazards at their
lines, with the properties that cover them.

**What makes each part correct.**
- *Job service*: each call is one atomic change of the document; nothing final
  is taken back; the job's status agrees with its subtasks; exactly one call
  learns that it was the last; Redis never shows what the disk has not reached.
- *Work queue and workers*: a subtask is done only if its output is complete; a
  zip is written once and holds every file that is done; every job ends and
  gets its zip, whichever process dies.
- *Cancel*: only a request cancels; a running subtask stops without a trace.
- *Cleanup*: nothing is deleted that is still promised; what a late writer
  brings back is over; what is due is in the end gone.
- *Drafts*: work on a form is on screen and about to be stored, or stored, or on
  the server; a draft that was saved does not come back; a save sends the form
  that was on screen and only a valid one.
- *Form editor*: columns on offer are those of the file shown; an accepted form is
  accepted by the server; what is shown is what is saved; an answer loses no edit.
- *Job pages*: no stream outlives its page; a page shows its own job and ends up
  with the last snapshot; the list follows; a batch is sent with the slots of the
  configuration that is chosen.
- *Configuration store*: what the last write has left is what file, cache and
  every reader have, whatever is lost or dies. *Conversion*: converting in chunks
  gives what converting the whole file gives (not modelled; see section 6).

## 2. The modules

```
JobRecord            the document, the transition tables, the methods as functions
  JobService         ... as atomic actions: the abstract specification
    JobServiceProofs (with JobRecordProofs)
  JobStateFile       ... under the lock protocol; implements JobService
    JobStateFileProofs
  JobDeletion        ... in a directory that is deleted meanwhile
    JobDeletionProofs
  WorkQueue          RQ ids, duplicate check, enqueue, RQ's own steps
    JobPipeline      API + workers + scan + cancel + faults, over WorkQueue; implements JobService
      JobPipelineProofs
ConfigStore          one name of the configuration store: file, Redis copy, index
  ConfigStoreProofs
Sublists             what filter, Set and Map do to an array
ConfigForm           a configuration form, its schemas and helpers as functions
  ConfigEditor       editing it, with the parse requests
    Checklist        ... with the checklist and the preview button beside it
ConfigPages          the two pages, the draft they share, saving
  ConfigPagesProofs
RecentJobs           the stored list of jobs and its poll
  JobPage            one job: snapshot, event stream, reconnect
  BatchPage          choosing a configuration and submitting
    JobTab           a browser tab that visits these pages
      BrowserProofs  (of JobTab and of Checklist)
MC*                  bounds and symmetry for TLC
```

**JobRecord.** `state.json` as a record. Time stamps are reduced to whether
they are set; messages, durations and `config_name` are left out. Each method is
a function from the document it read to the document it writes: the tables of
`job_service.py:42-56`, `_transition` with its two refusals (the same state, an
illegal step; both leave the status), and the rule by which the last settled
subtask moves the job. `IsLast` is the boolean that `mark_done` and
`mark_failed` return. The methods' check that the subtask exists is not an
action: the callers only name subtasks of the document.

**JobService.** The abstract specification: the callers apply those functions
one at a time, in any order. Two rules bind them: the Redis flag is set after
the write that records the request, and only a worker that saw the flag marks
its subtask cancelled. `answers` is a history variable.

**JobStateFile.** One mutating call as the code makes it: open and flock
(`Lock`, which also reads; the file cannot change between the two), the body,
which returns early or writes the file (`Persist`), the write of the Redis copy
(`Mirror`), the unlock, and what follows it (`After`: done set, cancel flag).
`Abort` is a kill or an exception at any of these points. `ScanRead` and
`ScanRefresh` are the unlocked read of the scan and its later write to Redis.
Under `state <- disk` the module implements `JobService!Spec`: the lock, the read
inside it and the single `os.replace` are what makes a call atomic. The pipeline
uses that result.

**WorkQueue.** One entry per task id in the list, and one record per id, in
the classes the duplicate check tells apart: none, terminal, queued,
started with a fresh heartbeat, started with an old one. `LookUp` (`Job.fetch`),
`DropRecord` (`job.delete`, only after a record that is not active) and `Push` are the
three parts of an enqueue; the record may have changed in between, and what is deleted
is then the new one. RQ is not part of this repository: `Pop`, `Ended`
and `HeartbeatStops` model it as far as `queue.py` and `tasks.py` use it. Two
entries for one id can be in the list at a time (two callers passed the check).
Deleting a record takes the id off the list.

**JobPipeline.** `Create` is `create_job` from the document on; `Dequeue`,
`Look`, `AlreadyDone`, `ConfigGone`, `Start`, `SecondCheck`, `Write`,
`WriteFails`, `Failing`, `ThirdCheck`, `Done` are `run_subtask` from one shared
access to the next; `FinalizeRead`, `FinalizeLock`, `FinalizePack` are
`finalize_job`; `ScanStart`, `ScanFile`, `ScanEnd` are the scan on this job;
`CancelRequest`, `CancelMark`, `CancelFlag`, `CancelList`, `CancelDrop`, `CancelEnd` are
`cancel_job`, which lists the queue and then cancels and deletes what it found, task by
task: one that a worker has taken since loses its record and runs on. An
output is a member of `outputs`; `torn` holds the files with an abandoned
temporary file. `listing` is what `zipper.pack` found in `out/`; temporary files
of writers at work may be among it. Faults: `WorkerFault` (a run is killed or
leaves by an exception, with or without RQ recording it), `OrphanRun` (the RQ
parent dies, the run goes on without a heartbeat), `CreatorFault`, `ScanFault`; a
cancel request that dies just takes no further step. A subtask that dies of an error before its `try` block is a
`WorkerFault`.

Abstractions to know of: taking a task and the first look at the cancel flag
are one step (`Dequeue`), because the others treat a task just taken like a
queued one; files have no order (`create_job` and the scan go by the order of
the upload, any order is allowed here); the time limit of a run is the exception
`WriteFails` (it may strike on either side of the `os.replace`) or a
`WorkerFault`; listing `out/` is one step; the job is not deleted (that is
`JobDeletion`).

**JobDeletion.** The last part of a job's life. `Sweep` starts a deletion
when `Due` (grace period after the first download, a cancelled job with nothing
running or timed out, retention age), `Download` does when it comes too late;
`List`, `Remove(e)`, `RemoveDir`, `RemoveRaises` and `WipeKeys` are `delete_job`:
`rmtree` takes no lock, and raises if an entry appears under it. The others are
whoever may be in the directory: a call of the job service step by step (`Exists`,
`Open`, `Locks`, `Persist`), because here the lock file itself can vanish, so that
two callers lock different files of one name; the tasks cut down to their accesses
to the directory; the scan; a cancel request; deaths. Time is which of three ages
have passed; the one of a cancelled job only passes when no task is at work, since
it (`job_timeout_min + 1` minutes, `cleanup_service.py:114`) is a minute longer than
RQ's time limit of a task.

**ConfigStore.** `config_service.py` on one name, from one access to a store to the
next: `CheckFile`, `CheckIndex` (the refusal of a plain save), `Open` and `Write`
(`write_text` cuts the file and fills it in place), `Mirror` (one transaction);
`DeleteStarts`, `Unlink`, `Wipe`; `GetMisses`, `Look`, `Read`, `Fill`, `Index` (a get
that hits changes nothing). `Empty` and `Mixed` are texts that do not parse: a file
that has been cut or half written, and one text with the end of a longer one. A
writer whose file is unlinked goes on with a file without a name (`linked`).
`RedisLost` wipes the copy, `Crash` takes any set of processes (the API with all
its requests, or a worker); a write that fails, on disk or in Redis, is a process
that dies there. `known` and `alone` are history: a write is alone if no other
write, and no get that missed in Redis, overlaps it, and what it leaves is known
until the next write begins. Reading the file is one step.

**ConfigForm.** `configForm.ts` and the server's schema as functions on a form
(a record of sources, joins and mapping rows): `toConfig` and the loading of a stored
configuration, the browser's validation and the server's, renaming and shifting of
source indices, `mergeMappingsWithColumns`, the states of the checklist. Sequences are
those of the code; a name is a string from a small set. `Absent` is `undefined`, and
also a null where the code treats the two alike. A row's source is the exception: the
server returns `null`, nothing parses it in between, and `hasExactlyOneMode` counts it
as a source (`previewHelpers.ts:58`), so `LoadForm` gives it the value `Null`, which
`toConfig` reads as absent (`nullishToUndef`) and the checklist does not.

**ConfigEditor.** Every edit of the form, and the files. A picker belongs to a
*position* (template, or the i-th source): dropping a file sends a parse request
for that position, and the answer comes back with what the render of the request
held, which is what the code's closures do. The template's answer goes through
a functional update and merges into the present rows; a source's writes the
`sources` it read. Removing a source shifts the later positions under answers in
flight. Replacing the form as a whole (load, restore, reset) is in `ConfigPages`; here
a behaviour starts from a fresh form or from a stored one.

**Checklist.** `deriveStepStates` and the preview button beside the editor. The builder
counts the issues of the form as it was half a second ago (`checked`, set by `Validate`
when the debounce timer fires), while the other conditions are looked at in the form on
screen; the wizard has no such delay. The module adds the variable to the editor's.

**ConfigPages.** Builder and wizard over one tab. `ChangeForm` re-arms the autosave
timer, `Autosave` writes the draft (a pristine form is not written and leaves the
stored draft alone; a full storage drops the write), `LeavePage` cancels the timer, `RestoreDraft` and `DiscardDraft` answer
the banner; `ClickSave`, `SaveSucceeds`, `SaveRefused` and `ConfirmOverwrite` are the
save with its 409, `LateSaveAnswers` the one whose page is gone when it is answered;
`SelectConfig`, `Refetch`, `ServeFetch` and `FetchArrives` are a load through the query
cache; `OtherTab` and `OtherUser` write the draft and the server's configuration.
`disturbed` and `dropped` are history variables that mark the cases the properties leave out (see *Known divergences*).

**RecentJobs, JobPage, BatchPage, JobTab.** The list of jobs in localStorage, which
the batch page adds to, the list removes from and every poll reads; the page of
a job, with its first request, the event stream (`StreamRead` is the server's
snapshot, `StreamOpens` its subscription: an update in between is in neither), the
updates, each of which starts a refetch whose answer replaces the snapshot on screen,
broken connections and the reconnect timer; the batch form, whose slots depend on a
configuration fetched while another is chosen. `posts` are the submits in flight: a
page that is left leaves its own behind, whose answer is still recorded, and a page that
is opened again may submit at once (`NewBatchForm.tsx:54`). `told` and `made` are
histories: the jobs the tab, and the page on screen, have been told they created.
`JobTab` composes them: a tab is on the batch page or on a page of a job, and
everything of the page left, its unsubscribe and its answers in flight included,
goes on. Lists are filtered with `Sublists`. A snapshot is its version number; the
server's document only grows. The list has one request in flight at a time; in the
code the next interval may start before the answer, and what an answer overtaken by
another shows lasts until the following one.

Definitions named `Mutant...` are used by no specification: each is the
definition after it with a plausible bug, and each property is shown to fail
with one of them.

## 3. The runs

| run | bounds | checks |
|---|---|---|
| `job_service` | 3 files | `TypeOK`, `StatusMatchesSubtasks`, `OnlyCancelCancels`, `LastAnsweredOnce`, `TerminalIsFinal` |
| `job_state_file` | 2 files, 2 processes, any number of calls and crashes, 1 scan | `TypeOK`, `RedisFollowsDisk`, `NoLostUpdate`, `ImplementsJobService` |
| `pipeline_fault` | 1 file, 2 workers, periodic scan, 1 fault | `DoneHasOutput`, `ZipIsComplete`, `EveryJobServed` |
| `pipeline_cancel` | 1 file, 1 worker, periodic scan, 2 events | `TypeOK`, `EveryJobServed` |
| `job_deletion` | 1 file, 1 worker, 1 death | `TypeOK`, `ResurrectedIsOver`, `ZipKept`, `DueIsSwept` |
| `config_store` | 3 processes, 2 contents, 1 crash | `TypeOK`, `KnownIsServed` |
| `config_editor` | 2 workbooks, 2 stored configurations, 3 sources, 1 join, 3 rows, 3 edits | `EditorTypeOK`, `ColumnsMatchFile`, `RowShowsWhatIsSaved`, `AcceptedFormsAreSaved`, `DoneFormPreviews`, `FlaggedIsMissing`, `TemplateAnswerKeepsEdits` |
| `config_pages` | 4 contents, 1 unusable text, 2 changes | `TypeOK`, `NoPristineDraft`, `SavedDraftStaysGone`, `SaveSendsForm`, `FormIsKept`, `OnlyValidSent` |
| `job_views` | 2 jobs, 1 update each, 1 listed job, 1 fault, 2 visits, 2 requests, 1 submit of a page left | `TypeOK`, `OnlyOwnStream`, `ShownIsOfThisJob`, `SlotsAreOfChosen`, `CreatedIsListed`, `SnapshotCatchesUp`, `ListCatchesUp` |
| `lost_finalize` | 1 file, 2 workers, no scan, no event | `FinalizeGuaranteed` (violated) |
| `torn_in_zip` | 1 file, 2 workers, 1 start-up scan, 1 fault | `ZipHasNoTornFile` (violated) |
| `stale_columns` | as `config_editor` | `ColumnsNeverStale` (violated) |

Five more configurations show further disagreements between the code and its
comments; they are not among the runs of `PROJECT.json`, and each of them ends in a
counterexample:

| configuration | bounds | violated property |
|---|---|---|
| `MCCancelledRun` (of `MCJobPipeline`) | 1 file, 2 workers, 1 cancel | `CancelledRunStops` |
| `MCOrphanLock` (of `MCJobDeletion`) | 1 file, 1 worker, no death | `NoOrphanLock` |
| `MCNullSource` (of `MCConfigEditor`) | as `config_editor` | `ModesMirrorSchema` |
| `MCFileIsTruth` (of `MCConfigStore`) | 2 processes, 2 contents, no crash | `FileIsTruth` |
| `MCTakenIsRefused` (of `MCConfigStore`) | the same | `TakenIsRefused` |

**Bounds.** Three files give `job_service` every mix of done, failed and
cancelled plus one more to settle; the theorems then hold for any number. Two
processes are what a lost update, a broken lock or a mirror race needs; neither
the calls nor the crashes are bounded there. In the pipeline two workers let a
task run next to a second run of itself and a subtask next to the finalize task.
An *event* (`MaxEvents`, `EventKinds`) is a cancel request or a fault; everything
else is unbounded. With two files, two workers and the periodic scan the graph is
beyond the time for a run, so the runs take one file; what needs several (a mixed
result, a last subtask that is not the only one) is in the safety theorems, which
hold for any number of files, workers and events. Liveness with several files is
not covered (`ConfigGone` is the case in point). `pipeline_cancel` takes one worker
in exchange for two events: a cancel that comes too late and a fault after it.

`job_deletion` has one job with one file and one worker: two processes (worker and
API) and a deletion are what its races need. There is one deletion at a time (the
sweeps are separate scheduler jobs, which may overlap), the API makes one call at
a time, and a task does not run twice. Two files are more than 13 million states.

`config_store` needs three processes for a writer, a get that undoes it and one that
intrudes on both, and two contents for an old and a new one; requests, losses of
Redis and gets are not bounded. Names do not touch each other.

`config_editor` has two workbooks with different columns, so that an answer can be
of the wrong file; three sources, so that removing one shifts another; one good
name besides the empty one in each place where the schemas look at it; and it
starts from a fresh form and from two stored ones, so that three edits reach a complete
form and break it again. One stored configuration has a row with a cell, whose source
is null; the other has only source rows, and dropping its two files is what makes the
whole checklist done in the builder, with `checked` up to date or not. `config_pages` has a pristine form, one that holds only a
file, one that can be saved and the same with files: what the draft and the
schemas tell apart; acts of others (another tab, another user) count as changes.
In `job_views` one update is enough to be missed, one listed job to be crowded out
of the list; a second name or an unreadable second workbook only adds slots. One
submit of a page that was left, beside the one of the page on screen, is enough for the
two to be recorded in either order.

`CHECK_DEADLOCK FALSE` is said where the system may stop: in the violation runs of
the pipeline, where no scan is periodic and the job is at its end; in the runs of
the browser, where the user may stop; and in `job_deletion` and
`MCOrphanLock`, where the job is gone.

**Fairness.** `JobPipeline`: weak fairness of each worker's run, of creation and of
each scan: processes that are up go on, and `scheduler.py:54-61` starts a scan every
`RESUME_SCAN_SECONDS`. Weak fairness of *some* worker taking the head of the list:
RQ workers poll one queue. Weak fairness of `Stale`: a heartbeat that nobody
refreshes passes `STALE_STARTED_SECONDS`. No fairness of cancel requests (not even
that a cancel that began comes to its end) and none of faults.

`JobDeletion`: weak fairness of a worker's steps and of the calls the API has begun;
of `Sweep` (the scheduler's intervals) and of the deletion that has begun; of the
time-out of a cancelled job, because time passes. None of requests, of the scan,
of the two other ages and of deaths.

`JobTab`: weak fairness of an open stream on both its ends, of the reconnect timer,
of the server's answers and their arrival, and of asking for the next poll; strong
fairness of a poll that arrives, i.e. not every one of infinitely many fails. None
of what the user or the jobs on the server do; breaks of a stream are bounded by
`MaxFaults`, as a stream that always breaks shows nothing.

### What the runs found

- **`lost_finalize`.** The finalize task that `create_job` enqueues can be
  running, having read that subtasks are open, when the last subtask enqueues it
  again: the record is still active, the second one is dropped, the first
  returns. `finalize_job`'s docstring says that it re-enqueues itself; it does
  not. With no fault at all the zip then waits for the scan's backstop, which
  `pipeline_fault` shows to be enough.
- **`MCCancelledRun`.** `cancel_job` documents a look at the flag before
  `mark_failed`. There is none: a subtask that fails after the cancel is marked
  failed in a cancelled job.
- **`torn_in_zip`.** `zipper.pack` takes all files of `out/`, the temporary file
  of a killed writer included, so a truncated workbook can be delivered.
- **`MCOrphanLock`.** `_locked_state` documents that a late call leaves no orphan
  directory or lock file behind. Its check and the creation of the lock file are two
  steps (`job_service.py:338-343`): when the sweep of the cancelled job comes in
  between, the caller makes the file anew and then raises; a directory without
  `state.json` is looked at by no sweep.
- **`MCFileIsTruth`.** The file is the source of truth, says the store, but reads prefer
  Redis and the two are written without a lock: a save and a delete that race leave a
  configuration in Redis, served and listed, whose file is gone; two saves can win one
  store each; a get that missed can put a replaced, or a half-written, text into
  Redis, since it fills the cache before it parses. Only the next save or delete
  repairs it.
- **`MCTakenIsRefused`.** Two saves without overwrite both pass the check of a free name; the
  second replaces what the first has stored, without the 409 that the pages turn into
  a question.
- **`MCNullSource`.** `hasExactlyOneMode` is called a "Mirror of the mapping XOR rule in
  schemas.ts" (`previewHelpers.ts:56`), and its test says that "empty strings and nulls
  don't count" (`previewHelpers.test.ts:72`, which tries no null source). A null source
  counts. A stored row with a literal or a cell comes back from `GET /api/configs` with
  one (`useConfigs.ts` parses nothing, `ConfigBuilder.tsx:197`), so the "mappings"
  step of such a configuration is not done until the row's mode has been switched away
  and back, although the form passes the schema and can be previewed.
- **`stale_columns`.** The comment at `SheetHeaderPicker.tsx:46-49` says that a picker
  always computes the columns, so that they do not stay empty. The answer for a
  source is stored with `setState({...state, sources})` of the render in which its
  file was dropped (`ConfigBuilder.tsx:559`, `WizardPage.tsx:445`): when the template's
  answer came in between, its columns and rows are lost while its picker goes on to
  show the file. The template's own answer goes through a functional update and
  loses nothing (`TemplateAnswerKeepsEdits`).

### Known divergences

Met while modelling; the properties leave them out by an explicit condition, or the
models do not contain them. Most have no document that says what should happen.

*Deletion.*
- The retention sweep does not ask whether a job is over, so a late writer can bring
  back a *running* document (`ResurrectedIsOver` leaves that age out).
- A cancel flag or Redis copy written after `WipeKeys` stays until it expires; with
  two lock files of one name an update can be lost during a deletion.

*Drafts* (`disturbed`, `dropped`).
- Leaving a page within a second of an edit loses the edit (the timer is cancelled).
- Discarding the banner's draft removes the one the current form has stored since; a
  save answered after its page was left removes the draft of the next page
  (`ConfigBuilder.tsx:268`); a delete answered after leaving navigates back.
- Opening `?config=` stores that configuration over an unanswered draft; a refetch
  answered late replaces the form. Saving invalidates the list of configurations,
  not the configuration itself.
- An answer of the parser during a save is part of the form, not of what was sent.

*Form.*
- Aliases in a condition are checked by the server only (a 422 after the save).
- A parse error is never cleared (`SheetHeaderPicker.tsx:75`), an answer to "load
  more" of the previous file is appended to the new one (83-108), and a header row
  beyond the new file's preview is reset when pickers shift.
- Rows with the same target are merged into one when a template is read again.
- Issues of a source's position are computed and shown nowhere
  (`issueHelpers.ts:41-72`).

*Job pages.* An update between the snapshot and the subscription is in neither, a refetch
that fails is not repeated, and an answer can be overtaken by a newer one (`behind`): the
page keeps the older snapshot unless another update or a reconnect comes, and none
need come. A first request that fails leaves the page on its error
although the stream delivers (`JobDetail.tsx:67`). `SnapshotCatchesUp` is claimed for
pages with neither. The menu (`TopMenuBar.tsx:30-61`) does not hear of this tab's own jobs.

## 4. The proofs

`JobServiceProofs` proves, for every non-empty set of files, that `JobService!Spec`
implies `[]TypeOK` (`TypeCorrect`), `[]StatusMatchesSubtasks` (`StatusCorrect`),
`[]OnlyCancelCancels` (`CancelCorrect`), `[]LastAnsweredOnce` (`LastOnce`) and
the action property `TerminalIsFinal` (`FinalityCorrect`). The only assumption is
`FilesAssumption`: a job has a file (`api/jobs.py:308` refuses one without).

The properties are not inductive one by one. The status is right only if a
cancelled subtask implies a request and a request a terminal job, since otherwise
a job could be left with settled subtasks and nobody to move it; and a subtask
may be marked cancelled only because the flag implies a recorded request. The
inductive invariant is `TypeOK`, the three state properties and the link between
flag and document; each action is one step of the proof. The calls that settle a
subtask share the lemma `SettlingKeepsIInv`. `LastOnce` rests on two facts: a
call that answers TRUE moves the last open subtask, so before it not all were
counted; and a counted subtask stays counted, so after it no other call moves
anything.

`JobRecordProofs` has the lemmas about the document: what each method does to
the subtask, to the others and to the status, that it keeps the type, and that
it only moves forward in the order `Behind`, which is transitive.

`JobStateFileProofs` proves, for any number of processes and files, `[]TypeOK`
(`TypeCorrect`), `[]NoLostUpdate` (`NoUpdateLost`), `[]RedisFollowsDisk`
(`RedisBehindDisk`) and that `Spec` implements `JobService!Spec` (`Refinement`),
assuming besides `FilesAssumption` only that the value for "the lock is free" is
no process (`CallersAssumption`). Its inductive invariant adds `LockInv` (who is
between lock and unlock holds the lock and, until it drops its copy, has the
current document), `OwedInv` (what a call still owes Redis is true of the disk)
and that the scan's copy is behind the disk. `BodyEffect` reduces the six method
bodies to two cases, leaving and writing a later document; `WritesKeeps` then
needs only that `Behind` is transitive and that nothing done or requested is
undone by a later document. For the refinement the write is the step of
`JobService`, and the flag of a cancel its second; every other step is a stutter.
Together with the theorems of `JobServiceProofs` it carries the job service's
promises over to the code's protocol.

`JobPipelineProofs` proves, for any number of files, workers, scans and events, that
the pipeline's steps are steps of the abstract job service (`PipelineUsesService`:
`Spec => JS!Spec`), `[]TypeOK` (`PipelineTypes`), `[]DoneHasOutput`
(`DoneIsOnDisk`) and `[]ZipIsComplete` (`ZipCorrect`), from `FilesAssumption`,
`QueueAssumption` and `PipelineAssumption` (the named values are different ones).
`StepCalls` sorts every action into one call of the job service or none; with it
the theorems of `JobServiceProofs` become available, and the invariants on top are
few: `DocOK` (when all are counted the job is over), `OutputInv` (`DoneHasOutput`, and
whoever is about to report a subtask done has its output on disk), `ZipInv` (who packs
holds the lock and there is no zip yet; who is in the lock or packing has found a
settled job; and a settled document does not change). Type correctness needs that
a task being converted is a file's. `LeastNumber` (every non-empty set of naturals
has a least member) is what removing the first entry of a list rests on.

`ConfigPagesProofs` proves the type invariant (`TypesHold`) and the five safety
properties of the pages (`DraftIsNeverPristine`, `OnlyValidReachesServer`,
`SaveSendsTheForm`, `SavedDraftIsGone`, `TouchedFormIsKept`) for any contents, under
`PagesAssumption` (what is stored of a form is stable, and valid if the form was).
The type invariant is split in two (flags, values) to keep the leaves small; each of
the others is inductive relative to it, `FormIsKept` relative to `SaveSendsForm`
besides: a form may count as saved only because what was sent was the form.

`BrowserProofs` has two parts that share their lemmas about sequences. The first is
about `JobTab`, for any number of jobs, updates, visits and faults (`JobsAssumption`,
`BatchAssumption`): `StreamsAreOwn`, `PageShowsOwnJob`, `SlotsFollowTheChoice`,
`MadeJobsAreListed` (`CreatedIsListed`) and `TabTypeCorrect`. `StreamInv` says that a
stream is closed as soon as its page is left, that a closed one has neither connection
nor timer, and that the open one is the last and of the job on screen; `GetsOK` that a
first request is of the page on screen or ignored; `ChoiceInv` that the slots are of
the configuration chosen or of none; `MadeInv` that neither list has a job twice, that the
stored list has every job the tab was told of and the list on screen those its page was
told of, that these are among the former, and that a submit in flight carries a job
that nobody was told of yet. The stored list is in it because a removal takes the
page's list from there, and the answer of a page left may push a job off its end.
The types need, besides, that a loading page still has its first request on the way
(`PageFine`).

The second part is about `ConfigEditor` and `Checklist`, for any workbooks, saved configurations,
sources, rows and edits: `EditorTypeCorrect`, `ColumnsAreTheFiles` (`ColumnsMatchFile`),
`FlagsAreTrue` (`FlaggedIsMissing`), `ShownIsSaved` (`RowShowsWhatIsSaved`),
`SchemasAgree` (`AcceptedFormsAreSaved`), `DoneFormsPreview` (`DoneFormPreviews`, of
`ChecklistSpec`) and the action property `TemplateAnswerKeepsEdits` (`TemplateAnswersKeepEdits`). Assumed are:
a workbook has a sheet, and sheets of one workbook have different names
(`BookAssumption`); what the server has saved passed its schema (`SavedAssumption`);
the bounds are numbers, the preview has a row (`EditorAssumption`).

The inductive invariant is `EditInv /\ ColumnsInv`. `EditInv` says that the form is well
formed, that no row has the values of two modes (`OneMode`), and that the picker of a
position has the file of that position; so has the form a request remembers (`AskOK`),
which is what makes writing back an old form harmless to the files. `ColumnsInv` says
(under the condition of `ColumnsMatchFile`) that a picker which waits for nothing and
shows no error has the sheets of its file, each with its first row if there is one, and
that the columns are the chosen row unless rows of an earlier file are among them.
`ColumnsMatchFile` alone is not inductive: choosing another sheet takes the columns from
the picker's rows, so those must be right before. Three lemmas carry the steps: one for
an edit that leaves files alone (`PlainStep`), one for a step of one picker
(`PickerStep`) and one for the answer of the parser (`AnswerAt`). The properties then
follow from the invariant: `SchemasAgree` by comparing the two schemas rule by rule,
with `OneMode` for the one rule the browser's does not have; `DoneFormsPreview` by
showing that the issues counted, be they of an earlier form, are finitely many
(`ChecklistInv`), so that a count of 0 in every step means none;
`TemplateAnswersKeepEdits` from what the merge does to a row whose target is its own.

The lemmas about sequences say what the code's array operations return. The library's
induction theorems cannot be used (they take an operator), so `LeastNumber` and
`Counting` derive what is needed from the well-foundedness of `<`, and `Recursion` and
`PickedElements` state it for functions defined step by step. `Sublists` exists for
them: it writes `filter` and `Set` as such a function where `SelectSeq`, which is
recursive, could not be reasoned about.
Two details of the modules are due to the prover: it does not know that "" is
a string (hence `{""} \cup STRING` in the type of a sheet's name), and it reads
`UNION A \cup B` as the union of both, unlike TLC, hence the parentheses.

`JobDeletionProofs` proves `[]TypeOK` (`DeletionTypes`), `[]ResurrectedIsOver`
(`LateWriterIsHarmless`) and `[]ZipKept` (`DownloadedZipStays`) for any number of files,
workers and deaths, from `FilesAssumption` and `DeletionAssumption`. Neither property
is inductive, since what a caller will write depends on what it read long before. The
invariant says who can still hold a document: two callers that are locked hold
different lock files (`Excl`); each of them has the document as it is, under the
lock file of the directory, or one that is over (`LockedOK`); as soon as a deletion has
begun, or somebody waits for a lock file that is gone, the document is over
(`TouchedIsOver`); who has to do with the zip found a job that is over (`ZipIsOver`), and
until the grace period ends one that ended with results (`ZipInv`). *Over* is any final
status after the grace period and `cancelled` before it; that the second set is the
smaller one is why a settled job is not deleted early, and all of it is claimed only
before retention. Types need the pigeon-hole principle: there are more lock numbers than
callers (`UnusedIsALock`).

`ConfigStoreProofs` proves `[]TypeOK` (`StoreTypes`) and `[]KnownIsServed`
(`LastWriteIsServed`) for any number of processes, contents and crashes, from
`StoreAssumption` (the named values are different). The invariant adds that a writer
that is alone has the file to itself, as its step says it should be, with nobody else
writing or on the way from a miss to the cache (`AloneOK`), and that nothing is known
while anybody writes (`KnownIsQuiet`). So the end of a write either finds nobody who
could undo it, or claims nothing.

Only model-checked: liveness (`EveryJobServed`, `DueIsSwept`, `SnapshotCatchesUp`,
`ListCatchesUp`), which, like `ENABLED`, the prover does not handle. The claims of the
`violation` runs are false and have no theorem. What a function on sequences returns
exactly (the order of merged rows, say) would need induction over data; the theorems
only use which elements it returns.

## 5. Plan

Done: the job from its creation to its deletion (`JobRecord` to `JobDeletion`), the
configuration store, and the browser's three views (form, draft, job pages), with the
proofs of section 4.

Left, in this order:
1. `JoinPipeline`: join, map and chunking as functions on small tables, against a
   reference join of the whole file.
2. Uploads before the document, and the directory of a refused request.
3. The store under the pages: `ConfigPages` over the steps of `ConfigStore`, and a job
   that reads its configuration once per subtask.

## 6. Not modelled

Configuration store: the browser's modules treat a save as one step of the server,
and a job of `JobPipeline` finds its configuration or does not; an old state of
Redis that comes back after a power loss (`appendfsync everysec`) is left out. Conversion core: spreadsheet parsing, styles and writing are
library I/O; what a conversion computes is not modelled, only that it succeeds or
fails. Uploads and preflight before the document exist only as the step before
`Create`. A Redis error in the duplicate check and a failing delete of a record (both
count as "not a duplicate") are left out, as are power loss after a rename and an
output that is present but corrupt (the branch exists in the scan; `os.replace` leaves
no such file). `JobDeletion` leaves out the Redis copy of the document (wiped with the
keys) and directories without `state.json`.

In the browser: the texts of issues, the wizard's step index, operators, defaults and
styles of mappings, the cancel dialog, the menu's own copy of the list, the files in
the slots of a batch, the ETA, and the delays of reconnecting. Views, themes,
translations, logging, error texts, settings and upload limits keep no state that
processes share. `PROJECT.json` gives the status of every component.

## 7. Running

```
tlc -config MCJobService.cfg MCJobService.tla
tlc -config MCJobStateFile.cfg MCJobStateFile.tla
tlc -config MCJobPipelineFault.cfg MCJobPipeline.tla   # likewise MCJobPipelineCancel, MCLostFinalize,
                                                       # MCCancelledRun, MCTornInZip
tlc -config MCJobDeletion.cfg MCJobDeletion.tla        # likewise MCOrphanLock
tlc -config MCConfigStore.cfg MCConfigStore.tla        # likewise MCFileIsTruth, MCTakenIsRefused
tlc -config MCConfigEditor.cfg MCConfigEditor.tla      # likewise MCStaleColumns, MCNullSource
tlc -config MCConfigPages.cfg MCConfigPages.tla
tlc -config MCJobTab.cfg MCJobTab.tla
tlapm JobServiceProofs.tla                             # likewise the other *Proofs.tla
```
The runs of the pipeline, the editor, the deletion, the pages and the job views take
one to three minutes, the others less; the proofs take a few minutes per module, `BrowserProofs`
about ten.

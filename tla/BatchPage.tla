------------------------------ MODULE BatchPage ------------------------------
(* The batch page: the form that starts a job (NewBatchForm.tsx) and the list *)
(* of recent jobs with their polled snapshots (JobsList.tsx, BatchRunner.tsx).*)
(* The configuration comes from the server by name, through the query cache,  *)
(* or from a JSON file, read asynchronously. The template and the files put in*)
(* the slots are left out: the user may choose them at any time.              *)
EXTENDS RecentJobs

CONSTANTS
    Names,      \* configurations on the server
    Inlines,    \* JSON files the user may choose
    Readable,   \* those among them that hold a configuration
    MaxLeft     \* submits in flight of pages that have been left

ASSUME BatchAssumption ==
    /\ Readable \subseteq Inlines
    /\ Names \cap Inlines = {} /\ None \notin Names \cup Inlines
    /\ MaxLeft \in Nat

VARIABLES
    onBatch,    \* the page is mounted
    name,       \* configName
    inline,     \* inlineConfig
    known,      \* the names whose configuration is in the query cache
    fetching,   \* the names being fetched
    reading,    \* the files being read for this page
    resolved,   \* resolvedConfig
    slots,      \* the configuration whose slots are on screen
    posts,      \* the submits in flight, oldest first; the form's own one is the last
    listed,     \* the list's own copy of the recent jobs
    poll,       \* the answer to the list's request on its way, by job, or None
    polled,     \* the snapshots on screen, by job
    told,       \* history: the jobs the browser has been told it created, but for those
                \* removed and those that have fallen off the end of the stored list
    made,       \* history: those among them that this page has been told of
    crossed     \* history: an answer for an earlier choice, or a submit, came in between
formVars == <<name, inline, known, fetching, reading, resolved, slots, posts>>
listVars == <<listed, poll, polled>>
histVars == <<told, made>>
batchVars == <<onBatch, formVars, listVars, histVars, crossed>>

Unpolled == [j \in Jobs |-> None]
Chosen == IF name # None THEN name ELSE inline

-----------------------------------------------------------------------------
(* Choosing a configuration                                                   *)

MutantResolve(c) ==
    /\ resolved' = c
    /\ UNCHANGED slots
    /\ crossed' = FALSE

(* setResolvedConfig: the effect makes empty slots of a configuration object  *)
(* that is not the one already there.                                         *)
Resolve(c) ==
    /\ resolved' = c
    /\ slots' = c
    /\ crossed' = FALSE

ResolveName(n) ==
    IF onBatch /\ resolved # n THEN Resolve(n) ELSE UNCHANGED <<resolved, slots, crossed>>

(* A name whose configuration is cached resolves at once.                     *)
SelectName == \E n \in (Names \cup {None}) \ {name} :
    /\ onBatch
    /\ name' = n /\ inline' = None
    /\ IF n \in known THEN ResolveName(n) ELSE UNCHANGED <<resolved, slots, crossed>>
    /\ fetching' = IF n \in Names \ known THEN fetching \cup {n} ELSE fetching
    /\ UNCHANGED <<onBatch, known, reading, posts, listVars, histVars, sharedVars>>

FetchArrives == \E n \in fetching :
    /\ fetching' = fetching \ {n}
    /\ known' = known \cup {n}
    /\ IF name = n THEN ResolveName(n) ELSE UNCHANGED <<resolved, slots, crossed>>
    /\ UNCHANGED <<onBatch, name, inline, reading, posts, listVars, histVars, sharedVars>>

ChooseInline == \E f \in Inlines \ {inline} :
    /\ onBatch /\ name = None
    /\ inline' = f
    /\ reading' = reading \cup {f}
    /\ UNCHANGED <<onBatch, name, known, fetching, resolved, slots, posts,
                   listVars, histVars, crossed, sharedVars>>

(* The text of a file is used whatever has been chosen since.                 *)
InlineRead == \E f \in reading :
    /\ reading' = reading \ {f}
    /\ IF f \in Readable
       THEN /\ resolved' = f /\ slots' = f
            /\ crossed' = (f # Chosen)
       ELSE UNCHANGED <<resolved, slots, crossed>>
    /\ UNCHANGED <<onBatch, name, inline, known, fetching, posts, listVars, histVars, sharedVars>>

-----------------------------------------------------------------------------
(* Starting a job. Nothing but the button is locked while the request is in   *)
(* flight, and a page opened anew knows nothing of the request of the one left*)

CanSubmit == resolved # None /\ slots # None

(* The server needs to read the configuration that is sent: the one chosen,   *)
(* whose slots need not be those filled.                                      *)
Post == [valid |-> Chosen \in Names \cup Readable, slots |-> slots, own |-> TRUE, job |-> None]
Disowned(post) == [valid |-> post.valid, slots |-> None, own |-> FALSE, job |-> post.job]
PostsBut(n) == Picked(posts, DOMAIN posts \ {n})

(* What a full stored list still holds of some jobs when another is recorded  *)
StillStored(jobs) == IF Len(recents) = MaxRecents THEN jobs \ {recents[MaxRecents]} ELSE jobs

Submit ==
    /\ onBatch /\ CanSubmit
    /\ \A n \in DOMAIN posts : ~posts[n].own
    /\ posts' = Append(posts, Post)
    /\ UNCHANGED <<onBatch, name, inline, known, fetching, reading, resolved, slots,
                   listVars, histVars, crossed, sharedVars>>

(* The job has a fresh name: which of the unused ones makes no difference.    *)
ServePost == \E n \in DOMAIN posts :
    LET j == CHOOSE k \in Jobs \ Created : TRUE IN
    /\ posts[n].job = None /\ posts[n].valid /\ Created # Jobs
    /\ server' = [server EXCEPT ![j] = 0]
    /\ posts' = [posts EXCEPT ![n].job = j]
    /\ UNCHANGED <<onBatch, name, inline, known, fetching, reading, resolved, slots,
                   listVars, histVars, crossed, recents, faults>>

MutantPostSucceeds == \E n \in DOMAIN posts :
    LET post == posts[n] IN
    /\ post.job # None
    /\ posts' = PostsBut(n)
    /\ told' = StillStored(told) \cup {post.job}
    /\ IF post.own
       THEN /\ recents' = Recorded(post.job, recents)
            /\ slots' = post.slots
            /\ crossed' = (crossed \/ post.slots # slots)
            /\ listed' = recents' /\ poll' = None
            /\ made' = StillStored(made) \cup {post.job}
       ELSE UNCHANGED <<recents, slots, crossed, listed, poll, made>>
    /\ UNCHANGED <<onBatch, name, inline, known, fetching, reading, resolved, polled,
                   server, faults>>

(* The job is recorded even when the page has been left; the form is emptied  *)
(* with the slots it had when it was sent, and the list reads the jobs again. *)
PostSucceeds == \E n \in DOMAIN posts :
    LET post == posts[n] IN
    /\ post.job # None
    /\ recents' = Recorded(post.job, recents)
    /\ posts' = PostsBut(n)
    /\ told' = StillStored(told) \cup {post.job}
    /\ IF post.own
       THEN /\ slots' = post.slots
            /\ crossed' = (crossed \/ post.slots # slots)
            /\ listed' = recents' /\ poll' = None
            /\ made' = StillStored(made) \cup {post.job}
       ELSE /\ made' = StillStored(made)
            /\ UNCHANGED <<slots, crossed, listed, poll>>
    /\ UNCHANGED <<onBatch, name, inline, known, fetching, reading, resolved, polled,
                   server, faults>>

(* Refused, answer lost, or the storage full when the job is to be recorded:  *)
(* the form shows an error, though the job may have been created.             *)
PostFails == \E n \in DOMAIN posts :
    /\ posts' = PostsBut(n)
    /\ UNCHANGED <<onBatch, name, inline, known, fetching, reading, resolved, slots,
                   listVars, histVars, crossed, sharedVars>>

-----------------------------------------------------------------------------
(* The list of recent jobs                                                    *)

Asked == [j \in Jobs |-> IF j \in Entries(listed) THEN server[j] ELSE None]

MutantAskPoll ==
    /\ onBatch /\ listed # <<>> /\ poll = None /\ polled = Unpolled
    /\ poll' = Asked
    /\ UNCHANGED <<onBatch, formVars, listed, polled, histVars, crossed, sharedVars>>

(* Every 3 seconds the jobs listed are asked for; the answer takes its time.  *)
AskPoll ==
    /\ onBatch /\ listed # <<>> /\ poll = None
    /\ poll' = Asked
    /\ UNCHANGED <<onBatch, formVars, listed, polled, histVars, crossed, sharedVars>>

(* A job that is gone is "missing" and left out.                              *)
PollArrives ==
    /\ poll # None
    /\ polled' = [j \in Jobs |-> IF poll[j] = Gone THEN None ELSE poll[j]]
    /\ poll' = None
    /\ UNCHANGED <<onBatch, formVars, listed, histVars, crossed, sharedVars>>

PollFails ==
    /\ poll # None
    /\ poll' = None
    /\ UNCHANGED <<onBatch, formVars, listed, polled, histVars, crossed, sharedVars>>

(* Removing a job from the list: the effect with the old list is cleaned up,  *)
(* so that the answer in flight is dropped.                                   *)
RemoveListed == \E j \in Entries(listed) :
    /\ onBatch
    /\ recents' = Removed(j, recents)
    /\ listed' = recents' /\ poll' = None
    /\ told' = told \ {j} /\ made' = made \ {j}
    /\ UNCHANGED <<onBatch, formVars, polled, crossed, server, faults>>

-----------------------------------------------------------------------------
OpenBatch ==
    /\ ~onBatch
    /\ onBatch' = TRUE
    /\ name' = None /\ inline' = None /\ resolved' = None /\ slots' = None
    /\ reading' = {}
    /\ listed' = recents /\ poll' = None /\ polled' = Unpolled
    /\ made' = {} /\ crossed' = FALSE
    /\ UNCHANGED <<known, fetching, posts, told, sharedVars>>

LeaveBatch ==
    /\ onBatch /\ Len(posts) <= MaxLeft
    /\ onBatch' = FALSE
    /\ name' = None /\ inline' = None /\ resolved' = None /\ slots' = None
    /\ reading' = {}
    /\ listed' = <<>> /\ poll' = None /\ polled' = Unpolled
    /\ made' = {} /\ crossed' = FALSE
    /\ posts' = [n \in DOMAIN posts |-> Disowned(posts[n])]
    /\ UNCHANGED <<known, fetching, told, sharedVars>>

BatchStep ==
    \/ SelectName \/ FetchArrives \/ ChooseInline \/ InlineRead
    \/ Submit \/ ServePost \/ PostSucceeds \/ PostFails
    \/ AskPoll \/ PollArrives \/ PollFails \/ RemoveListed

BatchInit ==
    /\ onBatch = FALSE /\ name = None /\ inline = None /\ known = {} /\ fetching = {}
    /\ reading = {} /\ resolved = None /\ slots = None
    /\ posts = <<>>
    /\ listed = <<>> /\ poll = None /\ polled = Unpolled
    /\ told = {} /\ made = {} /\ crossed = FALSE
=============================================================================

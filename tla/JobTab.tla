------------------------------- MODULE JobTab -------------------------------
(* A browser tab on the pages about jobs. The routes of App.tsx mount one page*)
(* at a time, and these two share no more than the stored list and the jobs on*)
(* the server: a tab visits either the batch page or pages of jobs, besides   *)
(* the other pages. The server goes on with its jobs, and removes them.       *)
EXTENDS JobPage, BatchPage

VARIABLE visits   \* the pages this tab visits: "batch" or "jobs"

vars == <<visits, sharedVars, jobPageVars, batchVars>>

-----------------------------------------------------------------------------
(* Navigation                                                                 *)

(* A link to a job, in the list, the menu, the toast or a shared address      *)
ShowJob == \E j \in Created :
    /\ visits = "jobs"
    /\ OpenJob(j)
    /\ UNCHANGED <<visits, batchVars>>

ShowBatch ==
    /\ visits = "batch"
    /\ OpenBatch
    /\ UNCHANGED <<visits, jobPageVars>>

ShowOther ==
    \/ LeaveBatch /\ UNCHANGED <<visits, jobPageVars>>
    \/ CloseJob /\ UNCHANGED <<visits, batchVars>>

(* "Remove" on the page of a job, or in the menu's panel: the list on screen  *)
(* keeps its own copy.                                                        *)
RemoveElsewhere == \E j \in Entries(recents) :
    /\ recents' = Removed(j, recents)
    /\ told' = told \ {j} /\ made' = made \ {j}
    /\ UNCHANGED <<visits, server, faults, jobPageVars, onBatch, formVars, listVars, crossed>>

-----------------------------------------------------------------------------
(* The server                                                                 *)

Progress == \E j \in Created : Change(j) /\ UNCHANGED <<visits, batchVars>>

CleanUp == \E j \in Created :
    /\ server[j] # Gone
    /\ server' = [server EXCEPT ![j] = Gone]
    /\ UNCHANGED <<visits, recents, faults, jobPageVars, batchVars>>

-----------------------------------------------------------------------------
(* The jobs a tab visits were there before it; the others it creates.         *)
Init ==
    /\ visits \in {"batch", "jobs"}
    /\ server = [j \in Jobs |-> IF visits = "jobs" THEN 0 ELSE None]
    /\ recents = <<>> /\ faults = 0
    /\ JobPageInit
    /\ BatchInit

Next ==
    \/ ShowJob \/ ShowBatch \/ ShowOther \/ RemoveElsewhere
    \/ Progress \/ CleanUp
    \/ JobPageStep /\ UNCHANGED <<visits, batchVars>>
    \/ BatchStep /\ UNCHANGED <<visits, jobPageVars>>

Spec == Init /\ [][Next]_vars

(* The browser's timers fire, the server and the streams answer whatever no   *)
(* fault breaks, and not every poll of the list fails: no step of a user, and *)
(* no change on the server, is assumed.                                       *)
Quiet(A) == A /\ UNCHANGED <<visits, batchVars>>
Fairness ==
    /\ WF_vars(Quiet(StreamRead)) /\ WF_vars(Quiet(StreamOpens))
    /\ WF_vars(Quiet(TimerFires)) /\ WF_vars(Quiet(Deliver))
    /\ WF_vars(Quiet(PollState)) /\ WF_vars(Quiet(Serve)) /\ WF_vars(Quiet(Arrives))
    /\ WF_vars(AskPoll /\ UNCHANGED <<visits, jobPageVars>>)
    /\ SF_vars(PollArrives /\ UNCHANGED <<visits, jobPageVars>>)

FairSpec == Spec /\ Fairness

-----------------------------------------------------------------------------
Phases == {"connecting", "read", "open", "waiting", "over"}
Versions == 0..LastVersion
Views == [job : Jobs, v : Versions] \cup {None}

(* At most one of the two pages is mounted, what was closed delivers nothing, *)
(* a loading page waits for its first answer, and the lists hold every job at *)
(* most once.                                                                 *)
TypeOK ==
    /\ server \in [Jobs -> Versions \cup {None, Gone}] /\ faults \in 0..MaxFaults
    /\ job \in Jobs \cup {None} /\ (onBatch => job = None)
    /\ \A s \in DOMAIN subs :
          /\ subs[s].job \in Created /\ subs[s].phase \in Phases
          /\ subs[s].phase # "open" => subs[s].chan = <<>>
    /\ \A g \in gets : g.sub \in DOMAIN subs /\ subs[g.sub].mounted
    /\ shown \in Views /\ detail \in Jobs \cup {None}
    /\ loading => \E g \in gets : g.kind = "first" /\ Alive(g.sub)
    /\ resolved \in Names \cup Readable \cup {None}
    /\ \A list \in {recents, listed} :
          /\ Len(list) <= MaxRecents
          /\ Cardinality(Entries(list)) = Len(list)

(* However pages are opened, left and changed while connections break and     *)
(* timers are armed, a connection that is open or being opened belongs to the *)
(* page on screen and to its job: none is leaked, none is opened twice.       *)
OnlyOwnStream ==
    \A s \in DOMAIN subs : Live(subs[s].phase) => Alive(s) /\ subs[s].job = job

(* A loaded page shows the job of its address, not the one shown before on    *)
(* the same page - unless a refetch for that one was still on its way, which  *)
(* nothing drops.                                                             *)
ShownIsOfThisJob ==
    job # None /\ ~loading /\ ~error /\ shown # None /\ ~behind => shown.job = job

(* A page that stays on a job ends up showing its table and its last snapshot,*)
(* whatever connections broke and updates were lost meanwhile - the snapshot  *)
(* not when a change fell between the server's read and its subscription, an  *)
(* answer was overtaken by a newer one or a refetch failed, nor when the first*)
(* request failed and left the page on its error: none of these is repaired.  *)
SnapshotCatchesUp == \A j \in Jobs :
    <>[](job = j /\ server[j] # Gone)
        => <>[](detail = j /\ (error \/ behind \/ shown = View(j, server[j])))

(* Once the configuration chosen last has been read, the slots to fill are    *)
(* its slots, and those of the configuration a submit will send - unless the  *)
(* file of an earlier choice was read after it, or a submit emptied the form  *)
(* behind it.                                                                 *)
SlotsAreOfChosen ==
    /\ onBatch /\ ~crossed
    /\ Chosen \in known \cup (Readable \ reading)
    => resolved = Chosen /\ slots = Chosen

(* A job whose creation the browser was told of is in the stored list, also   *)
(* when the page it was started from had been left by then and another submit *)
(* was made from the next one, and in the list on screen when that page was   *)
(* told - until it is removed or falls off the end.                           *)
CreatedIsListed == told \subseteq Entries(recents) /\ made \subseteq Entries(listed)

(* A page left open ends up showing every job it lists as the server has it,  *)
(* however many of its requests failed or were overtaken by a change of the   *)
(* list.                                                                      *)
Seen(v) == IF v = Gone THEN None ELSE v
ListCatchesUp ==
    <>[]onBatch => <>[](\A j \in Entries(listed) : polled[j] = Seen(server[j]))
=============================================================================

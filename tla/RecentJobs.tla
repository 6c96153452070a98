----------------------------- MODULE RecentJobs -----------------------------
(* What the pages about jobs share: the jobs on the server, each a counter of *)
(* the changes its snapshot has gone through, and the list of jobs started in *)
(* this browser (localStorage, recentJobs.ts).                                *)
EXTENDS Sublists

CONSTANTS
    Jobs,
    LastVersion, \* the version of a job's snapshot that no change follows
    None,        \* no job, nothing in flight, nothing shown
    Gone,        \* a job the cleanup has removed
    MaxRecents,  \* jobs the list keeps (50 in the code)
    MaxFaults    \* connections and requests that fail in a behaviour

ASSUME JobsAssumption ==
    /\ None \notin Jobs /\ Gone \notin Jobs /\ None # Gone
    /\ None \notin Nat /\ Gone \notin Nat
    /\ LastVersion \in Nat
    /\ MaxRecents \in Nat \ {0} /\ MaxFaults \in Nat

VARIABLES
    server,   \* the version of every job; None until it is created
    recents,  \* the stored list, newest first
    faults
sharedVars == <<server, recents, faults>>

Fault == faults < MaxFaults /\ faults' = faults + 1
Entries(list) == {list[i] : i \in DOMAIN list}
Created == {j \in Jobs : server[j] # None}

Removed(j, list) == Picked(list, {i \in DOMAIN list : list[i] # j})

(* addRecent: the job comes first, and only once; the oldest ones fall off.   *)
Recorded(j, list) ==
    LET next == <<j>> \o Removed(j, list)
    IN  IF Len(next) <= MaxRecents THEN next ELSE SubSeq(next, 1, MaxRecents)
=============================================================================

------------------------------- MODULE JobPage -------------------------------
(* The page of one job (JobDetail.tsx): the snapshot it shows (useJobSnapshot)*)
(* comes from a GET when the page is opened and from the job's event stream   *)
(* (subscribeJobEvents in api.ts), whose updates are answered by another GET; *)
(* the table of subtasks is polled. A link or the Back button may change the  *)
(* job while the page stays mounted. The server's side of the stream          *)
(* (api/jobs.py) reads the snapshot, then subscribes to the job's channel.    *)
(* Time is left out: a reconnection is tried after some delay, whatever the   *)
(* backoff makes of it.                                                       *)
EXTENDS RecentJobs, FiniteSets

CONSTANTS
    MaxVisits,   \* subscriptions made in a behaviour
    MaxGets      \* refetches in flight

ASSUME VisitsAssumption == MaxVisits \in Nat /\ MaxGets \in Nat

VARIABLES
    job,        \* the job in the address, None when another page is open
    subs,       \* the subscriptions made, the page's own one last
    gets,       \* the GETs in flight: what for, whose, and what they will answer
    shown,      \* the snapshot on screen: [job, v]
    detail,     \* the job of the polled table on screen
    loading, connected, error,
    behind      \* history: the page may have missed a change (see SnapshotCatchesUp)
jobPageVars == <<job, subs, gets, shown, detail, loading, connected, error, behind>>

Current == Len(subs)
Alive(s) == job # None /\ s = Current
View(j, v) == [job |-> j, v |-> v]
Ask(kind, s) ==
    [kind |-> kind, sub |-> s, v |-> None,
     n |-> Cardinality({g \in gets : g.kind = kind /\ g.sub = s})]
Refetches == {g \in gets : g.kind = "refetch"}
Live(phase) == phase \in {"connecting", "read", "open"}

-----------------------------------------------------------------------------
(* Subscribing and unsubscribing                                              *)

MutantClosed(sub) ==
    [sub EXCEPT !.closed = TRUE, !.phase = IF Live(@) THEN "over" ELSE @]

(* The returned function closes the EventSource; an armed timer stays armed.  *)
Closed(sub) ==
    [sub EXCEPT !.closed = TRUE,
                !.phase = IF Live(@) THEN "over" ELSE @,
                !.chan = <<>>]

Subscription(j) ==
    [job |-> j, closed |-> FALSE, phase |-> "connecting", snap |-> None, chan |-> <<>>,
     mounted |-> TRUE]

OpenedSubs(j) ==
    Append(IF job = None THEN subs ELSE [subs EXCEPT ![Current] = Closed(@)], Subscription(j))

MutantForgotten == {}

(* The answers the effects of the job shown would drop ("alive"), once they   *)
(* have been cleaned up.                                                      *)
Forgotten == gets \ Refetches

(* The page is opened, or its job changes: both effects run again, while the  *)
(* page's state is only initialised when it is mounted.                       *)
OpenJob(j) ==
    /\ j # job /\ Len(subs) < MaxVisits
    /\ job' = j
    /\ subs' = OpenedSubs(j)
    /\ gets' = (gets \ Forgotten) \cup {Ask("first", Len(subs) + 1)}
    /\ loading' = TRUE
    /\ IF job = None
       THEN /\ shown' = None /\ detail' = None
            /\ connected' = FALSE /\ error' = FALSE
       ELSE UNCHANGED <<shown, detail, connected, error>>
    /\ behind' = FALSE
    /\ UNCHANGED sharedVars

CloseJob ==
    /\ job # None
    /\ job' = None
    /\ subs' = [s \in DOMAIN subs |->
                  [(IF s = Current THEN Closed(subs[s]) ELSE subs[s]) EXCEPT !.mounted = FALSE]]
    /\ gets' = {}
    /\ shown' = None /\ detail' = None
    /\ loading' = FALSE /\ connected' = FALSE /\ error' = FALSE
    /\ behind' = FALSE
    /\ UNCHANGED sharedVars

-----------------------------------------------------------------------------
(* The event stream                                                           *)

(* The server reads the snapshot, and only then subscribes and answers.       *)
StreamRead == \E s \in DOMAIN subs :
    /\ subs[s].phase = "connecting" /\ server[subs[s].job] # Gone
    /\ subs' = [subs EXCEPT ![s].phase = "read", ![s].snap = server[subs[s].job]]
    /\ UNCHANGED <<job, gets, shown, detail, loading, connected, error, sharedVars, behind>>

StreamOpens == \E s \in DOMAIN subs :
    /\ subs[s].phase = "read"
    /\ subs' = [subs EXCEPT ![s].phase = "open", ![s].snap = None,
                            ![s].chan = <<subs[s].snap>>]
    /\ connected' = TRUE
    /\ UNCHANGED <<job, gets, shown, detail, loading, error, sharedVars, behind>>

MutantDropped(sub) == [sub EXCEPT !.phase = "over", !.snap = None, !.chan = <<>>]

(* onerror: the EventSource is closed and a new one tried after the delay.    *)
Dropped(sub) == [sub EXCEPT !.phase = "waiting", !.snap = None, !.chan = <<>>]

(* The connection breaks, or the server has no such job.                      *)
StreamFails == \E s \in DOMAIN subs :
    /\ Live(subs[s].phase)
    /\ Fault
    /\ subs' = [subs EXCEPT ![s] = Dropped(@)]
    /\ connected' = FALSE
    /\ UNCHANGED <<job, gets, shown, detail, loading, error, behind, server, recents>>

MutantTimerFires == \E s \in DOMAIN subs :
    /\ subs[s].phase = "waiting"
    /\ subs' = [subs EXCEPT ![s].phase = "connecting"]
    /\ UNCHANGED <<job, gets, shown, detail, loading, connected, error, sharedVars, behind>>

TimerFires == \E s \in DOMAIN subs :
    /\ subs[s].phase = "waiting"
    /\ subs' = [subs EXCEPT ![s].phase = IF subs[s].closed THEN "over" ELSE "connecting"]
    /\ UNCHANGED <<job, gets, shown, detail, loading, connected, error, sharedVars, behind>>

(* A "snapshot" is shown; an "update" (None) only asks for the snapshot.      *)
Deliver == \E s \in DOMAIN subs :
    /\ subs[s].phase = "open" /\ subs[s].chan # <<>>
    /\ subs' = [subs EXCEPT ![s].chan = Tail(@)]
    /\ IF Head(subs[s].chan) # None
       THEN shown' = View(subs[s].job, Head(subs[s].chan)) /\ UNCHANGED gets
       ELSE /\ UNCHANGED shown
            /\ Cardinality(Refetches) < MaxGets
            /\ gets' = gets \cup {Ask("refetch", s)}
    /\ UNCHANGED <<job, detail, loading, connected, error, sharedVars, behind>>

-----------------------------------------------------------------------------
(* Requests                                                                   *)

(* The table of subtasks, asked for when the page is opened and every 3       *)
(* seconds; only whose table it is matters here. A poll is one step: answers  *)
(* for a job shown before are dropped.                                        *)
PollState ==
    /\ job \notin {None, detail} /\ server[job] # Gone
    /\ detail' = job
    /\ UNCHANGED <<job, subs, gets, shown, loading, connected, error, sharedVars, behind>>

Serve == \E g \in gets :
    /\ g.v = None
    /\ gets' = (gets \ {g}) \cup {[g EXCEPT !.v = server[subs[g.sub].job]]}
    /\ UNCHANGED <<job, subs, shown, detail, loading, connected, error, sharedVars, behind>>

Arrives == \E g \in gets :
    LET j == subs[g.sub].job
        good == g.v # Gone
    IN  /\ g.v # None
        /\ gets' = gets \ {g}
        /\ shown' = IF good THEN View(j, g.v) ELSE shown
        /\ error' = (error \/ (g.kind = "first" /\ ~good))
        /\ loading' = (loading /\ g.kind # "first")
        /\ behind' = (\/ behind
                      \/ good /\ g.kind = "refetch" /\ j # job
                      \/ good /\ shown # None /\ shown.job = j /\ g.v < shown.v)
        /\ UNCHANGED <<job, subs, detail, connected, sharedVars>>

(* Only a failed first request is shown; a failed refetch is not repeated.    *)
GetFails == \E g \in gets :
    /\ Fault
    /\ gets' = gets \ {g}
    /\ error' = (error \/ g.kind = "first")
    /\ loading' = (loading /\ g.kind # "first")
    /\ behind' = (behind \/ g.kind = "refetch")
    /\ UNCHANGED <<job, subs, shown, detail, connected, server, recents>>

-----------------------------------------------------------------------------
(* The server: a change of the job is published to the streams that have      *)
(* subscribed; a stream between its read and its subscription misses it.      *)
Change(j) ==
    /\ server[j] \in 0..(LastVersion - 1)
    /\ server' = [server EXCEPT ![j] = @ + 1]
    /\ subs' = [s \in DOMAIN subs |->
                  IF subs[s].job = j /\ subs[s].phase = "open"
                  THEN [subs[s] EXCEPT !.chan = Append(@, None)] ELSE subs[s]]
    /\ behind' = (behind \/ (job = j /\ subs[Current].phase = "read"))
    /\ UNCHANGED <<job, gets, shown, detail, loading, connected, error, recents, faults>>

JobPageInit ==
    /\ job = None /\ subs = <<>> /\ gets = {}
    /\ shown = None /\ detail = None
    /\ loading = FALSE /\ connected = FALSE /\ error = FALSE
    /\ behind = FALSE

JobPageStep ==
    \/ StreamRead \/ StreamOpens \/ StreamFails \/ TimerFires \/ Deliver
    \/ PollState \/ Serve \/ Arrives \/ GetFails

=============================================================================

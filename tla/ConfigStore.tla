------------------------------ MODULE ConfigStore ------------------------------
(***************************************************************************)
(* One name of the configuration store (services/config_service.py): its   *)
(* JSON file, the copy in Redis and its place in the index, used by the    *)
(* requests of the API and by the tasks of the workers at the same time.   *)
(*                                                                         *)
(* No operation takes a lock.  A file is written in place: opening it cuts *)
(* it to nothing, and two writers that have both cut it write over each    *)
(* other.  A write is known to be the last while nothing that it overlaps  *)
(* can still undo it: no other write, and no get that found no copy in     *)
(* Redis.  Names do not touch each other, so one of them is enough.        *)
(***************************************************************************)
EXTENDS Naturals, FiniteSets

CONSTANTS
  Procs,     \* requests and tasks at work at one time
  Contents,  \* what can be saved under the name
  None,      \* no file, no copy
  Empty,     \* a file that has been cut
  Mixed,     \* the text of one writer with the end of another's
  Unknown,   \* not settled by one write alone
  MaxCrashes

ASSUME StoreAssumption ==
  /\ Contents \cap {None, Empty, Mixed, Unknown} = {}
  /\ None \notin {Empty, Mixed, Unknown} /\ Unknown \notin {Empty, Mixed}
  /\ Empty # Mixed
  /\ MaxCrashes \in Nat

VARIABLES
  file,    \* configs/{name}.json
  cached,  \* Redis key config:{name}
  indexed, \* the name is in the Redis set configs:index
  proc,    \* where each process is, and what it holds
  known,   \* history: what the last write has left, if it was alone
  crashes  \* how many times processes have died

store == <<file, cached, indexed>>
vars  == <<store, proc, known, crashes>>

Texts   == Contents \cup {Empty, Mixed}
Writing == {"write", "mirror", "unlink", "wipe"}
Missed  == {"look", "read", "fill", "index"}

(* text: what is saved, or what get has read.  plain: without overwrite.   *)
(* linked: the file that is open is still the one of that name.            *)
Idle == [at |-> "idle", text |-> None, plain |-> FALSE, linked |-> FALSE,
         alone |-> FALSE]

TypeOK ==
  /\ file \in Texts \cup {None} /\ cached \in Texts \cup {None}
  /\ indexed \in BOOLEAN
  /\ proc \in [Procs ->
       [at : {"idle", "check", "member", "open"} \cup Writing \cup Missed,
        text : Texts \cup {None}, plain : BOOLEAN, linked : BOOLEAN,
        alone : BOOLEAN]]
  /\ \A p \in Procs :
       /\ proc[p].at \in {"check", "member", "open", "write", "mirror"}
            => proc[p].text \in Contents
       /\ proc[p].at \in {"fill", "index"} => proc[p].text \in Texts
  /\ known \in Contents \cup {None, Unknown}
  /\ crashes \in 0 .. MaxCrashes

(* Redis may have been wiped while the directory was kept.                 *)
Init ==
  /\ file \in Contents \cup {None} /\ known = file
  /\ cached = None /\ indexed = FALSE
  /\ proc = [p \in Procs |-> Idle]
  /\ crashes = 0

At(p, l)   == proc[p].at = l
Goes(p, l) == proc' = [proc EXCEPT ![p].at = l]
Ends(p)    == proc' = [proc EXCEPT ![p] = Idle]

(* The first step of a write, and of a get that has to look at the file:   *)
(* whoever is writing is no longer alone.                                  *)
Alone(p) == \A q \in Procs \ {p} : proc[q].at \notin Writing \cup Missed

Intrudes(p, step) ==
  proc' = [q \in Procs |-> IF q = p THEN step
                           ELSE [proc[q] EXCEPT !.alone = FALSE]]

Leaves(p, c) == known' = IF proc[p].alone THEN c ELSE known

--------------------------------------------------------------------------------
(* save *)
SaveStarts(p) ==
  /\ At(p, "idle")
  /\ \E c \in Contents, plain \in BOOLEAN :
       proc' = [proc EXCEPT ![p] =
         [Idle EXCEPT !.at = IF plain THEN "check" ELSE "open",
                      !.text = c, !.plain = plain]]
  /\ UNCHANGED <<store, known, crashes>>

(* path.exists(), then sismember; ConfigExists is the end of the save.     *)
CheckFile(p) ==
  /\ At(p, "check")
  /\ \/ file # None /\ Ends(p)
     \/ file = None /\ Goes(p, "member")
  /\ UNCHANGED <<store, known, crashes>>

CheckIndex(p) ==
  /\ At(p, "member")
  /\ \/ indexed /\ Ends(p)
     \/ ~ indexed /\ Goes(p, "open")
  /\ UNCHANGED <<store, known, crashes>>

(* write_text opens the file ...                                           *)
Open(p) ==
  /\ At(p, "open")
  /\ file' = Empty
  /\ Intrudes(p, [proc[p] EXCEPT !.at = "write", !.linked = TRUE,
                                 !.alone = Alone(p)])
  /\ known' = Unknown
  /\ UNCHANGED <<cached, indexed, crashes>>

(* ... and writes from its start: a longer text that another writer has    *)
(* put there keeps its end.                                                *)
Write(p) ==
  /\ At(p, "write")
  /\ LET c == proc[p].text IN
     \/ proc[p].linked /\ file' = c
     \/ proc[p].linked /\ file \notin {Empty, c} /\ file' = Mixed
     \/ ~ proc[p].linked /\ UNCHANGED file
  /\ Goes(p, "mirror")
  /\ UNCHANGED <<cached, indexed, known, crashes>>

MutantMirror(p) ==
  /\ At(p, "mirror")
  /\ cached' = IF indexed THEN cached ELSE proc[p].text
  /\ indexed' = TRUE
  /\ Leaves(p, proc[p].text)
  /\ Ends(p)
  /\ UNCHANGED <<file, crashes>>

(* The copy and the index, in one transaction.                             *)
Mirror(p) ==
  /\ At(p, "mirror")
  /\ cached' = proc[p].text /\ indexed' = TRUE
  /\ Leaves(p, proc[p].text)
  /\ Ends(p)
  /\ UNCHANGED <<file, crashes>>

--------------------------------------------------------------------------------
(* delete *)
DeleteStarts(p) ==
  /\ At(p, "idle")
  /\ Intrudes(p, [Idle EXCEPT !.at = IF file # None THEN "unlink" ELSE "wipe",
                              !.alone = Alone(p)])
  /\ known' = Unknown
  /\ UNCHANGED <<store, crashes>>

(* unlink raises if the file is gone; a writer that has it open goes on    *)
(* with a file that has no name.                                           *)
Unlink(p) ==
  /\ At(p, "unlink")
  /\ \/ file = None /\ Ends(p) /\ UNCHANGED file
     \/ /\ file # None
        /\ file' = None
        /\ proc' = [q \in Procs |->
             [proc[q] EXCEPT !.linked = FALSE,
                             !.at = IF q = p THEN "wipe" ELSE @]]
  /\ UNCHANGED <<cached, indexed, known, crashes>>

Wipe(p) ==
  /\ At(p, "wipe")
  /\ cached' = None /\ indexed' = FALSE
  /\ Leaves(p, None)
  /\ Ends(p)
  /\ UNCHANGED <<file, crashes>>

--------------------------------------------------------------------------------
(* get.  A copy in Redis is the answer (an error, if it does not parse);   *)
(* that step changes nothing.                                              *)
GetMisses(p) ==
  /\ At(p, "idle") /\ cached = None
  /\ Intrudes(p, [Idle EXCEPT !.at = "look"])
  /\ UNCHANGED <<store, known, crashes>>

Look(p) ==
  /\ At(p, "look")
  /\ \/ file = None /\ Ends(p)
     \/ file # None /\ Goes(p, "read")
  /\ UNCHANGED <<store, known, crashes>>

MutantRead(p) ==
  /\ At(p, "read")
  /\ proc' = [proc EXCEPT ![p].at = "fill", ![p].text = file]
  /\ UNCHANGED <<store, known, crashes>>

Read(p) ==
  /\ At(p, "read")
  /\ \/ file = None /\ Ends(p)
     \/ /\ file # None
        /\ proc' = [proc EXCEPT ![p].at = "fill", ![p].text = file]
  /\ UNCHANGED <<store, known, crashes>>

(* What was read goes to Redis before anybody parses it.                   *)
Fill(p) ==
  /\ At(p, "fill")
  /\ cached' = proc[p].text
  /\ Goes(p, "index")
  /\ UNCHANGED <<file, indexed, known, crashes>>

Index(p) ==
  /\ At(p, "index")
  /\ indexed' = TRUE
  /\ Ends(p)
  /\ UNCHANGED <<file, cached, known, crashes>>

--------------------------------------------------------------------------------
(* list: a name of the index or of the directory.                          *)
Listed == indexed \/ file # None

(* The volume of Redis is lost.                                            *)
RedisLost ==
  /\ cached' = None /\ indexed' = FALSE
  /\ UNCHANGED <<file, proc, known, crashes>>

(* The API process dies with all its requests, a worker with its task.     *)
Crash ==
  /\ crashes < MaxCrashes /\ crashes' = crashes + 1
  /\ \E dead \in SUBSET Procs :
       proc' = [p \in Procs |-> IF p \in dead THEN Idle ELSE proc[p]]
  /\ UNCHANGED <<store, known>>

Save(p)   == \/ SaveStarts(p) \/ CheckFile(p) \/ CheckIndex(p)
             \/ Open(p) \/ Write(p) \/ Mirror(p)
Delete(p) == DeleteStarts(p) \/ Unlink(p) \/ Wipe(p)
Get(p)    == GetMisses(p) \/ Look(p) \/ Read(p) \/ Fill(p) \/ Index(p)

Next == (\E p \in Procs : Save(p) \/ Delete(p) \/ Get(p)) \/ RedisLost \/ Crash

Spec == Init /\ [][Next]_vars

--------------------------------------------------------------------------------
(* Properties. *)

(* From a write that was alone until the next one begins, every get        *)
(* answers what it has left, from Redis, from the file, or on its way from *)
(* one to the other, so that all files of a job are converted alike; a     *)
(* deleted configuration is neither served nor listed.  A loss of Redis    *)
(* (config_service.py:3-4), a crash, and any number of gets that fill the  *)
(* cache at the same time make no difference.                              *)
Holds(p, c) == proc[p].at \in {"fill", "index"} => proc[p].text = c

KnownIsServed ==
  /\ known \in Contents =>
       /\ file = known /\ cached \in {None, known}
       /\ \A p \in Procs : Holds(p, known)
  /\ known = None =>
       /\ cached = None /\ ~ Listed
       /\ \A p \in Procs : proc[p].at \notin {"read", "fill", "index"}

(* "Redis (cache) + filesystem (source of truth)" (config_service.py:1):   *)
(* when nothing is going on, a copy in Redis is the text of the file.      *)
FileIsTruth ==
  (\A p \in Procs : At(p, "idle")) => cached \in {None, file}

(* ConfigExists is "raised by save() when name already exists and          *)
(* overwrite is False" (config_service.py:22): no such save is about to    *)
(* write while another one has been answered and its configuration stands. *)
TakenIsRefused ==
  known \in Contents => ~ \E p \in Procs : At(p, "open") /\ proc[p].plain
================================================================================

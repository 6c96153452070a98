--------------------------- MODULE ConfigStoreProofs ---------------------------
(* The store serves what the last lone write has left, for any number of      *)
(* processes, contents and crashes.                                           *)
EXTENDS ConfigStore, TLAPS

(* TypeOK in parts: the state of one process, and everything else.            *)
ProcOK(r) ==
  /\ r \in [at : {"idle", "check", "member", "open"} \cup Writing \cup Missed,
            text : Texts \cup {None}, plain : BOOLEAN, linked : BOOLEAN,
            alone : BOOLEAN]
  /\ r.at \in {"check", "member", "open", "write", "mirror"}
       => r.text \in Contents
  /\ r.at \in {"fill", "index"} => r.text \in Texts

StoreOK ==
  /\ file \in Texts \cup {None} /\ cached \in Texts \cup {None}
  /\ indexed \in BOOLEAN
  /\ known \in Contents \cup {None, Unknown}
  /\ crashes \in 0 .. MaxCrashes

ProcsOK ==
  /\ proc = [p \in Procs |-> proc[p]]
  /\ \A p \in Procs : ProcOK(proc[p])

(* A writer that is alone has the file to itself, and nobody else is at work  *)
(* whose next step could undo it.                                             *)
AloneOK ==
  \A p \in Procs : proc[p].alone /\ proc[p].at \in Writing =>
    /\ Alone(p)
    /\ proc[p].at = "write"  => file = Empty /\ proc[p].linked
    /\ proc[p].at = "mirror" => file = proc[p].text
    /\ proc[p].at = "wipe"   => file = None

(* What the last write has left is known only when no write is going on.      *)
KnownIsQuiet == known # Unknown => \A p \in Procs : proc[p].at \notin Writing

IInv == TypeOK /\ AloneOK /\ KnownIsQuiet /\ KnownIsServed

LEMMA TypeInParts == TypeOK <=> StoreOK /\ ProcsOK
BY DEF TypeOK, StoreOK, ProcsOK, ProcOK

LEMMA IdleOK == ProcOK(Idle) /\ Idle.at = "idle" /\ ~ Idle.alone
BY DEF ProcOK, Idle

LEMMA InitHolds == Init => IInv
<1> SUFFICES ASSUME Init PROVE IInv
  OBVIOUS
<1>1. \A p \in Procs : proc[p] = Idle
  BY DEF Init
<1>2. TypeOK
  <2>1. crashes \in 0 .. MaxCrashes
    BY StoreAssumption DEF Init
  <2>2. StoreOK
    BY <2>1 DEF Init, StoreOK, Texts
  <2>3. ProcsOK
    BY <1>1, IdleOK DEF Init, ProcsOK
  <2> QED BY <2>2, <2>3, TypeInParts
<1>3. AloneOK /\ KnownIsQuiet
  BY <1>1, IdleOK DEF AloneOK, KnownIsQuiet, Writing
<1>4. KnownIsServed
  BY <1>1, IdleOK, StoreAssumption DEF Init, KnownIsServed, Holds, Listed
<1> QED BY <1>2, <1>3, <1>4 DEF IInv

(* A process keeps its type when it goes on.                                  *)
LEMMA GoesOK ==
  ASSUME NEW r, ProcOK(r), NEW l \in {"member", "open", "write", "mirror",
                                      "unlink", "wipe", "look", "read", "index"},
         l \in {"member", "open", "write", "mirror"} => r.text \in Contents,
         l = "index" => r.text \in Texts
  PROVE  /\ ProcOK([r EXCEPT !.at = l])
         /\ [r EXCEPT !.at = l].at = l
BY DEF ProcOK, Writing, Missed

LEMMA NotAloneOK ==
  ASSUME NEW r, ProcOK(r), NEW b \in BOOLEAN
  PROVE  /\ ProcOK([r EXCEPT !.alone = b]) /\ ProcOK([r EXCEPT !.linked = b])
BY DEF ProcOK

(* Every step keeps the type.                                                 *)
LEMMA TypeStep ==
  ASSUME TypeOK, [Next]_vars
  PROVE  TypeOK'
<1> USE DEF At, store
<1>0. StoreOK /\ ProcsOK
  BY TypeInParts
<1>1. SUFFICES StoreOK' /\ ProcsOK'
  BY TypeInParts, PTL
<1>2. \A p \in Procs : ProcOK(proc[p])
  BY <1>0 DEF ProcsOK
<1>3. ASSUME NEW p \in Procs, Save(p) PROVE StoreOK' /\ ProcsOK'
  <2>1. CASE SaveStarts(p)
    <3>1. PICK c \in Contents, plain \in BOOLEAN :
            proc' = [proc EXCEPT ![p] =
              [Idle EXCEPT !.at = IF plain THEN "check" ELSE "open",
                           !.text = c, !.plain = plain]]
      BY <2>1 DEF SaveStarts
    <3>2. ProcOK([Idle EXCEPT !.at = IF plain THEN "check" ELSE "open",
                              !.text = c, !.plain = plain])
      BY DEF ProcOK, Idle, Texts
    <3>3. ProcsOK'
      BY <1>0, <1>2, <3>1, <3>2 DEF ProcsOK
    <3> QED BY <1>0, <2>1, <3>3 DEF SaveStarts, StoreOK
  <2>2. CASE CheckFile(p)
    <3>1. ProcOK([proc[p] EXCEPT !.at = "member"])
      BY <1>2, <2>2, GoesOK DEF CheckFile, ProcOK
    <3>2. ProcsOK'
      BY <1>0, <1>2, <2>2, <3>1, IdleOK DEF CheckFile, Goes, Ends, ProcsOK
    <3> QED BY <1>0, <2>2, <3>2 DEF CheckFile, StoreOK
  <2>3. CASE CheckIndex(p)
    <3>1. ProcOK([proc[p] EXCEPT !.at = "open"])
      BY <1>2, <2>3, GoesOK DEF CheckIndex, ProcOK
    <3>2. ProcsOK'
      BY <1>0, <1>2, <2>3, <3>1, IdleOK DEF CheckIndex, Goes, Ends, ProcsOK
    <3> QED BY <1>0, <2>3, <3>2 DEF CheckIndex, StoreOK
  <2>4. CASE Open(p)
    <3> DEFINE r == [proc[p] EXCEPT !.at = "write", !.linked = TRUE,
                                    !.alone = Alone(p)]
    <3>1. ProcOK(r)
      <4>1. Alone(p) \in BOOLEAN
        BY DEF Alone
      <4> QED BY <1>2, <2>4, <4>1 DEF Open, ProcOK, Writing
    <3>2. proc' = [q \in Procs |-> IF q = p THEN r
                                   ELSE [proc[q] EXCEPT !.alone = FALSE]]
      BY <2>4 DEF Open, Intrudes
    <3>3. ProcsOK'
      <4> HIDE DEF r
      <4> QED BY <1>2, <3>1, <3>2, NotAloneOK DEF ProcsOK
    <3>4. StoreOK'
      BY <1>0, <2>4 DEF Open, StoreOK, Texts
    <3> QED BY <3>3, <3>4
  <2>5. CASE Write(p)
    <3>1. ProcOK([proc[p] EXCEPT !.at = "mirror"]) /\ proc[p].text \in Contents
      BY <1>2, <2>5, GoesOK DEF Write, ProcOK
    <3>2. ProcsOK'
      BY <1>0, <1>2, <2>5, <3>1 DEF Write, Goes, ProcsOK
    <3> QED BY <1>0, <2>5, <3>1, <3>2 DEF Write, StoreOK, Texts
  <2>6. CASE Mirror(p)
    <3>1. proc[p].text \in Contents
      BY <1>2, <2>6 DEF Mirror, ProcOK
    <3>2. ProcsOK'
      BY <1>0, <1>2, <2>6, IdleOK DEF Mirror, Ends, ProcsOK
    <3> QED BY <1>0, <2>6, <3>1, <3>2 DEF Mirror, Leaves, StoreOK, Texts
  <2> QED BY <1>3, <2>1, <2>2, <2>3, <2>4, <2>5, <2>6 DEF Save
<1>4. ASSUME NEW p \in Procs, Delete(p) PROVE StoreOK' /\ ProcsOK'
  <2>1. CASE DeleteStarts(p)
    <3> DEFINE r == [Idle EXCEPT !.at = IF file # None THEN "unlink" ELSE "wipe",
                                 !.alone = Alone(p)]
    <3>1. ProcOK(r)
      <4>1. Alone(p) \in BOOLEAN
        BY DEF Alone
      <4> QED BY <4>1 DEF ProcOK, Idle, Writing
    <3>2. proc' = [q \in Procs |-> IF q = p THEN r
                                   ELSE [proc[q] EXCEPT !.alone = FALSE]]
      BY <2>1 DEF DeleteStarts, Intrudes
    <3>3. ProcsOK'
      <4> HIDE DEF r
      <4> QED BY <1>2, <3>1, <3>2, NotAloneOK DEF ProcsOK
    <3> QED BY <1>0, <2>1, <3>3 DEF DeleteStarts, StoreOK
  <2>2. CASE Unlink(p)
    <3>1. StoreOK'
      BY <1>0, <2>2 DEF Unlink, StoreOK
    <3>2. CASE Ends(p)
      BY <1>0, <1>2, <3>1, <3>2, IdleOK DEF Ends, ProcsOK
    <3>3. CASE proc' = [q \in Procs |->
                 [proc[q] EXCEPT !.linked = FALSE,
                                 !.at = IF q = p THEN "wipe" ELSE @]]
      <4>1. \A q \in Procs : ProcOK([proc[q] EXCEPT !.linked = FALSE,
                                       !.at = IF q = p THEN "wipe" ELSE @])
        BY <1>2 DEF ProcOK, Writing
      <4> QED BY <3>1, <3>3, <4>1 DEF ProcsOK
    <3> QED BY <2>2, <3>2, <3>3 DEF Unlink
  <2>3. CASE Wipe(p)
    <3>1. ProcsOK'
      BY <1>0, <1>2, <2>3, IdleOK DEF Wipe, Ends, ProcsOK
    <3> QED BY <1>0, <2>3, <3>1 DEF Wipe, Leaves, StoreOK
  <2> QED BY <1>4, <2>1, <2>2, <2>3 DEF Delete
<1>5. ASSUME NEW p \in Procs, Get(p) PROVE StoreOK' /\ ProcsOK'
  <2>1. StoreOK'
    <3>1. CASE Fill(p)
      BY <1>0, <1>2, <3>1 DEF Fill, StoreOK, ProcOK, Texts
    <3>2. CASE ~ Fill(p)
      BY <1>0, <1>5, <3>2 DEF Get, GetMisses, Look, Read, Index, StoreOK
    <3> QED BY <3>1, <3>2
  <2>2. CASE GetMisses(p)
    <3>1. ProcOK([Idle EXCEPT !.at = "look"])
      BY IdleOK, GoesOK
    <3> QED BY <1>2, <2>1, <2>2, <3>1, NotAloneOK
          DEF GetMisses, Intrudes, ProcsOK
  <2>3. CASE Look(p)
    <3>1. ProcOK([proc[p] EXCEPT !.at = "read"])
      BY <1>2, GoesOK
    <3> QED BY <1>0, <1>2, <2>1, <2>3, <3>1, IdleOK
          DEF Look, Goes, Ends, ProcsOK
  <2>4. CASE Read(p)
    <3>1. file # None => ProcOK([proc[p] EXCEPT !.at = "fill", !.text = file])
      BY <1>0, <1>2 DEF ProcOK, StoreOK, Missed
    <3>2. CASE file = None
      BY <1>0, <1>2, <2>1, <2>4, <3>2, IdleOK DEF Read, Ends, ProcsOK
    <3>3. CASE file # None
      <4>1. proc' = [proc EXCEPT ![p] =
                       [proc[p] EXCEPT !.at = "fill", !.text = file]]
        BY <1>0, <2>4, <3>3 DEF Read, ProcsOK
      <4> QED BY <1>0, <1>2, <2>1, <3>1, <3>3, <4>1 DEF ProcsOK
    <3> QED BY <3>2, <3>3
  <2>5. CASE Fill(p)
    <3>1. ProcOK([proc[p] EXCEPT !.at = "index"])
      BY <1>2, <2>5, GoesOK DEF Fill, ProcOK
    <3> QED BY <1>0, <1>2, <2>1, <2>5, <3>1 DEF Fill, Goes, ProcsOK
  <2>6. CASE Index(p)
    BY <1>0, <1>2, <2>1, <2>6, IdleOK DEF Index, Ends, ProcsOK
  <2> QED BY <1>5, <2>2, <2>3, <2>4, <2>5, <2>6 DEF Get
<1>6. CASE RedisLost
  BY <1>0, <1>6 DEF RedisLost, StoreOK, ProcsOK
<1>7. CASE Crash
  <2>1. ProcsOK'
    BY <1>2, <1>7, IdleOK DEF Crash, ProcsOK
  <2>2. crashes' \in 0 .. MaxCrashes
    BY <1>0, <1>7, StoreAssumption DEF Crash, StoreOK
  <2> QED BY <1>0, <1>7, <2>1, <2>2 DEF Crash, StoreOK
<1>8. CASE UNCHANGED vars
  BY <1>0, <1>8 DEF vars, StoreOK, ProcsOK
<1> QED BY <1>3, <1>4, <1>5, <1>6, <1>7, <1>8 DEF Next

(* The three invariants of the store, for one step of each operation.         *)
Served == AloneOK /\ KnownIsQuiet /\ KnownIsServed

LEMMA SaveKeeps ==
  ASSUME IInv, TypeOK', NEW p \in Procs, Save(p)
  PROVE  Served'
<1> USE DEF At
<1>0. ProcsOK /\ ProcsOK'
  BY TypeInParts, PTL DEF IInv
<1>1. CASE SaveStarts(p) \/ CheckFile(p) \/ CheckIndex(p)
  <2>1. UNCHANGED <<file, cached, indexed, known>>
    BY <1>1 DEF SaveStarts, CheckFile, CheckIndex, store
  <2>2. \A q \in Procs \ {p} : proc'[q] = proc[q]
    BY <1>0, <1>1 DEF SaveStarts, CheckFile, CheckIndex, Goes, Ends, ProcsOK
  <2>3. proc'[p].at \in {"idle", "check", "member", "open"}
    <3>1. CASE SaveStarts(p)
      BY <1>0, <3>1 DEF SaveStarts, ProcsOK, Idle
    <3>2. CASE CheckFile(p) \/ CheckIndex(p)
      BY <1>0, <3>2, IdleOK DEF CheckFile, CheckIndex, Goes, Ends, ProcsOK, ProcOK
    <3> QED BY <1>1, <3>1, <3>2
  <2>4. AloneOK'
    BY <2>1, <2>2, <2>3 DEF IInv, AloneOK, Alone, Writing, Missed
  <2>5. KnownIsQuiet'
    BY <2>1, <2>2, <2>3 DEF IInv, KnownIsQuiet, Writing
  <2>6. KnownIsServed'
    BY <2>1, <2>2, <2>3 DEF IInv, KnownIsServed, Holds, Listed
  <2> QED BY <2>4, <2>5, <2>6 DEF Served
<1>2. CASE Open(p)
  <2>1. \A q \in Procs \ {p} : proc'[q].at = proc[q].at /\ ~ proc'[q].alone
    BY <1>0, <1>2 DEF Open, Intrudes, ProcsOK, ProcOK
  <2>2. /\ proc'[p].at = "write" /\ proc'[p].linked
        /\ proc'[p].alone => Alone(p)
    BY <1>0, <1>2 DEF Open, Intrudes, ProcsOK, ProcOK
  <2>3. file' = Empty /\ known' = Unknown
    BY <1>2 DEF Open
  <2>4. AloneOK'
    BY <2>1, <2>2, <2>3 DEF AloneOK, Alone
  <2>5. KnownIsQuiet' /\ KnownIsServed'
    BY <2>3, StoreAssumption DEF KnownIsQuiet, KnownIsServed
  <2> QED BY <2>4, <2>5 DEF Served
<1>3. CASE Write(p)
  <2>1. \A q \in Procs \ {p} : proc'[q] = proc[q]
    BY <1>0, <1>3 DEF Write, Goes, ProcsOK
  <2>2. /\ proc'[p].at = "mirror" /\ proc'[p].text = proc[p].text
        /\ proc'[p].alone = proc[p].alone
    BY <1>0, <1>3 DEF Write, Goes, ProcsOK, ProcOK
  <2>3. known' = known /\ known = Unknown
    BY <1>3 DEF Write, IInv, KnownIsQuiet, Writing
  <2>4. proc[p].at = "write" /\ (proc[p].alone => file' = proc[p].text)
    BY <1>3 DEF Write, IInv, AloneOK, Writing
  <2>5. AloneOK'
    <3>1. ASSUME NEW q \in Procs \ {p} PROVE ~ (proc[q].alone /\ proc[q].at \in Writing)
      BY <2>4 DEF IInv, AloneOK, Alone, Writing
    <3>2. proc[p].alone => Alone(p)'
      BY <2>1, <2>4 DEF IInv, AloneOK, Alone, Writing
    <3> QED BY <2>1, <2>2, <2>4, <3>1, <3>2 DEF AloneOK
  <2>6. KnownIsQuiet' /\ KnownIsServed'
    BY <2>3, StoreAssumption DEF KnownIsQuiet, KnownIsServed
  <2> QED BY <2>5, <2>6 DEF Served
<1>4. CASE Mirror(p)
  <2>1. /\ proc'[p] = Idle /\ \A q \in Procs \ {p} : proc'[q] = proc[q]
        /\ proc[p].at = "mirror"
    BY <1>0, <1>4 DEF Mirror, Ends, ProcsOK
  <2>2. AloneOK'
    BY <1>4, <2>1, IdleOK DEF Mirror, IInv, AloneOK, Alone, Writing, Missed
  <2>3. CASE proc[p].alone
    <3>1. /\ known' = proc[p].text /\ cached' = proc[p].text
          /\ file' = proc[p].text /\ proc[p].text \in Contents
      BY <1>0, <1>4, <2>1, <2>3
         DEF Mirror, Leaves, IInv, AloneOK, Writing, ProcsOK, ProcOK
    <3>2. \A q \in Procs : proc'[q].at \notin Writing \cup Missed
      BY <2>1, <2>3, IdleOK DEF IInv, AloneOK, Alone, Writing, Missed
    <3>3. KnownIsQuiet' /\ KnownIsServed'
      BY <3>1, <3>2, StoreAssumption
         DEF KnownIsQuiet, KnownIsServed, Holds, Missed
    <3> QED BY <2>2, <3>3 DEF Served
  <2>4. CASE ~ proc[p].alone
    <3>1. known' = Unknown
      BY <1>4, <2>1, <2>4 DEF Mirror, Leaves, IInv, KnownIsQuiet, Writing
    <3> QED BY <2>2, <3>1, StoreAssumption
          DEF Served, KnownIsQuiet, KnownIsServed
  <2> QED BY <2>3, <2>4
<1> QED BY <1>1, <1>2, <1>3, <1>4 DEF Save

LEMMA DeleteKeeps ==
  ASSUME IInv, TypeOK', NEW p \in Procs, Delete(p)
  PROVE  Served'
<1> USE DEF At
<1>0. ProcsOK /\ ProcsOK'
  BY TypeInParts, PTL DEF IInv
<1>1. CASE DeleteStarts(p)
  <2>1. \A q \in Procs \ {p} : proc'[q].at = proc[q].at /\ ~ proc'[q].alone
    BY <1>0, <1>1 DEF DeleteStarts, Intrudes, ProcsOK, ProcOK
  <2>2. /\ proc'[p].at = IF file # None THEN "unlink" ELSE "wipe"
        /\ proc'[p].alone => Alone(p)
    BY <1>0, <1>1 DEF DeleteStarts, Intrudes, ProcsOK, Idle
  <2>3. file' = file /\ known' = Unknown
    BY <1>1 DEF DeleteStarts, store
  <2>4. AloneOK'
    BY <2>1, <2>2, <2>3 DEF AloneOK, Alone
  <2>5. KnownIsQuiet' /\ KnownIsServed'
    BY <2>3, StoreAssumption DEF KnownIsQuiet, KnownIsServed
  <2> QED BY <2>4, <2>5 DEF Served
<1>2. CASE Unlink(p)
  <2>0. CASE file = None
    <3>1. /\ proc'[p] = Idle /\ \A q \in Procs \ {p} : proc'[q] = proc[q]
          /\ proc[p].at = "unlink" /\ file' = file /\ known' = known
      BY <1>0, <1>2, <2>0 DEF Unlink, Ends, ProcsOK
    <3>2. AloneOK'
      BY <3>1, IdleOK DEF IInv, AloneOK, Alone, Writing, Missed
    <3>3. KnownIsQuiet' /\ KnownIsServed'
      BY <3>1, StoreAssumption DEF IInv, KnownIsQuiet, KnownIsServed, Writing
    <3> QED BY <3>2, <3>3 DEF Served
  <2> SUFFICES ASSUME file # None PROVE Served'
    BY <2>0
  <2>each. \A q \in Procs :
          proc'[q] = [proc[q] EXCEPT !.linked = FALSE,
                                     !.at = IF q = p THEN "wipe" ELSE @]
    BY <1>2 DEF Unlink
  <2>1. \A q \in Procs \ {p} :
          proc'[q].at = proc[q].at /\ proc'[q].alone = proc[q].alone
    BY <1>0, <2>each DEF ProcsOK, ProcOK
  <2>2. /\ proc[p].at = "unlink" /\ file' = None
        /\ proc'[p].at = "wipe" /\ proc'[p].alone = proc[p].alone
    BY <1>0, <1>2, <2>each DEF Unlink, ProcsOK, ProcOK
  <2>3. known' = known /\ known = Unknown
    BY <1>2, <2>2 DEF Unlink, IInv, KnownIsQuiet, Writing
  <2>4. AloneOK'
    <3>1. ASSUME NEW q \in Procs \ {p} PROVE ~ (proc[q].alone /\ proc[q].at \in Writing)
      BY <2>2 DEF IInv, AloneOK, Alone, Writing
    <3>2. proc[p].alone => Alone(p)'
      BY <2>1, <2>2 DEF IInv, AloneOK, Alone, Writing
    <3> QED BY <2>1, <2>2, <3>1, <3>2 DEF AloneOK
  <2>5. KnownIsQuiet' /\ KnownIsServed'
    BY <2>3, StoreAssumption DEF KnownIsQuiet, KnownIsServed
  <2> QED BY <2>4, <2>5 DEF Served
<1>3. CASE Wipe(p)
  <2>1. /\ proc'[p] = Idle /\ \A q \in Procs \ {p} : proc'[q] = proc[q]
        /\ proc[p].at = "wipe"
    BY <1>0, <1>3 DEF Wipe, Ends, ProcsOK
  <2>2. AloneOK'
    BY <1>3, <2>1, IdleOK DEF Wipe, IInv, AloneOK, Alone, Writing, Missed
  <2>3. CASE proc[p].alone
    <3>1. known' = None /\ cached' = None /\ ~ Listed'
      BY <1>3, <2>1, <2>3 DEF Wipe, Leaves, IInv, AloneOK, Writing, Listed
    <3>2. \A q \in Procs : proc'[q].at \notin Writing \cup Missed
      BY <2>1, <2>3, IdleOK DEF IInv, AloneOK, Alone, Writing, Missed
    <3>3. KnownIsQuiet' /\ KnownIsServed'
      BY <3>1, <3>2, StoreAssumption DEF KnownIsQuiet, KnownIsServed, Missed
    <3> QED BY <2>2, <3>3 DEF Served
  <2>4. CASE ~ proc[p].alone
    <3>1. known' = Unknown
      BY <1>3, <2>1, <2>4 DEF Wipe, Leaves, IInv, KnownIsQuiet, Writing
    <3> QED BY <2>2, <3>1, StoreAssumption
          DEF Served, KnownIsQuiet, KnownIsServed
  <2> QED BY <2>3, <2>4
<1> QED BY <1>1, <1>2, <1>3 DEF Delete

LEMMA GetKeeps ==
  ASSUME IInv, TypeOK', NEW p \in Procs, Get(p)
  PROVE  Served'
<1> USE DEF At
<1>0. ProcsOK /\ ProcsOK'
  BY TypeInParts, PTL DEF IInv
<1>1. UNCHANGED <<file, known>>
  BY DEF Get, GetMisses, Look, Read, Fill, Index, store
<1>2. CASE GetMisses(p)
  <2>1. /\ proc'[p].at = "look" /\ UNCHANGED <<cached, indexed>>
        /\ \A q \in Procs \ {p} : /\ proc'[q].at = proc[q].at
                                  /\ proc'[q].text = proc[q].text
                                  /\ ~ proc'[q].alone
    BY <1>0, <1>2 DEF GetMisses, Intrudes, store, ProcsOK, ProcOK, Idle
  <2>2. AloneOK' /\ KnownIsQuiet'
    BY <1>1, <2>1 DEF IInv, AloneOK, KnownIsQuiet, Writing
  <2>3. KnownIsServed'
    BY <1>1, <2>1 DEF IInv, KnownIsServed, Holds, Listed
  <2> QED BY <2>2, <2>3 DEF Served
<1>3. CASE Look(p) \/ Read(p) \/ Fill(p) \/ Index(p)
  <2>1. /\ proc[p].at \in {"look", "read", "fill", "index"}
        /\ \A q \in Procs \ {p} : proc'[q] = proc[q]
        /\ proc'[p].at \in {"idle", "read", "fill", "index"}
    <3>1. CASE Look(p)
      BY <1>0, <3>1, IdleOK DEF Look, Goes, Ends, ProcsOK, ProcOK
    <3>2. CASE Read(p)
      BY <1>0, <3>2, IdleOK DEF Read, Ends, ProcsOK, ProcOK
    <3>3. CASE Fill(p) \/ Index(p)
      BY <1>0, <3>3, IdleOK DEF Fill, Index, Goes, Ends, ProcsOK, ProcOK
    <3> QED BY <1>3, <3>1, <3>2, <3>3
  <2>2. AloneOK'
    BY <1>1, <2>1 DEF IInv, AloneOK, Alone, Writing, Missed
  <2>3. KnownIsQuiet'
    BY <1>1, <2>1 DEF IInv, KnownIsQuiet, Writing
  <2>4. KnownIsServed'
    <3>1. CASE known \in Contents
      <4>1. file = known /\ cached \in {None, known} /\ \A q \in Procs : Holds(q, known)
        BY <3>1 DEF IInv, KnownIsServed
      <4>2. cached' \in {None, known}
        BY <1>3, <4>1 DEF Look, Read, Fill, Index, Holds, store
      <4>3. Holds(p, known)'
        <5>1. CASE Look(p)
          BY <1>0, <5>1, IdleOK DEF Look, Goes, Ends, ProcsOK, ProcOK, Holds
        <5>2. CASE Read(p)
          <6>1. /\ proc' = [proc EXCEPT ![p] =
                              [proc[p] EXCEPT !.at = "fill", !.text = file]]
                /\ file = known
            BY <1>0, <3>1, <4>1, <5>2, StoreAssumption DEF Read, ProcsOK
          <6>2. [proc[p] EXCEPT !.at = "fill", !.text = file].text = file
            BY <1>0 DEF ProcsOK, ProcOK
          <6> QED BY <1>0, <1>1, <6>1, <6>2 DEF ProcsOK, Holds
        <5>3. CASE Fill(p) \/ Index(p)
          BY <1>0, <1>1, <4>1, <5>3, IdleOK
             DEF Fill, Index, Goes, Ends, ProcsOK, ProcOK, Holds
        <5> QED BY <1>3, <5>1, <5>2, <5>3
      <4>4. \A q \in Procs : Holds(q, known)'
        BY <1>1, <2>1, <4>1, <4>3 DEF Holds
      <4> QED BY <1>1, <3>1, <4>1, <4>2, <4>4, StoreAssumption DEF KnownIsServed
    <3>2. CASE known = None
      <4>1. Look(p) /\ file = None
        BY <1>3, <3>2 DEF IInv, KnownIsServed, Listed, Read, Fill, Index
      <4>2. proc'[p] = Idle /\ UNCHANGED <<cached, indexed>>
        BY <1>0, <4>1 DEF Look, Ends, ProcsOK, store
      <4> QED BY <1>1, <2>1, <3>2, <4>2, IdleOK, StoreAssumption
            DEF IInv, KnownIsServed, Listed
    <3> QED BY <1>1, <3>1, <3>2 DEF KnownIsServed
  <2> QED BY <2>2, <2>3, <2>4 DEF Served
<1> QED BY <1>2, <1>3 DEF Get

(* A crash and a loss of Redis take away only what nobody relies on.          *)
LEMMA FaultKeeps ==
  ASSUME IInv, RedisLost \/ Crash \/ UNCHANGED vars
  PROVE  Served'
<1>0. ProcsOK
  BY TypeInParts DEF IInv
<1>1. UNCHANGED <<file, known>>
  BY DEF RedisLost, Crash, vars, store
<1>2. \A q \in Procs : proc'[q] \in {Idle, proc[q]}
  BY <1>0 DEF RedisLost, Crash, vars, ProcsOK
<1>3. cached' \in {None, cached} /\ (indexed' => indexed)
  BY DEF RedisLost, Crash, vars, store
<1>4. AloneOK'
  BY <1>1, <1>2, IdleOK DEF IInv, AloneOK, Alone, Writing, Missed
<1>5. KnownIsQuiet'
  BY <1>1, <1>2, IdleOK DEF IInv, KnownIsQuiet, Writing
<1>6. KnownIsServed'
  BY <1>1, <1>2, <1>3, IdleOK, StoreAssumption
     DEF IInv, KnownIsServed, Holds, Listed
<1> QED BY <1>4, <1>5, <1>6 DEF Served

LEMMA Invariance == Spec => []IInv
<1>1. IInv /\ [Next]_vars => IInv'
  <2> SUFFICES ASSUME IInv, [Next]_vars PROVE IInv'
    OBVIOUS
  <2>1. TypeOK'
    BY TypeStep DEF IInv
  <2>2. Served'
    BY <2>1, SaveKeeps, DeleteKeeps, GetKeeps, FaultKeeps DEF Next
  <2> QED BY <2>1, <2>2 DEF IInv, Served
<1> QED BY <1>1, InitHolds, PTL DEF Spec

(* The store keeps its types; in particular a get that goes on to Redis has   *)
(* read a file that was there.                                                *)
THEOREM StoreTypes == Spec => []TypeOK
BY Invariance, PTL DEF IInv

(* After a lone save or delete every get answers what it has left.            *)
THEOREM LastWriteIsServed == Spec => []KnownIsServed
BY Invariance, PTL DEF IInv
================================================================================
